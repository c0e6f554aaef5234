----------------------------- MODULE JobCreation -----------------------------
(***************************************************************************)
(* POST /v1/research-jobs (api.py) and JobRepository.create_job: requests  *)
(* of one user that may carry the same Idempotency-Key, possibly at the    *)
(* same time on several replicas, and the chain of iterations a chat       *)
(* becomes.  A request reads twice, inserts and commits; PostgreSQL keeps  *)
(* uq_job_user_idempotency and the foreign key of parent_job_id and shows  *)
(* a row to others from its commit on (READ COMMITTED).                    *)
(*                                                                         *)
(* A job id is a fresh uuid, so the job a request inserts is identified by *)
(* the request.  What the request hash covers is chat and query.           *)
(***************************************************************************)
EXTENDS Naturals

CONSTANTS
  Requests,  \* requests, and the jobs they insert
  Keys,      \* idempotency keys
  Chats,     \* chat ids
  Queries,   \* what else a request says
  NoJob      \* SQL NULL

ASSUME CreationAssumption == NoJob \notin Requests

VARIABLES
  ask,      \* what each request asks for
  at,       \* where it stands
  parent,   \* the parent it read
  answer,   \* its answer
  row,      \* research_jobs
  flushes,  \* rows inserted so far: created_at of the last one
  deletions \* history: jobs deleted so far

vars == <<ask, at, parent, answer, row, flushes, deletions>>

Ask == [key : Keys, chat : Chats, query : Queries]

Stages == {"lookup", "parent", "insert", "commit", "recover", "answered", "lost"}

\* "created" is 202, "existing" 200; "reused" and "conflict" are the two 409s.
Answers == [status : {"none", "created", "existing", "reused", "conflict"},
            job : Requests \union {NoJob}]

\* An "open" row is inserted and not committed.
RowStates == {"absent", "open", "live", "succeeded", "unsuccessful", "deleted"}

Job == [state : RowStates, created : Nat, parent : Requests \union {NoJob},
        iteration : Nat]

NoRow == [state |-> "absent", created |-> 0, parent |-> NoJob, iteration |-> 1]

Init ==
  /\ ask \in [Requests -> Ask]
  /\ at = [r \in Requests |-> "lookup"]
  /\ parent = [r \in Requests |-> NoJob]
  /\ answer = [r \in Requests |-> [status |-> "none", job |-> NoJob]]
  /\ row = [j \in Requests |-> NoRow]
  /\ flushes = 0
  /\ deletions = 0

\* What a SELECT of another session sees.
Visible == {j \in Requests : row[j].state \in {"live", "succeeded", "unsuccessful"}}

WithKey(r) == {j \in Visible : ask[j].key = ask[r].key}

SameDigest(j, r) == ask[j].chat = ask[r].chat /\ ask[j].query = ask[r].query

Move(r, stage) == at' = [at EXCEPT ![r] = stage]

Reply(r, status, j) ==
  /\ answer' = [answer EXCEPT ![r] = [status |-> status, job |-> j]]
  /\ Move(r, "answered")

------------------------------------------------------------------------------
(* The request. *)

Lookup(r) ==
  /\ at[r] = "lookup"
  /\ \/ /\ WithKey(r) = {}
        /\ Move(r, "parent")
        /\ UNCHANGED answer
     \/ \E j \in WithKey(r) :
          Reply(r, IF SameDigest(j, r) THEN "existing" ELSE "reused", j)
  /\ UNCHANGED <<ask, parent, row, flushes, deletions>>

Candidates(r) ==
  {j \in Visible : ask[j].chat = ask[r].chat /\ row[j].state = "succeeded"}

\* The latest one, by created_at.
ReadParent(r) ==
  /\ at[r] = "parent"
  /\ \/ Candidates(r) = {} /\ UNCHANGED parent
     \/ \E p \in Candidates(r) :
          /\ \A q \in Candidates(r) : row[q].created <= row[p].created
          /\ parent' = [parent EXCEPT ![r] = p]
  /\ Move(r, "insert")
  /\ UNCHANGED <<ask, answer, row, flushes, deletions>>

Iteration(p) == IF p = NoJob THEN 1 ELSE row[p].iteration + 1

\* Mutant: the table has no unique constraint.
CollidesNever(r) == r \notin Requests

\* Mutant: the insertion does not wait for a concurrent one to commit.
CollidesEarly(r) ==
  \E j \in Requests : /\ j # r
                      /\ row[j].state \in {"open", "live"}
                      /\ ask[j].key = ask[r].key

\* IntegrityError from the unique constraint.
Collides(r) == WithKey(r) # {}

\* The index makes a second insertion wait for the transaction of the first.
Waits(r) == \E j \in Requests : row[j].state = "open" /\ ask[j].key = ask[r].key

\* IntegrityError from the foreign key: the parent is gone.
Orphaned(r) == parent[r] # NoJob /\ row[parent[r]].state = "deleted"

\* The flush.  created_at and the parent's iteration are known before it.
Insert(r) ==
  /\ at[r] = "insert"
  /\ \/ /\ Collides(r) \/ (~Waits(r) /\ Orphaned(r))
        /\ Move(r, "recover")
        /\ UNCHANGED <<row, flushes>>
     \/ /\ ~Collides(r) /\ ~Waits(r) /\ ~Orphaned(r)
        /\ row' = [row EXCEPT ![r] = [state |-> "open", created |-> flushes + 1,
                                      parent |-> parent[r],
                                      iteration |-> Iteration(parent[r])]]
        /\ flushes' = flushes + 1
        /\ Move(r, "commit")
  /\ UNCHANGED <<ask, parent, answer, deletions>>

\* The job.created event is part of the transaction.
Commit(r) ==
  /\ at[r] = "commit"
  /\ row' = [row EXCEPT ![r].state = "live"]
  /\ Reply(r, "created", r)
  /\ UNCHANGED <<ask, parent, flushes, deletions>>

\* Mutant: whoever holds the key, the answer is its job.
RecoverUnchecked(r) ==
  /\ at[r] = "recover"
  /\ \/ WithKey(r) = {} /\ Reply(r, "conflict", NoJob)
     \/ \E j \in WithKey(r) : Reply(r, "existing", j)
  /\ UNCHANGED <<ask, parent, row, flushes, deletions>>

\* Mutant: with nothing found, insert once more.
RecoverRetries(r) ==
  /\ at[r] = "recover"
  /\ \/ WithKey(r) = {} /\ Move(r, "insert") /\ UNCHANGED answer
     \/ \E j \in WithKey(r) :
          Reply(r, IF SameDigest(j, r) THEN "existing" ELSE "reused", j)
  /\ UNCHANGED <<ask, parent, row, flushes, deletions>>

\* except IntegrityError: a new session looks for the job that got there first.
Recover(r) ==
  /\ at[r] = "recover"
  /\ \/ WithKey(r) = {} /\ Reply(r, "conflict", NoJob)
     \/ \E j \in WithKey(r) :
          Reply(r, IF SameDigest(j, r) THEN "existing" ELSE "reused", j)
  /\ UNCHANGED <<ask, parent, row, flushes, deletions>>

\* The gateway or its database session dies: an open transaction rolls back and
\* nobody answers.
Lose(r) ==
  /\ at[r] \notin {"answered", "lost"}
  /\ Move(r, "lost")
  /\ row' = IF row[r].state = "open" THEN [row EXCEPT ![r] = NoRow] ELSE row
  /\ UNCHANGED <<ask, parent, answer, flushes, deletions>>

------------------------------------------------------------------------------
(* What else happens to a job. *)

Finish(j) ==
  /\ row[j].state = "live"
  /\ \E state \in {"succeeded", "unsuccessful"} :
       row' = [row EXCEPT ![j].state = state]
  /\ UNCHANGED <<ask, at, parent, answer, flushes, deletions>>

\* Mutant: the foreign key does not clear the reference.
DeleteKeepsReference(j) ==
  /\ row[j].state \in {"succeeded", "unsuccessful"}
  /\ \A k \in Requests : row[k].state = "open" => row[k].parent # j
  /\ row' = [row EXCEPT ![j].state = "deleted"]
  /\ deletions' = deletions + 1
  /\ UNCHANGED <<ask, at, parent, answer, flushes>>

\* delete_expired_jobs.  An open insertion that refers to the job holds a key
\* share lock on it; committed children lose the reference (SET NULL).
Delete(j) ==
  /\ row[j].state \in {"succeeded", "unsuccessful"}
  /\ \A k \in Requests : row[k].state = "open" => row[k].parent # j
  /\ row' = [k \in Requests |->
               IF k = j THEN [row[k] EXCEPT !.state = "deleted"]
               ELSE IF row[k].parent = j /\ k \in Visible
                    THEN [row[k] EXCEPT !.parent = NoJob]
                    ELSE row[k]]
  /\ deletions' = deletions + 1
  /\ UNCHANGED <<ask, at, parent, answer, flushes>>

------------------------------------------------------------------------------
Handle(r) == Lookup(r) \/ ReadParent(r) \/ Insert(r) \/ Commit(r) \/ Recover(r)

Next == \E r \in Requests : Handle(r) \/ Lose(r) \/ Finish(r) \/ Delete(r)

Spec == Init /\ [][Next]_vars

\* A replica goes on with a request unless it dies.
FairSpec == Spec /\ \A r \in Requests : WF_vars(Handle(r))
------------------------------------------------------------------------------
(* Properties. *)

\* Every variable has its type; iterations count from one.
TypeOK ==
  /\ ask \in [Requests -> Ask]
  /\ at \in [Requests -> Stages]
  /\ parent \in [Requests -> Requests \union {NoJob}]
  /\ answer \in [Requests -> Answers]
  /\ row \in [Requests -> Job]
  /\ \A j \in Requests : row[j].iteration >= 1
  /\ flushes \in Nat
  /\ deletions \in Nat

\* A key names one job: however many requests carry it and wherever their two
\* reads fall, two accepted ones that may both still look at their job got the
\* same one.
OneJobPerKey ==
  \A r, s \in Requests :
    LET accepted(q) == /\ answer[q].status \in {"created", "existing"}
                       /\ answer[q].job \in Visible
    IN accepted(r) /\ accepted(s) /\ ask[r].key = ask[s].key
         => answer[r].job = answer[s].job

\* An accepted request is answered with a job that does what it asked for, on
\* the direct path and after the IntegrityError alike.
AnswerIsMine ==
  \A r \in Requests :
    answer[r].status \in {"created", "existing"}
      => /\ answer[r].job # NoJob
         /\ ask[answer[r].job].key = ask[r].key
         /\ SameDigest(answer[r].job, r)

\* A job that names a previous iteration follows one of the same chat that
\* succeeded, was created before it and still exists, and counts on from it,
\* although the parent was read before the job was inserted.
IterationChain ==
  \A j \in Visible : LET p == row[j].parent IN
    p # NoJob => /\ p \in Visible
                 /\ row[p].state = "succeeded"
                 /\ ask[p].chat = ask[j].chat
                 /\ row[p].created < row[j].created
                 /\ row[j].iteration = row[p].iteration + 1

\* "idempotency key reused" is said only of a key that came with something
\* else, and "concurrent job creation conflict" only when retention deleted a
\* job meanwhile: racing requests alone never refuse one another.
RefusedForAReason ==
  \A r \in Requests :
    /\ answer[r].status = "reused"
         => \E s \in Requests \ {r} : ask[s].key = ask[r].key /\ ~SameDigest(s, r)
    /\ answer[r].status = "conflict" => deletions > 0

\* Every request is answered unless its replica dies: waiting for another
\* insertion ends, and the way out of an IntegrityError does not lead back.
EveryRequestAnswered ==
  \A r \in Requests : at[r] = "lookup" ~> at[r] \in {"answered", "lost"}
==============================================================================
