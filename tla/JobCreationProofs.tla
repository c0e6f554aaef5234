-------------------------- MODULE JobCreationProofs --------------------------
(***************************************************************************)
(* Proofs about concurrent creation, for any number of requests, keys,     *)
(* chats and queries.  None of the properties is inductive: that a key     *)
(* names one job needs that inserted rows, committed or not, never share a *)
(* key (KeyInv); that iterations chain needs what a request still knows    *)
(* about the parent it read (ParentInv) and that an open insertion keeps   *)
(* its parent from being deleted (ChainInv).                               *)
(***************************************************************************)
EXTENDS JobCreation, TLAPS

USE CreationAssumption

\* The row exists, committed or not.
Held(j) == row[j].state \notin {"absent", "deleted"}

\* A request has a row from its insertion on.
StageInv ==
  \A r \in Requests :
    /\ at[r] = "commit" <=> row[r].state = "open"
    /\ at[r] \in {"lookup", "parent", "insert", "recover", "lost"}
         => row[r].state = "absent"

KeyInv == \A i, j \in Requests : Held(i) /\ Held(j) /\ ask[i].key = ask[j].key => i = j

\* p can be the previous iteration of a job that is inserted next.
ParentInv ==
  \A r \in Requests :
    /\ at[r] \in {"lookup", "parent"} => parent[r] = NoJob
    /\ at[r] = "insert" /\ parent[r] # NoJob =>
         /\ row[parent[r]].state \in {"succeeded", "deleted"}
         /\ ask[parent[r]].chat = ask[r].chat

CreatedInv == \A j \in Requests : row[j].created <= flushes

\* Row j's parent, while j exists.
ChainOK(j) ==
  LET p == row[j].parent IN
  Held(j) /\ p # NoJob => /\ row[p].state = "succeeded"
                          /\ ask[p].chat = ask[j].chat
                          /\ row[p].created < row[j].created
                          /\ row[j].iteration = row[p].iteration + 1

ChainInv == \A j \in Requests : ChainOK(j)

\* The IntegrityError path finds the other job unless jobs were deleted.
DeletionInv ==
  /\ \A j \in Requests : row[j].state = "deleted" => deletions > 0
  /\ \A r \in Requests : at[r] = "recover" => WithKey(r) # {} \/ deletions > 0

IInv == /\ TypeOK /\ StageInv /\ KeyInv /\ ParentInv /\ CreatedInv /\ ChainInv
        /\ DeletionInv /\ AnswerIsMine /\ RefusedForAReason

------------------------------------------------------------------------------
(* Steps that leave the rows alone. *)

\* A reply that the rows justify.
LEMMA ReplyInv ==
  ASSUME IInv, NEW r \in Requests, at[r] \in {"lookup", "recover"},
         UNCHANGED <<ask, parent, row, flushes, deletions>>,
         \/ at[r] = "recover" /\ WithKey(r) = {} /\ Reply(r, "conflict", NoJob)
         \/ \E j \in WithKey(r) :
              Reply(r, IF SameDigest(j, r) THEN "existing" ELSE "reused", j)
  PROVE  IInv'
<1>1. PICK a \in Answers : /\ answer' = [answer EXCEPT ![r] = a]
                           /\ at' = [at EXCEPT ![r] = "answered"]
                           /\ a.status \in {"existing", "reused"}
                                => /\ a.job \in WithKey(r)
                                   /\ a.status = "existing" <=> SameDigest(a.job, r)
                           /\ a.status \in {"existing", "reused", "conflict"}
                           /\ a.status = "conflict" => deletions > 0
  <2>1. CASE at[r] = "recover" /\ WithKey(r) = {} /\ Reply(r, "conflict", NoJob)
    <3>1. [status |-> "conflict", job |-> NoJob] \in Answers
      BY DEF Answers
    <3>2. deletions > 0
      BY <2>1 DEF IInv, DeletionInv
    <3> QED
      BY <2>1, <3>1, <3>2 DEF Reply, Move
  <2>2. CASE \E j \in WithKey(r) :
               Reply(r, IF SameDigest(j, r) THEN "existing" ELSE "reused", j)
    <3>1. PICK j \in WithKey(r) :
            Reply(r, IF SameDigest(j, r) THEN "existing" ELSE "reused", j)
      BY <2>2
    <3> DEFINE a == [status |-> IF SameDigest(j, r) THEN "existing" ELSE "reused",
                     job |-> j]
    <3>2. a \in Answers
      BY DEF Answers, WithKey, Visible
    <3>3. /\ answer' = [answer EXCEPT ![r] = a]
          /\ at' = [at EXCEPT ![r] = "answered"]
      BY <3>1 DEF Reply, Move
    <3>4. a.job = j /\ (a.status = "existing" \/ a.status = "reused")
          /\ (a.status = "existing" <=> SameDigest(j, r))
      OBVIOUS
    <3> HIDE DEF a
    <3> QED
      BY <3>2, <3>3, <3>4
  <2> QED
    BY <2>1, <2>2
<1>2. \A q \in Requests : /\ answer'[q] = IF q = r THEN a ELSE answer[q]
                          /\ at'[q] = IF q = r THEN "answered" ELSE at[q]
  BY <1>1 DEF IInv, TypeOK
<1>3. TypeOK'
  BY <1>1, <1>2 DEF IInv, TypeOK, Stages
<1>4. StageInv'
  BY <1>2 DEF IInv, StageInv
<1>5. KeyInv' /\ CreatedInv' /\ ChainInv'
  BY DEF IInv, KeyInv, CreatedInv, ChainInv, ChainOK, Held
<1>6. ParentInv'
  BY <1>2 DEF IInv, ParentInv
<1>7. DeletionInv'
  BY <1>2 DEF IInv, DeletionInv, WithKey, Visible
<1>8. AnswerIsMine'
  <2> SUFFICES ASSUME NEW q \in Requests, answer'[q].status \in {"created", "existing"}
               PROVE  /\ answer'[q].job # NoJob
                      /\ ask[answer'[q].job].key = ask[q].key
                      /\ SameDigest(answer'[q].job, q)
    BY DEF AnswerIsMine, SameDigest
  <2>1. CASE q = r
    <3>1. a.job \in WithKey(r) /\ SameDigest(a.job, r)
      BY <1>1, <1>2, <2>1
    <3> QED
      BY <1>2, <2>1, <3>1 DEF WithKey, Visible
  <2>2. CASE q # r
    BY <1>2, <2>2 DEF IInv, AnswerIsMine
  <2> QED
    BY <2>1, <2>2
<1>9. RefusedForAReason'
  <2> SUFFICES ASSUME NEW q \in Requests
               PROVE  /\ answer'[q].status = "reused"
                           => \E s \in Requests \ {q} : /\ ask[s].key = ask[q].key
                                                        /\ ~SameDigest(s, q)
                      /\ answer'[q].status = "conflict" => deletions > 0
    BY DEF RefusedForAReason, SameDigest
  <2>1. CASE q = r
    <3>1. row[r].state = "absent"
      BY DEF IInv, StageInv
    <3>2. a.status = "reused" => a.job \in Requests \ {r} /\ ask[a.job].key = ask[r].key
                                 /\ ~SameDigest(a.job, r)
      BY <1>1, <3>1 DEF WithKey, Visible
    <3> QED
      BY <1>1, <1>2, <2>1, <3>2
  <2>2. CASE q # r
    BY <1>2, <2>2 DEF IInv, RefusedForAReason
  <2> QED
    BY <2>1, <2>2
<1> QED
  BY <1>3, <1>4, <1>5, <1>6, <1>7, <1>8, <1>9 DEF IInv

\* A move between stages that says nothing new about the rows.
LEMMA MoveInv ==
  ASSUME IInv, NEW r \in Requests, NEW stage \in {"parent", "recover", "lost"},
         Move(r, stage), UNCHANGED <<ask, parent, answer, row, flushes, deletions>>,
         row[r].state = "absent",
         stage = "parent" => parent[r] = NoJob,
         stage = "recover" => WithKey(r) # {} \/ deletions > 0
  PROVE  IInv'
<1>1. \A q \in Requests : at'[q] = IF q = r THEN stage ELSE at[q]
  BY DEF IInv, TypeOK, Move
<1>2. TypeOK'
  BY DEF IInv, TypeOK, Stages, Move
<1>3. StageInv'
  BY <1>1 DEF IInv, StageInv
<1>4. KeyInv' /\ CreatedInv' /\ ChainInv'
  BY DEF IInv, KeyInv, CreatedInv, ChainInv, ChainOK, Held
<1>5. ParentInv'
  BY <1>1 DEF IInv, ParentInv
<1>6. DeletionInv'
  BY <1>1 DEF IInv, DeletionInv, WithKey, Visible
<1>7. AnswerIsMine' /\ RefusedForAReason'
  BY DEF IInv, AnswerIsMine, RefusedForAReason, SameDigest
<1> QED
  BY <1>2, <1>3, <1>4, <1>5, <1>6, <1>7 DEF IInv

LEMMA LookupInv ==
  ASSUME IInv, NEW r \in Requests, Lookup(r)
  PROVE  IInv'
<1>1. row[r].state = "absent" /\ parent[r] = NoJob
  BY DEF IInv, StageInv, ParentInv, Lookup
<1>2. CASE Move(r, "parent") /\ UNCHANGED answer
  BY <1>1, <1>2, MoveInv DEF Lookup
<1>3. CASE \E j \in WithKey(r) :
             Reply(r, IF SameDigest(j, r) THEN "existing" ELSE "reused", j)
  BY <1>3, ReplyInv DEF Lookup
<1> QED
  BY <1>2, <1>3 DEF Lookup

LEMMA ReadParentInv ==
  ASSUME IInv, NEW r \in Requests, ReadParent(r)
  PROVE  IInv'
<1>1. /\ at[r] = "parent" /\ at' = [at EXCEPT ![r] = "insert"]
      /\ parent[r] = NoJob /\ row[r].state = "absent"
      /\ UNCHANGED <<ask, answer, row, flushes, deletions>>
  BY DEF ReadParent, Move, IInv, ParentInv, StageInv
<1>2. PICK p \in Candidates(r) \union {NoJob} : parent' = [parent EXCEPT ![r] = p]
  <2>1. CASE Candidates(r) = {} /\ UNCHANGED parent
    <3>1. parent' = [parent EXCEPT ![r] = NoJob]
      BY <1>1, <2>1 DEF IInv, TypeOK
    <3> QED
      BY <3>1
  <2>2. CASE \E p \in Candidates(r) : parent' = [parent EXCEPT ![r] = p]
    BY <2>2
  <2> QED
    BY <2>1, <2>2 DEF ReadParent
<1>3. \A q \in Requests : /\ at'[q] = IF q = r THEN "insert" ELSE at[q]
                          /\ parent'[q] = IF q = r THEN p ELSE parent[q]
  BY <1>1, <1>2 DEF IInv, TypeOK
<1>4. p # NoJob => p \in Requests /\ row[p].state = "succeeded" /\ ask[p].chat = ask[r].chat
  BY DEF Candidates, Visible
<1>5. TypeOK'
  BY <1>1, <1>2, <1>4 DEF IInv, TypeOK, Stages
<1>6. StageInv'
  BY <1>1, <1>3 DEF IInv, StageInv
<1>7. ParentInv'
  BY <1>1, <1>3, <1>4 DEF IInv, ParentInv
<1>8. KeyInv' /\ CreatedInv' /\ ChainInv'
  BY <1>1 DEF IInv, KeyInv, CreatedInv, ChainInv, ChainOK, Held
<1>9. DeletionInv'
  BY <1>1, <1>3 DEF IInv, DeletionInv, WithKey, Visible
<1>10. AnswerIsMine' /\ RefusedForAReason'
  BY <1>1 DEF IInv, AnswerIsMine, RefusedForAReason, SameDigest
<1> QED
  BY <1>5, <1>6, <1>7, <1>8, <1>9, <1>10 DEF IInv

------------------------------------------------------------------------------
(* Steps that write rows. *)

LEMMA InsertInv ==
  ASSUME IInv, NEW r \in Requests, Insert(r)
  PROVE  IInv'
<1>1. at[r] = "insert" /\ row[r].state = "absent"
  BY DEF Insert, IInv, StageInv
<1>2. CASE (Collides(r) \/ Orphaned(r)) /\ Move(r, "recover")
           /\ UNCHANGED <<ask, parent, answer, row, flushes, deletions>>
  <2>1. Orphaned(r) => deletions > 0
    BY DEF Orphaned, IInv, DeletionInv, TypeOK
  <2> QED
    BY <1>1, <1>2, <2>1, MoveInv DEF Collides
<1>3. CASE /\ ~Collides(r) /\ ~Waits(r) /\ ~Orphaned(r)
           /\ row' = [row EXCEPT ![r] = [state |-> "open", created |-> flushes + 1,
                                         parent |-> parent[r],
                                         iteration |-> Iteration(parent[r])]]
           /\ flushes' = flushes + 1
           /\ Move(r, "commit")
           /\ UNCHANGED <<ask, parent, answer, deletions>>
  <2> DEFINE new == [state |-> "open", created |-> flushes + 1, parent |-> parent[r],
                     iteration |-> Iteration(parent[r])]
  <2>1. /\ at' = [at EXCEPT ![r] = "commit"]
        /\ row' = [row EXCEPT ![r] = new]
        /\ flushes \in Nat /\ deletions \in Nat
        /\ parent[r] \in Requests \union {NoJob}
    BY <1>3 DEF Move, IInv, TypeOK
  <2>2. parent[r] # NoJob =>
          /\ row[parent[r]] \in Job /\ parent[r] # r
          /\ row[parent[r]].state = "succeeded"
          /\ ask[parent[r]].chat = ask[r].chat
          /\ row[parent[r]].created <= flushes
    BY <1>1, <1>3, <2>1 DEF IInv, TypeOK, ParentInv, CreatedInv, Orphaned
  <2>3. Iteration(parent[r]) \in Nat /\ Iteration(parent[r]) >= 1
    BY <2>2 DEF Iteration, Job
  <2>4. new \in Job
    BY <2>1, <2>3 DEF Job, RowStates
  <2>5. /\ new.state = "open" /\ new.created = flushes + 1 /\ new.parent = parent[r]
        /\ new.iteration = Iteration(parent[r])
    OBVIOUS
  <2> HIDE DEF new
  <2>6. \A q \in Requests : /\ at'[q] = IF q = r THEN "commit" ELSE at[q]
                            /\ row'[q] = IF q = r THEN new ELSE row[q]
                            /\ row[q] \in Job
    BY <2>1 DEF IInv, TypeOK
  <2>7. TypeOK'
    BY <1>3, <2>1, <2>3, <2>4, <2>5, <2>6 DEF IInv, TypeOK, Stages
  <2>8. StageInv'
    BY <2>5, <2>6 DEF IInv, StageInv
  <2>9. \A j \in Requests : Held(j) => ask[j].key # ask[r].key
    BY <1>3, <2>6 DEF Held, Collides, Waits, WithKey, Visible, Job, RowStates
  <2>10. KeyInv'
    BY <1>3, <2>5, <2>6, <2>9 DEF IInv, KeyInv, Held
  <2>11. ParentInv'
    BY <1>1, <1>3, <2>6 DEF IInv, ParentInv, TypeOK
  <2>12. CreatedInv'
    BY <1>3, <2>1, <2>5, <2>6 DEF IInv, CreatedInv, Job
  <2>13. ChainInv'
    <3> SUFFICES ASSUME NEW j \in Requests
                 PROVE  ChainOK(j)'
      BY DEF ChainInv
    <3>1. CASE j = r
      BY <1>3, <2>1, <2>2, <2>5, <2>6, <3>1 DEF ChainOK, Held, Iteration, Job
    <3>2. CASE j # r
      <4>1. ChainOK(j) /\ row'[j] = row[j]
        BY <2>6, <3>2 DEF IInv, ChainInv
      <4>2. row[j].parent \in Requests \union {NoJob}
        BY <2>6 DEF Job
      <4>3. Held(j) /\ row[j].parent # NoJob => row'[row[j].parent] = row[row[j].parent]
        BY <1>1, <2>6, <4>1, <4>2 DEF ChainOK
      <4> QED
        BY <1>3, <4>1, <4>3 DEF ChainOK, Held
    <3> QED
      BY <3>1, <3>2
  <2>14. DeletionInv'
    <3>1. \A q \in Requests : WithKey(q) \subseteq WithKey(q)'
      BY <1>1, <1>3, <2>6 DEF WithKey, Visible
    <3> QED
      BY <1>3, <2>5, <2>6, <3>1 DEF IInv, DeletionInv
  <2>15. AnswerIsMine' /\ RefusedForAReason'
    BY <1>3 DEF IInv, AnswerIsMine, RefusedForAReason, SameDigest
  <2> QED
    BY <2>7, <2>8, <2>10, <2>11, <2>12, <2>13, <2>14, <2>15 DEF IInv
<1> QED
  BY <1>2, <1>3 DEF Insert

\* A row that changes nothing but its state, to another one that refers to the
\* same parent; whoever refers to it is still right to.
LEMMA RowStateInv ==
  ASSUME IInv, NEW r \in Requests, NEW state \in {"live", "succeeded", "unsuccessful"},
         row' = [row EXCEPT ![r].state = state],
         row[r].state \in {"open", "live"},
         ask' = ask, flushes' = flushes
  PROVE  /\ row' \in [Requests -> Job]
         /\ \A j \in Requests : row'[j].iteration >= 1
         /\ KeyInv' /\ CreatedInv' /\ ChainInv'
         /\ \A q \in Requests : WithKey(q) \subseteq WithKey(q)'
         /\ \A q \in Requests : /\ row'[q].state = IF q = r THEN state ELSE row[q].state
                                /\ row'[q].parent = row[q].parent
<1> DEFINE new == [row[r] EXCEPT !.state = state]
<1>1. row' = [row EXCEPT ![r] = new] /\ row[r] \in Job /\ row \in [Requests -> Job]
  BY DEF IInv, TypeOK
<1>2. /\ new \in Job /\ new.state = state /\ new.created = row[r].created
      /\ new.parent = row[r].parent /\ new.iteration = row[r].iteration
  BY <1>1 DEF Job, RowStates
<1> HIDE DEF new
<1>3. \A q \in Requests : /\ row'[q] = IF q = r THEN new ELSE row[q]
                          /\ row[q] \in Job
  BY <1>1
<1>4. \A q \in Requests : /\ row'[q].state = IF q = r THEN state ELSE row[q].state
                          /\ row'[q].created = row[q].created
                          /\ row'[q].parent = row[q].parent
                          /\ row'[q].iteration = row[q].iteration
  BY <1>2, <1>3
<1>5. \A q \in Requests : Held(q)' <=> Held(q)
  BY <1>4 DEF Held
<1>6. KeyInv' /\ CreatedInv'
  BY <1>4, <1>5 DEF IInv, KeyInv, CreatedInv
<1>7. ChainInv'
  <2> SUFFICES ASSUME NEW j \in Requests, Held(j), row[j].parent # NoJob
               PROVE  LET p == row[j].parent IN
                        /\ row'[p].state = "succeeded"
                        /\ ask[p].chat = ask[j].chat
                        /\ row'[p].created < row'[j].created
                        /\ row'[j].iteration = row'[p].iteration + 1
    BY <1>4, <1>5 DEF ChainInv, ChainOK
  <2>1. row[j].parent \in Requests /\ ChainOK(j)
    BY <1>3 DEF Job, IInv, ChainInv
  <2>2. row[row[j].parent].state = "succeeded"
    BY <2>1 DEF ChainOK
  <2> QED
    BY <1>4, <2>1, <2>2 DEF ChainOK
<1>8. \A q \in Requests : WithKey(q) \subseteq WithKey(q)'
  BY <1>4 DEF WithKey, Visible
<1>9. row' \in [Requests -> Job] /\ \A j \in Requests : row'[j].iteration >= 1
  BY <1>1, <1>2, <1>4 DEF IInv, TypeOK
<1> QED
  BY <1>4, <1>6, <1>7, <1>8, <1>9

LEMMA CommitInv ==
  ASSUME IInv, NEW r \in Requests, Commit(r)
  PROVE  IInv'
<1> DEFINE a == [status |-> "created", job |-> r]
<1>1. /\ at[r] = "commit" /\ row[r].state = "open"
      /\ at' = [at EXCEPT ![r] = "answered"] /\ answer' = [answer EXCEPT ![r] = a]
      /\ row' = [row EXCEPT ![r].state = "live"]
      /\ UNCHANGED <<ask, parent, flushes, deletions>>
  BY DEF Commit, Reply, Move, IInv, StageInv
<1>2. /\ row' \in [Requests -> Job] /\ \A j \in Requests : row'[j].iteration >= 1
      /\ KeyInv' /\ CreatedInv' /\ ChainInv'
      /\ \A q \in Requests : WithKey(q) \subseteq WithKey(q)'
      /\ \A q \in Requests : row'[q].state = IF q = r THEN "live" ELSE row[q].state
  BY <1>1, RowStateInv
<1>3. a \in Answers /\ a.status = "created" /\ a.job = r
  BY DEF Answers
<1> HIDE DEF a
<1>4. \A q \in Requests : /\ at'[q] = IF q = r THEN "answered" ELSE at[q]
                          /\ answer'[q] = IF q = r THEN a ELSE answer[q]
  BY <1>1 DEF IInv, TypeOK
<1>5. TypeOK'
  BY <1>1, <1>2, <1>3 DEF IInv, TypeOK, Stages
<1>6. StageInv'
  BY <1>2, <1>4 DEF IInv, StageInv
<1>7. ParentInv'
  BY <1>1, <1>2, <1>4 DEF IInv, ParentInv, TypeOK
<1>8. DeletionInv'
  BY <1>1, <1>2, <1>4 DEF IInv, DeletionInv
<1>9. AnswerIsMine'
  BY <1>1, <1>3, <1>4 DEF IInv, AnswerIsMine, SameDigest
<1>10. RefusedForAReason'
  BY <1>1, <1>3, <1>4 DEF IInv, RefusedForAReason, SameDigest
<1> QED
  BY <1>2, <1>5, <1>6, <1>7, <1>8, <1>9, <1>10 DEF IInv

LEMMA FinishInv ==
  ASSUME IInv, NEW r \in Requests, Finish(r)
  PROVE  IInv'
<1>1. PICK state \in {"succeeded", "unsuccessful"} : row' = [row EXCEPT ![r].state = state]
  BY DEF Finish
<1>2. row[r].state = "live" /\ UNCHANGED <<ask, at, parent, answer, flushes, deletions>>
  BY DEF Finish
<1>3. /\ row' \in [Requests -> Job] /\ \A j \in Requests : row'[j].iteration >= 1
      /\ KeyInv' /\ CreatedInv' /\ ChainInv'
      /\ \A q \in Requests : WithKey(q) \subseteq WithKey(q)'
      /\ \A q \in Requests : row'[q].state = IF q = r THEN state ELSE row[q].state
  BY <1>1, <1>2, RowStateInv
<1>4. TypeOK'
  BY <1>2, <1>3 DEF IInv, TypeOK
<1>5. StageInv'
  BY <1>2, <1>3 DEF IInv, StageInv
<1>6. ParentInv'
  BY <1>2, <1>3 DEF IInv, ParentInv, TypeOK
<1>7. DeletionInv'
  BY <1>2, <1>3 DEF IInv, DeletionInv
<1>8. AnswerIsMine' /\ RefusedForAReason'
  BY <1>2 DEF IInv, AnswerIsMine, RefusedForAReason, SameDigest
<1> QED
  BY <1>3, <1>4, <1>5, <1>6, <1>7, <1>8 DEF IInv

LEMMA RecoverInv ==
  ASSUME IInv, NEW r \in Requests, Recover(r)
  PROVE  IInv'
BY ReplyInv DEF Recover

LEMMA LoseInv ==
  ASSUME IInv, NEW r \in Requests, Lose(r)
  PROVE  IInv'
<1>1. CASE row[r].state # "open"
  BY <1>1, MoveInv DEF Lose, IInv, StageInv, TypeOK, Stages
<1>2. CASE row[r].state = "open"
  <2>1. /\ row' = [row EXCEPT ![r] = NoRow] /\ at' = [at EXCEPT ![r] = "lost"]
        /\ at[r] = "commit"
        /\ UNCHANGED <<ask, parent, answer, flushes, deletions>>
    BY <1>2 DEF Lose, Move, IInv, StageInv
  <2>2. /\ NoRow \in Job /\ NoRow.state = "absent" /\ NoRow.iteration = 1
        /\ NoRow.created = 0
    BY DEF NoRow, Job, RowStates
  <2>3. \A q \in Requests : /\ at'[q] = IF q = r THEN "lost" ELSE at[q]
                            /\ row'[q] = IF q = r THEN NoRow ELSE row[q]
                            /\ row[q] \in Job
    BY <2>1 DEF IInv, TypeOK
  <2>4. TypeOK'
    BY <2>1, <2>2, <2>3 DEF IInv, TypeOK, Stages
  <2>5. StageInv'
    BY <2>2, <2>3 DEF IInv, StageInv
  <2>6. KeyInv'
    BY <2>1, <2>2, <2>3 DEF IInv, KeyInv, Held
  <2>7. ParentInv'
    BY <1>2, <2>1, <2>3 DEF IInv, ParentInv, TypeOK
  <2>8. CreatedInv'
    BY <2>1, <2>2, <2>3 DEF IInv, CreatedInv, TypeOK
  <2>9. ChainInv'
    <3> SUFFICES ASSUME NEW j \in Requests, j # r
                 PROVE  ChainOK(j)'
      BY <2>2, <2>3 DEF ChainInv, ChainOK, Held
    <3>1. ChainOK(j) /\ row'[j] = row[j] /\ row[j].parent \in Requests \union {NoJob}
      BY <2>3 DEF IInv, ChainInv, Job
    <3>2. Held(j) /\ row[j].parent # NoJob => row'[row[j].parent] = row[row[j].parent]
      BY <1>2, <2>3, <3>1 DEF ChainOK
    <3> QED
      BY <2>1, <3>1, <3>2 DEF ChainOK, Held
  <2>10. DeletionInv'
    <3>1. \A q \in Requests : WithKey(q) \subseteq WithKey(q)'
      BY <1>2, <2>1, <2>3 DEF WithKey, Visible
    <3> QED
      BY <2>1, <2>2, <2>3, <3>1 DEF IInv, DeletionInv
  <2>11. AnswerIsMine' /\ RefusedForAReason'
    BY <2>1 DEF IInv, AnswerIsMine, RefusedForAReason, SameDigest
  <2> QED
    BY <2>4, <2>5, <2>6, <2>7, <2>8, <2>9, <2>10, <2>11 DEF IInv
<1> QED
  BY <1>1, <1>2

LEMMA DeleteInv ==
  ASSUME IInv, NEW r \in Requests, Delete(r)
  PROVE  IInv'
<1>1. /\ row[r].state \in {"succeeded", "unsuccessful"}
      /\ \A k \in Requests : row[k].state = "open" => row[k].parent # r
      /\ deletions' = deletions + 1 /\ deletions \in Nat
      /\ UNCHANGED <<ask, at, parent, answer, flushes>>
  BY DEF Delete, IInv, TypeOK
<1>2. \A k \in Requests : row[k] \in Job /\ row[k].iteration >= 1
  BY DEF IInv, TypeOK
<1>3. \A k \in Requests :
        /\ row'[k].state = IF k = r THEN "deleted" ELSE row[k].state
        /\ row'[k].created = row[k].created
        /\ row'[k].iteration = row[k].iteration
        /\ row'[k].parent = IF k # r /\ row[k].parent = r /\ k \in Visible
                              THEN NoJob ELSE row[k].parent
        /\ row'[k] \in Job
  BY <1>2 DEF Delete, Job, RowStates
<1>4. row' \in [Requests -> Job]
  BY <1>3 DEF Delete
<1>5. TypeOK'
  BY <1>1, <1>2, <1>3, <1>4 DEF IInv, TypeOK
<1>6. StageInv'
  BY <1>1, <1>3 DEF IInv, StageInv
<1>7. KeyInv'
  BY <1>1, <1>3 DEF IInv, KeyInv, Held
<1>8. ParentInv'
  BY <1>1, <1>3 DEF IInv, ParentInv, TypeOK
<1>9. CreatedInv'
  BY <1>1, <1>3 DEF IInv, CreatedInv
<1>10. ChainInv'
  <2> SUFFICES ASSUME NEW j \in Requests, Held(j)', row'[j].parent # NoJob
               PROVE  LET p == row'[j].parent IN
                        /\ row'[p].state = "succeeded"
                        /\ ask[p].chat = ask[j].chat
                        /\ row'[p].created < row'[j].created
                        /\ row'[j].iteration = row'[p].iteration + 1
    BY <1>1 DEF ChainInv, ChainOK
  <2>1. j # r /\ Held(j)
    BY <1>3 DEF Held
  <2>2. j \in Visible \/ row[j].state = "open"
    BY <1>2, <2>1 DEF Held, Visible, Job, RowStates
  <2>3. row[j].parent # r /\ row'[j].parent = row[j].parent
    BY <1>1, <1>3, <2>1, <2>2
  <2>4. row[j].parent \in Requests /\ ChainOK(j)
    BY <1>2, <2>3 DEF IInv, ChainInv, Job
  <2> QED
    BY <1>3, <2>1, <2>3, <2>4 DEF ChainOK
<1>11. DeletionInv'
  BY <1>1 DEF IInv, DeletionInv
<1>12. AnswerIsMine' /\ RefusedForAReason'
  BY <1>1 DEF IInv, AnswerIsMine, RefusedForAReason, SameDigest
<1> QED
  BY <1>5, <1>6, <1>7, <1>8, <1>9, <1>10, <1>11, <1>12 DEF IInv

------------------------------------------------------------------------------
(* The theorems. *)

LEMMA InitInv == Init => IInv
<1> SUFFICES ASSUME Init
             PROVE  IInv
  OBVIOUS
<1>1. NoRow \in Job /\ NoRow.state = "absent" /\ NoRow.iteration = 1 /\ NoRow.created = 0
  BY DEF NoRow, Job, RowStates
<1>2. \A r \in Requests : /\ at[r] = "lookup" /\ row[r] = NoRow /\ parent[r] = NoJob
                          /\ answer[r] = [status |-> "none", job |-> NoJob]
  BY DEF Init
<1>3. TypeOK
  BY <1>1 DEF Init, TypeOK, Stages, Answers
<1>4. StageInv /\ KeyInv /\ ParentInv /\ ChainInv
  BY <1>1, <1>2 DEF StageInv, KeyInv, ParentInv, ChainInv, ChainOK, Held
<1>5. CreatedInv /\ DeletionInv
  BY <1>1, <1>2 DEF Init, CreatedInv, DeletionInv
<1>6. AnswerIsMine /\ RefusedForAReason
  BY <1>2 DEF AnswerIsMine, RefusedForAReason
<1> QED
  BY <1>3, <1>4, <1>5, <1>6 DEF IInv

\* The inductive invariant of job creation.
THEOREM CreationInvariant == Spec => []IInv
<1>1. ASSUME IInv, [Next]_vars
      PROVE  IInv'
  <2>1. CASE UNCHANGED vars
    BY <1>1, <2>1
       DEF vars, IInv, TypeOK, StageInv, KeyInv, ParentInv, CreatedInv, ChainInv, ChainOK,
           Held, DeletionInv, WithKey, Visible, AnswerIsMine, RefusedForAReason, SameDigest
  <2>2. ASSUME NEW r \in Requests, Handle(r)
        PROVE  IInv'
    BY <1>1, <2>2, LookupInv, ReadParentInv, InsertInv, CommitInv, RecoverInv DEF Handle
  <2>3. ASSUME NEW r \in Requests, Lose(r) \/ Finish(r) \/ Delete(r)
        PROVE  IInv'
    BY <1>1, <2>3, LoseInv, FinishInv, DeleteInv
  <2> QED
    BY <1>1, <2>1, <2>2, <2>3 DEF Next
<1> QED
  BY InitInv, <1>1, PTL DEF Spec

\* Every variable keeps its type.
THEOREM CreationTypeCorrect == Spec => []TypeOK
<1>1. IInv => TypeOK
  BY DEF IInv
<1> QED
  BY <1>1, CreationInvariant, PTL

\* A key names one job.
THEOREM KeysAreUnique == Spec => []OneJobPerKey
<1>1. IInv => OneJobPerKey
  <2> SUFFICES ASSUME IInv, NEW r \in Requests, NEW s \in Requests,
                      answer[r].status \in {"created", "existing"},
                      answer[s].status \in {"created", "existing"},
                      answer[r].job \in Visible, answer[s].job \in Visible,
                      ask[r].key = ask[s].key
               PROVE  answer[r].job = answer[s].job
    BY DEF OneJobPerKey
  <2>1. ask[answer[r].job].key = ask[answer[s].job].key
    BY DEF IInv, AnswerIsMine
  <2> QED
    BY <2>1 DEF IInv, KeyInv, Held, Visible
<1> QED
  BY <1>1, CreationInvariant, PTL

\* An accepted request gets a job that does what it asked for.
THEOREM AnswersAreMine == Spec => []AnswerIsMine
<1>1. IInv => AnswerIsMine
  BY DEF IInv
<1> QED
  BY <1>1, CreationInvariant, PTL

\* Iterations of a chat follow succeeded jobs of the chat, one by one.
THEOREM IterationsChain == Spec => []IterationChain
<1>1. IInv => IterationChain
  <2> SUFFICES ASSUME IInv, NEW j \in Visible, row[j].parent # NoJob
               PROVE  LET p == row[j].parent IN
                        /\ p \in Visible
                        /\ row[p].state = "succeeded"
                        /\ ask[p].chat = ask[j].chat
                        /\ row[p].created < row[j].created
                        /\ row[j].iteration = row[p].iteration + 1
    BY DEF IterationChain
  <2>1. j \in Requests /\ Held(j) /\ row[j].parent \in Requests
    BY DEF Visible, Held, IInv, TypeOK, Job
  <2>2. ChainOK(j)
    BY <2>1 DEF IInv, ChainInv
  <2> QED
    BY <2>1, <2>2 DEF ChainOK, Visible
<1> QED
  BY <1>1, CreationInvariant, PTL

\* Racing requests alone never refuse one another.
THEOREM RefusalsHaveReasons == Spec => []RefusedForAReason
<1>1. IInv => RefusedForAReason
  BY DEF IInv
<1> QED
  BY <1>1, CreationInvariant, PTL
==============================================================================
