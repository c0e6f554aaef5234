--------------------------- MODULE ResearchRequest ---------------------------
(***************************************************************************)
(* What the pipe puts into a creation request, and what the gateway makes  *)
(* of it: research shape and query budget (computed on both sides), the    *)
(* context documents cut to the character limit, and the models with the   *)
(* limits Open WebUI publishes or the user types in                        *)
(* (deep_research_pipe.py; domain.py, config.py and create_job in api.py). *)
(***************************************************************************)
EXTENDS Integers, Sequences, Functions, FiniteSets

CONSTANTS
  Asks,           \* what users may ask for: records of the set Ask
  Catalog,        \* the limits Open WebUI publishes for each model, 0 for none
  LimitAnswers,   \* what users type as a limit, 0 for what is not a number
  MaxQueriesCap,  \* valve max_queries_cap
  HardMaxQueries, \* HARD_MAX_QUERIES
  HardWallTime,   \* HARD_MAX_WALL_TIME_SECONDS
  CharLimit       \* valve context_char_limit

\* id stands for kind and id.  Documents with the same text have the same digest.
Document == [id : Nat, text : Nat, length : Nat]

Strategies == {"focused", "balanced", "broad", "deep", "custom"}

\* query is the length of the question; fits says that ids, names and titles are
\* within the lengths the gateway takes; budget and wall are the user's values or
\* the administrator's defaults; online is the valve public_search_enabled;
\* sources counts different ones, which is what _sources makes of the files.
Ask == [query : Nat, fits : BOOLEAN,
        strategy : Strategies, breadth : Nat, depth : Nat, queries : Nat,
        budget : Nat, wall : Nat, online : BOOLEAN, sources : Nat,
        documents : Seq(Document)]

Models == DOMAIN Catalog

Limits == [context : Nat, output : Nat]

ASSUME RequestAssumption ==
  /\ Asks \subseteq Ask
  \* the conversation has a kind of its own, the linked chats are a set of ids
  /\ \A a \in Asks : \A i, j \in DOMAIN a.documents :
       a.documents[i].id = a.documents[j].id => i = j
  /\ \A m \in Models : Catalog[m] \in Limits
  /\ LimitAnswers \subseteq Nat
  /\ MaxQueriesCap \in Nat /\ HardMaxQueries \in Nat
  /\ MaxQueriesCap <= HardMaxQueries  \* function sync copies the one to the other
  /\ HardWallTime \in Nat
  /\ CharLimit \in Nat /\ CharLimit >= 4000

\* The other end of the valve's range.
ASSUME LimitAssumption == CharLimit <= 500000

VARIABLES
  phase,       \* where the request stands
  ask,         \* what this user asks for
  context,     \* _compact_documents: what is left to do and what was kept, of
               \* which the ids, the number and the lengths
  models,      \* the selected models
  capability,  \* their limits, as far as they are known
  attempt      \* dialogs that _configure_model_limits has shown for one model

rvars == <<phase, ask, context, models, capability, attempt>>

Phases == {"plan", "context", "select", "limits", "submitted",
           "declined", "accepted", "rejected"}

RequestInit ==
  /\ phase = "plan"
  /\ ask \in Asks
  /\ context = [todo |-> <<>>, seen |-> {}, left |-> CharLimit, kept |-> {},
                count |-> 0, used |-> 0, longest |-> 0]
  /\ models = {}
  /\ capability = <<>>
  /\ attempt = 0

------------------------------------------------------------------------------
(* Shape and budget. *)

Preset == [focused  |-> <<1, 1, 2>>, balanced |-> <<2, 2, 2>>,
           broad    |-> <<4, 2, 2>>, deep     |-> <<2, 3, 3>>]

\* _research_shape
Shape(a) ==
  IF a.strategy = "custom" THEN <<a.breadth, a.depth, a.queries>> ELSE Preset[a.strategy]

InRange(shape) == shape[1] \in 1 .. 8 /\ shape[2] \in 1 .. 4 /\ shape[3] \in 1 .. 5

Larger(m, n) == IF m > n THEN m ELSE n

\* The breadth of a level, halved at each level but at least 2 below the first.
BreadthAt(shape) ==
  LET breadth[l \in 1 .. shape[2]] ==
        IF l = 1 THEN shape[1] ELSE Larger(2, breadth[l - 1] \div 2)
  IN breadth

\* The workers of a level: each of the level before starts the next breadth.
WorkersAt(shape) ==
  LET workers[l \in 1 .. shape[2]] ==
        IF l = 1 THEN shape[1] ELSE workers[l - 1] * BreadthAt(shape)[l]
  IN workers

\* ResearchShape.total_workers: the running total over the levels.
TotalWorkers(shape) ==
  LET total[l \in 0 .. shape[2]] ==
        IF l = 0 THEN 0 ELSE total[l - 1] + WorkersAt(shape)[l]
  IN total[shape[2]]

\* ResearchShape.estimated_max_queries: the root plans, and each worker plans,
\* asks its generated queries and its own.
DomainEstimate(shape) == 1 + TotalWorkers(shape) * (shape[3] + 2)

\* Mutant: the breadth may fall to 1.
PipeEstimateNarrow(shape) ==
  LET tree[l \in 1 .. shape[2]] ==
        IF l = 1 THEN [breadth |-> shape[1], level |-> shape[1], total |-> shape[1]]
        ELSE LET b == tree[l - 1].breadth \div 2
                 n == tree[l - 1].level * b
             IN [breadth |-> b, level |-> n, total |-> tree[l - 1].total + n]
  IN 1 + tree[shape[2]].total * (shape[3] + 2)

\* _estimated_max_queries of the pipe, which cannot import the service's code.
PipeEstimate(shape) ==
  LET tree[l \in 1 .. shape[2]] ==
        IF l = 1 THEN [breadth |-> shape[1], level |-> shape[1], total |-> shape[1]]
        ELSE LET b == Larger(2, tree[l - 1].breadth \div 2)
                 n == tree[l - 1].level * b
             IN [breadth |-> b, level |-> n, total |-> tree[l - 1].total + n]
  IN 1 + tree[shape[2]].total * (shape[3] + 2)

\* _budget
WithinBudget(a) ==
  /\ a.budget <= MaxQueriesCap
  /\ PipeEstimate(Shape(a)) <= a.budget

\* A question, and both checks, come before any call; an error ends the turn.
Plan ==
  /\ phase = "plan"
  /\ IF ask.query > 0 /\ InRange(Shape(ask)) /\ WithinBudget(ask)
     THEN /\ phase' = "context"
          /\ context' = [context EXCEPT !.todo = ask.documents]
     ELSE phase' = "declined" /\ UNCHANGED context
  /\ UNCHANGED <<ask, models, capability, attempt>>

------------------------------------------------------------------------------
(* Context documents. *)

\* The share of every document, the duplicates included.
PerDocument == Larger(2000, CharLimit \div Len(ask.documents))

Lesser(m, n) == IF m < n THEN m ELSE n

\* Mutant: the length of the note is not taken off.
ShortenedPlain(length, allowance) == 57 + allowance

\* A note of 57 characters and text[-(allowance - 62):].  With an allowance of
\* 62 or less the index is 0 or positive: the slice starts near the beginning.
Shortened(length, allowance) ==
  57 + (IF allowance > 62 THEN allowance - 62 ELSE Larger(0, length - (62 - allowance)))

Allowance == Lesser(PerDocument, context.left)

\* The length of a document in the request.
Compacted(length) ==
  IF length > Allowance THEN Shortened(length, Allowance) ELSE length

NoRoom == context.left <= 0

\* One round of the loop.
Compact ==
  /\ phase = "context" /\ context.todo # <<>>
  /\ LET d == Head(context.todo)
         size == Compacted(d.length)
     IN IF d.length = 0 \/ d.text \in context.seen \/ NoRoom
        THEN context' = [context EXCEPT !.todo = Tail(@)]
        ELSE context' = [todo    |-> Tail(context.todo),
                         seen    |-> context.seen \union {d.text},
                         left    |-> context.left - size,
                         kept    |-> context.kept \union {d.id},
                         count   |-> context.count + 1,
                         used    |-> context.used + size,
                         longest |-> Larger(context.longest, size)]
  /\ UNCHANGED <<phase, ask, models, capability, attempt>>

ContextDone ==
  /\ phase = "context" /\ context.todo = <<>>
  /\ phase' = "select"
  /\ UNCHANGED <<ask, context, models, capability, attempt>>

------------------------------------------------------------------------------
(* Models and their limits. *)

Usable(limits) == limits.context >= 4096 /\ limits.output >= 1

\* _select_models: one model for each of the three roles.
Select ==
  /\ phase = "select"
  /\ \E fast, smart, strategic \in Models :
       models' = {fast, smart, strategic}
  /\ capability' = [m \in {n \in models' : Usable(Catalog[n])} |-> Catalog[m]]
  /\ phase' = "limits"
  /\ UNCHANGED <<ask, context, attempt>>

\* No model, no answer, a dialog that was closed, or no approval of the plan.
Decline ==
  /\ phase \in {"select", "limits"}
  /\ phase' = "declined"
  /\ UNCHANGED <<ask, context, models, capability, attempt>>

Unknown == models \ DOMAIN capability

Acceptable(limits) == Usable(limits) /\ limits.output <= limits.context

LastDialog == attempt = 2

\* _configure_model_limits: three dialogs, then the turn ends.
Configure(limits) ==
  /\ phase = "limits" /\ Unknown # {}
  /\ IF Acceptable(limits)
     THEN LET m == CHOOSE n \in Unknown : TRUE
          IN /\ capability' = [n \in DOMAIN capability \union {m} |->
                                 IF n = m THEN limits ELSE capability[n]]
             /\ attempt' = 0
             /\ UNCHANGED phase
     ELSE /\ attempt' = attempt + 1
          /\ phase' = IF LastDialog THEN "declined" ELSE phase
          /\ UNCHANGED capability
  /\ UNCHANGED <<ask, context, models>>

\* With public search disabled there must be something to read.
Submit ==
  /\ phase = "limits" /\ Unknown = {}
  /\ phase' = IF ask.online \/ ask.sources > 0 \/ context.count > 0
              THEN "submitted" ELSE "declined"
  /\ UNCHANGED <<ask, context, models, capability, attempt>>

------------------------------------------------------------------------------
(* The gateway. *)

\* Characters of a question, and of the longest document.
QueryLengths == 3 .. 50000
LongestDocument == 300000

RESEARCH_PRESETS == [focused  |-> <<1, 1, 2>>, balanced |-> <<2, 2, 2>>,
                     broad    |-> <<4, 2, 2>>, deep     |-> <<2, 3, 3>>]

\* validate_preset
PresetKept == ask.strategy # "custom" => Shape(ask) = RESEARCH_PRESETS[ask.strategy]

\* The strings, the numbers of ResearchBudget and the sources.
FieldsFit ==
  /\ ask.query \in QueryLengths /\ ask.fits
  /\ ask.budget >= 1 /\ ask.wall >= 60
  /\ ask.sources <= 200

\* CreateJobRequest
WellFormed ==
  /\ FieldsFit
  /\ InRange(Shape(ask)) /\ PresetKept
  /\ context.count <= 50 /\ Cardinality(context.kept) = context.count
  /\ context.used <= 500000 /\ context.longest <= LongestDocument
  /\ Cardinality(DOMAIN capability) \in 1 .. 3
  /\ DOMAIN capability = models
  /\ \A m \in models : Usable(capability[m])

\* validate_budget and validate_research_shape
Affordable ==
  /\ ask.budget <= HardMaxQueries
  /\ ask.wall <= HardWallTime
  /\ DomainEstimate(Shape(ask)) <= ask.budget

CreateJob ==
  /\ phase = "submitted"
  /\ phase' = IF WellFormed /\ Affordable THEN "accepted" ELSE "rejected"
  /\ UNCHANGED <<ask, context, models, capability, attempt>>

RequestNext ==
  \/ Plan \/ Compact \/ ContextDone \/ Select \/ Decline \/ Submit \/ CreateJob
  \/ \E c, o \in LimitAnswers : Configure([context |-> c, output |-> o])

RequestSpec == RequestInit /\ [][RequestNext]_rvars

------------------------------------------------------------------------------
(* Properties. *)

\* Type invariant of the request.
RequestTypeOK ==
  /\ phase \in Phases
  /\ ask \in Asks
  /\ context \in [todo : Seq(Document), seen : SUBSET Nat, left : Int,
                  kept : SUBSET Nat, count : Nat, used : Nat, longest : Nat]
  /\ models \subseteq Models
  /\ DOMAIN capability \subseteq models
  /\ \A m \in DOMAIN capability : capability[m] \in Limits
  /\ attempt \in 0 .. 3

\* What the pipe passes on without a look: the length of the question, of ids,
\* names and titles, the wall time, how many sources and documents there are, and
\* the context as _compact_documents left it.
NotLookedAt ==
  \/ ask.query \notin QueryLengths \/ ~ask.fits
  \/ ask.wall \notin 60 .. HardWallTime
  \/ ask.sources > 200 \/ Len(ask.documents) > 50
  \/ context.longest > LongestDocument \/ context.used > CharLimit

\* The pipe and the gateway agree on shapes, presets, query budgets, models and
\* the identities of documents, each of which both work out for themselves: what
\* the pipe submits is refused only for what it passes on without a look.
RefusedForTheList == phase = "rejected" => NotLookedAt

\* Every job has exactly one usable pair of limits for each of its models,
\* published or typed in, whatever was typed before.
OneCapabilityPerModel ==
  phase \in {"submitted", "accepted"} =>
    DOMAIN capability = models /\ \A m \in models : Usable(capability[m])

\* What the pipe submits is what the gateway wants: refused only for the list
\* above, and with one usable pair of limits for each model.
SubmittedIsSound == RefusedForTheList /\ OneCapabilityPerModel

\* docs/adrs.md:214: the snapshot stays within context_char_limit.
ContextWithinLimit == context.used <= CharLimit

\* It does when the limit leaves 2000 characters for each document.
ContextWithinFairLimit ==
  2000 * Len(ask.documents) <= CharLimit => context.used <= CharLimit

\* Then no document is dropped for want of space either: each distinct text is
\* in the request, if only its end.
EveryDocumentKept ==
  phase = "select" /\ 2000 * Len(ask.documents) <= CharLimit =>
    context.seen = {d.text : d \in {e \in Range(ask.documents) : e.length > 0}}

\* With a fair limit the snapshot is complete and within its bound.
FairContext == ContextWithinFairLimit /\ EveryDocumentKept
===============================================================================
