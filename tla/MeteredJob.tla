------------------------------ MODULE MeteredJob ------------------------------
(***************************************************************************)
(* From the request to the model calls: a job is created with the limits   *)
(* of its models, and every call of its runners is held to them.           *)
(***************************************************************************)
EXTENDS ResearchRequest

CONSTANTS
  Followed,      \* bound: requests whose job is followed into its model calls
  Calls,         \* calls the runners of the job make
  InputSizes,    \* estimated input tokens
  OutputAsks,    \* max_tokens of the payload
  NoAsk,         \* the payload has no limit of its own
  SafetyTokens,  \* MODEL_CONTEXT_SAFETY_TOKENS
  ReportedTokens,\* token counts a runner puts into the usage of its report
  MaxAttempts    \* bound: runners the job is given to

ASSUME ProxyAssumption ==
  /\ IsFiniteSet(Calls)
  /\ InputSizes \subseteq Nat \ {0}
  /\ OutputAsks \subseteq Nat /\ NoAsk \notin Nat
  /\ SafetyTokens \in Nat
  /\ ReportedTokens \subseteq Nat
  /\ MaxAttempts \in Nat \ {0}

VARIABLES row, call

Proxy == INSTANCE ModelProxy

vars == <<rvars, row, call>>

Init == RequestInit /\ Proxy!ProxyInit

\* The job is claimed and its runner starts to call.
Work ==
  /\ phase = "accepted" /\ ask \in Followed
  /\ UNCHANGED <<phase, ask, context, models, attempt>>
  /\ Proxy!ProxyNext

Prepare == RequestNext /\ UNCHANGED <<row, call>>

Next == Prepare \/ Work

Spec == Init /\ [][Next]_vars

------------------------------------------------------------------------------

\* Both type invariants.
TypeOK == RequestTypeOK /\ Proxy!ProxyTypeOK

\* ModelProxy's properties, under the limits the request came with.
OutputFits == Proxy!OutputFits
UsageBounds == Proxy!UsageBounds
UsageOfEndedIsFinal == Proxy!UsageOfEndedIsFinal
===============================================================================
