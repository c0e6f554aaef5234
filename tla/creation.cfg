\* Three requests, two keys, two chats; what else a request says is the same, so that
\* two requests agree exactly when their chats do.
CONSTANTS
  Requests = {r1, r2, r3}
  Keys = {k1, k2}
  Chats = {c1, c2}
  Queries = {q1}
  NoJob = NoJob
SPECIFICATION FairSpec
INVARIANTS
  OneJobPerKey
  AnswerIsMine
  IterationChain
  RefusedForAReason
PROPERTIES
  EveryRequestAnswered
CHECK_DEADLOCK FALSE
