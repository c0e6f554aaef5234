--------------------------- MODULE MeteredJobProofs ---------------------------
(***************************************************************************)
(* Proofs about requests, for any catalog of models, any documents and any *)
(* limits, and about the model calls of the jobs they create, for any      *)
(* number of calls and sizes.                                              *)
(*                                                                         *)
(* Requests: that the context stays within its limit needs that what is    *)
(* left is enough for the shares of the documents to come (ContextInv);    *)
(* that a job gets the limits of all its models needs that only usable     *)
(* ones are ever noted (LimitsInv); that the gateway accepts what the pipe *)
(* estimates needs that both compute the same tree (EstimatesAgree).       *)
(*                                                                         *)
(* Calls: whatever the proxy does is a stutter of the request, so that all *)
(* that is proved of requests holds of the whole; and since the limits are *)
(* frozen once a job exists, every call that was ever sent still fits them *)
(* (CallsInv).                                                             *)
(***************************************************************************)
EXTENDS MeteredJob, FiniteSetTheorems, TLAPS

Fair == 2000 * Len(ask.documents) <= CharLimit

Texts(s) == {d.text : d \in {e \in Range(s) : e.length > 0}}

\* The loop of _compact_documents between two rounds.
ContextInv ==
  /\ phase # "context" => context.todo = <<>>
  /\ phase = "plan" => context.seen = {} /\ context.left = CharLimit
  /\ context.used + context.left = CharLimit
  /\ Fair => context.left >= 0
  /\ context.todo # <<>> => Len(ask.documents) > 0
  /\ Fair /\ context.todo # <<>> => context.left >= Len(context.todo) * PerDocument
  /\ Fair /\ phase \in {"context", "select"} =>
       context.seen \union Texts(context.todo) = Texts(ask.documents)

\* Dialogs, and the limits known so far.
LimitsInv ==
  /\ phase \in {"plan", "context", "select"} => attempt = 0
  /\ phase = "limits" => attempt \in 0 .. 2
  /\ \A m \in DOMAIN capability : Usable(capability[m])
  /\ phase \in {"submitted", "accepted"} => DOMAIN capability = models

IInv == RequestTypeOK /\ ContextInv /\ LimitsInv

------------------------------------------------------------------------------
(* Arithmetic and sequences. *)

\* What is divided is enough for all shares.
LEMMA Shares ==
  ASSUME NEW c \in Nat, NEW n \in Nat, n > 0
  PROVE  c \div n \in Nat /\ n * (c \div n) <= c
OBVIOUS

\* Membership in Range by index, whatever the sequence.
LEMMA RangeOfSeq ==
  ASSUME NEW s \in Seq(Document)
  PROVE  Range(s) = {s[i] : i \in 1 .. Len(s)}
<1>1. DOMAIN s = 1 .. Len(s)
  OBVIOUS
<1> QED
  BY <1>1 DEF Range

\* A sequence consists of its head and its tail.
LEMMA HeadAndTail ==
  ASSUME NEW s \in Seq(Document), s # <<>>
  PROVE  /\ Head(s) \in Document /\ Tail(s) \in Seq(Document)
         /\ Len(s) \in Nat \ {0} /\ Len(Tail(s)) = Len(s) - 1
         /\ Range(s) = {Head(s)} \union Range(Tail(s))
<1>1. /\ Head(s) \in Document /\ Tail(s) \in Seq(Document)
      /\ Len(s) \in Nat \ {0} /\ Len(Tail(s)) = Len(s) - 1
  OBVIOUS
<1>2. Head(s) = s[1] /\ \A i \in 1 .. Len(s) - 1 : Tail(s)[i] = s[i + 1]
  OBVIOUS
<1>3. Range(Tail(s)) = {Tail(s)[i] : i \in 1 .. Len(s) - 1}
  BY <1>1, RangeOfSeq
<1>4. ASSUME NEW i \in 1 .. Len(s), i # 1
      PROVE  i - 1 \in 1 .. Len(s) - 1 /\ Tail(s)[i - 1] = s[i]
  BY <1>1, <1>2, <1>4
<1>5. ASSUME NEW i \in 1 .. Len(s) - 1
      PROVE  i + 1 \in 1 .. Len(s) /\ Tail(s)[i] = s[i + 1]
  BY <1>1, <1>2
<1>6. Range(s) = {s[i] : i \in 1 .. Len(s)}
  BY RangeOfSeq
<1>7. 1 \in 1 .. Len(s)
  BY <1>1
<1>8. ASSUME NEW x \in Range(s)
      PROVE  x \in {Head(s)} \union Range(Tail(s))
  <2>1. PICK i \in 1 .. Len(s) : x = s[i]
    BY <1>6
  <2>2. CASE i = 1
    BY <2>1, <2>2, <1>2
  <2>3. CASE i # 1
    BY <2>1, <2>3, <1>3, <1>4
  <2> QED
    BY <2>2, <2>3
<1>9. ASSUME NEW x \in {Head(s)} \union Range(Tail(s))
      PROVE  x \in Range(s)
  <2>1. CASE x = Head(s)
    BY <2>1, <1>2, <1>6, <1>7
  <2>2. CASE x \in Range(Tail(s))
    <3>1. PICK i \in 1 .. Len(s) - 1 : x = Tail(s)[i]
      BY <2>2, <1>3
    <3> QED
      BY <3>1, <1>5, <1>6
  <2> QED
    BY <2>1, <2>2
<1> QED
  BY <1>1, <1>8, <1>9

\* So do their texts.
LEMMA TextsOfTail ==
  ASSUME NEW s \in Seq(Document), s # <<>>
  PROVE  Texts(s) = Texts(Tail(s)) \union
                      (IF Head(s).length > 0 THEN {Head(s).text} ELSE {})
<1>1. Range(s) = {Head(s)} \union Range(Tail(s))
  BY HeadAndTail
<1> QED
  BY <1>1 DEF Texts

LEMMA NoTexts == Texts(<<>>) = {}
  BY DEF Texts, Range

\* What a user asks for, by its parts.
LEMMA AskedDocuments ==
  ASSUME RequestTypeOK
  PROVE  ask.documents \in Seq(Document) /\ Len(ask.documents) \in Nat
<1>1. ask \in Ask
  BY RequestAssumption DEF RequestTypeOK
<1>2. ask.documents \in Seq(Document)
  BY <1>1 DEF Ask
<1> QED
  BY <1>2

\* A fair limit leaves the share of every document.
LEMMA FairShares ==
  ASSUME RequestTypeOK, Fair, Len(ask.documents) > 0
  PROVE  /\ PerDocument \in Nat /\ PerDocument >= 2000
         /\ Len(ask.documents) * PerDocument <= CharLimit
<1> DEFINE n == Len(ask.documents)
<1>1. n \in Nat /\ n > 0
  BY AskedDocuments
<1>2. CharLimit \in Nat
  BY RequestAssumption
<1>3. 2000 * n <= CharLimit
  BY DEF Fair
<1>4. /\ PerDocument = Larger(2000, CharLimit \div n)
      /\ Len(ask.documents) = n
  BY DEF PerDocument
<1> HIDE DEF n
<1> DEFINE q == CharLimit \div n
<1>5. q \in Nat /\ n * q <= CharLimit
  BY <1>1, <1>2, Shares
<1>6. PerDocument = IF 2000 > q THEN 2000 ELSE q
  BY <1>4 DEF Larger
<1> HIDE DEF q
<1>7. PerDocument \in Nat /\ PerDocument >= 2000
  BY <1>5, <1>6
<1>8. n * PerDocument <= CharLimit
  BY <1>1, <1>2, <1>3, <1>5, <1>6
<1> QED
  BY <1>4, <1>7, <1>8

------------------------------------------------------------------------------
(* The invariant. *)

LEMMA InitIInv == RequestInit => IInv
<1> SUFFICES ASSUME RequestInit PROVE IInv
  OBVIOUS
<1>1. CharLimit \in Int /\ CharLimit >= 0
  BY RequestAssumption
<1>2. RequestTypeOK
  BY <1>1 DEF RequestInit, RequestTypeOK, Phases
<1>3. ContextInv
  BY <1>1 DEF RequestInit, ContextInv
<1>4. LimitsInv
  BY DEF RequestInit, LimitsInv
<1> QED
  BY <1>2, <1>3, <1>4 DEF IInv

\* The documents are taken up.
LEMMA PlanStep == IInv /\ Plan => IInv'
<1> SUFFICES ASSUME IInv, Plan PROVE IInv'
  OBVIOUS
<1> USE DEF IInv
<1>1. ask.documents \in Seq(Document) /\ Len(ask.documents) \in Nat
  BY AskedDocuments
<1>2. RequestTypeOK'
  BY <1>1 DEF Plan, RequestTypeOK, Phases
<1>3. LimitsInv'
  BY DEF Plan, LimitsInv
<1>4. CASE UNCHANGED context /\ phase' = "declined"
  <2>1. ContextInv'
    BY <1>4 DEF Plan, ContextInv, Fair, PerDocument, RequestTypeOK
  <2> QED
    BY <2>1, <1>2, <1>3
<1>5. CASE phase' = "context" /\ context' = [context EXCEPT !.todo = ask.documents]
  <2>1. /\ context'.todo = ask.documents /\ context'.seen = {}
        /\ context'.left = CharLimit /\ context'.used = context.used
    BY <1>5 DEF Plan, ContextInv, RequestTypeOK
  <2>2. ask' = ask /\ CharLimit \in Nat
    BY RequestAssumption DEF Plan
  <2>3. ask.documents # <<>> => Len(ask.documents) > 0
    BY <1>1
  <2>4. Fair /\ ask.documents # <<>> => CharLimit >= Len(ask.documents) * PerDocument
    BY <2>3, <1>1, <2>2, FairShares
  <2>5. ContextInv'
    BY <2>1, <2>2, <2>3, <2>4, <1>5 DEF ContextInv, Fair, PerDocument, Plan
  <2> QED
    BY <2>5, <1>2, <1>3
<1> QED
  BY <1>4, <1>5 DEF Plan

\* What a document is cut to is at most its share, while the share is in reach.
LEMMA CutToShare ==
  ASSUME NEW length \in Nat, PerDocument \in Nat, PerDocument >= 2000,
         context.left \in Int, context.left >= PerDocument
  PROVE  Compacted(length) \in Nat /\ Compacted(length) <= PerDocument
<1>1. Allowance = PerDocument
  BY DEF Allowance, Lesser
<1>2. CASE length > PerDocument
  <2>1. Compacted(length) = 57 + (PerDocument - 62)
    BY <1>1, <1>2 DEF Compacted, Shortened
  <2> QED
    BY <2>1
<1>3. CASE length <= PerDocument
  BY <1>1, <1>3 DEF Compacted
<1> QED
  BY <1>2, <1>3

\* Whatever the share, a document keeps a natural length.
LEMMA CutToNat ==
  ASSUME NEW length \in Nat, PerDocument \in Int, context.left \in Int
  PROVE  Compacted(length) \in Nat
<1>1. Allowance \in Int
  BY DEF Allowance, Lesser
<1>2. Shortened(length, Allowance) \in Nat
  BY <1>1 DEF Shortened, Larger
<1> QED
  BY <1>2 DEF Compacted

\* One round of the loop: a document that is kept takes at most its share.
LEMMA CompactStep == IInv /\ Compact => IInv'
<1> SUFFICES ASSUME IInv, Compact PROVE IInv'
  OBVIOUS
<1> DEFINE d == Head(context.todo)
           size == Compacted(d.length)
           skip == d.length = 0 \/ d.text \in context.seen \/ NoRoom
           p == PerDocument
<1>1. /\ context.todo \in Seq(Document) /\ context.todo # <<>>
      /\ context.left \in Int /\ context.used \in Nat /\ context.count \in Nat
      /\ context.kept \in SUBSET Nat
      /\ context.longest \in Nat /\ context.seen \in SUBSET Nat
      /\ phase = "context" /\ RequestTypeOK
  BY DEF IInv, RequestTypeOK, Compact
<1>2. /\ d \in Document /\ Tail(context.todo) \in Seq(Document)
      /\ Len(context.todo) \in Nat \ {0}
      /\ Len(Tail(context.todo)) = Len(context.todo) - 1
  BY <1>1, HeadAndTail
<1>3. d.length \in Nat /\ d.text \in Nat /\ d.id \in Nat
  BY <1>2 DEF Document
<1>4. UNCHANGED <<phase, ask, models, capability, attempt>>
  BY DEF Compact
<1>5. /\ context'.todo = Tail(context.todo)
      /\ skip => /\ context'.seen = context.seen /\ context'.left = context.left
                 /\ context'.used = context.used /\ context'.count = context.count
                 /\ context'.longest = context.longest /\ context'.kept = context.kept
      /\ ~skip => /\ context'.seen = context.seen \union {d.text}
                  /\ context'.left = context.left - size
                  /\ context'.used = context.used + size
                  /\ context'.count = context.count + 1
                  /\ context'.longest = Larger(context.longest, size)
                  /\ context'.kept = context.kept \union {d.id}
      /\ context' \in [todo : {Tail(context.todo)}, seen : {context'.seen},
                       left : {context'.left}, kept : {context'.kept}, count : {context'.count},
                       used : {context'.used}, longest : {context'.longest}]
  <2>1. CASE skip
    BY <2>1, <1>1 DEF IInv, RequestTypeOK, Compact
  <2>2. CASE ~skip
    BY <2>2, <1>1 DEF IInv, RequestTypeOK, Compact
  <2> QED
    BY <2>1, <2>2
<1>6. ask.documents \in Seq(Document) /\ Len(ask.documents) \in Nat
  BY <1>1, AskedDocuments
<1>7. Fair => /\ p \in Nat /\ p >= 2000
              /\ context.left >= Len(context.todo) * p
  <2> SUFFICES ASSUME Fair
               PROVE  p \in Nat /\ p >= 2000 /\ context.left >= Len(context.todo) * p
    OBVIOUS
  <2>1. Len(ask.documents) > 0 /\ context.left >= Len(context.todo) * p
    BY <1>1 DEF IInv, ContextInv
  <2> QED
    BY <2>1, <1>1, FairShares
<1>8. size \in Nat
  <2>1. Len(ask.documents) \in Nat /\ Len(ask.documents) > 0
    BY <1>1, <1>6 DEF IInv, ContextInv
  <2>2. CharLimit \div Len(ask.documents) \in Int
    BY <2>1, RequestAssumption
  <2>3. PerDocument \in Int
    BY <2>2 DEF PerDocument, Larger
  <2> QED
    BY <2>3, <1>1, <1>3, CutToNat
<1>9. Fair => size <= p /\ context.left >= p /\ ~NoRoom
  <2> SUFFICES ASSUME Fair PROVE size <= p /\ context.left >= p /\ ~NoRoom
    OBVIOUS
  <2>1. context.left >= p
    BY <1>1, <1>2, <1>7
  <2>2. PerDocument \in Nat /\ PerDocument >= 2000 /\ context.left \in Int
    BY <1>1, <1>7
  <2>3. size <= PerDocument
    BY <2>1, <2>2, <1>3, CutToShare
  <2>4. ~NoRoom
    BY <2>1, <2>2 DEF NoRoom
  <2> QED
    BY <2>1, <2>3, <2>4
<1> HIDE DEF d, size, skip, p
<1>10. RequestTypeOK'
  <2>1. Larger(context.longest, size) \in Nat
    BY <1>1, <1>8 DEF Larger
  <2>2. /\ context'.todo \in Seq(Document) /\ context'.seen \in SUBSET Nat
        /\ context'.left \in Int /\ context'.count \in Nat
        /\ context'.used \in Nat /\ context'.longest \in Nat /\ context'.kept \in SUBSET Nat
    <3>1. CASE skip
      BY <3>1, <1>1, <1>2, <1>5
    <3>2. CASE ~skip
      <4>1. context.seen \union {d.text} \in SUBSET Nat /\ context.kept \union {d.id} \in SUBSET Nat
        BY <1>1, <1>3
      <4>2. /\ context.left - size \in Int /\ context.count + 1 \in Nat
            /\ context.used + size \in Nat
        BY <1>1, <1>8
      <4> QED
        BY <3>2, <4>1, <4>2, <2>1, <1>2, <1>5
    <3> QED
      BY <3>1, <3>2
  <2>3. context' \in [todo : Seq(Document), seen : SUBSET Nat, left : Int,
                      kept : SUBSET Nat, count : Nat, used : Nat, longest : Nat]
    BY <2>2, <1>5
  <2> QED
    BY <2>3, <1>1, <1>4 DEF RequestTypeOK
<1>11. LimitsInv'
  BY <1>4 DEF IInv, LimitsInv
<1>12. ContextInv'
  <2>1. context'.used + context'.left = CharLimit
    BY <1>1, <1>5, <1>8 DEF IInv, ContextInv
  <2>2. Fair => /\ context'.left >= 0
                /\ context'.left >= Len(context'.todo) * p
    <3> SUFFICES ASSUME Fair PROVE /\ context'.left >= 0
                                   /\ context'.left >= Len(context'.todo) * p
      OBVIOUS
    <3>1. context'.left >= context.left - p /\ context'.left \in Int
      BY <1>1, <1>5, <1>7, <1>8, <1>9
    <3>2. (Len(context.todo) - 1) * p = Len(context.todo) * p - p
      BY <1>2, <1>7
    <3>3. Len(context'.todo) * p >= 0 /\ Len(context'.todo) = Len(context.todo) - 1
      BY <1>2, <1>5, <1>7
    <3> DEFINE all  == Len(context.todo) * p
               rest == Len(context'.todo) * p
    <3>4. rest = all - p /\ rest >= 0
      BY <3>2, <3>3
    <3>5. context.left >= all /\ context.left \in Int /\ p \in Int /\ all \in Int
      BY <1>1, <1>2, <1>7
    <3> HIDE DEF all, rest
    <3>6. context'.left >= 0 /\ context'.left >= rest
      BY <3>1, <3>4, <3>5
    <3> QED
      BY <3>6 DEF rest
  <2>3. Fair => context'.seen \union Texts(context'.todo)
                  = context.seen \union Texts(context.todo)
    <3> SUFFICES ASSUME Fair
                 PROVE  context'.seen \union Texts(context'.todo)
                          = context.seen \union Texts(context.todo)
      OBVIOUS
    <3>1. Texts(context.todo) = Texts(Tail(context.todo)) \union
                                  (IF d.length > 0 THEN {d.text} ELSE {})
      BY <1>1, TextsOfTail DEF d
    <3> USE DEF skip
    <3>2. CASE d.length = 0
      BY <3>1, <3>2, <1>5
    <3>3. CASE d.length # 0 /\ d.text \in context.seen
      BY <3>1, <3>3, <1>3, <1>5
    <3>4. CASE d.length # 0 /\ d.text \notin context.seen
      BY <3>1, <3>4, <1>3, <1>5, <1>9
    <3> QED
      BY <3>2, <3>3, <3>4
  <2>4. /\ context.todo # <<>> => Len(ask.documents) > 0
        /\ Fair => context.seen \union Texts(context.todo) = Texts(ask.documents)
    BY <1>1 DEF IInv, ContextInv
  <2>5. Fair' = Fair /\ PerDocument' = PerDocument
    BY <1>4 DEF Fair, PerDocument
  <2> QED
    BY <2>1, <2>2, <2>3, <2>4, <2>5, <1>1, <1>4 DEF ContextInv, p
<1> QED
  BY <1>10, <1>11, <1>12 DEF IInv

\* The invariant looks at phases, limits and dialogs apart from the context.
LEMMA ContextKept ==
  ASSUME IInv, UNCHANGED <<ask, context>>, phase # "plan", phase' # "plan",
         phase' \in {"context", "select"} => phase \in {"context", "select"},
         context.todo = <<>>
  PROVE  ContextInv'
<1>1. Fair' = Fair
  BY DEF Fair
<1> QED
  BY <1>1 DEF IInv, ContextInv

LEMMA ContextDoneStep == IInv /\ ContextDone => IInv'
<1> SUFFICES ASSUME IInv, ContextDone PROVE IInv'
  OBVIOUS
<1>1. RequestTypeOK'
  BY DEF IInv, ContextDone, RequestTypeOK, Phases
<1>2. ContextInv'
  BY ContextKept DEF ContextDone
<1>3. LimitsInv'
  BY DEF IInv, ContextDone, LimitsInv
<1> QED
  BY <1>1, <1>2, <1>3 DEF IInv

\* Only usable published limits are taken over.
LEMMA SelectStep == IInv /\ Select => IInv'
<1> SUFFICES ASSUME IInv, Select PROVE IInv'
  OBVIOUS
<1>1. /\ phase = "select" /\ phase' = "limits" /\ UNCHANGED <<ask, context, attempt>>
      /\ models' \subseteq Models
      /\ capability' = [m \in {n \in models' : Usable(Catalog[n])} |-> Catalog[m]]
  BY DEF Select
<1>2. /\ DOMAIN capability' = {n \in models' : Usable(Catalog[n])}
      /\ \A m \in DOMAIN capability' : capability'[m] = Catalog[m]
  BY <1>1
<1>3. \A m \in DOMAIN capability' :
        m \in models' /\ capability'[m] \in Limits /\ Usable(capability'[m])
  BY <1>1, <1>2, RequestAssumption
<1>4. attempt = 0
  BY <1>1 DEF IInv, LimitsInv
<1>5. RequestTypeOK'
  BY <1>1, <1>3 DEF IInv, RequestTypeOK, Phases
<1>6. ContextInv'
  <2>1. context.todo = <<>>
    BY <1>1 DEF IInv, ContextInv
  <2> QED
    BY <2>1, <1>1, ContextKept
<1>7. LimitsInv'
  BY <1>1, <1>3, <1>4 DEF LimitsInv
<1> QED
  BY <1>5, <1>6, <1>7 DEF IInv

LEMMA DeclineStep == IInv /\ Decline => IInv'
<1> SUFFICES ASSUME IInv, Decline PROVE IInv'
  OBVIOUS
<1>1. RequestTypeOK'
  BY DEF IInv, Decline, RequestTypeOK, Phases
<1>2. ContextInv'
  <2>1. context.todo = <<>>
    BY DEF IInv, ContextInv, Decline
  <2> QED
    BY <2>1, ContextKept DEF Decline
<1>3. LimitsInv'
  BY DEF IInv, Decline, LimitsInv
<1> QED
  BY <1>1, <1>2, <1>3 DEF IInv

\* A dialog adds acceptable limits for one model, or counts as an attempt.
LEMMA ConfigureStep ==
  ASSUME NEW limits \in Limits, IInv, Configure(limits)
  PROVE  IInv'
<1>1. /\ phase = "limits" /\ Unknown # {} /\ UNCHANGED <<ask, context, models>>
  BY DEF Configure
<1>2. ContextInv'
  <2>1. context.todo = <<>>
    BY <1>1 DEF IInv, ContextInv
  <2>2. phase' \in {"limits", "declined"}
    BY <1>1 DEF Configure
  <2> QED
    BY <2>1, <2>2, <1>1, ContextKept
<1>3. attempt \in 0 .. 2
  BY <1>1 DEF IInv, LimitsInv
<1>4. CASE Acceptable(limits)
  <2> DEFINE m == CHOOSE n \in Unknown : TRUE
  <2>1. m \in Unknown
    BY <1>1
  <2>2. /\ capability' = [n \in DOMAIN capability \union {m} |->
                            IF n = m THEN limits ELSE capability[n]]
        /\ attempt' = 0 /\ phase' = phase
    BY <1>4 DEF Configure
  <2> HIDE DEF m
  <2>3. m \in models /\ m \notin DOMAIN capability /\ Usable(limits)
    BY <2>1, <1>4 DEF Unknown, Acceptable
  <2>4. /\ DOMAIN capability' = DOMAIN capability \union {m}
        /\ \A n \in DOMAIN capability' :
             capability'[n] = IF n = m THEN limits ELSE capability[n]
    BY <2>2
  <2>5. RequestTypeOK'
    BY <2>2, <2>3, <2>4, <1>1 DEF IInv, RequestTypeOK
  <2>6. LimitsInv'
    BY <2>2, <2>3, <2>4, <1>1 DEF IInv, LimitsInv
  <2> QED
    BY <2>5, <2>6, <1>2 DEF IInv
<1>5. CASE ~Acceptable(limits)
  <2>1. /\ capability' = capability /\ attempt' = attempt + 1
        /\ phase' = IF attempt = 2 THEN "declined" ELSE phase
    BY <1>5 DEF Configure, LastDialog
  <2>2. RequestTypeOK'
    BY <2>1, <1>1, <1>3 DEF IInv, RequestTypeOK, Phases
  <2>3. LimitsInv'
    BY <2>1, <1>1, <1>3 DEF IInv, LimitsInv
  <2> QED
    BY <2>2, <2>3, <1>2 DEF IInv
<1> QED
  BY <1>4, <1>5

\* Nothing is submitted while a model has no limits.
LEMMA SubmitStep == IInv /\ Submit => IInv'
<1> SUFFICES ASSUME IInv, Submit PROVE IInv'
  OBVIOUS
<1>1. /\ phase = "limits" /\ phase' \in {"submitted", "declined"} /\ Unknown = {}
      /\ UNCHANGED <<ask, context, models, capability, attempt>>
  BY DEF Submit
<1>2. RequestTypeOK'
  BY <1>1 DEF IInv, RequestTypeOK, Phases
<1>3. ContextInv'
  <2>1. context.todo = <<>>
    BY <1>1 DEF IInv, ContextInv
  <2> QED
    BY <2>1, <1>1, ContextKept
<1>4. DOMAIN capability = models
  BY <1>1 DEF IInv, RequestTypeOK, Unknown
<1>5. LimitsInv'
  BY <1>1, <1>4 DEF IInv, LimitsInv
<1> QED
  BY <1>2, <1>3, <1>5 DEF IInv

LEMMA CreateJobStep == IInv /\ CreateJob => IInv'
<1> SUFFICES ASSUME IInv, CreateJob PROVE IInv'
  OBVIOUS
<1>1. /\ phase = "submitted" /\ phase' \in {"accepted", "rejected"}
      /\ UNCHANGED <<ask, context, models, capability, attempt>>
  BY DEF CreateJob
<1>2. RequestTypeOK'
  BY <1>1 DEF IInv, RequestTypeOK, Phases
<1>3. ContextInv'
  <2>1. context.todo = <<>>
    BY <1>1 DEF IInv, ContextInv
  <2> QED
    BY <2>1, <1>1, ContextKept
<1>4. LimitsInv'
  BY <1>1 DEF IInv, LimitsInv
<1> QED
  BY <1>2, <1>3, <1>4 DEF IInv

LEMMA StutterStep == IInv /\ UNCHANGED rvars => IInv'
<1> SUFFICES ASSUME IInv, UNCHANGED rvars PROVE IInv'
  OBVIOUS
<1>1. Fair' = Fair /\ PerDocument' = PerDocument
  BY DEF rvars, Fair, PerDocument
<1>2. RequestTypeOK'
  BY DEF IInv, rvars, RequestTypeOK
<1>3. ContextInv'
  BY <1>1 DEF IInv, rvars, ContextInv
<1>4. LimitsInv'
  BY DEF IInv, rvars, LimitsInv
<1> QED
  BY <1>2, <1>3, <1>4 DEF IInv

\* The inductive invariant of requests.
THEOREM RequestInvariant == RequestSpec => []IInv
<1>1. RequestInit => IInv
  BY InitIInv
<1>2. IInv /\ [RequestNext]_rvars => IInv'
  <2> SUFFICES ASSUME IInv, [RequestNext]_rvars PROVE IInv'
    OBVIOUS
  <2>1. ASSUME NEW c \in LimitAnswers, NEW o \in LimitAnswers,
               Configure([context |-> c, output |-> o])
        PROVE  IInv'
    <3>1. [context |-> c, output |-> o] \in Limits
      BY RequestAssumption DEF Limits
    <3> QED
      BY <3>1, <2>1, ConfigureStep
  <2> QED
    BY <2>1, PlanStep, CompactStep, ContextDoneStep, SelectStep, DeclineStep,
       SubmitStep, CreateJobStep, StutterStep DEF RequestNext
<1> QED
  BY <1>1, <1>2, PTL DEF RequestSpec

------------------------------------------------------------------------------
(* What follows. *)

\* Every variable of a request keeps its type (RequestTypeOK).
THEOREM RequestTypeCorrect == RequestSpec => []RequestTypeOK
<1>1. IInv => RequestTypeOK
  BY DEF IInv
<1> QED
  BY <1>1, RequestInvariant, PTL

\* Every submitted request names usable limits for exactly the models selected in
\* it, however often wrong ones were typed in (OneCapabilityPerModel).
THEOREM LimitsComplete == RequestSpec => []OneCapabilityPerModel
<1>1. IInv => OneCapabilityPerModel
  BY DEF IInv, LimitsInv, OneCapabilityPerModel
<1> QED
  BY <1>1, RequestInvariant, PTL

\* With 2000 characters for each document the snapshot stays within the limit of
\* the valve, and every distinct text is in it, if only its end (FairContext).
THEOREM ContextComplete == RequestSpec => []FairContext
<1>1. ASSUME IInv PROVE FairContext
  <2>1. ContextWithinFairLimit
    <3>1. context.used \in Nat /\ context.left \in Int /\ CharLimit \in Nat
      BY <1>1, RequestAssumption DEF IInv, RequestTypeOK
    <3>2. /\ context.used + context.left = CharLimit
          /\ Fair => context.left >= 0
      BY <1>1 DEF IInv, ContextInv
    <3> QED
      BY <3>1, <3>2 DEF Fair, ContextWithinFairLimit
  <2>2. EveryDocumentKept
    <3>1. phase = "select" /\ Fair => context.seen = Texts(ask.documents)
      BY <1>1, NoTexts DEF IInv, ContextInv
    <3> QED
      BY <3>1 DEF Fair, Texts, EveryDocumentKept
  <2> QED
    BY <2>1, <2>2 DEF FairContext
<1> QED
  BY <1>1, RequestInvariant, PTL

------------------------------------------------------------------------------
(* The two computations of the query budget. *)

\* The breadth of each level, for the at most four levels of a shape.
LEMMA BreadthOfLevel ==
  ASSUME NEW s, InRange(s)
  PROVE  \A l \in 1 .. s[2] :
           BreadthAt(s)[l] = IF l = 1 THEN s[1] ELSE Larger(2, BreadthAt(s)[l - 1] \div 2)
<1> DEFINE body(f) == [l \in 1 .. s[2] |->
                         IF l = 1 THEN s[1] ELSE Larger(2, f[l - 1] \div 2)]
<1>1. \E f : f = body(f)
  <2> DEFINE x == Larger(2, s[1] \div 2)
             y == Larger(2, x \div 2)
             z == Larger(2, y \div 2)
             g == [l \in 1 .. s[2] |-> IF l = 1 THEN s[1] ELSE IF l = 2 THEN x
                                       ELSE IF l = 3 THEN y ELSE z]
  <2>1. s[2] \in 1 .. 4
    BY DEF InRange
  <2>2. ASSUME NEW l \in 1 .. s[2]
        PROVE  g[l] = IF l = 1 THEN s[1] ELSE Larger(2, g[l - 1] \div 2)
    <3>1. l \in {1, 2, 3, 4} /\ (l # 1 => l - 1 \in 1 .. s[2])
      BY <2>1
    <3> HIDE DEF x, y, z
    <3>2. CASE l = 1
      BY <3>2
    <3>3. CASE l = 2
      BY <3>1, <3>3 DEF x
    <3>4. CASE l = 3
      BY <3>1, <3>4 DEF y
    <3>5. CASE l = 4
      BY <3>1, <3>5 DEF z
    <3> QED
      BY <3>1, <3>2, <3>3, <3>4, <3>5
  <2>3. g = body(g)
    BY <2>2
  <2> QED
    BY <2>3
<1>2. BreadthAt(s) = CHOOSE f : f = body(f)
  BY DEF BreadthAt
<1>3. BreadthAt(s) = body(BreadthAt(s))
  BY <1>1, <1>2
<1> QED
  BY <1>3

\* The workers of each level.
LEMMA WorkersOfLevel ==
  ASSUME NEW s, InRange(s)
  PROVE  \A l \in 1 .. s[2] :
           WorkersAt(s)[l] = IF l = 1 THEN s[1] ELSE WorkersAt(s)[l - 1] * BreadthAt(s)[l]
<1> DEFINE b == BreadthAt(s)
           body(f) == [l \in 1 .. s[2] |-> IF l = 1 THEN s[1] ELSE f[l - 1] * b[l]]
<1>1. \E f : f = body(f)
  <2> DEFINE x == s[1] * b[2]
             y == x * b[3]
             z == y * b[4]
             g == [l \in 1 .. s[2] |-> IF l = 1 THEN s[1] ELSE IF l = 2 THEN x
                                       ELSE IF l = 3 THEN y ELSE z]
  <2>1. s[2] \in 1 .. 4
    BY DEF InRange
  <2>2. ASSUME NEW l \in 1 .. s[2]
        PROVE  g[l] = IF l = 1 THEN s[1] ELSE g[l - 1] * b[l]
    <3>1. l \in {1, 2, 3, 4} /\ (l # 1 => l - 1 \in 1 .. s[2])
      BY <2>1
    <3> HIDE DEF b, x, y, z
    <3>2. CASE l = 1
      BY <3>2
    <3>3. CASE l = 2
      BY <3>1, <3>3 DEF x
    <3>4. CASE l = 3
      BY <3>1, <3>4 DEF y
    <3>5. CASE l = 4
      BY <3>1, <3>5 DEF z
    <3> QED
      BY <3>1, <3>2, <3>3, <3>4, <3>5
  <2> HIDE DEF b
  <2>3. g = body(g)
    BY <2>2
  <2> QED
    BY <2>3
<1>2. WorkersAt(s) = CHOOSE f : f = body(f)
  BY DEF WorkersAt
<1>3. WorkersAt(s) = body(WorkersAt(s))
  BY <1>1, <1>2
<1> QED
  BY <1>3

\* The running total.
LEMMA TotalOfLevels ==
  ASSUME NEW s, InRange(s)
  PROVE  \E t : /\ t = [l \in 0 .. s[2] |-> IF l = 0 THEN 0 ELSE t[l - 1] + WorkersAt(s)[l]]
                /\ TotalWorkers(s) = t[s[2]]
<1> DEFINE w == WorkersAt(s)
           body(f) == [l \in 0 .. s[2] |-> IF l = 0 THEN 0 ELSE f[l - 1] + w[l]]
           t == CHOOSE f : f = body(f)
<1>1. \E f : f = body(f)
  <2> DEFINE v == 0 + w[1]
             x == v + w[2]
             y == x + w[3]
             z == y + w[4]
             g == [l \in 0 .. s[2] |-> IF l = 0 THEN 0 ELSE IF l = 1 THEN v
                                       ELSE IF l = 2 THEN x
                                       ELSE IF l = 3 THEN y ELSE z]
  <2>1. s[2] \in 1 .. 4
    BY DEF InRange
  <2>2. ASSUME NEW l \in 0 .. s[2]
        PROVE  g[l] = IF l = 0 THEN 0 ELSE g[l - 1] + w[l]
    <3>1. l \in {0, 1, 2, 3, 4} /\ (l # 0 => l - 1 \in 0 .. s[2])
      BY <2>1
    <3> HIDE DEF w, v, x, y, z
    <3>2. CASE l = 0
      BY <3>2
    <3>3. CASE l = 1
      BY <3>1, <3>3 DEF v
    <3>4. CASE l = 2
      BY <3>1, <3>4 DEF x
    <3>5. CASE l = 3
      BY <3>1, <3>5 DEF y
    <3>6. CASE l = 4
      BY <3>1, <3>6 DEF z
    <3> QED
      BY <3>1, <3>2, <3>3, <3>4, <3>5, <3>6
  <2> HIDE DEF w
  <2>3. g = body(g)
    BY <2>2
  <2> QED
    BY <2>3
<1>2. t = body(t)
  BY <1>1
<1>3. TotalWorkers(s) = t[s[2]]
  BY DEF TotalWorkers
<1> QED
  BY <1>2, <1>3

\* The pipe, which keeps breadth, workers and total in one loop, and the domain
\* model of the gateway compute the same estimate for every shape in range.
LEMMA EstimatesAgree ==
  ASSUME NEW s, InRange(s)
  PROVE  PipeEstimate(s) = DomainEstimate(s)
<1>1. PICK t : /\ t = [l \in 0 .. s[2] |-> IF l = 0 THEN 0 ELSE t[l - 1] + WorkersAt(s)[l]]
               /\ TotalWorkers(s) = t[s[2]]
  BY TotalOfLevels
<1>2. s[1] \in Nat /\ s[2] \in 1 .. 4
  BY DEF InRange
<1> DEFINE b == BreadthAt(s)
           w == WorkersAt(s)
           next(r) == LET c == Larger(2, r.breadth \div 2)
                          n == r.level * c
                      IN [breadth |-> c, level |-> n, total |-> r.total + n]
           first == [breadth |-> s[1], level |-> s[1], total |-> s[1]]
           body(f) == [l \in 1 .. s[2] |-> IF l = 1 THEN first ELSE next(f[l - 1])]
           tree == CHOOSE f : f = body(f)
           g == [l \in 1 .. s[2] |-> [breadth |-> b[l], level |-> w[l], total |-> t[l]]]
<1>3. ASSUME NEW l \in 1 .. s[2]
      PROVE  g[l] = IF l = 1 THEN first ELSE next(g[l - 1])
  <2>1. b[l] = IF l = 1 THEN s[1] ELSE Larger(2, b[l - 1] \div 2)
    BY BreadthOfLevel
  <2>2. w[l] = IF l = 1 THEN s[1] ELSE w[l - 1] * b[l]
    BY WorkersOfLevel
  <2>3. /\ l # 1 => l - 1 \in 1 .. s[2]
        /\ 0 \in 0 .. s[2] /\ l \in 0 .. s[2] /\ l # 0
        /\ 1 - 1 = 0 /\ 0 + s[1] = s[1]
    BY <1>2
  <2>4. t[0] = 0 /\ t[l] = t[l - 1] + w[l]
    BY <1>1, <2>3
  <2> HIDE DEF b, w
  <2>5. CASE l = 1
    <3>1. b[l] = s[1] /\ w[l] = s[1] /\ t[l] = s[1]
      BY <2>1, <2>2, <2>3, <2>4, <2>5
    <3> QED
      BY <3>1, <2>5
  <2>6. CASE l # 1
    BY <2>1, <2>2, <2>3, <2>4, <2>6
  <2> QED
    BY <2>5, <2>6
<1>4. g = body(g)
  <2> HIDE DEF next, first
  <2>1. g = [l \in 1 .. s[2] |-> g[l]]
    OBVIOUS
  <2> QED
    BY <2>1, <1>3
<1>5. tree = body(tree)
  <2> HIDE DEF g, body
  <2> QED
    BY <1>4
<1>6. tree[s[2]] = g[s[2]]
  <2> HIDE DEF next, first, g, tree
  <2>1. \A l \in 1 .. s[2] : tree[l] = IF l = 1 THEN first ELSE next(tree[l - 1])
    BY <1>5
  <2>2. \A l \in 1 .. s[2] : l # 1 => l - 1 \in 1 .. s[2]
    BY <1>2
  <2>3. tree[1] = g[1]
    BY <1>2, <1>3, <2>1
  <2>4. 2 \in 1 .. s[2] => tree[2] = g[2]
    BY <1>2, <1>3, <2>1, <2>2, <2>3
  <2>5. 3 \in 1 .. s[2] => tree[3] = g[3]
    BY <1>2, <1>3, <2>1, <2>2, <2>4
  <2>6. 4 \in 1 .. s[2] => tree[4] = g[4]
    BY <1>2, <1>3, <2>1, <2>2, <2>5
  <2> QED
    BY <1>2, <2>3, <2>4, <2>5, <2>6
<1>7. tree[s[2]].total = t[s[2]]
  BY <1>6, <1>2
<1>8. PipeEstimate(s) = 1 + tree[s[2]].total * (s[3] + 2)
  BY DEF PipeEstimate
<1> QED
  BY <1>1, <1>7, <1>8 DEF DomainEstimate

\* Every shape in range asks at least one query.
LEMMA EstimatePositive ==
  ASSUME NEW s, InRange(s)
  PROVE  DomainEstimate(s) \in Nat /\ DomainEstimate(s) >= 1
<1> DEFINE b == BreadthAt(s)
           w == WorkersAt(s)
<1>1. s[1] \in Nat /\ s[2] \in 1 .. 4 /\ s[3] \in Nat
  BY DEF InRange
<1>2. PICK t : /\ t = [l \in 0 .. s[2] |-> IF l = 0 THEN 0 ELSE t[l - 1] + w[l]]
               /\ TotalWorkers(s) = t[s[2]]
  BY TotalOfLevels
<1>3. \A l \in 1 .. s[2] : b[l] = IF l = 1 THEN s[1] ELSE Larger(2, b[l - 1] \div 2)
  BY BreadthOfLevel
<1>4. \A l \in 1 .. s[2] : w[l] = IF l = 1 THEN s[1] ELSE w[l - 1] * b[l]
  BY WorkersOfLevel
<1>5. t[0] = 0 /\ \A l \in 1 .. s[2] : t[l] = t[l - 1] + w[l]
  <2>1. 0 \in 0 .. s[2] /\ \A l \in 1 .. s[2] : l \in 0 .. s[2] /\ l # 0
    BY <1>1
  <2> HIDE DEF w
  <2> QED
    BY <2>1, <1>2
<1> HIDE DEF b, w
<1>6. ASSUME NEW l \in 1 .. 4, l <= s[2],
             l = 1 \/ (b[l - 1] \in Nat /\ w[l - 1] \in Nat /\ t[l - 1] \in Nat)
      PROVE  b[l] \in Nat /\ w[l] \in Nat /\ t[l] \in Nat
  <2>1. l \in 1 .. s[2]
    BY <1>1, <1>6
  <2>2. b[l] \in Nat
    <3>1. CASE l = 1
      BY <3>1, <2>1, <1>1, <1>3
    <3>2. CASE l # 1
      <4>1. b[l - 1] \div 2 \in Int
        BY <3>2, <1>6
      <4>2. Larger(2, b[l - 1] \div 2) \in Nat
        BY <4>1 DEF Larger
      <4> QED
        BY <3>2, <4>2, <2>1, <1>3
    <3> QED
      BY <3>1, <3>2
  <2>3. w[l] \in Nat
    <3>1. CASE l = 1
      BY <3>1, <2>1, <1>1, <1>4
    <3>2. CASE l # 1
      <4>1. w[l - 1] * b[l] \in Nat
        BY <3>2, <2>2, <1>6
      <4> QED
        BY <3>2, <4>1, <2>1, <1>4
    <3> QED
      BY <3>1, <3>2
  <2>4. t[l - 1] \in Nat
    BY <1>5, <1>6
  <2> QED
    BY <2>1, <2>2, <2>3, <2>4, <1>5
<1>7. 1 <= s[2] => b[1] \in Nat /\ w[1] \in Nat /\ t[1] \in Nat
  BY <1>6
<1>8. 2 <= s[2] => b[2] \in Nat /\ w[2] \in Nat /\ t[2] \in Nat
  BY <1>1, <1>6, <1>7
<1>9. 3 <= s[2] => b[3] \in Nat /\ w[3] \in Nat /\ t[3] \in Nat
  BY <1>1, <1>6, <1>8
<1>10. 4 <= s[2] => b[4] \in Nat /\ w[4] \in Nat /\ t[4] \in Nat
  BY <1>1, <1>6, <1>9
<1>11. TotalWorkers(s) \in Nat
  <2>1. s[2] \in {1, 2, 3, 4}
    BY <1>1
  <2>2. t[s[2]] \in Nat
    BY <2>1, <1>7, <1>8, <1>9, <1>10
  <2> QED
    BY <2>2, <1>2
<1>12. TotalWorkers(s) * (s[3] + 2) \in Nat
  BY <1>1, <1>11
<1> QED
  BY <1>12 DEF DomainEstimate

------------------------------------------------------------------------------
(* What the gateway refuses. *)

\* Documents are told apart by their ids.
Distinct(s) == \A i, j \in 1 .. Len(s) : s[i].id = s[j].id => i = j

\* Nothing that is kept comes again.
IdentityInv ==
  /\ Distinct(ask.documents) /\ Distinct(context.todo)
  /\ phase = "plan" => context.kept = {}
  /\ \A i \in 1 .. Len(context.todo) : context.todo[i].id \notin context.kept
  /\ IsFiniteSet(context.kept) /\ Cardinality(context.kept) = context.count

\* What the pipe has made sure of by the time it submits.
SubmitInv ==
  /\ phase \notin {"plan", "declined"} => InRange(Shape(ask)) /\ WithinBudget(ask)
  /\ phase = "plan" => context.count = 0 /\ context.todo = <<>>
  /\ context.count + Len(context.todo) <= Len(ask.documents)
  /\ phase \in {"limits", "submitted", "accepted"} => \E m, n, k : models = {m, n, k}
  /\ RefusedForTheList

\* A document of another id is one more.
LEMMA OneMoreKept ==
  ASSUME NEW K, IsFiniteSet(K), NEW n \in Nat, Cardinality(K) = n, NEW x, x \notin K
  PROVE  IsFiniteSet(K \union {x}) /\ Cardinality(K \union {x}) = n + 1
BY FS_AddElement

LEMMA IdentityStep == IInv /\ IdentityInv /\ [RequestNext]_rvars => IdentityInv'
<1> SUFFICES ASSUME IInv, IdentityInv, [RequestNext]_rvars PROVE IdentityInv'
  OBVIOUS
<1>0. /\ context.count \in Nat /\ context.todo \in Seq(Document) /\ phase \in Phases
  BY DEF IInv, RequestTypeOK
<1>1. CASE Plan
  <2>1. /\ phase = "plan" /\ phase' # "plan" /\ ask' = ask
        /\ context'.kept = context.kept /\ context'.count = context.count
        /\ context'.todo \in {context.todo, ask.documents}
    BY <1>1 DEF Plan, IInv, RequestTypeOK
  <2>2. context.kept = {}
    BY <2>1 DEF IdentityInv
  <2> QED
    BY <2>1, <2>2 DEF IdentityInv, Distinct
<1>2. CASE Compact
  <2> DEFINE d == Head(context.todo)
             t == Tail(context.todo)
  <2>1. /\ phase = "context" /\ phase' = phase /\ ask' = ask
        /\ context.todo # <<>> /\ context'.todo = t
        /\ \/ context'.kept = context.kept /\ context'.count = context.count
           \/ context'.kept = context.kept \union {d.id} /\ context'.count = context.count + 1
    BY <1>2 DEF Compact, IInv, RequestTypeOK
  <2>2. /\ d = context.todo[1] /\ Len(context.todo) \in Nat \ {0}
        /\ Len(t) = Len(context.todo) - 1
        /\ \A i \in 1 .. Len(t) : t[i] = context.todo[i + 1]
    BY <2>1, <1>0
  <2> HIDE DEF d, t
  <2>3. /\ 1 \in 1 .. Len(context.todo)
        /\ \A i \in 1 .. Len(t) : i + 1 \in 1 .. Len(context.todo) /\ i + 1 # 1
    BY <2>2
  <2>4. \A i \in 1 .. Len(t) : t[i].id # d.id /\ t[i].id \notin context.kept
    BY <2>2, <2>3 DEF IdentityInv, Distinct
  <2>5. Distinct(t)
    <3>1. ASSUME NEW i \in 1 .. Len(t), NEW j \in 1 .. Len(t), t[i].id = t[j].id
          PROVE  i = j
      <4>1. context.todo[i + 1].id = context.todo[j + 1].id
        BY <2>2, <3>1
      <4>2. i + 1 \in 1 .. Len(context.todo) /\ j + 1 \in 1 .. Len(context.todo)
        BY <2>3
      <4>3. i + 1 = j + 1
        BY <4>1, <4>2 DEF IdentityInv, Distinct
      <4> QED
        BY <4>3
    <3> QED
      BY <3>1 DEF Distinct
  <2>6. /\ d.id \notin context.kept
        /\ IsFiniteSet(context.kept) /\ Cardinality(context.kept) = context.count
    BY <2>2, <2>3 DEF IdentityInv
  <2>7. IsFiniteSet(context'.kept) /\ Cardinality(context'.kept) = context'.count
    <3>1. /\ IsFiniteSet(context.kept \union {d.id})
          /\ Cardinality(context.kept \union {d.id}) = context.count + 1
      BY <2>6, <1>0, OneMoreKept
    <3> QED
      BY <2>1, <2>6, <3>1
  <2>8. \A i \in 1 .. Len(context'.todo) : context'.todo[i].id \notin context'.kept
    BY <2>1, <2>4
  <2> QED
    BY <2>1, <2>5, <2>7, <2>8 DEF IdentityInv, Distinct
<1>3. CASE \/ ContextDone \/ Select \/ Decline \/ Submit \/ CreateJob \/ UNCHANGED rvars
           \/ \E c, o \in LimitAnswers : Configure([context |-> c, output |-> o])
  <2>1. UNCHANGED <<ask, context>> /\ (phase' = phase \/ phase' # "plan")
    BY <1>3 DEF ContextDone, Select, Decline, Submit, CreateJob, Configure, rvars
  <2> QED
    BY <2>1 DEF IdentityInv, Distinct
<1> QED
  BY <1>1, <1>2, <1>3 DEF RequestNext

\* CreateJobRequest takes one to three models.
LEMMA UpToThree ==
  ASSUME NEW m, NEW n, NEW k
  PROVE  Cardinality({m, n, k}) \in 1 .. 3
<1>1. IsFiniteSet({m}) /\ Cardinality({m}) = 1
  BY FS_Singleton
<1>2. /\ IsFiniteSet({m} \union {n})
      /\ Cardinality({m} \union {n}) \in 1 .. 2
  BY <1>1, FS_AddElement
<1>3. Cardinality({m} \union {n} \union {k}) \in 1 .. 3
  BY <1>2, FS_AddElement
<1>4. {m, n, k} = {m} \union {n} \union {k}
  OBVIOUS
<1> QED
  BY <1>3, <1>4

\* Whatever the gateway refuses is on the list.
LEMMA RefusalStep == IInv /\ IdentityInv /\ SubmitInv /\ CreateJob => RefusedForTheList'
<1> SUFFICES ASSUME IInv, IdentityInv, SubmitInv, CreateJob, ~RefusedForTheList' PROVE FALSE
  OBVIOUS
<1>0. ~NotLookedAt
  <2>1. NotLookedAt' = NotLookedAt
    BY DEF CreateJob, NotLookedAt
  <2> QED
    BY <2>1 DEF RefusedForTheList
<1>1. phase = "submitted" /\ ~(WellFormed /\ Affordable)
  BY DEF CreateJob, RefusedForTheList
<1>2. InRange(Shape(ask)) /\ WithinBudget(ask)
  BY <1>1 DEF SubmitInv
<1>3. DOMAIN capability = models /\ \A m \in models : Usable(capability[m])
  BY <1>1 DEF IInv, LimitsInv
<1>4. Cardinality(DOMAIN capability) \in 1 .. 3
  <2>1. PICK m, n, k : models = {m, n, k}
    BY <1>1 DEF SubmitInv
  <2>2. Cardinality({m, n, k}) \in 1 .. 3
    BY UpToThree
  <2> QED
    BY <1>3, <2>1, <2>2
<1>5. /\ ask \in Ask /\ context.used \in Nat /\ context.longest \in Nat
      /\ context.count \in Nat /\ context.todo \in Seq(Document)
  BY RequestAssumption DEF IInv, RequestTypeOK
<1>6. /\ ask.query \in Nat /\ ask.wall \in Nat /\ ask.sources \in Nat /\ ask.budget \in Nat
      /\ ask.documents \in Seq(Document)
      /\ ask.strategy \in Strategies
  BY <1>5 DEF Ask
<1>7. Len(ask.documents) \in Nat /\ Len(context.todo) \in Nat
  BY <1>5, <1>6
<1>13. /\ ask.query \in QueryLengths /\ ask.fits
       /\ ask.wall \in 60 .. HardWallTime
       /\ ~(ask.sources > 200) /\ ~(Len(ask.documents) > 50)
       /\ ~(context.longest > LongestDocument) /\ ~(context.used > CharLimit)
  BY <1>0 DEF NotLookedAt
<1>9. /\ ask.budget <= HardMaxQueries
      /\ ask.wall >= 60 /\ ask.wall <= HardWallTime
  <2>1. ask.wall \in 60 .. HardWallTime
    BY <1>13
  <2> QED
    BY <2>1, <1>2, <1>6, RequestAssumption DEF WithinBudget
<1>10. DomainEstimate(Shape(ask)) <= ask.budget
  BY <1>2, EstimatesAgree DEF WithinBudget
<1>11. FieldsFit
  <2>1. DomainEstimate(Shape(ask)) \in Nat /\ DomainEstimate(Shape(ask)) >= 1
    BY <1>2, EstimatePositive
  <2>2. ask.budget >= 1
    BY <2>1, <1>6, <1>10
  <2>3. ask.sources <= 200
    <3>1. ~(ask.sources > 200)
      BY <1>13
    <3> QED
      BY <3>1, <1>6
  <2> QED
    BY <2>2, <2>3, <1>9, <1>13 DEF FieldsFit
<1>12. PresetKept
  BY <1>6 DEF PresetKept, Shape, Preset, RESEARCH_PRESETS, Strategies
<1>8. WellFormed
  <2>1. context.count <= Len(ask.documents)
    BY <1>5, <1>7 DEF SubmitInv
  <2>2. Cardinality(context.kept) = context.count
    BY DEF IdentityInv
  <2>3. /\ Len(ask.documents) <= 50
        /\ context.longest <= LongestDocument /\ context.used <= CharLimit
    <3>1. LongestDocument \in Nat /\ CharLimit \in Nat
      BY RequestAssumption DEF LongestDocument
    <3> QED
      BY <3>1, <1>5, <1>7, <1>13
  <2>4. context.count <= 50 /\ context.used <= 500000
    BY <2>1, <2>3, <1>5, <1>7, RequestAssumption, LimitAssumption
  <2> QED
    BY <2>2, <2>3, <2>4, <1>2, <1>3, <1>4, <1>11, <1>12 DEF WellFormed
<1> QED
  BY <1>1, <1>8, <1>9, <1>10 DEF Affordable

\* Only CreateJob refuses.
LEMMA NotRefused ==
  phase' # "rejected" \/ (RefusedForTheList /\ UNCHANGED <<phase, ask, context>>)
    => RefusedForTheList'
<1>1. UNCHANGED <<ask, context>> => NotLookedAt' = NotLookedAt
  BY DEF NotLookedAt
<1> QED
  BY <1>1 DEF RefusedForTheList

LEMMA SubmitInvStep ==
  IInv /\ IdentityInv /\ SubmitInv /\ [RequestNext]_rvars => SubmitInv'
<1> SUFFICES ASSUME IInv, IdentityInv, SubmitInv, [RequestNext]_rvars PROVE SubmitInv'
  OBVIOUS
<1>0. /\ context.count \in Nat /\ context.todo \in Seq(Document)
      /\ ask.documents \in Seq(Document) /\ phase \in Phases
  BY RequestAssumption DEF IInv, RequestTypeOK, Ask
<1>1. CASE Plan
  <2>1. /\ phase = "plan" /\ phase' \in {"context", "declined"} /\ ask' = ask
        /\ context'.count = context.count
        /\ Len(context'.todo) \in {Len(context.todo), Len(ask.documents)}
        /\ phase' = "context" => InRange(Shape(ask)) /\ WithinBudget(ask)
    BY <1>1 DEF Plan, IInv, RequestTypeOK
  <2>2. context.count = 0 /\ context.todo = <<>>
    BY <2>1 DEF SubmitInv
  <2> QED
    BY <2>1, <2>2, <1>0, NotRefused DEF SubmitInv
<1>2. CASE Compact
  <2>1. /\ phase = "context" /\ UNCHANGED <<phase, ask, models>>
        /\ context.todo # <<>> /\ context'.todo = Tail(context.todo)
        /\ context'.count \in {context.count, context.count + 1}
    BY <1>2 DEF Compact, IInv, RequestTypeOK
  <2>2. Len(context'.todo) = Len(context.todo) - 1
    BY <2>1, <1>0
  <2>3. context'.count + Len(context'.todo) <= Len(ask'.documents)
    BY <2>1, <2>2, <1>0 DEF SubmitInv
  <2> QED
    BY <2>1, <2>3, NotRefused DEF SubmitInv
<1>3. CASE Select
  <2>1. \E m, n, k : models' = {m, n, k}
    BY <1>3 DEF Select
  <2>2. phase = "select" /\ phase' = "limits" /\ UNCHANGED <<ask, context>>
    BY <1>3 DEF Select
  <2> QED
    BY <2>1, <2>2, NotRefused DEF SubmitInv
<1>4. CASE \/ ContextDone \/ Decline \/ Submit \/ UNCHANGED rvars
           \/ \E c, o \in LimitAnswers : Configure([context |-> c, output |-> o])
  <2>1. /\ UNCHANGED <<ask, context, models>>
        /\ \/ UNCHANGED phase
           \/ phase = "context" /\ phase' = "select"
           \/ phase' = "declined"
           \/ phase = "limits" /\ phase' = "submitted"
    BY <1>4 DEF ContextDone, Decline, Submit, Configure, rvars
  <2> QED
    BY <2>1, NotRefused DEF SubmitInv
<1>5. CASE CreateJob
  <2>1. /\ UNCHANGED <<ask, context, models>>
        /\ phase = "submitted" /\ phase' \in {"accepted", "rejected"}
    BY <1>5 DEF CreateJob
  <2>2. RefusedForTheList'
    BY <1>5, RefusalStep
  <2> QED
    BY <2>1, <2>2 DEF SubmitInv
<1> QED
  BY <1>1, <1>2, <1>3, <1>4, <1>5 DEF RequestNext

\* What the pipe submits is refused only for what it passes on without a look (the
\* lengths of the strings, the wall time, the numbers of sources and documents, a
\* document or a context that came out too long), and it has a usable pair of
\* limits for each of its models (SubmittedIsSound).
THEOREM SubmissionsSound == RequestSpec => []SubmittedIsSound
<1>1. RequestInit => IdentityInv /\ SubmitInv
  <2> SUFFICES ASSUME RequestInit PROVE IdentityInv /\ SubmitInv
    OBVIOUS
  <2>1. ask.documents \in Seq(Document)
    BY RequestAssumption DEF RequestInit, Ask
  <2>2. /\ phase = "plan" /\ context.count = 0 /\ context.todo = <<>> /\ context.kept = {}
        /\ ask \in Asks
    BY DEF RequestInit
  <2>3. Distinct(ask.documents)
    <3>1. DOMAIN ask.documents = 1 .. Len(ask.documents)
      BY <2>1
    <3> QED
      BY <2>2, <3>1, RequestAssumption DEF Distinct
  <2>4. IsFiniteSet({}) /\ Cardinality({}) = 0
    BY FS_EmptySet
  <2>5. IdentityInv
    BY <2>2, <2>3, <2>4 DEF IdentityInv, Distinct
  <2> QED
    BY <2>1, <2>2, <2>5 DEF SubmitInv, RefusedForTheList
<1>2. SubmitInv /\ OneCapabilityPerModel => SubmittedIsSound
  BY DEF SubmitInv, SubmittedIsSound
<1> QED
  BY <1>1, <1>2, IdentityStep, SubmitInvStep, RequestInvariant, LimitsComplete, PTL
     DEF RequestSpec

------------------------------------------------------------------------------
(* The model calls of a job. *)

\* A call that was sent names a model of the job and fits its limits.
CallFits(c) ==
  /\ call[c].model \in DOMAIN capability
  /\ call[c].size + call[c].limit + SafetyTokens <= capability[call[c].model].context
  /\ call[c].limit <= capability[call[c].model].output

Waiting(c) == call[c].stage \in {"new", "refused"}

\* Nothing is sent before the job exists.
CallsInv ==
  /\ phase # "accepted" => \A c \in Calls : Waiting(c)
  /\ \A c \in Calls : Waiting(c) \/ CallFits(c)

\* The invariant of requests, and that of their jobs' calls.
JobInv == IInv /\ Proxy!ProxyTypeOK /\ CallsInv

Call == [stage : Proxy!Stages, attempt : Nat, model : Models \union {NoAsk},
         stream : BOOLEAN, size : Nat, limit : Nat, output : Nat,
         answered : BOOLEAN, delivered : BOOLEAN]

------------------------------------------------------------------------------
(* The proxy leaves the request alone. *)

LEMMA LimitsFrozen == Proxy!ProxyNext => UNCHANGED capability
BY DEF Proxy!ProxyNext, Proxy!CancelRequested, Proxy!Complete, Proxy!End, Proxy!Requeue, Proxy!Refuse,
       Proxy!UpstreamFails, Proxy!Count, Proxy!EndStream, Proxy!BreakStream,
       Proxy!Exhaust, Proxy!Admit, Proxy!Answer

LEMMA RequestStep == [Next]_vars => [RequestNext]_rvars
<1>1. Work => UNCHANGED rvars
  BY LimitsFrozen DEF Work, rvars
<1> QED
  BY <1>1 DEF Next, Prepare, vars, rvars

\* A job and its calls implement the request they come from.
THEOREM ImplementsRequest == Spec => RequestSpec
<1>1. Init => RequestInit
  BY DEF Init
<1> QED
  BY <1>1, RequestStep, PTL DEF Spec, RequestSpec

------------------------------------------------------------------------------
(* Calls. *)

LEMMA CallTypes ==
  ASSUME Proxy!ProxyTypeOK
  PROVE  call \in [Calls -> Call] /\ row \in Proxy!Row
BY DEF Proxy!ProxyTypeOK, Call

\* The limit of an admitted call fits the model, whatever the runner asked for.
LEMMA LimitFits ==
  ASSUME IInv, NEW m \in DOMAIN capability, NEW size \in InputSizes,
         NEW asked \in OutputAsks \union {NoAsk}, Proxy!Capacity(m, size) > 0
  PROVE  /\ Proxy!OutputLimit(m, size, asked) \in Nat
         /\ size + Proxy!OutputLimit(m, size, asked) + SafetyTokens <= capability[m].context
         /\ Proxy!OutputLimit(m, size, asked) <= capability[m].output
<1>1. capability[m].context \in Nat /\ capability[m].output \in Nat
  BY DEF IInv, RequestTypeOK, Limits
<1>2. /\ size \in Nat /\ SafetyTokens \in Nat
      /\ asked = NoAsk \/ asked \in Nat
  BY ProxyAssumption
<1> QED
  BY <1>1, <1>2 DEF Proxy!Capacity, Proxy!OutputLimit, Proxy!Smaller

\* A step that keeps row and limits and changes one call as its reader may.
LEMMA CallStep ==
  ASSUME JobInv, UNCHANGED <<phase, capability>>, phase = "accepted",
         NEW c \in Calls, NEW r \in Call, call' = [call EXCEPT ![c] = r],
         row' \in Proxy!Row,
         \/ r.stage \in {"new", "refused"}
         \/ /\ r.model \in DOMAIN capability
            /\ r.size + r.limit + SafetyTokens <= capability[r.model].context
            /\ r.limit <= capability[r.model].output
  PROVE  Proxy!ProxyTypeOK' /\ CallsInv'
<1>1. call \in [Calls -> Call]
  BY CallTypes DEF JobInv
<1>2. call' \in [Calls -> Call]
  BY <1>1
<1>3. Proxy!ProxyTypeOK'
  BY <1>2 DEF Proxy!ProxyTypeOK, Call
<1>4. ASSUME NEW d \in Calls PROVE Waiting(d)' \/ CallFits(d)'
  <2>1. CASE d = c
    <3>1. call'[d] = r
      BY <2>1, <1>1
    <3> QED
      BY <3>1 DEF Waiting, CallFits
  <2>2. CASE d # c
    <3>1. call'[d] = call[d]
      BY <2>2, <1>1
    <3>2. Waiting(d) \/ CallFits(d)
      BY DEF JobInv, CallsInv
    <3> QED
      BY <3>1, <3>2 DEF Waiting, CallFits
  <2> QED
    BY <2>1, <2>2
<1> QED
  BY <1>3, <1>4 DEF CallsInv

\* Adding to the counters keeps them natural.
LEMMA CountedRow ==
  ASSUME Proxy!ProxyTypeOK, NEW c \in Calls, Proxy!Counted(c) \/ UNCHANGED row
  PROVE  row' \in Proxy!Row
<1>1. /\ row \in Proxy!Row /\ call[c] \in Call
  BY CallTypes
<1>2. CASE Proxy!Counted(c)
  <2>1. /\ row.input + call[c].size \in Nat /\ row.output + call[c].output \in Nat
    BY <1>1 DEF Proxy!Row, Call
  <2> QED
    BY <2>1, <1>1, <1>2 DEF Proxy!Counted, Proxy!Row
<1>3. CASE UNCHANGED row
  BY <1>1, <1>3
<1> QED
  BY <1>2, <1>3

\* What a report names gets a natural number too.
LEMMA CompletedRow ==
  ASSUME row \in Proxy!Row, NEW named \in SUBSET Proxy!Counters,
         NEW usage \in [named -> ReportedTokens], Proxy!Complete(usage)
  PROVE  /\ row' \in Proxy!Row /\ UNCHANGED <<capability, call>>
         /\ row'.state = "ended" /\ row'.reported = named
         /\ "input" \notin named => row'.input = row.input
         /\ "output" \notin named => row'.output = row.output
<1> DEFINE i == IF "input" \in named THEN usage["input"] ELSE row.input
           o == IF "output" \in named THEN usage["output"] ELSE row.output
<1>1. i \in Nat /\ o \in Nat
  BY ProxyAssumption DEF Proxy!Row
<1>2. row' = [row EXCEPT !.state = "ended", !.reported = named, !.input = i, !.output = o]
  BY DEF Proxy!Complete, Proxy!Row
<1>3. /\ "input" \notin named => i = row.input
      /\ "output" \notin named => o = row.output
  OBVIOUS
<1> HIDE DEF i, o
<1>4. UNCHANGED <<capability, call>>
  BY DEF Proxy!Complete
<1>5. /\ row' \in Proxy!Row /\ row'.state = "ended" /\ row'.reported = named
      /\ row'.input = i /\ row'.output = o
  BY <1>1, <1>2 DEF Proxy!Row
<1> QED
  BY <1>3, <1>4, <1>5

\* The job's own transitions do not touch the calls.
LEMMA JobStep ==
  ASSUME JobInv, UNCHANGED <<phase, capability, call>>, phase = "accepted",
         row' \in Proxy!Row
  PROVE  Proxy!ProxyTypeOK' /\ CallsInv'
BY DEF JobInv, Proxy!ProxyTypeOK, CallsInv, Waiting, CallFits

\* The calls of a job stay within their limits, one action of the proxy after
\* another.
LEMMA ProxyStep ==
  ASSUME JobInv, phase = "accepted", UNCHANGED phase, Proxy!ProxyNext
  PROVE  Proxy!ProxyTypeOK' /\ CallsInv'
<1>1. /\ call \in [Calls -> Call] /\ row \in Proxy!Row
      /\ Proxy!ProxyTypeOK /\ IInv
  BY CallTypes DEF JobInv
<1>2. UNCHANGED capability
  BY LimitsFrozen
<1>3. \A c \in Calls : Waiting(c) \/ CallFits(c)
  BY DEF JobInv, CallsInv
<1>4. CASE Proxy!CancelRequested \/ Proxy!End \/ Proxy!Requeue
  <2>1. row' \in Proxy!Row /\ UNCHANGED call
    BY <1>1, <1>4 DEF Proxy!CancelRequested, Proxy!End, Proxy!Requeue, Proxy!Row
  <2> QED
    BY <2>1, <1>2, JobStep
<1>0. ASSUME NEW named \in SUBSET Proxy!Counters, NEW usage \in [named -> ReportedTokens],
             Proxy!Complete(usage)
      PROVE  Proxy!ProxyTypeOK' /\ CallsInv'
  BY <1>0, <1>1, CompletedRow, JobStep
<1>5. ASSUME NEW c \in Calls, Proxy!Refuse(c)
      PROVE  Proxy!ProxyTypeOK' /\ CallsInv'
  <2> DEFINE r == [call[c] EXCEPT !.stage = "refused"]
  <2>1. call' = [call EXCEPT ![c] = r] /\ row' = row
    BY <1>5 DEF Proxy!Refuse
  <2>2. r \in Call /\ r.stage = "refused"
    BY <1>1 DEF Call, Proxy!Stages
  <2> HIDE DEF r
  <2> QED
    BY <2>1, <2>2, <1>1, <1>2, CallStep
<1>6. ASSUME NEW c \in Calls, NEW m \in Models, NEW size \in InputSizes,
             Proxy!Exhaust(c, m, size)
      PROVE  Proxy!ProxyTypeOK' /\ CallsInv'
  <2> DEFINE r == [call[c] EXCEPT !.stage = "refused"]
  <2>1. call' = [call EXCEPT ![c] = r] /\ row' \in Proxy!Row
    BY <1>1, <1>6 DEF Proxy!Exhaust, Proxy!Row
  <2>2. r \in Call /\ r.stage = "refused"
    BY <1>1 DEF Call, Proxy!Stages
  <2> HIDE DEF r
  <2> QED
    BY <2>1, <2>2, <1>2, CallStep
<1>7. ASSUME NEW c \in Calls, NEW m \in Models, NEW size \in InputSizes,
             NEW asked \in OutputAsks \union {NoAsk}, NEW stream \in BOOLEAN,
             Proxy!Admit(c, m, size, asked, stream)
      PROVE  Proxy!ProxyTypeOK' /\ CallsInv'
  <2> DEFINE limit == Proxy!OutputLimit(m, size, asked)
             r == [Proxy!NewCall EXCEPT !.stage = "sent", !.attempt = row.attempt,
                     !.model = m, !.stream = stream, !.size = size, !.limit = limit]
  <2>1. /\ call' = [call EXCEPT ![c] = r] /\ row' = row
        /\ m \in DOMAIN capability /\ Proxy!Capacity(m, size) > 0
    BY <1>7 DEF Proxy!Admit
  <2>2. /\ limit \in Nat /\ limit <= capability[m].output
        /\ size + limit + SafetyTokens <= capability[m].context
    BY <2>1, <1>1, LimitFits
  <2> HIDE DEF limit
  <2>3. /\ r.stage = "sent" /\ r.attempt = row.attempt /\ r.model = m
        /\ r.stream = stream /\ r.size = size /\ r.limit = limit /\ r.output = 0
        /\ r.answered = FALSE /\ r.delivered = FALSE
    BY DEF Proxy!NewCall
  <2>4. r \in Call
    <3>1. size \in Nat /\ row.attempt \in Nat
      BY <1>1, ProxyAssumption DEF Proxy!Row
    <3> QED
      BY <3>1, <2>2 DEF Call, Proxy!NewCall, Proxy!Stages
  <2> HIDE DEF r
  <2> QED
    BY <2>1, <2>2, <2>3, <2>4, <1>1, <1>2, CallStep
<1>8. ASSUME NEW c \in Calls, NEW r \in Call,
             ~Waiting(c), call' = [call EXCEPT ![c] = r], row' \in Proxy!Row,
             r.model = call[c].model, r.size = call[c].size, r.limit = call[c].limit
      PROVE  Proxy!ProxyTypeOK' /\ CallsInv'
  <2>1. CallFits(c)
    BY <1>3, <1>8
  <2> QED
    BY <2>1, <1>2, <1>8, CallStep DEF CallFits
<1>9. ASSUME NEW c \in Calls, NEW output \in {0, call[c].limit}, Proxy!Answer(c, output)
      PROVE  Proxy!ProxyTypeOK' /\ CallsInv'
  <2> DEFINE r == [call[c] EXCEPT
                     !.stage = IF call[c].stream THEN "streaming" ELSE "answered",
                     !.output = output, !.answered = TRUE, !.delivered = call[c].stream]
  <2>1. call' = [call EXCEPT ![c] = r] /\ row' = row /\ ~Waiting(c)
    BY <1>9 DEF Proxy!Answer, Waiting
  <2>2. call[c] \in Call
    BY <1>1
  <2>3. output \in Nat /\ call[c].stream \in BOOLEAN
    BY <2>2 DEF Call
  <2>4. (IF call[c].stream THEN "streaming" ELSE "answered") \in Proxy!Stages
    BY DEF Proxy!Stages
  <2>5. r \in Call
    BY <2>2, <2>3, <2>4 DEF Call
  <2>6. r.model = call[c].model /\ r.size = call[c].size /\ r.limit = call[c].limit
    BY <2>2 DEF Call
  <2> HIDE DEF r
  <2> QED
    BY <2>1, <2>5, <2>6, <1>1, <1>8
<1>10. ASSUME NEW c \in Calls, Proxy!Count(c)
       PROVE  Proxy!ProxyTypeOK' /\ CallsInv'
  <2> DEFINE r == [call[c] EXCEPT !.stage = "done", !.delivered = Proxy!Holds(c)]
  <2>1. call' = [call EXCEPT ![c] = r] /\ ~Waiting(c)
    BY <1>10 DEF Proxy!Count, Waiting
  <2>2. row' \in Proxy!Row
    BY <1>1, <1>10, CountedRow DEF Proxy!Count
  <2>3. Proxy!Holds(c) \in BOOLEAN
    BY DEF Proxy!Holds, Proxy!Active
  <2>4. /\ r \in Call
        /\ r.model = call[c].model /\ r.size = call[c].size /\ r.limit = call[c].limit
    BY <2>3, <1>1 DEF Call, Proxy!Stages
  <2> HIDE DEF r
  <2> QED
    BY <2>1, <2>2, <2>4, <1>8
<1>11. ASSUME NEW c \in Calls,
              Proxy!UpstreamFails(c) \/ Proxy!EndStream(c) \/ Proxy!BreakStream(c)
       PROVE  Proxy!ProxyTypeOK' /\ CallsInv'
  <2> DEFINE r == [call[c] EXCEPT !.stage = "done"]
  <2>1. call' = [call EXCEPT ![c] = r] /\ ~Waiting(c)
    BY <1>11 DEF Proxy!UpstreamFails, Proxy!EndStream, Proxy!BreakStream, Waiting
  <2>2. row' \in Proxy!Row
    BY <1>1, <1>11, CountedRow DEF Proxy!UpstreamFails, Proxy!EndStream, Proxy!BreakStream
  <2>3. /\ r \in Call
        /\ r.model = call[c].model /\ r.size = call[c].size /\ r.limit = call[c].limit
    BY <1>1 DEF Call, Proxy!Stages
  <2> HIDE DEF r
  <2> QED
    BY <2>1, <2>2, <2>3, <1>8
<1> QED
  BY <1>0, <1>4, <1>5, <1>6, <1>7, <1>9, <1>10, <1>11, SMTT(60) DEF Proxy!ProxyNext

\* While the request is prepared no call is sent.
LEMMA PrepareStep ==
  ASSUME JobInv, Prepare
  PROVE  Proxy!ProxyTypeOK' /\ CallsInv'
<1>1. phase # "accepted"
  BY DEF Prepare, RequestNext, Plan, Compact, ContextDone, Select, Decline, Submit,
         CreateJob, Configure
<1>2. \A c \in Calls : Waiting(c)
  BY <1>1 DEF JobInv, CallsInv
<1>3. UNCHANGED <<row, call>>
  BY DEF Prepare
<1>4. \A c \in Calls : Waiting(c)'
  BY <1>2, <1>3 DEF Waiting
<1> QED
  BY <1>3, <1>4 DEF JobInv, Proxy!ProxyTypeOK, CallsInv

\* The inductive invariant of a request, its job and the job's calls.
THEOREM JobInvariant == Spec => []JobInv
<1>1. Init => Proxy!ProxyTypeOK /\ CallsInv
  BY ProxyAssumption DEF Init, Proxy!ProxyInit, Proxy!ProxyTypeOK, Proxy!Row, Proxy!NewCall,
     Proxy!Stages, CallsInv, Waiting
<1>2. IInv /\ Proxy!ProxyTypeOK /\ CallsInv /\ [Next]_vars => (Proxy!ProxyTypeOK /\ CallsInv)'
  <2> SUFFICES ASSUME IInv, Proxy!ProxyTypeOK, CallsInv, [Next]_vars
               PROVE  Proxy!ProxyTypeOK' /\ CallsInv'
    OBVIOUS
  <2>1. JobInv
    BY DEF JobInv
  <2>2. CASE Prepare
    BY <2>1, <2>2, PrepareStep
  <2>3. CASE Work
    BY <2>1, <2>3, ProxyStep DEF Work
  <2>4. CASE UNCHANGED vars
    BY <2>4 DEF vars, rvars, Proxy!ProxyTypeOK, CallsInv, Waiting, CallFits
  <2> QED
    BY <2>2, <2>3, <2>4 DEF Next
<1>3. Spec => []IInv
  BY ImplementsRequest, RequestInvariant, PTL
<1> QED
  BY <1>1, <1>2, <1>3, PTL DEF Spec, JobInv

------------------------------------------------------------------------------
(* What follows. *)

\* Every variable of a request and its job keeps its type (TypeOK).
THEOREM JobTypeCorrect == Spec => []TypeOK
<1>1. JobInv => TypeOK
  BY DEF JobInv, IInv, TypeOK
<1> QED
  BY <1>1, JobInvariant, PTL

\* A prompt, the output granted to it and the safety margin fit the context of
\* the model, and the output fits the model (OutputFits).
THEOREM CallsFit == Spec => []OutputFits
<1>1. JobInv => OutputFits
  BY DEF JobInv, CallsInv, Waiting, CallFits, OutputFits, Proxy!OutputFits, Proxy!Sent
<1> QED
  BY <1>1, JobInvariant, PTL

\* The snapshot of a fair limit is complete and within it, in the whole of which
\* the request is a part (FairContext).
THEOREM ContextOfJobs == Spec => []FairContext
BY ImplementsRequest, ContextComplete, PTL

\* The counters of a job that ended never change (UsageOfEndedIsFinal).
THEOREM UsageFinal == Spec => UsageOfEndedIsFinal
<1>1. [Next]_vars => [row.state = "ended" => row' = row]_(Proxy!xvars)
  BY DEF Next, Prepare, Work, vars, rvars, Proxy!xvars, Proxy!ProxyNext,
     Proxy!CancelRequested, Proxy!Complete, Proxy!End, Proxy!Requeue, Proxy!Refuse,
     Proxy!UpstreamFails, Proxy!Count, Proxy!EndStream, Proxy!BreakStream, Proxy!Exhaust, Proxy!Admit,
     Proxy!Answer, Proxy!Holds, Proxy!Active
<1> QED
  BY <1>1, PTL DEF Spec, UsageOfEndedIsFinal, Proxy!UsageOfEndedIsFinal

------------------------------------------------------------------------------
(* Sums over finite sets.  The library's induction theorems take an        *)
(* operator, so each of these argues by a smallest counterexample.         *)

\* g sums f over each subset of S, taking out the elements as the fold of the
\* library does.
Sums(f, S, g) ==
  g = [s \in SUBSET S |->
         IF s = {} THEN 0
         ELSE f[CHOOSE x \in s : TRUE] + g[s \ {CHOOSE x \in s : TRUE}]]

Total(f, S) == (CHOOSE g : Sums(f, S, g))[S]

LEMMA SmallestSet ==
  ASSUME NEW S, IsFiniteSet(S), NEW B, B \subseteq SUBSET S, B # {}
  PROVE  \E s \in B : \A t \in B : t \subseteq s => t = s
<1>1. IsWellFoundedOn(StrictSubsetOrdering(S), SUBSET S)
  BY FS_StrictSubsetOrderingWellFounded, FS_FiniteSubsetsOfFinite
<1>2. PICK s \in B : \A t \in B : ~(<<t, s>> \in StrictSubsetOrdering(S))
  BY <1>1, WFMin
<1>3. ASSUME NEW t \in B, t \subseteq s PROVE t = s
  BY <1>2, <1>3 DEF StrictSubsetOrdering
<1> QED
  BY <1>3

LEMMA SmallestNumber ==
  ASSUME NEW B, B \subseteq Nat, B # {}
  PROVE  \E n \in B : \A m \in B : n <= m
<1>1. PICK n \in B : \A m \in B : ~(<<m, n>> \in OpToRel(<, Nat))
  BY NatLessThanWellFounded, WFMin
<1>2. ASSUME NEW m \in B PROVE n <= m
  <2>1. m \in Nat /\ n \in Nat
    OBVIOUS
  <2>2. ~(m < n)
    BY <1>1, <2>1 DEF OpToRel
  <2> QED
    BY <2>1, <2>2
<1> QED
  BY <1>2

\* A finite set has a sum: one for the subsets of n elements gives one for
\* those of n + 1.
LEMMA SumsExist ==
  ASSUME NEW S, IsFiniteSet(S), NEW f
  PROVE  \E g : Sums(f, S, g)
<1> DEFINE
      Small(n) == {s \in SUBSET S : Cardinality(s) <= n}
      next(g, s) == IF s = {} THEN 0
                    ELSE f[CHOOSE x \in s : TRUE] + g[s \ {CHOOSE x \in s : TRUE}]
      Ok(n) == \E g : g = [s \in Small(n) |-> next(g, s)]
      B == {n \in Nat : ~Ok(n)}
<1>1. \A s \in SUBSET S : IsFiniteSet(s) /\ Cardinality(s) \in Nat
  BY FS_Subset, FS_CardinalityType
<1>2. Ok(0)
  <2> DEFINE g == [s \in Small(0) |-> 0]
  <2>1. \A s \in Small(0) : s = {}
    BY <1>1, FS_EmptySet
  <2>2. g = [s \in Small(0) |-> next(g, s)]
    BY <2>1
  <2> QED
    BY <2>2
<1>3. ASSUME NEW n \in Nat, Ok(n) PROVE Ok(n + 1)
  <2>1. PICK g : g = [s \in Small(n) |-> next(g, s)]
    BY <1>3
  <2> DEFINE h == [s \in Small(n + 1) |-> next(g, s)]
  <2>2. ASSUME NEW s \in Small(n + 1), s # {}, NEW x \in s
        PROVE  s \ {x} \in Small(n) /\ s \ {x} \in Small(n + 1)
    <3>1. Cardinality(s \ {x}) = Cardinality(s) - 1
      BY <1>1, FS_RemoveElement
    <3>2. s \ {x} \in SUBSET S
      OBVIOUS
    <3> QED
      BY <3>1, <3>2, <1>1
  <2>3. ASSUME NEW s \in Small(n) PROVE h[s] = g[s]
    <3>1. s \in Small(n + 1)
      BY <1>1
    <3> QED
      BY <3>1, <2>1
  <2>4. ASSUME NEW s \in Small(n + 1) PROVE h[s] = next(h, s)
    <3>1. CASE s = {}
      BY <3>1
    <3>2. CASE s # {}
      <4> DEFINE x == CHOOSE x \in s : TRUE
      <4>1. x \in s
        BY <3>2
      <4>2. h[s \ {x}] = g[s \ {x}]
        BY <4>1, <3>2, <2>2, <2>3
      <4> QED
        BY <4>2, <3>2
    <3> QED
      BY <3>1, <3>2
  <2>5. h = [s \in Small(n + 1) |-> next(h, s)]
    <3>1. h = [s \in Small(n + 1) |-> h[s]]
      OBVIOUS
    <3> HIDE DEF h, next, Small
    <3> QED
      BY <3>1, <2>4
  <2> QED
    BY <2>5
<1>4. B = {}
  <2> SUFFICES ASSUME B # {} PROVE FALSE
    OBVIOUS
  <2> HIDE DEF Ok
  <2>1. PICK n \in B : \A m \in B : n <= m
    BY SmallestNumber
  <2>2. n \in Nat /\ n # 0 /\ ~Ok(n)
    BY <1>2
  <2>3. n - 1 \in Nat /\ ~(n <= n - 1) /\ (n - 1) + 1 = n
    BY <2>2
  <2>4. Ok(n - 1)
    BY <2>1, <2>3
  <2> QED
    BY <1>3, <2>2, <2>3, <2>4
<1>5. Ok(Cardinality(S))
  <2> HIDE DEF Ok
  <2>1. S \in SUBSET S
    OBVIOUS
  <2> QED
    BY <1>1, <1>4, <2>1
<1>6. Small(Cardinality(S)) = SUBSET S
  BY FS_Subset
<1> QED
  BY <1>5, <1>6 DEF Sums

LEMMA SumsUnique ==
  ASSUME NEW S, IsFiniteSet(S), NEW f, NEW g, NEW h, Sums(f, S, g), Sums(f, S, h)
  PROVE  g = h
<1> DEFINE B == {s \in SUBSET S : g[s] # h[s]}
<1>1. CASE B = {}
  <2>1. \A s \in SUBSET S : g[s] = h[s]
    BY <1>1
  <2>2. g = [s \in SUBSET S |-> g[s]] /\ h = [s \in SUBSET S |-> h[s]]
    BY DEF Sums
  <2> QED
    BY <2>1, <2>2
<1>2. CASE B # {}
  <2>0. B \subseteq SUBSET S
    OBVIOUS
  <2>1. PICK s \in B : \A t \in B : t \subseteq s => t = s
    <3> HIDE DEF B
    <3> QED
      BY <1>2, <2>0, SmallestSet
  <2> DEFINE x == CHOOSE x \in s : TRUE
  <2>2. s # {}
    BY DEF Sums
  <2>3. x \in s
    BY <2>2
  <2>4. s \ {x} \in SUBSET S /\ s \ {x} # s /\ s \ {x} \subseteq s
    BY <2>3
  <2>5. g[s \ {x}] = h[s \ {x}]
    BY <2>1, <2>4
  <2> HIDE DEF B
  <2>6. s \in SUBSET S
    BY DEF B
  <2>7. g[s] = f[x] + g[s \ {x}] /\ h[s] = f[x] + h[s \ {x}]
    BY <2>2, <2>6 DEF Sums
  <2> QED
    BY <2>5, <2>7 DEF B
<1> QED
  BY <1>1, <1>2
\* The sum of a subset does not depend on the set it is taken in.
LEMMA TotalIn ==
  ASSUME NEW S, IsFiniteSet(S), NEW f, NEW g, Sums(f, S, g), NEW T \in SUBSET S
  PROVE  Total(f, T) = g[T]
<1> DEFINE h == [s \in SUBSET T |-> g[s]]
           k == CHOOSE k : Sums(f, T, k)
<1>1. IsFiniteSet(T)
  BY FS_Subset
<1>2. Sums(f, T, h)
  <2>1. ASSUME NEW s \in SUBSET T
        PROVE  h[s] = IF s = {} THEN 0
                      ELSE f[CHOOSE x \in s : TRUE] + h[s \ {CHOOSE x \in s : TRUE}]
    <3>1. s \in SUBSET S /\ \A x : s \ {x} \in SUBSET T
      OBVIOUS
    <3> DEFINE x == CHOOSE x \in s : TRUE
    <3>2. g[s] = IF s = {} THEN 0 ELSE f[x] + g[s \ {x}]
      BY <3>1 DEF Sums
    <3> QED
      BY <3>1, <3>2
  <2>2. h = [s \in SUBSET T |-> h[s]]
    OBVIOUS
  <2> HIDE DEF h
  <2> QED
    BY <2>1, <2>2 DEF Sums
<1>3. Sums(f, T, k)
  BY <1>1, SumsExist
<1>4. k = h
  <2> HIDE DEF k, h
  <2> QED
    BY <1>1, <1>2, <1>3, SumsUnique
<1> QED
  BY <1>4 DEF Total

LEMMA TotalNat ==
  ASSUME NEW S, IsFiniteSet(S), NEW f, \A x \in S : f[x] \in Nat
  PROVE  Total(f, {}) = 0 /\ \A T \in SUBSET S : Total(f, T) \in Nat
<1>1. PICK g : Sums(f, S, g)
  BY SumsExist
<1>2. \A T \in SUBSET S : Total(f, T) = g[T]
  BY <1>1, TotalIn
<1> DEFINE B == {s \in SUBSET S : g[s] \notin Nat}
<1>3. B = {}
  <2> SUFFICES ASSUME B # {} PROVE FALSE
    OBVIOUS
  <2>0. B \subseteq SUBSET S
    OBVIOUS
  <2>1. PICK s \in B : \A t \in B : t \subseteq s => t = s
    <3> HIDE DEF B
    <3> QED
      BY <2>0, SmallestSet
  <2> DEFINE x == CHOOSE x \in s : TRUE
  <2>2. s \in SUBSET S /\ s # {}
    BY <1>1 DEF Sums
  <2>3. x \in s
    BY <2>2
  <2>4. s \ {x} \in SUBSET S /\ s \ {x} # s /\ s \ {x} \subseteq s
    BY <2>2, <2>3
  <2>5. g[s \ {x}] \in Nat
    BY <2>1, <2>4
  <2>6. g[s] = f[x] + g[s \ {x}]
    <3> HIDE DEF B
    <3> QED
      BY <1>1, <2>2 DEF Sums
  <2>7. f[x] \in Nat
    BY <2>2, <2>3
  <2>8. g[s] \in Nat
    <3> HIDE DEF x, B
    <3> QED
      BY <2>5, <2>6, <2>7
  <2> QED
    BY <2>8
<1>4. g[{}] = 0
  BY <1>1 DEF Sums
<1> QED
  BY <1>2, <1>3, <1>4

\* Any element may be the one that is taken out.
LEMMA SumsAny ==
  ASSUME NEW S, IsFiniteSet(S), NEW f, \A x \in S : f[x] \in Nat,
         NEW g, Sums(f, S, g), NEW T \in SUBSET S, NEW z \in T
  PROVE  g[T] = f[z] + g[T \ {z}]
<1>1. \A s \in SUBSET S : g[s] \in Nat
  BY TotalIn, TotalNat
<1> DEFINE Any(s) == \A x \in s : g[s] = f[x] + g[s \ {x}]
           B == {s \in SUBSET S : ~Any(s)}
<1>2. B = {}
  <2> SUFFICES ASSUME B # {} PROVE FALSE
    OBVIOUS
  <2> HIDE DEF Any
  <2>1. B \subseteq SUBSET S
    OBVIOUS
  <2>2. PICK s \in B : \A t \in B : t \subseteq s => t = s
    <3> HIDE DEF B
    <3> QED
      BY <2>1, SmallestSet
  <2>3. s \in SUBSET S /\ ~Any(s)
    OBVIOUS
  <2>4. \A t \in SUBSET S : t \subseteq s /\ t # s => Any(t)
    BY <2>2
  <2>5. PICK x \in s : g[s] # f[x] + g[s \ {x}]
    BY <2>3 DEF Any
  <2> DEFINE y == CHOOSE y \in s : TRUE
  <2>6. y \in s
    BY <2>5
  <2>7. g[s] = f[y] + g[s \ {y}]
    BY <2>3, <2>5 DEF Sums
  <2>8. x # y
    BY <2>5, <2>7
  <2> HIDE DEF y, B
  <2>9. /\ s \ {x} \in SUBSET S /\ s \ {x} # s /\ y \in s \ {x}
        /\ s \ {y} \in SUBSET S /\ s \ {y} # s /\ x \in s \ {y}
        /\ (s \ {x}) \ {y} = (s \ {y}) \ {x}
        /\ (s \ {x}) \ {y} \in SUBSET S
    BY <2>3, <2>5, <2>6, <2>8
  <2>10. g[s \ {x}] = f[y] + g[(s \ {x}) \ {y}]
    BY <2>4, <2>9 DEF Any
  <2>11. g[s \ {y}] = f[x] + g[(s \ {x}) \ {y}]
    BY <2>4, <2>9 DEF Any
  <2>12. f[x] \in Nat /\ f[y] \in Nat /\ g[(s \ {x}) \ {y}] \in Nat
    BY <1>1, <2>3, <2>5, <2>6, <2>9
  <2> QED
    BY <2>5, <2>7, <2>10, <2>11, <2>12
<1> QED
  BY <1>2

LEMMA TotalAdd ==
  ASSUME NEW S, IsFiniteSet(S), NEW f, \A x \in S : f[x] \in Nat,
         NEW T \in SUBSET S, NEW x \in S, x \notin T
  PROVE  Total(f, T \union {x}) = f[x] + Total(f, T)
<1>1. PICK g : Sums(f, S, g)
  BY SumsExist
<1>2. T \union {x} \in SUBSET S /\ (T \union {x}) \ {x} = T
  OBVIOUS
<1>3. g[T \union {x}] = f[x] + g[(T \union {x}) \ {x}]
  BY <1>1, <1>2, SumsAny
<1>4. Total(f, T \union {x}) = g[T \union {x}] /\ Total(f, T) = g[T]
  BY <1>1, <1>2, TotalIn
<1> QED
  BY <1>2, <1>3, <1>4

\* More elements, a larger sum.
LEMMA TotalMonotone ==
  ASSUME NEW S, IsFiniteSet(S), NEW f, \A x \in S : f[x] \in Nat,
         NEW U \in SUBSET S, NEW T \in SUBSET U
  PROVE  Total(f, T) <= Total(f, U)
<1>1. \A s \in SUBSET S : Total(f, s) \in Nat
  BY TotalNat
<1> DEFINE B == {s \in SUBSET S : T \subseteq s /\ ~(Total(f, T) <= Total(f, s))}
<1>2. B = {}
  <2> SUFFICES ASSUME B # {} PROVE FALSE
    OBVIOUS
  <2>1. B \subseteq SUBSET S
    OBVIOUS
  <2>2. PICK s \in B : \A t \in B : t \subseteq s => t = s
    <3> HIDE DEF B
    <3> QED
      BY <2>1, SmallestSet
  <2>3. s \in SUBSET S /\ T \subseteq s /\ ~(Total(f, T) <= Total(f, s))
    OBVIOUS
  <2>4. s # T
    BY <1>1, <2>3
  <2>5. PICK x \in s : x \notin T
    BY <2>3, <2>4
  <2>6. /\ s \ {x} \in SUBSET S /\ T \subseteq s \ {x} /\ s \ {x} # s
        /\ x \notin s \ {x} /\ (s \ {x}) \union {x} = s
    BY <2>3, <2>5
  <2>7. Total(f, T) <= Total(f, s \ {x})
    BY <2>2, <2>6
  <2>8. Total(f, s) = f[x] + Total(f, s \ {x})
    BY <2>3, <2>6, TotalAdd
  <2> HIDE DEF B
  <2>9. f[x] \in Nat /\ Total(f, s \ {x}) \in Nat /\ Total(f, T) \in Nat
    BY <1>1, <2>3, <2>6
  <2> QED
    BY <2>3, <2>7, <2>8, <2>9
<1> QED
  BY <1>2

\* Only the values of the elements count.
LEMMA TotalSame ==
  ASSUME NEW S, IsFiniteSet(S), NEW f, NEW h, \A x \in S : f[x] = h[x]
  PROVE  Total(f, S) = Total(h, S)
<1>1. PICK g : Sums(f, S, g)
  BY SumsExist
<1>2. Sums(h, S, g)
  <2>1. ASSUME NEW s \in SUBSET S, s # {}
        PROVE  f[CHOOSE x \in s : TRUE] = h[CHOOSE x \in s : TRUE]
    <3>1. (CHOOSE x \in s : TRUE) \in S
      BY <2>1
    <3> QED
      BY <3>1
  <2> QED
    BY <1>1, <2>1 DEF Sums
<1>3. Total(f, S) = g[S] /\ Total(h, S) = g[S]
  BY <1>1, <1>2, TotalIn
<1> QED
  BY <1>3

\* The library's sum is this one.
LEMMA FoldIsTotal ==
  ASSUME NEW f, NEW S
  PROVE  Proxy!SumFunctionOnSet(f, S) = Total(f, S)
BY DEF Proxy!SumFunctionOnSet, Proxy!FoldFunctionOnSet, Proxy!MapThenFoldSet, Total, Sums

------------------------------------------------------------------------------
(* What is counted. *)

Size == [c \in Calls |-> call[c].size]

Output == [c \in Calls |-> call[c].output]

Settled == {c \in Calls : call[c].stage = "done" /\ call[c].answered}

Plain == {c \in Calls : call[c].delivered /\ ~call[c].stream}

\* K are the calls whose tokens are in the counters, as far as these are still the
\* gateway's own.
Counted(K) ==
  /\ Plain \subseteq K /\ K \subseteq Settled
  /\ "input" \notin row.reported => row.input = Total(Size, K)
  /\ "output" \notin row.reported => row.output = Total(Output, K)

\* A step leaves the gateway's counters as they are or gives them to a report.
CountersKept ==
  /\ "input" \notin row'.reported => "input" \notin row.reported /\ row'.input = row.input
  /\ "output" \notin row'.reported => "output" \notin row.reported /\ row'.output = row.output

\* A report comes with the end of the job.
ReportInv == row.reported = {} \/ row.state = "ended"

LEMMA ReportStep ==
  ASSUME Proxy!ProxyTypeOK, ReportInv, Proxy!ProxyNext
  PROVE  ReportInv'
<1>1. row \in Proxy!Row
  BY CallTypes
<1>2. ASSUME NEW usage, Proxy!Complete(usage) PROVE ReportInv'
  BY <1>1, <1>2 DEF Proxy!Complete, Proxy!Row, ReportInv
<1>3. CASE row' = row \/ \E c \in Calls : Proxy!Counted(c) /\ Proxy!Holds(c)
  BY <1>1, <1>3 DEF Proxy!Counted, Proxy!Holds, Proxy!Active, Proxy!Row, ReportInv
<1>4. CASE Proxy!CancelRequested \/ Proxy!End \/ Proxy!Requeue
  BY <1>1, <1>4 DEF Proxy!CancelRequested, Proxy!End, Proxy!Requeue, Proxy!Row, ReportInv
<1>5. ASSUME NEW c \in Calls, NEW m \in Models, NEW size \in InputSizes,
             Proxy!Exhaust(c, m, size)
      PROVE  ReportInv'
  BY <1>1, <1>5 DEF Proxy!Exhaust, Proxy!Row, ReportInv
<1> QED
  BY <1>2, <1>3, <1>4, <1>5 DEF Proxy!ProxyNext, Proxy!Refuse, Proxy!UpstreamFails,
     Proxy!Count, Proxy!EndStream, Proxy!BreakStream, Proxy!Admit, Proxy!Answer

\* Only what is over and was answered has been counted, and all that a runner
\* received as a whole.
UsageInv ==
  /\ \A c \in Calls :
       /\ call[c].stage \in {"answered", "streaming"} => call[c].answered
       /\ call[c].stage = "streaming" => call[c].stream
  /\ \E K \in SUBSET Calls : Counted(K)

LEMMA UsageTypes ==
  ASSUME Proxy!ProxyTypeOK
  PROVE  /\ \A c \in Calls : Size[c] \in Nat /\ Output[c] \in Nat
         /\ row.input \in Nat /\ row.output \in Nat
BY DEF Proxy!ProxyTypeOK, Proxy!Row, Size, Output

\* A call that is not settled may change, as long as its answer is not handed
\* over as a whole.
LEMMA NothingCounted ==
  ASSUME NEW K \in SUBSET Calls, Counted(K), CountersKept,
         \A c \in Calls : call'[c] = call[c]
                            \/ (c \notin Settled /\ ~(call'[c].delivered /\ ~call'[c].stream))
  PROVE  Counted(K)'
<1>1. IsFiniteSet(K)
  BY ProxyAssumption, FS_Subset
<1>2. \A c \in K : call'[c] = call[c]
  BY DEF Counted
<1>3. K \subseteq Settled'
  BY <1>2 DEF Counted, Settled
<1>4. Plain' \subseteq K
  BY DEF Counted, Plain
<1>5. Total(Size', K) = Total(Size, K) /\ Total(Output', K) = Total(Output, K)
  <2>1. \A c \in K : Size'[c] = Size[c] /\ Output'[c] = Output[c]
    BY <1>2 DEF Size, Output
  <2> QED
    BY <2>1, <1>1, TotalSame
<1> QED
  BY <1>3, <1>4, <1>5 DEF Counted, CountersKept

\* A call is settled once: its tokens join those of the calls counted before.
LEMMA OneMoreCounted ==
  ASSUME NEW K \in SUBSET Calls, Counted(K), Proxy!ProxyTypeOK, NEW c \in Calls,
         call[c].stage # "done", call[c].answered,
         \A d \in Calls : d # c => call'[d] = call[d],
         /\ call'[c].stage = "done" /\ call'[c].answered
         /\ call'[c].size = call[c].size /\ call'[c].output = call[c].output,
         /\ row'.input = row.input + call[c].size
         /\ row'.output = row.output + call[c].output
         /\ row'.reported = row.reported
  PROVE  Counted(K \union {c})'
<1>1. IsFiniteSet(Calls) /\ IsFiniteSet(K \union {c}) /\ K \union {c} \in SUBSET Calls
  BY ProxyAssumption, FS_Subset
<1>2. c \notin K /\ \A d \in K : call'[d] = call[d]
  BY DEF Counted, Settled
<1>3. K \union {c} \subseteq Settled'
  BY <1>2 DEF Counted, Settled
<1>4. Plain' \subseteq K \union {c}
  BY DEF Counted, Plain
<1>5. /\ Total(Size', K \union {c}) = Total(Size, K \union {c})
      /\ Total(Output', K \union {c}) = Total(Output, K \union {c})
  <2>1. \A d \in K \union {c} : Size'[d] = Size[d] /\ Output'[d] = Output[d]
    BY <1>2 DEF Size, Output
  <2> QED
    BY <2>1, <1>1, TotalSame
<1>6. /\ Total(Size, K \union {c}) = Size[c] + Total(Size, K)
      /\ Total(Output, K \union {c}) = Output[c] + Total(Output, K)
  BY <1>1, <1>2, UsageTypes, TotalAdd
<1>7. Total(Size, K) \in Nat /\ Total(Output, K) \in Nat
  BY <1>1, UsageTypes, TotalNat
<1>8. Size[c] = call[c].size /\ Output[c] = call[c].output
  BY DEF Size, Output
<1>9. /\ "input" \notin row.reported => row.input = Total(Size, K)
      /\ "output" \notin row.reported => row.output = Total(Output, K)
      /\ Size[c] \in Nat /\ Output[c] \in Nat
  BY UsageTypes DEF Counted
<1>10. /\ "input" \notin row'.reported => row'.input = Total(Size', K \union {c})
       /\ "output" \notin row'.reported => row'.output = Total(Output', K \union {c})
  BY <1>5, <1>6, <1>7, <1>8, <1>9
<1> QED
  BY <1>3, <1>4, <1>10 DEF Counted

LEMMA UsageStep ==
  ASSUME JobInv, ReportInv, UsageInv, Proxy!ProxyNext
  PROVE  UsageInv'
<1>1. call \in [Calls -> Call] /\ row \in Proxy!Row /\ Proxy!ProxyTypeOK
  BY CallTypes DEF JobInv
<1>2. PICK K \in SUBSET Calls : Counted(K)
  BY DEF UsageInv
<1>3. \A c \in Calls :
        /\ call[c].stage \in {"answered", "streaming"} => call[c].answered
        /\ call[c].stage = "streaming" => call[c].stream
        /\ call[c].delivered /\ ~call[c].stream => call[c].stage = "done"
  BY <1>2 DEF UsageInv, Counted, Plain, Settled
<1>4. CASE Proxy!CancelRequested \/ Proxy!End \/ Proxy!Requeue
  <2>1. call' = call /\ CountersKept
    BY <1>1, <1>4 DEF Proxy!CancelRequested, Proxy!End, Proxy!Requeue, Proxy!Row, CountersKept
  <2>2. Counted(K)'
    <3>1. \A c \in Calls :
            call'[c] = call[c]
              \/ (c \notin Settled /\ ~(call'[c].delivered /\ ~call'[c].stream))
      BY <2>1
    <3> QED
      BY <1>2, <2>1, <3>1, NothingCounted
  <2> QED
    BY <1>3, <2>1, <2>2 DEF UsageInv
\* The report may take over a counter.
<1>0. ASSUME NEW named \in SUBSET Proxy!Counters, NEW usage \in [named -> ReportedTokens],
             Proxy!Complete(usage)
      PROVE  UsageInv'
  <2>1. row.reported = {} \/ row.state = "ended"
    BY DEF ReportInv
  <2>2. /\ call' = call /\ row'.reported = named /\ row.state = "running"
        /\ "input" \notin named => row'.input = row.input
        /\ "output" \notin named => row'.output = row.output
    BY <1>0, <1>1, CompletedRow DEF Proxy!Complete
  <2>3. CountersKept
    BY <2>1, <2>2 DEF CountersKept
  <2>4. Counted(K)'
    BY <1>2, <2>2, <2>3, NothingCounted
  <2> QED
    BY <1>3, <2>2, <2>4 DEF UsageInv
\* One call changes, and nothing is counted.
<1>5. ASSUME NEW c \in Calls, NEW r, call' = [call EXCEPT ![c] = r],
             row'.reported = row.reported,
             row'.input = row.input, row'.output = row.output,
             call[c].stage # "done", ~(r.delivered /\ ~r.stream),
             r.stage \in {"answered", "streaming"} => r.answered,
             r.stage = "streaming" => r.stream
      PROVE  UsageInv'
  <2>1. call'[c] = r /\ \A d \in Calls : d # c => call'[d] = call[d]
    BY <1>1, <1>5
  <2>2. Counted(K)'
    <3>0. CountersKept
      BY <1>5 DEF CountersKept
    <3>1. c \notin Settled
      BY <1>5 DEF Settled
    <3>2. \A d \in Calls :
            call'[d] = call[d]
              \/ (d \notin Settled /\ ~(call'[d].delivered /\ ~call'[d].stream))
      BY <1>5, <2>1, <3>1
    <3> QED
      BY <1>2, <3>0, <3>2, NothingCounted
  <2> QED
    BY <1>3, <1>5, <2>1, <2>2 DEF UsageInv
<1>6. ASSUME NEW c \in Calls, Proxy!Refuse(c)
      PROVE  UsageInv'
  <2> DEFINE r == [call[c] EXCEPT !.stage = "refused"]
  <2>1. call' = [call EXCEPT ![c] = r] /\ row' = row /\ call[c].stage = "new"
    BY <1>6 DEF Proxy!Refuse
  <2>2. r.stage = "refused" /\ r.delivered = call[c].delivered /\ r.stream = call[c].stream
    BY <1>1 DEF Call
  <2> HIDE DEF r
  <2> QED
    BY <1>3, <1>5, <2>1, <2>2
<1>7. ASSUME NEW c \in Calls, NEW m \in Models, NEW size \in InputSizes,
             Proxy!Exhaust(c, m, size)
      PROVE  UsageInv'
  <2> DEFINE r == [call[c] EXCEPT !.stage = "refused"]
  <2>1. /\ call' = [call EXCEPT ![c] = r] /\ call[c].stage = "new"
        /\ row'.input = row.input /\ row'.output = row.output /\ row'.reported = row.reported
    BY <1>1, <1>7 DEF Proxy!Exhaust, Proxy!Row
  <2>2. r.stage = "refused" /\ r.delivered = call[c].delivered /\ r.stream = call[c].stream
    BY <1>1 DEF Call
  <2> HIDE DEF r
  <2> QED
    BY <1>3, <1>5, <2>1, <2>2
<1>8. ASSUME NEW c \in Calls, NEW m \in Models, NEW size \in InputSizes,
             NEW asked \in OutputAsks \union {NoAsk}, NEW stream \in BOOLEAN,
             Proxy!Admit(c, m, size, asked, stream)
      PROVE  UsageInv'
  <2> DEFINE limit == Proxy!OutputLimit(m, size, asked)
             r == [Proxy!NewCall EXCEPT !.stage = "sent", !.attempt = row.attempt,
                     !.model = m, !.stream = stream, !.size = size, !.limit = limit]
  <2>1. call' = [call EXCEPT ![c] = r] /\ row' = row /\ call[c].stage = "new"
    BY <1>8 DEF Proxy!Admit
  <2> HIDE DEF limit
  <2>2. r.stage = "sent" /\ r.delivered = FALSE
    BY DEF Proxy!NewCall
  <2> HIDE DEF r
  <2> QED
    BY <1>5, <2>1, <2>2
<1>9. ASSUME NEW c \in Calls, Proxy!UpstreamFails(c)
      PROVE  UsageInv'
  <2> DEFINE r == [call[c] EXCEPT !.stage = "done"]
  <2>1. call' = [call EXCEPT ![c] = r] /\ row' = row /\ call[c].stage = "sent"
    BY <1>9 DEF Proxy!UpstreamFails
  <2>2. r.stage = "done" /\ r.delivered = call[c].delivered /\ r.stream = call[c].stream
    BY <1>1 DEF Call
  <2> HIDE DEF r
  <2> QED
    BY <1>3, <1>5, <2>1, <2>2
<1>10. ASSUME NEW c \in Calls, NEW output, Proxy!Answer(c, output)
       PROVE  UsageInv'
  <2> DEFINE r == [call[c] EXCEPT
                     !.stage = IF call[c].stream THEN "streaming" ELSE "answered",
                     !.output = output, !.answered = TRUE, !.delivered = call[c].stream]
  <2>1. call' = [call EXCEPT ![c] = r] /\ row' = row /\ call[c].stage = "sent"
    BY <1>1, <1>10 DEF Proxy!Answer
  <2>2. /\ r.stage = IF call[c].stream THEN "streaming" ELSE "answered"
        /\ r.delivered = call[c].stream /\ r.stream = call[c].stream /\ r.answered = TRUE
    BY <1>1 DEF Call
  <2> HIDE DEF r
  <2> QED
    BY <1>5, <2>1, <2>2
<1>11. ASSUME NEW c \in Calls, Proxy!BreakStream(c)
       PROVE  UsageInv'
  <2> DEFINE r == [call[c] EXCEPT !.stage = "done"]
  <2>1. call' = [call EXCEPT ![c] = r] /\ row' = row /\ call[c].stage = "streaming"
    BY <1>11 DEF Proxy!BreakStream
  <2>2. r.stage = "done" /\ r.stream = call[c].stream
    BY <1>1 DEF Call
  <2> HIDE DEF r
  <2> QED
    BY <1>3, <1>5, <2>1, <2>2
\* A call comes to its end, and the runner still holds the job or not.
<1>12. ASSUME NEW c \in Calls, NEW handed \in BOOLEAN,
              call[c].stage \in {"answered", "streaming"},
              handed => Proxy!Holds(c) \/ call[c].stream,
              call' = [call EXCEPT ![c] = [@ EXCEPT !.stage = "done", !.delivered = handed]],
              IF Proxy!Holds(c) THEN Proxy!Counted(c) ELSE UNCHANGED row
       PROVE  UsageInv'
  <2> DEFINE r == [call[c] EXCEPT !.stage = "done", !.delivered = handed]
  <2>1. call' = [call EXCEPT ![c] = r]
    BY <1>1, <1>12
  <2>2. /\ r.stage = "done" /\ r.stream = call[c].stream /\ r.answered = call[c].answered
        /\ r.delivered = handed /\ r.size = call[c].size /\ r.output = call[c].output
    BY <1>1 DEF Call
  <2> HIDE DEF r
  <2>3. CASE ~Proxy!Holds(c)
    BY <1>5, <1>12, <2>1, <2>2, <2>3
  <2>4. CASE Proxy!Holds(c)
    <3>1. /\ row'.input = row.input + call[c].size
          /\ row'.output = row.output + call[c].output /\ row'.reported = row.reported
      BY <1>1, <1>12, <2>4 DEF Proxy!Counted, Proxy!Row
    <3>2. call'[c] = r /\ \A d \in Calls : d # c => call'[d] = call[d]
      BY <1>1, <2>1
    <3>3. call[c].answered
      BY <1>3, <1>12
    <3>4. Counted(K \union {c})'
      BY <1>1, <1>2, <1>12, <2>2, <3>1, <3>2, <3>3, OneMoreCounted
    <3>5. K \union {c} \in SUBSET Calls
      OBVIOUS
    <3> QED
      BY <1>3, <2>2, <3>2, <3>4, <3>5 DEF UsageInv
  <2> QED
    BY <2>3, <2>4
<1>13. ASSUME NEW c \in Calls, Proxy!Count(c)
       PROVE  UsageInv'
  <2>1. Proxy!Holds(c) \in BOOLEAN
    BY DEF Proxy!Holds, Proxy!Active
  <2> QED
    BY <1>12, <1>13, <2>1 DEF Proxy!Count
<1>14. ASSUME NEW c \in Calls, Proxy!EndStream(c)
       PROVE  UsageInv'
  <2>1. call[c].stage = "streaming" /\ call[c].stream
    BY <1>3, <1>14 DEF Proxy!EndStream
  <2>2. call[c].delivered \in BOOLEAN
    BY <1>1 DEF Call
  <2>3. [call[c] EXCEPT !.stage = "done"]
          = [call[c] EXCEPT !.stage = "done", !.delivered = call[c].delivered]
    BY <1>1 DEF Call
  <2>4. call' = [call EXCEPT ![c] = [@ EXCEPT !.stage = "done", !.delivered = call[c].delivered]]
    BY <1>14, <2>3 DEF Proxy!EndStream
  <2> QED
    BY <1>12, <1>14, <2>1, <2>2, <2>4 DEF Proxy!EndStream
<1> QED
  BY <1>0, <1>4, <1>6, <1>7, <1>8, <1>9, <1>10, <1>11, <1>13, <1>14 DEF Proxy!ProxyNext

\* Over all runners of a job, the tokens of every plain answer that a runner
\* received are in the counters, and no call is in them twice or unanswered, save
\* in a counter that the report of the job replaces (UsageBounds).
THEOREM UsageCounted == Spec => []UsageBounds
<1>1. Init => ReportInv /\ UsageInv
  <2> SUFFICES ASSUME Init PROVE ReportInv /\ UsageInv
    OBVIOUS
  <2>1. /\ row.input = 0 /\ row.output = 0 /\ row.reported = {}
        /\ \A c \in Calls : call[c] = Proxy!NewCall
    BY DEF Init, Proxy!ProxyInit
  <2>2. \A c \in Calls : call[c].stage = "new" /\ call[c].delivered = FALSE
    BY <2>1 DEF Proxy!NewCall
  <2>3. Total(Size, {}) = 0 /\ Total(Output, {}) = 0
    BY TotalNat, FS_EmptySet
  <2>4. Counted({})
    BY <2>1, <2>2, <2>3 DEF Counted, Plain
  <2> QED
    BY <2>1, <2>2, <2>4 DEF UsageInv, ReportInv
<1>2. JobInv /\ ReportInv /\ UsageInv /\ [Next]_vars => (ReportInv /\ UsageInv)'
  <2> SUFFICES ASSUME JobInv, ReportInv, UsageInv, [Next]_vars PROVE ReportInv' /\ UsageInv'
    OBVIOUS
  <2>1. CASE Work
    BY <2>1, UsageStep, ReportStep DEF Work, JobInv
  <2>2. CASE Prepare \/ UNCHANGED vars
    <3>1. UNCHANGED <<row, call>>
      BY <2>2 DEF Prepare, vars
    <3> QED
      BY <3>1 DEF ReportInv, UsageInv, Counted, Plain, Settled, Size, Output
  <2> QED
    BY <2>1, <2>2 DEF Next
<1>3. JobInv /\ UsageInv => UsageBounds
  <2> SUFFICES ASSUME JobInv, UsageInv PROVE UsageBounds
    OBVIOUS
  <2>1. PICK K \in SUBSET Calls : Counted(K)
    BY DEF UsageInv
  <2> DEFINE answered == {c \in Calls : call[c].answered}
  <2>2. /\ Plain \in SUBSET K /\ K \in SUBSET answered
        /\ answered \in SUBSET Calls /\ Plain \in SUBSET Calls
    BY <2>1 DEF Counted, Settled
  <2>3. \A c \in Calls : Size[c] \in Nat /\ Output[c] \in Nat
    BY UsageTypes DEF JobInv
  <2> HIDE DEF answered
  <2>4. /\ Total(Size, Plain) <= Total(Size, K) /\ Total(Size, K) <= Total(Size, answered)
        /\ Total(Output, Plain) <= Total(Output, K)
        /\ Total(Output, K) <= Total(Output, answered)
    BY <2>2, <2>3, ProxyAssumption, TotalMonotone
  <2>5. \A S \in SUBSET Calls : Total(Size, S) \in Nat /\ Total(Output, S) \in Nat
    BY <2>3, ProxyAssumption, TotalNat
  <2>6. /\ "input" \notin row.reported =>
             row.input \in Total(Size, Plain) .. Total(Size, answered)
        /\ "output" \notin row.reported =>
             row.output \in Total(Output, Plain) .. Total(Output, answered)
    BY <2>1, <2>2, <2>4, <2>5 DEF Counted
  <2> QED
    BY <2>6, FoldIsTotal DEF UsageBounds, Proxy!UsageBounds, Size, Output, Plain, answered
<1> QED
  BY <1>1, <1>2, <1>3, JobInvariant, PTL DEF Spec
===============================================================================
