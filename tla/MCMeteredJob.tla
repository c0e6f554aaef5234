----------------------------- MODULE MCMeteredJob -----------------------------
(* Small instances of MeteredJob for TLC.                                   *)
EXTENDS MeteredJob, TLC

Balanced == [query |-> 20, fits |-> TRUE,
             strategy |-> "balanced", breadth |-> 2, depth |-> 2, queries |-> 2,
             budget |-> 100, wall |-> 3600, online |-> TRUE, sources |-> 0,
             documents |-> <<>>]

Doc(id, text, length) == [id |-> id, text |-> text, length |-> length]

\* Every shape, with the smallest budgets that do and do not carry it.
ShapeAsks ==
  {[Balanced EXCEPT !.strategy = "custom", !.breadth = b, !.depth = d, !.queries = q,
      !.budget = n] :
     b \in 0 .. 9, d \in 0 .. 5, q \in {0, 1, 5, 6}, n \in {25, 100}}
  \union {[Balanced EXCEPT !.strategy = s, !.budget = n] :
            s \in {"focused", "balanced", "broad", "deep"}, n \in {5, 24, 25, 49, 71, 101}}

\* What the pipe does not look at, on both sides of its bounds.
ListAsks ==
  {[Balanced EXCEPT !.wall = w, !.sources = n, !.online = o] :
     w \in {3600, 7201}, n \in {0, 201}, o \in BOOLEAN}
  \union {[Balanced EXCEPT !.wall = w] : w \in {59, 60, 7200}}
  \union {[Balanced EXCEPT !.query = q] : q \in {0, 2, 3, 50000, 50001}}
  \union {[Balanced EXCEPT !.fits = FALSE]}

\* Long, short, empty and repeated documents around the limit.
Lengths == {0, 1, 1990, 2000, 2001, 400000}

DocumentAsks ==
  {[Balanced EXCEPT !.documents = <<Doc(1, 1, m), Doc(2, 2, n)>>, !.online = FALSE] :
     m, n \in Lengths}
  \union {[Balanced EXCEPT !.documents = <<Doc(1, 1, n), Doc(2, 1, n), Doc(3, 2, 400000)>>] :
            n \in Lengths}
  \union {[Balanced EXCEPT !.documents = <<Doc(1, 1, l), Doc(2, 2, m), Doc(3, 3, n)>>] :
            l, m, n \in {1990, 2000, 400000}}

AllAsks == ShapeAsks \union ListAsks \union DocumentAsks

FollowedAsks == {Balanced}

CallSymmetry == Permutations(Calls)

\* One model with published limits, one whose output exceeds its context, and
\* one without.
PublishedLimits ==
  "published" :> [context |-> 8192, output |-> 2000]
    @@ "generous" :> [context |-> 4096, output |-> 9000]
    @@ "silent" :> [context |-> 0, output |-> 0]
===============================================================================
