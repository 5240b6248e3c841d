------------------------------ MODULE Readings ------------------------------
(***************************************************************************)
(* What the decision engines share: the units of a reading, Python's       *)
(* round() and sort(), and the clean-surplus heuristic of                  *)
(* engine/surplus.py.                                                      *)
(*                                                                         *)
(* A reading is [carbon, renewable, marginal]: carbon and marginal in      *)
(* hundredths of gCO2/kWh, renewable in tenths of a percent, the           *)
(* precisions the code rounds them to.  marginal is None when the source   *)
(* has no marginal figure.                                                 *)
(***************************************************************************)
EXTENDS Integers, Sequences, SequencesExt, FiniteSetsExt

None == -1

(* n / d rounded to the nearest integer, ties to the even one; d > 0. *)
RoundDiv(n, d) ==
    LET q == n \div d
        r == n % d
    IN  IF 2 * r > d \/ (2 * r = d /\ q % 2 = 1) THEN q + 1 ELSE q

(* The elements of s at the indices I, in their order. *)
Picked(s, I) ==
    [k \in 1 .. Cardinality(I) |-> s[CHOOSE i \in I : Cardinality({j \in I : j <= i}) = k]]

(* Lowest score first; sort() keeps equal scores in the order they came in. *)
RanksBefore(c, d) == c.score < d.score \/ (c.score = d.score /\ c.at <= d.at)
SortedByScore(scored) ==
    [k \in 1 .. Cardinality(scored) |->
        CHOOSE c \in scored : Cardinality({d \in scored : RanksBefore(d, c)}) = k]

SumOf(s) == FoldSeq(LAMBDA x, y: x + y, 0, s)
Mean(s) == RoundDiv(SumOf(s), Len(s))
Clamp(x, lo, hi) == IF x < lo THEN lo ELSE IF x > hi THEN hi ELSE x

(* The least and the greatest of a non-empty set of integers. *)
Least(S) == CHOOSE x \in S : \A y \in S : x <= y
Greatest(S) == CHOOSE x \in S : \A y \in S : x >= y

Reading(carbon, renewable, marginal) ==
    [carbon |-> carbon, renewable |-> renewable, marginal |-> marginal]

ReadingRecords == [carbon : Nat, renewable : 0 .. 1000, marginal : Nat \cup {None}]

(***************************************************************************)
(* Renewables at 85% or more, intensity at 80 g or less, and no marginal   *)
(* figure above 100 g.                                                     *)
(***************************************************************************)
IsCleanSurplus(p) ==
    /\ p.renewable >= 850
    /\ p.carbon <= 8000
    /\ p.marginal # None => p.marginal <= 10000

(* The offsets of a forecast (a sequence, hour 0 first) that look like surplus. *)
SurplusOffsets(points) ==
    {h \in 0 .. Len(points) - 1 : IsCleanSurplus(points[h + 1])}
=============================================================================
