------------------------ MODULE SeverityRouting_proofs ------------------------
(***************************************************************************)
(* What filter/severity.rs computes, for every day length and every pair   *)
(* of bounds.                                                              *)
(***************************************************************************)
EXTENDS SeverityRouting, TLAPS

\* A remainder below twice the divisor.
LEMMA RemainderBelowTwice ==
  ASSUME NEW day \in Nat \ {0}, NEW a \in Nat, a < 2 * day
  PROVE  a % day = IF a < day THEN a ELSE a - day
<1>1. CASE a < day
  BY <1>1
<1>2. CASE a >= day
  <2>1. a = 1 * day + (a - day) /\ a - day \in 0..(day - 1)
    BY <1>2
  <2> QED BY <2>1, Z3
<1> QED BY <1>1, <1>2

\* The two branches of is_quiet_hours (filter/severity.rs:60-68) compute one
\* clockwise interval [quiet_start, quiet_end), midnight included.
THEOREM QuietInterval ==
  ASSUME NEW day \in Nat \ {0},
         NEW start \in 0..(day - 1), NEW end \in 0..(day - 1), NEW t \in 0..(day - 1)
  PROVE  IsQuietHours(start, end, t) <=> InClockwiseInterval(day, start, end, t)
<1> DEFINE elapsed == t + day - start
           span    == end + day - start
<1>1. elapsed \in Nat /\ elapsed < 2 * day /\ span \in Nat /\ span < 2 * day
  OBVIOUS
<1>2. elapsed % day = (IF elapsed < day THEN elapsed ELSE elapsed - day)
  <2> HIDE DEF elapsed, span
  <2> QED BY <1>1, RemainderBelowTwice
<1>3. span % day = (IF span < day THEN span ELSE span - day)
  <2> HIDE DEF elapsed, span
  <2> QED BY <1>1, RemainderBelowTwice
<1>4. (elapsed % day < span % day) <=> IsQuietHours(start, end, t)
  BY <1>2, <1>3 DEF IsQuietHours
<1> QED
  BY <1>4 DEF InClockwiseInterval
=============================================================================
