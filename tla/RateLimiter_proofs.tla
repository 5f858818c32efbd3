-------------------------- MODULE RateLimiter_proofs --------------------------
(***************************************************************************)
(* The rate bound, for every capacity, refill and number of sources.       *)
(***************************************************************************)
EXTENDS RateLimiter, FiniteSetTheorems, TLAPS

USE RateAssumption

\* The two products, which the other proofs never look into.
LEMMA CostAdds ==
  /\ Cost(1) = Minute
  /\ \A k \in Nat : Cost(k) \in Nat /\ Cost(k + 1) = Cost(k) + Minute
<1>1. \A k \in Nat : Minute * k \in Nat /\ Minute * (k + 1) = Minute * k + Minute
  BY Z3
<1>2. Minute * 1 = Minute
  BY Z3
<1> QED BY <1>1, <1>2 DEF Cost

LEMMA RefillAdds ==
  ASSUME NEW b
  PROVE  /\ Refill(b, 0) = 0
         /\ \A x \in Nat : Refill(b, x) \in Nat
         /\ \A x, y \in Nat : Refill(b, x + y) = Refill(b, x) + Refill(b, y)
<1>1. PerMin(b) \in Nat
  BY DEF PerMin
<1> DEFINE p == PerMin(b)
<1> HIDE DEF p
<1>2. p \in Nat
  BY <1>1 DEF p
<1>3. p * 0 = 0 /\ \A x \in Nat : p * x \in Nat
  BY <1>2, Z3
<1>4. \A x, y \in Nat : p * (x + y) = p * x + p * y
  BY <1>2, Z3
<1> QED BY <1>3, <1>4 DEF Refill, p

\* What the limiter's numbers are.
LEMMA BucketTypes ==
  ASSUME RateTypeOK, NEW b \in BucketKeys
  PROVE  /\ Capacity(b) \in Nat
         /\ buckets[b].tokens \in Nat /\ buckets[b].last \in Nat /\ clock \in Nat
         /\ admitted[b] \in Seq(Instants) /\ Len(admitted[b]) \in Nat
         /\ \A i \in 1..Len(admitted[b]) : admitted[b][i] \in Nat
<1>1. PerMin(b) \in Nat
  BY DEF PerMin
<1>2. Capacity(b) \in Nat
  BY <1>1, CostAdds DEF Capacity
<1> QED BY <1>2 DEF RateTypeOK, Instants

LEMMA RefilledBounds ==
  ASSUME RateTypeOK, NEW b \in BucketKeys, buckets[b].last <= clock
  PROVE  /\ Refilled(b) \in Nat
         /\ Refilled(b) <= Capacity(b)
         /\ Refilled(b) <= buckets[b].tokens + Refill(b, clock - buckets[b].last)
<1>1. clock - buckets[b].last \in Nat
  BY BucketTypes
<1>2. Refill(b, clock - buckets[b].last) \in Nat
  BY <1>1, RefillAdds
<1> QED BY <1>2, BucketTypes DEF Refilled, Least

LEMMA RateTypeInit == RateInit => RateTypeOK
<1> SUFFICES ASSUME RateInit PROVE RateTypeOK
  OBVIOUS
<1>1. \A b \in BucketKeys : Capacity(b) \in Nat
  <2> SUFFICES ASSUME NEW b \in BucketKeys PROVE PerMin(b) \in Nat
    BY CostAdds DEF Capacity
  <2> QED BY DEF PerMin
<1> QED BY <1>1 DEF RateInit, RateTypeOK, Instants

LEMMA RateTypeStep ==
  ASSUME RateTypeOK, RateInv,
         \/ \E b \in BucketKeys : (Admit(b) \/ Refuse(b)) /\ UNCHANGED clock
         \/ Ticks /\ UNCHANGED rateVars
         \/ EmptyMap(clock) /\ UNCHANGED clock
         \/ UNCHANGED <<clock, rateVars>>
  PROVE  RateTypeOK'
<1>1. ASSUME NEW b \in BucketKeys, Admit(b), UNCHANGED clock PROVE RateTypeOK'
  <2>1. Refilled(b) \in Nat /\ Minute \in Nat
    BY RefilledBounds DEF RateInv, BucketInv
  <2>2. Refilled(b) - Minute \in Nat
    BY <1>1, <2>1 DEF Admit
  <2> QED BY <1>1, <2>2 DEF Admit, RateTypeOK
<1>2. ASSUME NEW b \in BucketKeys, Refuse(b), UNCHANGED clock PROVE RateTypeOK'
  <2>1. Refilled(b) \in Nat
    BY RefilledBounds DEF RateInv, BucketInv
  <2> QED BY <1>2, <2>1 DEF Refuse, RateTypeOK
<1>3. CASE Ticks /\ UNCHANGED rateVars
  BY <1>3 DEF Ticks, rateVars, RateTypeOK, Instants
<1>4. CASE EmptyMap(clock) /\ UNCHANGED clock
  <2>1. \A b \in BucketKeys : Capacity(b) \in Nat
    BY BucketTypes
  <2>2. admitted' \in [BucketKeys -> Seq(Instants)]
    BY <1>4 DEF EmptyMap
  <2> QED BY <1>4, <2>1, <2>2 DEF EmptyMap, RateTypeOK
<1>5. CASE UNCHANGED <<clock, rateVars>>
  BY <1>5 DEF rateVars, RateTypeOK
<1> QED BY <1>1, <1>2, <1>3, <1>4, <1>5

LEMMA RateInvInit == RateInit => RateInv
<1> SUFFICES ASSUME RateInit, NEW b \in BucketKeys PROVE BucketInv(b)
  BY DEF RateInv
<1>1. Len(admitted[b]) = 0 /\ clock = 0 /\ buckets[b].last = 0 /\ buckets[b].tokens = Capacity(b)
  BY DEF RateInit
<1>2. Capacity(b) \in Nat
  BY RateTypeInit, BucketTypes
<1> QED BY <1>1, <1>2 DEF BucketInv

\* Asking a bucket later only moves tokens from the refill into the bucket.
LEMMA RefillKeepsSpent ==
  ASSUME RateTypeOK, NEW b \in BucketKeys, BucketInv(b), NEW i \in 1..Len(admitted[b])
  PROVE  Cost(Len(admitted[b]) - i + 1) + Refilled(b)
           <= Capacity(b) + Refill(b, clock - admitted[b][i])
<1> DEFINE t == admitted[b][i]
           last == buckets[b].last
           k == Len(admitted[b]) - i + 1
<1>1. /\ t \in Nat /\ last \in Nat /\ clock \in Nat /\ k \in Nat /\ t <= last /\ last <= clock
      /\ buckets[b].tokens \in Nat /\ Capacity(b) \in Nat
  BY BucketTypes DEF BucketInv
<1>2. Refilled(b) \in Nat /\ Refilled(b) <= buckets[b].tokens + Refill(b, clock - last)
  BY RefilledBounds DEF BucketInv
<1>3. Cost(k) + buckets[b].tokens <= Capacity(b) + Refill(b, last - t)
  BY DEF BucketInv, Spent
<1> HIDE DEF t, last, k
<1>4. Refill(b, clock - t) = Refill(b, clock - last) + Refill(b, last - t)
  <2>1. clock - t = (clock - last) + (last - t) /\ clock - last \in Nat /\ last - t \in Nat
    BY <1>1
  <2> DEFINE x == clock - last
             y == last - t
  <2>2. x \in Nat /\ y \in Nat /\ clock - t = x + y
    BY <2>1
  <2> HIDE DEF x, y
  <2>3. Refill(b, x + y) = Refill(b, x) + Refill(b, y)
    BY <2>2, RefillAdds
  <2> QED BY <2>2, <2>3 DEF x, y
<1>5. Cost(k) \in Nat /\ Refill(b, clock - last) \in Nat /\ Refill(b, last - t) \in Nat
  <2>1. clock - last \in Nat /\ last - t \in Nat
    BY <1>1
  <2> QED BY <1>1, <2>1, CostAdds, RefillAdds
<1>6. Cost(k) + Refilled(b) <= Capacity(b) + Refill(b, clock - t)
  <2> DEFINE x == Refill(b, clock - last)
             y == Refill(b, last - t)
             c == Cost(k)
             held == buckets[b].tokens
  <2>1. /\ x \in Nat /\ y \in Nat /\ c \in Nat /\ held \in Nat
        /\ Refilled(b) \in Nat /\ Capacity(b) \in Nat
        /\ Refilled(b) <= held + x /\ c + held <= Capacity(b) + y
        /\ Refill(b, clock - t) = x + y
    BY <1>1, <1>2, <1>3, <1>4, <1>5
  <2> HIDE DEF x, y, c, held
  <2>2. c + Refilled(b) <= Capacity(b) + (x + y)
    BY <2>1
  <2> QED BY <2>1, <2>2 DEF c
<1> QED BY <1>6 DEF t, k

LEMMA AdmitKeepsInv ==
  ASSUME RateTypeOK, NEW b \in BucketKeys, BucketInv(b), Admit(b), UNCHANGED clock
  PROVE  BucketInv(b)'
<1> DEFINE n == Len(admitted[b])
<1>1. /\ Capacity(b) \in Nat /\ n \in Nat /\ clock \in Nat /\ Refilled(b) \in Nat
      /\ Refilled(b) <= Capacity(b) /\ Refilled(b) >= Minute /\ Minute \in Nat
      /\ \A i \in 1..n : admitted[b][i] \in Nat /\ admitted[b][i] <= buckets[b].last
      /\ buckets[b].last \in Nat /\ buckets[b].last <= clock
  BY BucketTypes, RefilledBounds DEF Admit, BucketInv
<1>2. /\ buckets'[b].tokens = Refilled(b) - Minute /\ buckets'[b].last = clock
      /\ Len(admitted'[b]) = n + 1 /\ admitted'[b][n + 1] = clock
      /\ \A i \in 1..n : admitted'[b][i] = admitted[b][i]
      /\ clock' = clock
  BY BucketTypes DEF Admit, RateTypeOK
<1>3. ASSUME NEW i \in 1..n
      PROVE  Cost(n - i + 1) + Refilled(b) <= Capacity(b) + Refill(b, clock - admitted[b][i])
  BY RefillKeepsSpent
<1>4. \A i, j \in 1..n : i <= j =>
       /\ admitted[b][i] <= admitted[b][j]
       /\ Cost(j - i + 1) <= Capacity(b) + Refill(b, admitted[b][j] - admitted[b][i])
  BY DEF BucketInv
<1> HIDE DEF n
<1>5. ASSUME NEW i \in 1..(n + 1)
      PROVE  /\ admitted'[b][i] \in Nat /\ admitted'[b][i] <= clock
             /\ Cost((n + 1) - i + 1) \in Nat /\ Refill(b, clock - admitted'[b][i]) \in Nat
             /\ Cost((n + 1) - i + 1) + (Refilled(b) - Minute)
                  <= Capacity(b) + Refill(b, clock - admitted'[b][i])
  <2>1. CASE i = n + 1
    <3>1. admitted'[b][i] = clock /\ (n + 1) - i + 1 = 1 /\ clock - clock = 0
      BY <1>1, <1>2, <2>1
    <3>2. Cost(1) = Minute /\ Refill(b, 0) = 0
      BY CostAdds, RefillAdds
    <3>3. Cost((n + 1) - i + 1) = Minute /\ Refill(b, clock - admitted'[b][i]) = 0
      BY <3>1, <3>2
    <3>4. Minute + (Refilled(b) - Minute) <= Capacity(b) + 0 /\ clock <= clock /\ clock \in Nat
      BY <1>1
    <3> QED BY <1>1, <3>1, <3>3, <3>4
  <2>2. CASE i \in 1..n
    <3> DEFINE k == n - i + 1
               d == clock - admitted[b][i]
    <3>0. i \in Nat /\ i <= n /\ n \in Nat
      BY <1>1, <2>2
    <3>1. k \in Nat /\ d \in Nat /\ (n + 1) - i + 1 = k + 1 /\ admitted'[b][i] = admitted[b][i]
      <4>1. k \in Nat /\ (n + 1) - i + 1 = k + 1
        BY <3>0
      <4>2. admitted[b][i] \in Nat /\ admitted[b][i] <= buckets[b].last
        BY <1>1, <2>2
      <4>3. d \in Nat
        BY <1>1, <4>2
      <4> QED BY <1>2, <2>2, <4>1, <4>3
    <3>2. Cost(k) + Refilled(b) <= Capacity(b) + Refill(b, d)
      BY <1>3, <2>2
    <3>3. admitted[b][i] <= clock /\ admitted[b][i] \in Nat
      BY <1>1, <2>2
    <3>4. d = clock - admitted'[b][i]
      BY <3>1
    <3> HIDE DEF k, d
    <3>5. Cost(k + 1) = Cost(k) + Minute /\ Cost(k) \in Nat /\ Refill(b, d) \in Nat
      BY <3>1, CostAdds, RefillAdds
    <3>6. Cost(k + 1) + (Refilled(b) - Minute) <= Capacity(b) + Refill(b, d) /\ Cost(k + 1) \in Nat
      BY <1>1, <3>2, <3>5
    <3> QED BY <3>1, <3>3, <3>4, <3>5, <3>6
  <2> QED BY <1>1, <2>1, <2>2
<1>6. ASSUME NEW i \in 1..(n + 1), NEW j \in 1..(n + 1), i <= j
      PROVE  /\ admitted'[b][i] <= admitted'[b][j]
             /\ Cost(j - i + 1) <= Capacity(b) + Refill(b, admitted'[b][j] - admitted'[b][i])
  <2>1. CASE j = n + 1
    <3>1. admitted'[b][j] = clock /\ j - i + 1 = (n + 1) - i + 1
      BY <1>1, <1>2, <2>1
    <3> QED BY <1>1, <1>5, <3>1
  <2>2. CASE j \in 1..n
    <3>1. i \in 1..n
      BY <1>1, <1>6, <2>2
    <3> QED BY <1>2, <1>4, <1>6, <2>2, <3>1
  <2> QED BY <1>1, <2>1, <2>2
<1>7. /\ buckets'[b].last <= clock' /\ buckets'[b].tokens <= Capacity(b)
      /\ Len(admitted'[b]) = n + 1
  BY <1>1, <1>2
<1>8. ASSUME NEW i \in 1..Len(admitted'[b])
      PROVE  /\ admitted'[b][i] <= buckets'[b].last
             /\ Spent(b, i)' <= Capacity(b) + Refill(b, buckets'[b].last - admitted'[b][i])
  <2>1. i \in 1..(n + 1)
    BY <1>7
  <2>2. Spent(b, i)' = Cost((n + 1) - i + 1) + (Refilled(b) - Minute)
    <3>1. Spent(b, i)' = Cost(Len(admitted'[b]) - i + 1) + buckets'[b].tokens
      BY DEF Spent, Cost
    <3>2. Len(admitted'[b]) = n + 1 /\ buckets'[b].tokens = Refilled(b) - Minute
      BY <1>2
    <3>3. Cost(Len(admitted'[b]) - i + 1) = Cost((n + 1) - i + 1)
      BY <3>2
    <3> QED BY <3>1, <3>2, <3>3, Zenon
  <2>3. buckets'[b].last - admitted'[b][i] = clock - admitted'[b][i]
    BY <1>2
  <2> QED BY <1>2, <1>5, <2>1, <2>2, <2>3
<1> QED BY <1>6, <1>7, <1>8 DEF BucketInv

LEMMA RefuseKeepsInv ==
  ASSUME RateTypeOK, NEW b \in BucketKeys, BucketInv(b), Refuse(b), UNCHANGED clock
  PROVE  BucketInv(b)'
<1>1. /\ buckets'[b].tokens = Refilled(b) /\ buckets'[b].last = clock /\ clock' = clock
      /\ admitted' = admitted
  BY DEF Refuse, RateTypeOK
<1>2. /\ Refilled(b) <= Capacity(b) /\ clock \in Nat /\ buckets[b].last \in Nat
      /\ \A i \in 1..Len(admitted[b]) : admitted[b][i] \in Nat /\ admitted[b][i] <= clock
  <2>1. Refilled(b) <= Capacity(b) /\ clock \in Nat /\ buckets[b].last \in Nat /\ buckets[b].last <= clock
    BY BucketTypes, RefilledBounds DEF BucketInv
  <2>2. \A i \in 1..Len(admitted[b]) : admitted[b][i] \in Nat /\ admitted[b][i] <= buckets[b].last
    BY BucketTypes DEF BucketInv
  <2>3. ASSUME NEW i \in 1..Len(admitted[b]) PROVE admitted[b][i] <= clock
    <3>1. admitted[b][i] \in Nat /\ admitted[b][i] <= buckets[b].last
      BY <2>2
    <3> QED BY <2>1, <3>1
  <2> QED BY <2>1, <2>2, <2>3
<1>3. ASSUME NEW i \in 1..Len(admitted'[b])
      PROVE  Spent(b, i)' <= Capacity(b) + Refill(b, buckets'[b].last - admitted'[b][i])
  BY <1>1, RefillKeepsSpent DEF Spent
<1>4. /\ buckets'[b].last <= clock' /\ buckets'[b].tokens <= Capacity(b)
      /\ \A i \in 1..Len(admitted'[b]) : admitted'[b][i] <= buckets'[b].last
  BY <1>1, <1>2
<1>5. ASSUME NEW i \in 1..Len(admitted'[b]), NEW j \in 1..Len(admitted'[b]), i <= j
      PROVE  /\ admitted'[b][i] <= admitted'[b][j]
             /\ Cost(j - i + 1) <= Capacity(b) + Refill(b, admitted'[b][j] - admitted'[b][i])
  BY <1>1, <1>5 DEF BucketInv
<1> QED BY <1>3, <1>4, <1>5 DEF BucketInv

LEMMA RateInvStep ==
  ASSUME RateTypeOK, RateInv,
         \/ \E b \in BucketKeys : (Admit(b) \/ Refuse(b)) /\ UNCHANGED clock
         \/ Ticks /\ UNCHANGED rateVars
         \/ EmptyMap(clock) /\ UNCHANGED clock
         \/ UNCHANGED <<clock, rateVars>>
  PROVE  RateInv'
<1> SUFFICES ASSUME NEW b \in BucketKeys PROVE BucketInv(b)'
  BY DEF RateInv
<1>1. BucketInv(b)
  BY DEF RateInv
<1>2. ASSUME clock <= clock', buckets'[b] = buckets[b], admitted'[b] = admitted[b],
             clock \in Nat, clock' \in Nat
      PROVE  BucketInv(b)'
  BY <1>1, <1>2, BucketTypes DEF BucketInv, Spent
<1>3. ASSUME NEW c \in BucketKeys, Admit(c) \/ Refuse(c), UNCHANGED clock PROVE BucketInv(b)'
  <2>1. CASE c = b
    BY <1>1, <1>3, <2>1, AdmitKeepsInv, RefuseKeepsInv
  <2>2. CASE c # b
    <3>1. buckets'[b] = buckets[b] /\ admitted'[b] = admitted[b] /\ clock' = clock /\ clock \in Nat
      BY <1>3, <2>2, BucketTypes DEF Admit, Refuse, RateTypeOK
    <3> QED BY <1>2, <3>1
  <2> QED BY <2>1, <2>2
<1>4. CASE Ticks /\ UNCHANGED rateVars
  BY <1>2, <1>4, BucketTypes DEF Ticks, rateVars
<1>5. CASE EmptyMap(clock) /\ UNCHANGED clock
  <2>1. /\ Len(admitted'[b]) = 0 /\ buckets'[b].last = clock /\ clock' = clock
        /\ buckets'[b].tokens = Capacity(b)
    BY <1>5 DEF EmptyMap
  <2>2. Capacity(b) \in Nat /\ clock \in Nat
    BY BucketTypes
  <2> QED BY <2>1, <2>2 DEF BucketInv
<1>6. CASE UNCHANGED <<clock, rateVars>>
  BY <1>2, <1>6, BucketTypes DEF rateVars
<1> QED BY <1>3, <1>4, <1>5, <1>6

LEMMA RateInvBounds == RateInv => WithinRate
BY DEF RateInv, BucketInv, WithinRate

\* Over any stretch of time a bucket lets through at most its capacity and what
\* it refills meanwhile (ratelimit.rs:50-92), for every configuration.
THEOREM RateBound == RateSpec => []WithinRate
<1>1. RateInit => RateTypeOK /\ RateInv
  BY RateTypeInit, RateInvInit
<1>2. RateTypeOK /\ RateInv /\ [RateNext]_<<clock, rateVars>> => (RateTypeOK /\ RateInv)'
  BY RateTypeStep, RateInvStep DEF RateNext
<1> QED BY <1>1, <1>2, RateInvBounds, PTL DEF RateSpec

-----------------------------------------------------------------------------
(* Who is refused has used up a minute's worth. *)

\* What a bucket let through after an instant.
LEMMA LateFinite ==
  ASSUME RateTypeOK, NEW b \in BucketKeys, NEW t
  PROVE  /\ IsFiniteSet(Late(b, t)) /\ Cardinality(Late(b, t)) \in Nat
         /\ Cardinality(Late(b, t)) <= Len(admitted[b])
<1>1. Len(admitted[b]) \in Nat
  BY BucketTypes
<1>2. IsFiniteSet(1..Len(admitted[b])) /\ Cardinality(1..Len(admitted[b])) = Len(admitted[b])
  <2> DEFINE n == Len(admitted[b])
  <2> HIDE DEF n
  <2>1. n \in Nat /\ n \in Int /\ 1 \in Int
    BY <1>1 DEF n
  <2>2. IsFiniteSet(1..n) /\ Cardinality(1..n) = IF 1 > n THEN 0 ELSE n - 1 + 1
    BY <2>1, FS_Interval
  <2> QED BY <2>1, <2>2 DEF n
<1>3. Late(b, t) \in SUBSET (1..Len(admitted[b]))
  BY DEF Late
<1> QED BY <1>2, <1>3, FS_Subset, FS_CardinalityType

LEMMA LateGrows ==
  ASSUME RateTypeOK, NEW b \in BucketKeys, NEW t \in Nat, Admit(b)
  PROVE  /\ t < clock + Minute => Cardinality(Late(b, t)') = Cardinality(Late(b, t)) + 1
         /\ t >= clock + Minute => Late(b, t)' = Late(b, t)
<1> DEFINE n == Len(admitted[b])
<1>1. /\ n \in Nat /\ Len(admitted'[b]) = n + 1 /\ admitted'[b][n + 1] = clock
      /\ \A i \in 1..n : admitted'[b][i] = admitted[b][i]
  BY BucketTypes DEF Admit, RateTypeOK
<1> HIDE DEF n
<1>2. \A i : i \in 1..(n + 1) <=> i \in 1..n \/ i = n + 1
  BY <1>1
<1>3. n + 1 \notin 1..n
  BY <1>1
<1>4. Late(b, t) = {i \in 1..n : t < admitted[b][i] + Minute}
  BY DEF Late, n
<1>5. Late(b, t)' = {i \in 1..(n + 1) : t < admitted'[b][i] + Minute}
  BY <1>1 DEF Late
<1>6. CASE t < clock + Minute
  <2>1. Late(b, t)' = Late(b, t) \cup {n + 1} /\ n + 1 \notin Late(b, t)
    BY <1>1, <1>2, <1>3, <1>4, <1>5, <1>6
  <2>2. IsFiniteSet(Late(b, t)) /\ clock \in Nat /\ Minute \in Nat
    BY LateFinite, BucketTypes
  <2>3. Cardinality(Late(b, t) \cup {n + 1}) = Cardinality(Late(b, t)) + 1
    BY <2>1, <2>2, FS_AddElement
  <2> QED BY <1>6, <2>1, <2>2, <2>3
<1>7. CASE ~(t < clock + Minute)
  BY <1>1, <1>2, <1>3, <1>4, <1>5, <1>7, BucketTypes
<1> QED BY <1>6, <1>7, BucketTypes

\* BusyInv holds of the bucket as it is when it is refilled.
LEMMA RefilledBusy ==
  ASSUME RateTypeOK, RateInv, BusyInv, NEW b \in BucketKeys, NEW t \in 0..(clock + Minute)
  PROVE  Refilled(b) + Cost(Cardinality(Late(b, t)))
           >= Least(Capacity(b), Refill(b, clock + Minute - t))
<1> DEFINE last == buckets[b].last
           held == buckets[b].tokens
           cap == Capacity(b)
           n == Cost(Cardinality(Late(b, t)))
           x == Refill(b, clock - last)
<1>1. /\ t \in Nat /\ t <= clock + Minute /\ last \in Nat /\ clock \in Nat /\ last <= clock
      /\ Minute \in Nat /\ held \in Nat /\ cap \in Nat /\ clock - last \in Nat
  BY BucketTypes DEF RateInv, BucketInv
<1>2. n \in Nat /\ x \in Nat
  BY <1>1, LateFinite, CostAdds, RefillAdds
<1>3. Refilled(b) = Least(held + x, cap)
  BY DEF Refilled
<1>4. CASE t <= last + Minute
  <2> DEFINE d == last + Minute - t
             e == clock - last
             y == Refill(b, d)
  <2>1. d \in Nat /\ e \in Nat /\ clock + Minute - t = e + d /\ t \in 0..(last + Minute)
    BY <1>1, <1>4
  <2>2. held + n >= Least(cap, y)
    BY <2>1 DEF BusyInv
  <2> HIDE DEF d, e
  <2>3. Refill(b, e + d) = Refill(b, e) + y /\ y \in Nat
    BY <2>1, RefillAdds
  <2>4. Refill(b, clock + Minute - t) = x + y
    BY <2>1, <2>3 DEF e
  <2> HIDE DEF y, x, n, cap, held
  <2>5. Least(held + x, cap) + n >= Least(cap, x + y)
    BY <1>1, <1>2, <2>2, <2>3 DEF Least
  <2> QED BY <1>3, <2>4, <2>5 DEF n, cap
<1>5. CASE t > last + Minute
  <2> DEFINE d == clock + Minute - t
             e == t - (last + Minute)
             z == Refill(b, d)
  <2>1. d \in Nat /\ e \in Nat /\ clock - last = d + e
    BY <1>1, <1>5
  <2> HIDE DEF d, e
  <2>2. Refill(b, d + e) = z + Refill(b, e) /\ z \in Nat /\ Refill(b, e) \in Nat
    BY <2>1, RefillAdds
  <2>3. x >= z
    <3>1. x = z + Refill(b, e)
      BY <2>1, <2>2
    <3> HIDE DEF x, z
    <3> QED BY <2>2, <3>1
  <2> HIDE DEF z, x, n, cap, held
  <2>4. Least(held + x, cap) + n >= Least(cap, z)
    BY <1>1, <1>2, <2>2, <2>3 DEF Least
  <2> QED BY <1>3, <2>4 DEF n, cap, z, d
<1> QED BY <1>1, <1>4, <1>5

LEMMA AdmitKeepsBusy ==
  ASSUME RateTypeOK, RateInv, BusyInv, NEW b \in BucketKeys, Admit(b), UNCHANGED clock,
         NEW t \in 0..(buckets'[b].last + Minute)
  PROVE  buckets'[b].tokens + Cost(Cardinality(Late(b, t)'))
           >= Least(Capacity(b), Refill(b, buckets'[b].last + Minute - t))
<1> DEFINE m == Cardinality(Late(b, t))
           cap == Capacity(b)
<1>1. /\ buckets'[b].tokens = Refilled(b) - Minute /\ buckets'[b].last = clock
      /\ Refilled(b) >= Minute
  BY DEF Admit, RateTypeOK
<1>2. /\ clock \in Nat /\ Minute \in Nat /\ t \in Nat /\ t <= clock + Minute /\ cap \in Nat
      /\ m \in Nat /\ t \in 0..(clock + Minute)
  BY <1>1, BucketTypes, LateFinite
<1>3. Refilled(b) \in Nat
  BY RefilledBounds DEF RateInv, BucketInv
<1>4. Cost(m) \in Nat /\ Cost(m + 1) = Cost(m) + Minute
  BY <1>2, CostAdds
<1>5. CASE t < clock + Minute
  <2> DEFINE w == Least(cap, Refill(b, clock + Minute - t))
             R == Refilled(b)
  <2>1. Cardinality(Late(b, t)') = m + 1
    BY <1>2, <1>5, LateGrows
  <2>2. R + Cost(m) >= w
    BY <1>2, RefilledBusy
  <2>3. w \in Nat
    <3>1. clock + Minute - t \in Nat
      BY <1>2
    <3>2. Refill(b, clock + Minute - t) \in Nat
      BY <3>1, RefillAdds
    <3> QED BY <1>2, <3>2 DEF Least
  <2> HIDE DEF w, m, R
  <2>4. (R - Minute) + Cost(m + 1) >= w
    BY <1>2, <1>3, <1>4, <2>2, <2>3 DEF R
  <2> QED BY <1>1, <2>1, <2>4 DEF w, R
<1>6. CASE t = clock + Minute
  <2>1. clock + Minute - t = 0
    BY <1>2, <1>6
  <2>2. Least(cap, Refill(b, clock + Minute - t)) = 0
    BY <1>2, <2>1, RefillAdds DEF Least
  <2>3. Late(b, t)' = Late(b, t)
    BY <1>2, <1>6, LateGrows
  <2>4. buckets'[b].tokens \in Nat
    BY <1>1, <1>2, <1>3
  <2>5. buckets'[b].tokens + Cost(m) >= 0
    BY <1>4, <2>4
  <2> QED BY <1>1, <2>2, <2>3, <2>5
<1> QED BY <1>2, <1>5, <1>6

LEMMA BusyStep ==
  ASSUME RateTypeOK, RateInv, BusyInv,
         \/ \E b \in BucketKeys : (Admit(b) \/ Refuse(b)) /\ UNCHANGED clock
         \/ Ticks /\ UNCHANGED rateVars
         \/ EmptyMap(clock) /\ UNCHANGED clock
         \/ UNCHANGED <<clock, rateVars>>
  PROVE  BusyInv'
<1> SUFFICES ASSUME NEW b \in BucketKeys, NEW t \in 0..(buckets'[b].last + Minute)
             PROVE  buckets'[b].tokens + Cost(Cardinality(Late(b, t)'))
                      >= Least(Capacity(b), Refill(b, buckets'[b].last + Minute - t))
  BY DEF BusyInv, Capacity, Refill, PerMin, Cost
<1>1. CASE buckets'[b] = buckets[b] /\ admitted'[b] = admitted[b]
  <2>1. Late(b, t)' = Late(b, t)
    BY <1>1 DEF Late
  <2> QED BY <1>1, <2>1 DEF BusyInv
<1>2. CASE Admit(b) /\ UNCHANGED clock
  BY <1>2, AdmitKeepsBusy
<1>3. CASE Refuse(b) /\ UNCHANGED clock
  <2>1. buckets'[b].tokens = Refilled(b) /\ buckets'[b].last = clock /\ admitted' = admitted
    BY <1>3 DEF Refuse, RateTypeOK
  <2>2. Late(b, t)' = Late(b, t)
    BY <2>1 DEF Late
  <2> QED BY <2>1, <2>2, RefilledBusy
<1>4. CASE EmptyMap(clock)
  <2> DEFINE n == Cost(Cardinality(Late(b, t)'))
             d == buckets'[b].last + Minute - t
  <2>1. buckets'[b].tokens = Capacity(b) /\ buckets'[b].last = clock /\ admitted'[b] = <<>>
    BY <1>4 DEF EmptyMap
  <2>2. Late(b, t)' = {}
    BY <2>1 DEF Late
  <2>3. n \in Nat
    BY <2>2, FS_EmptySet, CostAdds
  <2>4. d \in Nat /\ Capacity(b) \in Nat
    BY <2>1, BucketTypes
  <2> HIDE DEF n, d
  <2>5. Refill(b, d) \in Nat
    BY <2>4, RefillAdds
  <2>6. Capacity(b) + n >= Least(Capacity(b), Refill(b, d))
    BY <2>3, <2>4, <2>5 DEF Least
  <2> QED BY <2>1, <2>6 DEF n, d
<1>5. ASSUME NEW c \in BucketKeys, c # b, Admit(c) \/ Refuse(c)
      PROVE  buckets'[b] = buckets[b] /\ admitted'[b] = admitted[b]
  BY <1>5 DEF Admit, Refuse, RateTypeOK
<1> QED BY <1>1, <1>2, <1>3, <1>4, <1>5 DEF rateVars

LEMMA CostMonotone == \A k, j \in Nat : k <= j => Cost(k) <= Cost(j)
<1>1. \A k, j \in Nat : k <= j => Minute * k <= Minute * j
  BY Z3
<1> QED BY <1>1 DEF Cost

\* A refusal at this moment: less than a token is left of the refill since a
\* minute ago, which a full bucket needs.
LEMMA RefusedNow ==
  ASSUME RateTypeOK, RateInv, BusyInv, NEW b \in BucketKeys, Refilled(b) < Minute
  PROVE  Cardinality(Late(b, clock)) >= PerMin(b)
<1> DEFINE n == Cardinality(Late(b, clock))
           p == PerMin(b)
<1>1. p \in Nat /\ n \in Nat /\ clock \in Nat /\ Minute \in Nat
  BY LateFinite, BucketTypes DEF PerMin
<1>2. Refill(b, clock + Minute - clock) = Cost(p) /\ Capacity(b) = Cost(p)
  <2>1. clock + Minute - clock = Minute
    BY <1>1
  <2>2. p * Minute = Minute * p
    BY <1>1, Z3
  <2> QED BY <2>1, <2>2 DEF Refill, Cost, Capacity
<1>3. Refilled(b) + Cost(n) >= Cost(p)
  <2>1. clock \in 0..(clock + Minute)
    BY <1>1
  <2>2. Refilled(b) + Cost(n) >= Least(Cost(p), Cost(p))
    BY <1>2, <2>1, RefilledBusy
  <2> QED BY <2>2 DEF Least
<1>4. Refilled(b) \in Nat
  BY RefilledBounds DEF RateInv, BucketInv
<1>5. Cost(n + 1) = Cost(n) + Minute /\ Cost(n) \in Nat /\ Cost(p) \in Nat
  BY <1>1, CostAdds
<1> HIDE DEF n, p
<1>6. ~(n + 1 <= p)
  <2> SUFFICES ASSUME n + 1 <= p PROVE FALSE
    OBVIOUS
  <2>1. Cost(n + 1) <= Cost(p)
    BY <1>1, CostMonotone
  <2> QED BY <1>1, <1>3, <1>4, <1>5, <2>1
<1> QED BY <1>1, <1>6 DEF n, p

LEMMA RefusedStep ==
  ASSUME RateTypeOK, RateTypeOK', RateInv, BusyInv, RefusedOnlyWhenBusy,
         \/ \E b \in BucketKeys : (Admit(b) \/ Refuse(b)) /\ UNCHANGED clock
         \/ Ticks /\ UNCHANGED rateVars
         \/ EmptyMap(clock) /\ UNCHANGED clock
         \/ UNCHANGED <<clock, rateVars>>
  PROVE  RefusedOnlyWhenBusy'
<1> SUFFICES ASSUME NEW b \in BucketKeys, NEW t \in Instants, <<b, t>> \in refusals'
             PROVE  Cardinality(Late(b, t)') >= PerMin(b)
  BY DEF RefusedOnlyWhenBusy, RateTypeOK, PerMin
<1>1. CASE EmptyMap(clock)
  BY <1>1 DEF EmptyMap
<1>2. CASE <<b, t>> \in refusals /\ ~EmptyMap(clock)
  <2>1. Late(b, t) \in SUBSET Late(b, t)'
    <3>1. /\ Len(admitted[b]) \in Nat /\ Len(admitted'[b]) \in Nat
          /\ Len(admitted[b]) <= Len(admitted'[b])
          /\ \A i \in 1..Len(admitted[b]) : admitted'[b][i] = admitted[b][i]
      <4>1. Len(admitted[b]) \in Nat
        BY BucketTypes
      <4>2. admitted'[b] \in {admitted[b], Append(admitted[b], clock)}
        BY <1>2 DEF Admit, Refuse, rateVars, RateTypeOK
      <4>3. admitted[b] \in Seq(Instants)
        BY BucketTypes
      <4>4. CASE admitted'[b] = admitted[b]
        BY <4>1, <4>4
      <4>5. CASE admitted'[b] = Append(admitted[b], clock)
        BY <4>1, <4>3, <4>5
      <4> QED BY <4>2, <4>4, <4>5
    <3> QED BY <3>1 DEF Late
  <2>2. IsFiniteSet(Late(b, t)') /\ Cardinality(Late(b, t)) \in Nat /\ Cardinality(Late(b, t)') \in Nat
    <3>1. IsFiniteSet(Late(b, t)) /\ Cardinality(Late(b, t)) \in Nat
      BY LateFinite
    <3>2. (IsFiniteSet(Late(b, t)) /\ Cardinality(Late(b, t)) \in Nat)'
      BY LateFinite, PTL
    <3> QED BY <3>1, <3>2
  <2>3. Cardinality(Late(b, t)) <= Cardinality(Late(b, t)')
    BY <2>1, <2>2, FS_Subset
  <2>4. Cardinality(Late(b, t)) >= PerMin(b)
    BY <1>2 DEF RefusedOnlyWhenBusy
  <2>5. PerMin(b) \in Nat
    BY DEF PerMin
  <2> QED BY <2>2, <2>3, <2>4, <2>5
<1>3. CASE <<b, t>> \notin refusals /\ ~EmptyMap(clock)
  <2>1. Refuse(b) /\ t = clock
    BY <1>3 DEF Admit, Refuse, rateVars
  <2>2. Late(b, t)' = Late(b, t)
    BY <2>1 DEF Refuse, Late
  <2> QED BY <2>1, <2>2, RefusedNow DEF Refuse
<1> QED BY <1>1, <1>2, <1>3

LEMMA BusyInit == RateInit => BusyInv /\ RefusedOnlyWhenBusy
<1> SUFFICES ASSUME RateInit PROVE BusyInv /\ RefusedOnlyWhenBusy
  OBVIOUS
<1>1. RateTypeOK
  BY RateTypeInit
<1>2. ASSUME NEW b \in BucketKeys, NEW t \in 0..(buckets[b].last + Minute)
      PROVE  buckets[b].tokens + Cost(Cardinality(Late(b, t)))
               >= Least(Capacity(b), Refill(b, buckets[b].last + Minute - t))
  <2> DEFINE n == Cost(Cardinality(Late(b, t)))
             d == buckets[b].last + Minute - t
  <2>1. n \in Nat /\ d \in Nat /\ Capacity(b) \in Nat /\ buckets[b].tokens = Capacity(b)
    <3>1. n \in Nat
      BY <1>1, LateFinite, CostAdds
    <3>2. buckets[b].last = 0 /\ buckets[b].tokens = Capacity(b)
      BY DEF RateInit
    <3> QED BY <1>1, <3>1, <3>2, BucketTypes
  <2> HIDE DEF n, d
  <2>2. Refill(b, d) \in Nat
    BY <2>1, RefillAdds
  <2> QED BY <2>1, <2>2 DEF Least, n, d
<1> QED BY <1>2 DEF BusyInv, RefusedOnlyWhenBusy, RateInit

LEMMA BusyInvariant == RateSpec => [](RateTypeOK /\ RateInv /\ BusyInv /\ RefusedOnlyWhenBusy)
<1>1. RateInit => RateTypeOK /\ RateInv /\ BusyInv /\ RefusedOnlyWhenBusy
  BY RateTypeInit, RateInvInit, BusyInit
<1>2. /\ RateTypeOK /\ RateInv /\ BusyInv /\ RefusedOnlyWhenBusy
      /\ [RateNext]_<<clock, rateVars>>
      => (RateTypeOK /\ RateInv /\ BusyInv /\ RefusedOnlyWhenBusy)'
  BY RateTypeStep, RateInvStep, BusyStep, RefusedStep DEF RateNext
<1> QED BY <1>1, <1>2, PTL DEF RateSpec

\* A bucket refuses a message only if it let a minute's worth of its own kind
\* through within the last minute (ratelimit.rs:3-4), for every configuration.
THEOREM RefusalsAreJust == RateSpec => []RefusedOnlyWhenBusy
BY BusyInvariant, PTL
=============================================================================
