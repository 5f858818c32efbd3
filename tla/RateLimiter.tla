----------------------------- MODULE RateLimiter -----------------------------
(***************************************************************************)
(* The rate limiter of the ingestion (filter/ratelimit.rs): a token bucket *)
(* for each source and tier, refilled when it is asked.  One mutex guards  *)
(* the map of buckets, so a call of allow is one step.                     *)
(*                                                                         *)
(* Time is counted in ticks, Minute of them in the 60 s over which a       *)
(* bucket refills; tokens are counted in 1/Minute of a token, so that a    *)
(* tick adds perMin of them and a message costs Minute: the exact value of *)
(* what the code computes in f64.                                          *)
(***************************************************************************)
EXTENDS Integers, Sequences, FiniteSets

CONSTANTS
  Sources,
  Minute,
  NormalPerMin, P0PerMin,  \* filter.rate_limit_per_min, .rate_limit_p0_per_min
  MaxClock                 \* bound: ticks

ASSUME RateAssumption ==
  Minute \in Nat \ {0} /\ {NormalPerMin, P0PerMin, MaxClock} \subseteq Nat

VARIABLES
  clock,
  buckets,   \* the token buckets by source and tier
  (* history of this process *)
  admitted,  \* admitted[b]: the instants at which bucket b let a message through
  refusals   \* <<b, t>>: bucket b refused a message at instant t

rateVars == <<buckets, admitted, refusals>>

Tiers == {"normal", "p0"}
BucketKeys == Sources \X Tiers
Instants == 0..MaxClock

RateTypeOK ==
  /\ clock \in Instants
  /\ buckets \in [BucketKeys -> [tokens : Nat, last : Instants]]
  /\ admitted \in [BucketKeys -> Seq(Instants)]
  /\ refusals \in SUBSET (BucketKeys \X Instants)

PerMin(b) == IF b[2] = "p0" THEN P0PerMin ELSE NormalPerMin
Refill(b, ticks) == PerMin(b) * ticks
Cost(messages) == Minute * messages
Capacity(b) == Cost(PerMin(b))

Least(x, y) == IF x <= y THEN x ELSE y

\* Mutant: a bucket without a bottom to overflow from.
RefilledWithoutCap(b) == buckets[b].tokens + Refill(b, clock - buckets[b].last)

\* The tokens of b once it is refilled for the time since it was last asked.
Refilled(b) ==
  Least(buckets[b].tokens + Refill(b, clock - buckets[b].last), Capacity(b))

\* No bucket is there yet; allow inserts a full one when it needs it, and a
\* full one stays full until it is asked.
EmptyMap(t) ==
  /\ buckets' = [b \in BucketKeys |-> [tokens |-> Capacity(b), last |-> t]]
  /\ admitted' = [b \in BucketKeys |-> <<>>]
  /\ refusals' = {}

RateInit ==
  /\ clock = 0
  /\ buckets = [b \in BucketKeys |-> [tokens |-> Capacity(b), last |-> 0]]
  /\ admitted = [b \in BucketKeys |-> <<>>]
  /\ refusals = {}

\* Mutant: a fraction of a token is enough.
AdmitOnFraction(b) ==
  /\ Refilled(b) > 0
  /\ buckets' = [buckets EXCEPT ![b] = [tokens |-> Refilled(b) - Minute, last |-> clock]]
  /\ admitted' = [admitted EXCEPT ![b] = Append(@, clock)]
  /\ UNCHANGED refusals

\* allow returns true.
Admit(b) ==
  /\ Refilled(b) >= Minute
  /\ buckets' = [buckets EXCEPT ![b] = [tokens |-> Refilled(b) - Minute, last |-> clock]]
  /\ admitted' = [admitted EXCEPT ![b] = Append(@, clock)]
  /\ UNCHANGED refusals

\* Mutant: a refusal forgets the refill.
RefuseForgetsRefill(b) ==
  /\ Refilled(b) < Minute
  /\ buckets' = [buckets EXCEPT ![b].last = clock]
  /\ refusals' = refusals \cup {<<b, clock>>}
  /\ UNCHANGED admitted

\* allow returns false.
Refuse(b) ==
  /\ Refilled(b) < Minute
  /\ buckets' = [buckets EXCEPT ![b] = [tokens |-> Refilled(b), last |-> clock]]
  /\ refusals' = refusals \cup {<<b, clock>>}
  /\ UNCHANGED admitted

Ticks == clock < MaxClock /\ clock' = clock + 1

-----------------------------------------------------------------------------
\* The limiter alone, asked at any time.
RateNext ==
  \/ \E b \in BucketKeys : (Admit(b) \/ Refuse(b)) /\ UNCHANGED clock
  \/ Ticks /\ UNCHANGED rateVars
  \/ EmptyMap(clock) /\ UNCHANGED clock

RateSpec == RateInit /\ [][RateNext]_<<clock, rateVars>>

-----------------------------------------------------------------------------
(* Properties. *)

\* A bucket never lets through more than its capacity plus what it refills:
\* from any admission to any later one of the same source and tier, however
\* calls and refusals, which refill too, lie in between (ratelimit.rs:80-91).
WithinRate ==
  \A b \in BucketKeys : \A i, j \in 1..Len(admitted[b]) : i <= j =>
    Cost(j - i + 1) <= Capacity(b) + Refill(b, admitted[b][j] - admitted[b][i])

\* A message is refused only if its own source and tier used up a minute's
\* worth within the last minute: no other source, and for a P0 no normal
\* traffic of its source either, takes its tokens (ratelimit.rs:3-4).
Late(b, t) == {i \in 1..Len(admitted[b]) : t < admitted[b][i] + Minute}
RefusedOnlyWhenBusy ==
  \A refusal \in refusals : Cardinality(Late(refusal[1], refusal[2])) >= PerMin(refusal[1])

\* The inductive invariant behind WithinRate: a bucket holds no more than its
\* capacity, and after any admission, what was let through since, and what is
\* left, is no more than the capacity and the refills.
Spent(b, i) == Cost(Len(admitted[b]) - i + 1) + buckets[b].tokens
BucketInv(b) ==
  /\ buckets[b].last <= clock /\ buckets[b].tokens <= Capacity(b)
  /\ \A i \in 1..Len(admitted[b]) :
       /\ admitted[b][i] <= buckets[b].last
       /\ Spent(b, i) <= Capacity(b) + Refill(b, buckets[b].last - admitted[b][i])
  /\ \A i, j \in 1..Len(admitted[b]) : i <= j =>
       /\ admitted[b][i] <= admitted[b][j]
       /\ Cost(j - i + 1) <= Capacity(b) + Refill(b, admitted[b][j] - admitted[b][i])
RateInv == \A b \in BucketKeys : BucketInv(b)

\* ... and that behind RefusedOnlyWhenBusy: what was let through after any
\* instant and what is left make up for the refills since, or a full bucket.
BusyInv ==
  \A b \in BucketKeys : \A t \in 0..(buckets[b].last + Minute) :
    buckets[b].tokens + Cost(Cardinality(Late(b, t)))
      >= Least(Capacity(b), Refill(b, buckets[b].last + Minute - t))
=============================================================================
