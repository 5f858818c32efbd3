---------------------------- MODULE Ingest_proofs ----------------------------
(***************************************************************************)
(* What the ingestion inherits from its rate limiter; then its type        *)
(* correctness, what its status codes say, what its dedup cache lets pass  *)
(* and suppresses, and whom it refuses.                                    *)
(***************************************************************************)
EXTENDS Ingest, RateLimiter_proofs

\* Each request carries a payload, so that it has a bucket.
RequestsOK == request \in [Requests -> Traffic]

LEMMA BucketExists ==
  ASSUME RequestsOK, NEW r \in Requests
  PROVE  BucketOf(r) \in BucketKeys
<1>1. request[r].source \in Sources
  BY IngestAssumption DEF RequestsOK, Payload
<1>2. Tier(r) \in Tiers
  BY DEF Tier, Tiers
<1> QED BY <1>1, <1>2 DEF BucketOf, BucketKeys

\* Every step of the ingestion is a step of the limiter or leaves it alone.
LEMMA StepIsLimiterStep ==
  ASSUME RequestsOK, [Next]_vars
  PROVE  [RateNext]_<<clock, rateVars>>
<1>1. ASSUME NEW r \in Requests, Allow(r) PROVE RateNext
  BY <1>1, BucketExists DEF Allow, RateNext
<1>2. ASSUME NEW r \in Requests, HandlerStep(r) \/ HangUp(r) \/ ServerAnswers(r), ~Allow(r)
      PROVE  UNCHANGED <<clock, rateVars>>
  <2> USE DEF filterVars
  <2>1. CASE Reject(r) BY <2>1 DEF Reject
  <2>2. CASE Accept(r) BY <2>2 DEF Accept
  <2>3. CASE CheckAndRecord(r) BY <2>3 DEF CheckAndRecord
  <2>4. CASE AnswerDuplicate(r) BY <2>4 DEF AnswerDuplicate
  <2>5. CASE AnswerLimited(r) BY <2>5 DEF AnswerLimited
  <2>6. CASE PublishNats(r) BY <2>6 DEF PublishNats
  <2>7. CASE Enqueue(r) BY <2>7 DEF Enqueue
  <2>8. CASE AnswerIngested(r) BY <2>8 DEF AnswerIngested
  <2>9. CASE HangUp(r) BY <2>9 DEF HangUp
  <2>10. CASE ServerAnswers(r) BY <2>10 DEF ServerAnswers
  <2> QED BY <1>2, <2>1, <2>2, <2>3, <2>4, <2>5, <2>6, <2>7, <2>8, <2>9, <2>10 DEF HandlerStep
<1>3. CASE Tick
  BY <1>3 DEF Tick, RateNext, filterVars
<1>4. CASE Crash
  BY <1>4 DEF Crash, RateNext
<1>5. CASE UNCHANGED vars
  BY <1>5 DEF vars, filterVars
<1> QED BY <1>1, <1>2, <1>3, <1>4, <1>5 DEF Next

LEMMA RequestsStayOK ==
  ASSUME RequestsOK, [Next]_vars
  PROVE  RequestsOK'
<1> SUFFICES request' = request
  BY DEF RequestsOK
<1>1. ASSUME NEW r \in Requests, HandlerStep(r) \/ HangUp(r) \/ ServerAnswers(r)
      PROVE  request' = request
  BY <1>1 DEF HandlerStep, Reject, Accept, CheckAndRecord, Allow, AnswerDuplicate, AnswerLimited,
              PublishNats, Enqueue, AnswerIngested, HangUp, ServerAnswers
<1>2. CASE Tick \/ Crash \/ UNCHANGED vars
  BY <1>2 DEF Tick, Crash, vars
<1> QED BY <1>1, <1>2 DEF Next

\* The ingestion uses its limiter as RateSpec describes it: what is proved of
\* the limiter alone holds within webhook.rs, crashes included.
THEOREM UsesTheLimiter == Spec => RateSpec
<1>1. Init => RateInit /\ RequestsOK
  BY DEF Init, RequestsOK
<1> QED BY <1>1, StepIsLimiterStep, RequestsStayOK, PTL DEF Spec, RateSpec

\* However requests interleave, are retried or lost in crashes, the ingestion
\* never lets a source exceed the allowance of a tier (webhook.rs:182-193).
THEOREM IngestionWithinRate == Spec => []WithinRate
BY UsesTheLimiter, RateBound, PTL

\* The same of its refusals (ratelimit.rs:3-4, webhook.rs:182-193).
THEOREM IngestionRefusesJustly == Spec => []RefusedOnlyWhenBusy
BY UsesTheLimiter, RefusalsAreJust, PTL

-----------------------------------------------------------------------------
(* Type correctness. *)

LEMMA RequestType ==
  ASSUME TypeOK, NEW r \in Requests
  PROVE  request[r].key \in Keys /\ readAt[r] \in Instants /\ BucketOf(r) \in BucketKeys
<1>1. RequestsOK
  BY DEF TypeOK, RequestsOK
<1>2. request[r].key \in Keys
  BY IngestAssumption DEF TypeOK, Payload
<1> QED BY <1>1, <1>2, BucketExists DEF TypeOK

LEMMA RecordedType ==
  ASSUME NEW held \in SUBSET Keys, NEW cache \in [held -> Instants], NEW k \in Keys, NEW t \in Instants
  PROVE  \E next \in SUBSET Keys : Recorded(cache, k, t) \in [next -> Instants]
<1>1. Fresh(cache, t) \cup {k} \in SUBSET Keys
  BY DEF Fresh
<1>2. Recorded(cache, k, t) \in [Fresh(cache, t) \cup {k} -> Instants]
  BY DEF Recorded, Fresh
<1> QED BY <1>1, <1>2

LEMMA TypeStep == TypeOK /\ RateInv /\ [Next]_vars => TypeOK'
<1> SUFFICES ASSUME TypeOK, RateInv, [Next]_vars PROVE TypeOK'
  OBVIOUS
<1> USE DEF Stages, Answers, Respond, Goto, filterVars, storeVars, historyVars
<1>0. RateTypeOK'
  <2>1. [RateNext]_<<clock, rateVars>>
    BY StepIsLimiterStep DEF TypeOK, RequestsOK
  <2> QED BY <2>1, RateTypeStep DEF RateNext, TypeOK
<1>a. TypeOK
  OBVIOUS
<1> USE <1>0 DEF TypeOK
<1>1. ASSUME NEW r \in Requests, Reject(r) PROVE TypeOK'
  BY <1>1 DEF Reject
<1>2. ASSUME NEW r \in Requests, Accept(r) PROVE TypeOK'
  <2>1. clock \in Instants
    BY DEF RateTypeOK
  <2> QED BY <1>2, <2>1 DEF Accept
<1>3. ASSUME NEW r \in Requests, CheckAndRecord(r) PROVE TypeOK'
  <2>1. PICK held \in SUBSET Keys : seen \in [held -> Instants]
    OBVIOUS
  <2>2. request[r].key \in Keys /\ readAt[r] \in Instants
    BY <1>a, RequestType
  <2>3. \E next \in SUBSET Keys : seen' \in [next -> Instants]
    BY <1>3, <2>1, <2>2, RecordedType DEF CheckAndRecord
  <2>4. pc' \in [Requests -> Stages] /\ twinned' \in SUBSET Requests /\ checked' \in SUBSET Requests
    BY <1>3 DEF CheckAndRecord
  <2>5. UNCHANGED <<request, readAt, answer, crashes, inFlight, stored, outbox, handed>>
    BY <1>3 DEF CheckAndRecord
  <2> QED BY <2>3, <2>4, <2>5
<1>4. ASSUME NEW r \in Requests, Allow(r) PROVE TypeOK'
  BY <1>4 DEF Allow
<1>5. ASSUME NEW r \in Requests, AnswerDuplicate(r) \/ AnswerLimited(r) \/ AnswerIngested(r) PROVE TypeOK'
  BY <1>5 DEF AnswerDuplicate, AnswerLimited, AnswerIngested
<1>6. ASSUME NEW r \in Requests, PublishNats(r) PROVE TypeOK'
  BY <1>6 DEF PublishNats
<1>7. ASSUME NEW r \in Requests, Enqueue(r) PROVE TypeOK'
  BY <1>7 DEF Enqueue
<1>8. ASSUME NEW r \in Requests, HangUp(r) PROVE TypeOK'
  BY <1>8 DEF HangUp
<1>9. ASSUME NEW r \in Requests, ServerAnswers(r) PROVE TypeOK'
  BY <1>9 DEF ServerAnswers
<1>10. CASE Tick
  BY <1>10 DEF Tick
<1>11. CASE Crash
  <2>1. {} \in SUBSET Keys /\ seen' \in [{} -> Instants]
    BY <1>11 DEF Crash
  <2>2. crashes' \in Nat /\ pc' \in [Requests -> Stages] /\ answer' \in [Requests -> Answers]
    BY <1>11 DEF Crash
  <2>3. /\ UNCHANGED <<request, readAt, stored, outbox, twinned, handed>>
        /\ inFlight' = {} /\ checked' = {}
    BY <1>11 DEF Crash
  <2> QED BY <2>1, <2>2, <2>3
<1>12. CASE UNCHANGED vars
  BY <1>12 DEF vars
<1> QED
  BY <1>1, <1>2, <1>3, <1>4, <1>5, <1>6, <1>7, <1>8, <1>9, <1>10, <1>11, <1>12 DEF Next, HandlerStep

LEMMA RateInvariants == Spec => [](RateTypeOK /\ RateInv)
BY UsesTheLimiter, BusyInvariant, PTL

\* Type correctness for every set of requests, keys, sources and faults.
THEOREM IngestTypeCorrect == Spec => []TypeOK
<1>1. Init => TypeOK
  <2> SUFFICES ASSUME Init PROVE TypeOK
    OBVIOUS
  <2>1. RateTypeOK
    BY RateTypeInit DEF Init
  <2>2. {} \in SUBSET Keys /\ seen \in [{} -> Instants]
    BY DEF Init
  <2>3. 0 \in Instants
    BY RateAssumption DEF Instants
  <2> QED BY <2>1, <2>2, <2>3 DEF Init, TypeOK, Stages, Answers
<1> QED BY <1>1, TypeStep, RateInvariants, PTL DEF Spec

-----------------------------------------------------------------------------
(* What the status codes say. *)

LEMMA WhereaboutsStep == TypeOK /\ Whereabouts /\ AnswersAreTrue /\ [Next]_vars
                           => Whereabouts' /\ AnswersAreTrue'
<1> SUFFICES ASSUME TypeOK, Whereabouts, AnswersAreTrue, [Next]_vars
             PROVE  Whereabouts' /\ AnswersAreTrue'
  OBVIOUS
<1> USE DEF Whereabouts, AnswersAreTrue, Respond, Goto, filterVars, storeVars, historyVars
<1>0. /\ pc \in [Requests -> Stages] /\ answer \in [Requests -> Answers]
      /\ inFlight \in SUBSET Requests
  BY DEF TypeOK
<1> DEFINE Both == Whereabouts' /\ AnswersAreTrue'
<1>1. ASSUME NEW r \in Requests, Reject(r) PROVE Both
  BY <1>0, <1>1 DEF Reject
<1>2. ASSUME NEW r \in Requests, Accept(r) PROVE Both
  BY <1>0, <1>2 DEF Accept
<1>3. ASSUME NEW r \in Requests, CheckAndRecord(r) PROVE Both
  <2>1. /\ pc[r] = "checking" /\ UNCHANGED <<answer, inFlight, stored, outbox, handed>>
        /\ \/ pc' = [pc EXCEPT ![r] = "duplicate"] /\ twinned' = twinned \cup {r}
           \/ pc' = [pc EXCEPT ![r] = "rating"] /\ twinned' = twinned
    BY <1>3 DEF CheckAndRecord
  <2> QED BY <1>0, <2>1
<1>4. ASSUME NEW r \in Requests, Allow(r) PROVE Both
  BY <1>0, <1>4 DEF Allow
<1>5. ASSUME NEW r \in Requests, AnswerDuplicate(r) PROVE Both
  BY <1>0, <1>5 DEF AnswerDuplicate
<1>6. ASSUME NEW r \in Requests, AnswerLimited(r) PROVE Both
  BY <1>0, <1>6 DEF AnswerLimited
<1>7. ASSUME NEW r \in Requests, PublishNats(r) PROVE Both
  BY <1>0, <1>7 DEF PublishNats
<1>8. ASSUME NEW r \in Requests, Enqueue(r) PROVE Both
  BY <1>0, <1>8 DEF Enqueue
<1>9. ASSUME NEW r \in Requests, AnswerIngested(r) PROVE Both
  BY <1>0, <1>9 DEF AnswerIngested
<1>10. ASSUME NEW r \in Requests, HangUp(r) PROVE Both
  BY <1>0, <1>10 DEF HangUp
<1>11. ASSUME NEW r \in Requests, ServerAnswers(r) PROVE Both
  BY <1>0, <1>11 DEF ServerAnswers
<1>12. CASE Tick
  BY <1>0, <1>12 DEF Tick
<1>13. CASE Crash
  BY <1>0, <1>13 DEF Crash
<1>14. CASE UNCHANGED vars
  BY <1>14 DEF vars
<1> QED
  BY <1>1, <1>2, <1>3, <1>4, <1>5, <1>6, <1>7, <1>8, <1>9, <1>10, <1>11, <1>12, <1>13, <1>14
     DEF Next, HandlerStep

LEMMA WhereaboutsInvariant == Spec => [](Whereabouts /\ AnswersAreTrue)
<1>1. Init => Whereabouts /\ AnswersAreTrue
  BY DEF Init, Whereabouts, AnswersAreTrue
<1> QED BY <1>1, WhereaboutsStep, IngestTypeCorrect, PTL DEF Spec

\* The status codes tell the truth about the message's own fate, whatever was
\* retried, refused, dropped or crashed before (webhook.rs:10-14).
THEOREM StatusCodesAreTrue == Spec => []AnswersAreTrue
BY WhereaboutsInvariant, PTL

-----------------------------------------------------------------------------
(* The dedup cache. *)

\* Every step but the look-up, the start of a request, the tick and the crash
\* leaves the cache and its history alone.
LookUpFrame == UNCHANGED <<request, readAt, clock, seen, checked, twinned>>

LEMMA LookUpCases ==
  ASSUME TypeOK, [Next]_vars
  PROVE  \/ /\ LookUpFrame
            /\ \A r \in Requests : pc'[r] \in {"idle", "checking"} => pc'[r] = pc[r]
         \/ \E r \in Requests : Accept(r) \/ CheckAndRecord(r)
         \/ Tick \/ Crash
<1> USE DEF LookUpFrame, Respond, Goto, filterVars, storeVars, historyVars
<1>0. pc \in [Requests -> Stages]
  BY DEF TypeOK
<1>1. ASSUME NEW r \in Requests, Reject(r) \/ AnswerDuplicate(r) \/ AnswerLimited(r) \/ AnswerIngested(r)
      PROVE  LookUpFrame /\ \A x \in Requests : pc'[x] \in {"idle", "checking"} => pc'[x] = pc[x]
  BY <1>0, <1>1 DEF Reject, AnswerDuplicate, AnswerLimited, AnswerIngested
<1>2. ASSUME NEW r \in Requests, Allow(r) \/ PublishNats(r) \/ Enqueue(r)
      PROVE  LookUpFrame /\ \A x \in Requests : pc'[x] \in {"idle", "checking"} => pc'[x] = pc[x]
  BY <1>0, <1>2 DEF Allow, PublishNats, Enqueue
<1>3. ASSUME NEW r \in Requests, HangUp(r) \/ ServerAnswers(r)
      PROVE  LookUpFrame /\ \A x \in Requests : pc'[x] \in {"idle", "checking"} => pc'[x] = pc[x]
  BY <1>0, <1>3 DEF HangUp, ServerAnswers
<1>4. CASE UNCHANGED vars
  BY <1>4 DEF vars
<1> QED BY <1>1, <1>2, <1>3, <1>4 DEF Next, HandlerStep

LEMMA TimeTypes ==
  ASSUME TypeOK
  PROVE  /\ clock \in Nat /\ Window \in Nat /\ LockDelay \in Nat
         /\ \A r \in Requests : readAt[r] \in Nat
         /\ \A k \in DOMAIN seen : seen[k] \in Nat
BY IngestAssumption DEF TypeOK, RateTypeOK, Instants

\* What a look-up of k at instant t does to the cache.
LEMMA LookUpEffect ==
  ASSUME TypeOK, NEW r \in Requests, CheckAndRecord(r)
  PROVE  /\ pc[r] = "checking" /\ checked' = checked \cup {r}
         /\ UNCHANGED <<request, readAt, clock>>
         /\ \A x \in Requests : pc'[x] \in {"idle", "checking"} => pc'[x] = pc[x] /\ x # r
         /\ \A x : x \in DOMAIN seen' <=>
              x = request[r].key \/ (x \in DOMAIN seen /\ Elapsed(seen[x], readAt[r]) < Window)
         /\ seen'[request[r].key] = readAt[r]
         /\ \A x \in DOMAIN seen' : x # request[r].key => seen'[x] = seen[x]
         /\ IF request[r].key \in DOMAIN seen /\ Elapsed(seen[request[r].key], readAt[r]) < Window
            THEN twinned' = twinned \cup {r} ELSE twinned' = twinned
<1>1. pc[r] = "checking" /\ checked' = checked \cup {r} /\ UNCHANGED <<request, readAt, clock>>
  BY DEF CheckAndRecord
<1>2. \A x \in Requests : pc'[x] \in {"idle", "checking"} => pc'[x] = pc[x] /\ x # r
  BY DEF CheckAndRecord, Goto, TypeOK
<1> DEFINE k == request[r].key
           t == readAt[r]
<1>3. seen' = Recorded(seen, k, t)
  BY DEF CheckAndRecord
<1>4. IF IsDuplicate(seen, k, t) THEN twinned' = twinned \cup {r} ELSE twinned' = twinned
  BY DEF CheckAndRecord
<1> HIDE DEF k, t
<1>5. /\ \A x : x \in DOMAIN seen' <=> x = k \/ (x \in DOMAIN seen /\ Elapsed(seen[x], t) < Window)
      /\ seen'[k] = t /\ \A x \in DOMAIN seen' : x # k => seen'[x] = seen[x]
  BY <1>3 DEF Recorded, Fresh
<1>6. IF k \in DOMAIN seen /\ Elapsed(seen[k], t) < Window
      THEN twinned' = twinned \cup {r} ELSE twinned' = twinned
  BY <1>4 DEF IsDuplicate, Fresh
<1> QED BY <1>1, <1>2, <1>5, <1>6 DEF k, t

LEMMA CrashEffect ==
  ASSUME TypeOK, Crash
  PROVE  /\ checked' = {} /\ DOMAIN seen' = {} /\ UNCHANGED <<request, readAt, clock, twinned>>
         /\ \A x \in Requests : pc'[x] # "checking" /\ (pc'[x] = "idle" => pc[x] = "idle")
BY DEF Crash, EmptyMap, TypeOK

LEMMA LookedUpOnceStep == TypeOK /\ LookedUpOnce /\ [Next]_vars => LookedUpOnce'
<1> SUFFICES ASSUME TypeOK, LookedUpOnce, [Next]_vars PROVE LookedUpOnce'
  OBVIOUS
<1>0. pc \in [Requests -> Stages] /\ readAt \in [Requests -> Instants]
  BY DEF TypeOK
<1>1. ASSUME NEW r \in Requests, Accept(r) PROVE LookedUpOnce'
  <2>1. /\ readAt' = [readAt EXCEPT ![r] = clock] /\ UNCHANGED <<clock, checked, twinned>>
        /\ pc' = [pc EXCEPT ![r] = "checking"] /\ pc[r] = "idle"
    BY <1>1 DEF Accept, Goto, filterVars, historyVars
  <2> QED BY <1>0, <2>1, TimeTypes DEF LookedUpOnce
<1>2. ASSUME NEW r \in Requests, CheckAndRecord(r) PROVE LookedUpOnce'
  <2>1. /\ checked' = checked \cup {r} /\ twinned' \subseteq twinned \cup {r}
        /\ UNCHANGED <<readAt, clock>>
        /\ \A x \in Requests : pc'[x] \in {"idle", "checking"} => pc'[x] = pc[x] /\ x # r
    BY <1>2, LookUpEffect
  <2> QED BY <2>1 DEF LookedUpOnce
<1>3. CASE Tick
  <2>1. /\ clock' = clock + 1 /\ UNCHANGED <<pc, readAt, checked, twinned>>
        /\ \A r \in Requests : pc[r] = "checking" => clock - readAt[r] < LockDelay
    BY <1>3 DEF Tick, Ticks, filterVars, historyVars
  <2>2. ASSUME NEW r \in Requests
        PROVE  /\ readAt[r] <= clock + 1
               /\ pc[r] = "checking" => clock + 1 <= readAt[r] + LockDelay
    <3>1. readAt[r] \in Nat /\ clock \in Nat /\ LockDelay \in Nat /\ readAt[r] <= clock
      BY TimeTypes DEF LookedUpOnce
    <3>2. pc[r] = "checking" => clock - readAt[r] < LockDelay
      BY <2>1
    <3> QED BY <3>1, <3>2
  <2> QED BY <2>1, <2>2 DEF LookedUpOnce
<1>4. CASE Crash
  <2>1. /\ checked' = {} /\ UNCHANGED <<readAt, clock, twinned>>
        /\ \A x \in Requests : pc'[x] # "checking" /\ (pc'[x] = "idle" => pc[x] = "idle")
    BY <1>4, CrashEffect
  <2> QED BY <2>1 DEF LookedUpOnce
<1>5. ASSUME LookUpFrame, \A r \in Requests : pc'[r] \in {"idle", "checking"} => pc'[r] = pc[r]
      PROVE  LookedUpOnce'
  BY <1>5 DEF LookUpFrame, LookedUpOnce
<1> QED BY LookUpCases, <1>1, <1>2, <1>3, <1>4, <1>5

\* The look-up of r keeps the entries of messages that passed, and r itself
\* passes only a window after them.
LEMMA LookUpSpacing ==
  ASSUME TypeOK, LookedUpOnce, EntriesLast, NEW r \in Requests, CheckAndRecord(r)
  PROVE  /\ EntriesLast'
         /\ \A q \in Passed : r \in Passed' /\ request[q].key = request[r].key
              => readAt[r] - readAt[q] >= Window - 2 * LockDelay
<1> DEFINE k == request[r].key
           t == readAt[r]
<1>1. /\ clock <= t + LockDelay /\ t <= clock /\ r \notin checked /\ r \notin twinned
      /\ t \in Nat /\ clock \in Nat /\ Window \in Nat /\ LockDelay \in Nat
  BY LookUpEffect, TimeTypes DEF LookedUpOnce
<1>2. /\ \A x : x \in DOMAIN seen' <=> x = k \/ (x \in DOMAIN seen /\ Elapsed(seen[x], t) < Window)
      /\ seen'[k] = t /\ \A x \in DOMAIN seen' : x # k => seen'[x] = seen[x]
      /\ IF k \in DOMAIN seen /\ Elapsed(seen[k], t) < Window
         THEN twinned' = twinned \cup {r} ELSE twinned' = twinned
      /\ checked' = checked \cup {r} /\ UNCHANGED <<request, readAt, clock>>
  BY LookUpEffect
<1>3. \A q \in Passed : q \in Requests /\ q # r /\ readAt[q] \in Nat /\ readAt[q] <= clock
  BY <1>1, TimeTypes DEF Passed, TypeOK, LookedUpOnce
<1>4. \A q \in Passed' : q \in Passed \/ q = r
  BY <1>2 DEF Passed
<1> HIDE DEF k, t
<1>5. ASSUME NEW q \in Passed, NEW x, x = request[q].key
      PROVE  IF x \in DOMAIN seen' THEN readAt[q] <= seen'[x] + LockDelay
                                   ELSE readAt[q] + Window <= clock + LockDelay
  <2>1. readAt[q] \in Nat /\ readAt[q] <= clock
    BY <1>3
  <2>2. IF x \in DOMAIN seen THEN readAt[q] <= seen[x] + LockDelay
                             ELSE readAt[q] + Window <= clock + LockDelay
    BY <1>5 DEF EntriesLast
  <2>3. CASE x = k
    BY <1>1, <1>2, <2>1, <2>3
  <2>4. CASE x # k /\ x \in DOMAIN seen'
    BY <1>2, <2>2, <2>4
  <2>5. CASE x \notin DOMAIN seen' /\ x \in DOMAIN seen
    <3>1. seen[x] \in Nat /\ ~(Elapsed(seen[x], t) < Window)
      BY <1>2, <2>5, TimeTypes
    <3> QED BY <1>1, <2>1, <2>2, <2>5, <3>1 DEF Elapsed
  <2>6. CASE x \notin DOMAIN seen' /\ x \notin DOMAIN seen
    BY <2>2, <2>6
  <2> QED BY <2>3, <2>4, <2>5, <2>6
<1>6. EntriesLast'
  <2> SUFFICES ASSUME NEW q \in Passed', NEW x, x = request'[q].key
               PROVE  IF x \in DOMAIN seen' THEN readAt'[q] <= seen'[x] + LockDelay
                      ELSE readAt'[q] + Window <= clock' + LockDelay
    BY DEF EntriesLast
  <2>1. CASE q \in Passed
    BY <1>2, <1>5, <2>1
  <2>2. CASE q = r
    BY <1>1, <1>2, <2>2 DEF k, t
  <2> QED BY <1>4, <2>1, <2>2
<1>7. ASSUME NEW q \in Passed, r \in Passed', request[q].key = k
      PROVE  t - readAt[q] >= Window - 2 * LockDelay
  <2>1. readAt[q] \in Nat /\ readAt[q] <= clock
    BY <1>3
  <2>2. ~(k \in DOMAIN seen /\ Elapsed(seen[k], t) < Window)
    BY <1>2, <1>7 DEF Passed
  <2>3. IF k \in DOMAIN seen THEN readAt[q] <= seen[k] + LockDelay
                             ELSE readAt[q] + Window <= clock + LockDelay
    BY <1>7 DEF EntriesLast
  <2>4. CASE k \in DOMAIN seen
    <3>1. seen[k] \in Nat /\ ~(Elapsed(seen[k], t) < Window) /\ readAt[q] <= seen[k] + LockDelay
      BY <2>2, <2>3, <2>4, TimeTypes
    <3> QED BY <1>1, <2>1, <3>1 DEF Elapsed
  <2>5. CASE k \notin DOMAIN seen
    BY <1>1, <2>1, <2>3, <2>5
  <2> QED BY <2>4, <2>5
<1> QED BY <1>6, <1>7 DEF k, t

LEMMA SpacingStep == TypeOK /\ LookedUpOnce /\ EntriesLast /\ PassesApart /\ [Next]_vars
                       => EntriesLast' /\ PassesApart'
<1> SUFFICES ASSUME TypeOK, LookedUpOnce, EntriesLast, PassesApart, [Next]_vars
             PROVE  EntriesLast' /\ PassesApart'
  OBVIOUS
<1>1. ASSUME NEW r \in Requests, Accept(r) PROVE EntriesLast' /\ PassesApart'
  <2>1. /\ UNCHANGED <<request, clock, seen, checked, twinned>> /\ pc[r] = "idle"
        /\ \A x \in Requests \ {r} : readAt'[x] = readAt[x]
    BY <1>1 DEF Accept, filterVars, historyVars, TypeOK
  <2>2. \A q \in Passed : q \in Requests \ {r} /\ readAt'[q] = readAt[q]
    BY <2>1 DEF Passed, TypeOK, LookedUpOnce
  <2>3. Passed' = Passed
    BY <2>1 DEF Passed
  <2> QED BY <2>1, <2>2, <2>3 DEF EntriesLast, PassesApart
<1>2. ASSUME NEW r \in Requests, CheckAndRecord(r) PROVE EntriesLast' /\ PassesApart'
  <2>1. /\ UNCHANGED <<request, readAt, clock>> /\ checked' = checked \cup {r}
        /\ r \notin Passed /\ Passed' \subseteq Passed \cup {r}
    <3>1. twinned \subseteq twinned' /\ checked' = checked \cup {r}
      BY <1>2, LookUpEffect
    <3> QED BY <1>2, <3>1, LookUpEffect DEF Passed, LookedUpOnce
  <2>2. EntriesLast' /\ \A q \in Passed : r \in Passed' /\ request[q].key = request[r].key
                          => readAt[r] - readAt[q] >= Window - 2 * LockDelay
    BY <1>2, LookUpSpacing
  <2>3. PassesApart'
    BY <2>1, <2>2 DEF PassesApart
  <2> QED BY <2>2, <2>3
<1>3. CASE Tick
  <2>1. clock' = clock + 1 /\ UNCHANGED <<request, readAt, seen, checked, twinned>> /\ Passed' = Passed
    BY <1>3 DEF Tick, Ticks, filterVars, historyVars, Passed
  <2>2. ASSUME NEW q \in Passed, readAt[q] + Window <= clock + LockDelay
        PROVE  readAt[q] + Window <= clock + 1 + LockDelay
    <3>1. q \in Requests
      BY DEF Passed, TypeOK
    <3> QED BY <2>2, <3>1, TimeTypes
  <2> QED BY <2>1, <2>2 DEF EntriesLast, PassesApart
<1>4. CASE Crash
  <2>1. Passed' = {}
    BY <1>4, CrashEffect DEF Passed
  <2> QED BY <2>1 DEF EntriesLast, PassesApart
<1>5. CASE LookUpFrame
  BY <1>5 DEF LookUpFrame, EntriesLast, PassesApart, Passed
<1> QED BY LookUpCases, <1>1, <1>2, <1>3, <1>4, <1>5

LEMMA SpacingInvariant == Spec => [](LookedUpOnce /\ EntriesLast /\ PassesApart)
<1>1. Init => LookedUpOnce /\ EntriesLast /\ PassesApart
  BY RateAssumption DEF Init, RateInit, LookedUpOnce, EntriesLast, PassesApart, Passed
<1> QED BY <1>1, LookedUpOnceStep, SpacingStep, IngestTypeCorrect, PTL DEF Spec

\* Two messages with one key both pass the cache of one process only a window
\* apart, less twice what a thread may lose before the lock (dedup.rs:28-41).
THEOREM PassesLieApart == Spec => []PassesApart
BY SpacingInvariant, PTL

LEMMA CoversMore ==
  ASSUME NEW S, NEW T, S \subseteq T, NEW first, NEW last, Covers(S, first, last)
  PROVE  Covers(T, first, last)
BY DEF Covers

\* A duplicate extends what is covered by its own window.
LEMMA CoversOn ==
  ASSUME TypeOK, NEW S, NEW first \in Nat, NEW old \in Nat, Covers(S, first, old + Window - 1),
         NEW r \in Requests, Elapsed(old, readAt[r]) < Window
  PROVE  /\ Covers(S, first, readAt[r])
         /\ Covers(S \cup {r}, first, readAt[r] + Window - 1)
<1>1. readAt[r] \in Nat /\ Window \in Nat /\ readAt[r] <= old + Window - 1
  BY TimeTypes DEF Elapsed
<1>2. \A t \in first..readAt[r] : t \in first..(old + Window - 1)
  BY <1>1
<1>3. ASSUME NEW t \in first..(readAt[r] + Window - 1), t \notin first..(old + Window - 1)
      PROVE  readAt[r] <= t /\ t - readAt[r] < Window
  BY <1>1, <1>3
<1>4. Covers(S, first, readAt[r])
  BY <1>2 DEF Covers
<1>5. Covers(S \cup {r}, first, readAt[r] + Window - 1)
  BY <1>3 DEF Covers
<1> QED BY <1>4, <1>5

LEMMA SilentIf ==
  SilentOnlyWhileRepeated <=>
    \A r \in checked \cap twinned : \E q \in Alike(r) \cap Passed :
      Covers(Alike(r) \ {r}, readAt[q], readAt[r])
BY DEF SilentOnlyWhileRepeated, Covers

LEMMA LookUpCovers ==
  ASSUME TypeOK, LookedUpOnce, EntriesCovered, SilentOnlyWhileRepeated,
         NEW r \in Requests, CheckAndRecord(r)
  PROVE  EntriesCovered' /\ SilentOnlyWhileRepeated'
<1> DEFINE k0 == request[r].key
           t == readAt[r]
           alike(k) == {q \in checked : request[q].key = k}
<1>1. r \notin checked /\ r \notin twinned /\ t \in Nat /\ Window \in Nat
  BY LookUpEffect, TimeTypes DEF LookedUpOnce
<1>2. /\ \A x : x \in DOMAIN seen' <=> x = k0 \/ (x \in DOMAIN seen /\ Elapsed(seen[x], t) < Window)
      /\ seen'[k0] = t /\ \A x \in DOMAIN seen' : x # k0 => seen'[x] = seen[x]
      /\ IF k0 \in DOMAIN seen /\ Elapsed(seen[k0], t) < Window
         THEN twinned' = twinned \cup {r} ELSE twinned' = twinned
      /\ checked' = checked \cup {r} /\ UNCHANGED <<request, readAt, clock>>
  BY LookUpEffect
<1>3. \A k : alike(k)' = IF k = k0 THEN alike(k) \cup {r} ELSE alike(k)
  BY <1>2
<1>4. Passed \subseteq Passed' /\ (twinned' = twinned => r \in Passed')
  BY <1>1, <1>2 DEF Passed
<1>6. \A k \in DOMAIN seen : \E q \in alike(k) \cap Passed :
        readAt[q] \in Nat /\ Covers(alike(k), readAt[q], seen[k] + Window - 1)
  BY TimeTypes DEF EntriesCovered, TypeOK
<1>7. \A x \in checked : x # r /\ Alike(x) = alike(request[x].key)
  BY <1>1 DEF Alike
<1>8. \A x \in checked' : Alike(x)' = alike(request[x].key)'
  BY <1>2 DEF Alike
<1> HIDE DEF k0, t, alike
<1>9. ASSUME NEW k \in DOMAIN seen'
      PROVE  \E q \in alike(k)' \cap Passed' : Covers(alike(k)', readAt[q], seen'[k] + Window - 1)
  <2>1. CASE k # k0
    <3>1. PICK q \in alike(k) \cap Passed : Covers(alike(k), readAt[q], seen[k] + Window - 1)
      BY <1>2, <1>6, <2>1
    <3> QED BY <1>2, <1>3, <1>4, <2>1, <3>1
  <2>2. CASE k = k0 /\ k0 \in DOMAIN seen /\ Elapsed(seen[k0], t) < Window
    <3>1. PICK q \in alike(k0) \cap Passed :
            readAt[q] \in Nat /\ Covers(alike(k0), readAt[q], seen[k0] + Window - 1)
      BY <1>6, <2>2
    <3>2. seen[k0] \in Nat
      BY <2>2, TimeTypes
    <3>3. Covers(alike(k0) \cup {r}, readAt[q], t + Window - 1)
      BY <2>2, <3>1, <3>2, CoversOn DEF t
    <3>4. q \in alike(k)' \cap Passed'
      BY <1>3, <1>4, <2>2, <3>1
    <3> QED BY <1>2, <1>3, <2>2, <3>3, <3>4
  <2>3. CASE k = k0 /\ ~(k0 \in DOMAIN seen /\ Elapsed(seen[k0], t) < Window)
    <3>1. r \in alike(k)' \cap Passed'
      BY <1>2, <1>3, <1>4, <2>3
    <3>2. Covers(alike(k)', t, t + Window - 1)
      <4>1. ASSUME NEW u \in t..(t + Window - 1) PROVE t <= u /\ u - t < Window
        BY <1>1
      <4> QED BY <3>1, <4>1 DEF Covers, t
    <3>3. readAt[r] = t /\ seen'[k] = t
      BY <1>2, <2>3 DEF t
    <3> QED BY <3>1, <3>2, <3>3
  <2> QED BY <2>1, <2>2, <2>3
<1>10. EntriesCovered'
  <2>1. ASSUME NEW k \in DOMAIN seen'
        PROVE  \E q \in alike(k)' \cap Passed' : \A u \in readAt'[q]..(seen'[k] + Window - 1) :
                 \E y \in alike(k)' : readAt'[y] <= u /\ u - readAt'[y] < Window
    BY <1>2, <1>9 DEF Covers
  <2> QED BY <2>1 DEF EntriesCovered, Covers, alike
<1>11. ASSUME NEW x \in checked' \cap twinned'
       PROVE  \E q \in Alike(x)' \cap Passed' : Covers(Alike(x)' \ {x}, readAt[q], readAt[x])
  <2>1. CASE x # r
    <3>1. x \in checked \cap twinned
      BY <1>2, <2>1
    <3>2. PICK q \in Alike(x) \cap Passed : Covers(Alike(x) \ {x}, readAt[q], readAt[x])
      BY <3>1, SilentIf
    <3>3. Alike(x) \subseteq Alike(x)'
      BY <1>2 DEF Alike
    <3> QED BY <1>4, <3>2, <3>3, CoversMore
  <2>2. CASE x = r
    <3>1. k0 \in DOMAIN seen /\ Elapsed(seen[k0], t) < Window
      BY <1>1, <1>2, <2>2
    <3>2. PICK q \in alike(k0) \cap Passed :
            readAt[q] \in Nat /\ Covers(alike(k0), readAt[q], seen[k0] + Window - 1)
      BY <1>6, <3>1
    <3>3. seen[k0] \in Nat
      BY <3>1, TimeTypes
    <3>4. Covers(alike(k0), readAt[q], t)
      BY <3>1, <3>2, <3>3, CoversOn DEF t
    <3>5. Alike(r)' = alike(k0) \cup {r} /\ r \notin alike(k0)
      BY <1>1, <1>2, <1>3, <1>8 DEF k0, alike
    <3> QED BY <1>4, <2>2, <3>2, <3>4, <3>5, CoversMore DEF t
  <2> QED BY <2>1, <2>2
<1>12. SilentOnlyWhileRepeated'
  <2>1. ASSUME NEW x \in checked' \cap twinned'
        PROVE  \E q \in Alike(x)' \cap Passed' : \A u \in readAt'[q]..readAt'[x] :
                 \E y \in Alike(x)' \ {x} : readAt'[y] <= u /\ u - readAt'[y] < Window
    BY <1>2, <1>11 DEF Covers
  <2> QED BY <2>1 DEF SilentOnlyWhileRepeated
<1> QED BY <1>10, <1>12

LEMMA CoveredStep == TypeOK /\ LookedUpOnce /\ EntriesCovered /\ SilentOnlyWhileRepeated /\ [Next]_vars
                       => EntriesCovered' /\ SilentOnlyWhileRepeated'
<1> SUFFICES ASSUME TypeOK, LookedUpOnce, EntriesCovered, SilentOnlyWhileRepeated, [Next]_vars
             PROVE  EntriesCovered' /\ SilentOnlyWhileRepeated'
  OBVIOUS
<1>1. ASSUME UNCHANGED <<request, seen, checked, twinned>>, \A q \in checked : readAt'[q] = readAt[q]
      PROVE  EntriesCovered' /\ SilentOnlyWhileRepeated'
  <2>1. Passed' = Passed /\ \A r : Alike(r)' = Alike(r)
    BY <1>1 DEF Passed, Alike
  <2>2. EntriesCovered'
    BY <1>1, <2>1 DEF EntriesCovered, Covers
  <2>3. SilentOnlyWhileRepeated'
    <3>1. \A r : Alike(r) \subseteq checked
      BY DEF Alike
    <3> QED BY <1>1, <2>1, <3>1 DEF SilentOnlyWhileRepeated
  <2> QED BY <2>2, <2>3
<1>2. ASSUME NEW r \in Requests, Accept(r) PROVE EntriesCovered' /\ SilentOnlyWhileRepeated'
  <2>1. /\ UNCHANGED <<request, seen, checked, twinned>> /\ pc[r] = "idle"
        /\ \A x \in Requests \ {r} : readAt'[x] = readAt[x]
    BY <1>2 DEF Accept, filterVars, historyVars, TypeOK
  <2>2. checked \subseteq Requests \ {r}
    BY <2>1 DEF TypeOK, LookedUpOnce
  <2> QED BY <1>1, <2>1, <2>2
<1>3. ASSUME NEW r \in Requests, CheckAndRecord(r) PROVE EntriesCovered' /\ SilentOnlyWhileRepeated'
  BY <1>3, LookUpCovers
<1>4. CASE Tick
  BY <1>1, <1>4 DEF Tick, filterVars, historyVars
<1>5. CASE Crash
  BY <1>5, CrashEffect DEF EntriesCovered, SilentOnlyWhileRepeated
<1>6. CASE LookUpFrame
  BY <1>1, <1>6 DEF LookUpFrame
<1> QED BY LookUpCases, <1>2, <1>3, <1>4, <1>5, <1>6

LEMMA CoveredInvariant == Spec => [](EntriesCovered /\ SilentOnlyWhileRepeated)
<1>1. Init => EntriesCovered /\ SilentOnlyWhileRepeated
  BY DEF Init, EntriesCovered, SilentOnlyWhileRepeated
<1> QED BY <1>1, CoveredStep, SpacingInvariant, IngestTypeCorrect, PTL DEF Spec

\* An alert is kept silent only while it repeats: from a message that passed to
\* the suppressed one, no instant is a window away from the last of their key
\* (dedup.rs:26-41).
THEOREM SilenceIsEarned == Spec => []SilentOnlyWhileRepeated
BY CoveredInvariant, PTL

-----------------------------------------------------------------------------
(* Who is refused, among the requests. *)

\* A request joins those its bucket let through when it is admitted, and stays.
LEMMA LetThroughStep ==
  ASSUME TypeOK, Whereabouts, AnswersAreTrue, LookedUpOnce, [Next]_vars, NEW b \in BucketKeys
  PROVE  /\ LetThrough(b) \subseteq LetThrough(b)'
         /\ \A r \in Requests : pc[r] = "rating" /\ pc'[r] = "publishing" /\ BucketOf(r) = b
              => r \in LetThrough(b)' \ LetThrough(b)
<1> USE DEF Respond, Goto, filterVars, storeVars, historyVars
<1>0. pc \in [Requests -> Stages] /\ answer \in [Requests -> Answers]
  BY DEF TypeOK
<1> SUFFICES ASSUME NEW q \in Requests
             PROVE  /\ q \in LetThrough(b) => q \in LetThrough(b)'
                    /\ pc[q] = "rating" /\ pc'[q] = "publishing" /\ BucketOf(q) = b
                         => q \in LetThrough(b)' \ LetThrough(b)
  BY DEF LetThrough
<1>1. BucketOf(q)' = BucketOf(q)
  <2>1. request' = request
    BY LookUpCases DEF LookUpFrame, Accept, CheckAndRecord, Tick, Crash
  <2> QED BY <2>1 DEF BucketOf, Tier, SeverityOf
<1> DEFINE Working(x) == pc[x] \in {"publishing", "enqueueing", "auditing"}
           Answered(x) == answer[x] \in {"202", "503", "dropped"}
<1>2. ASSUME q \notin twinned, Working(q) \/ Answered(q)
      PROVE  q \notin twinned' /\ (Working(q)' \/ Answered(q)')
  <2>1. ASSUME NEW r \in Requests, Reject(r) \/ Accept(r) \/ CheckAndRecord(r) \/ Allow(r)
        PROVE  q \notin twinned' /\ (Working(q)' \/ Answered(q)')
    <3>1. pc[r] \in {"idle", "checking", "rating"} /\ answer[r] = "none" /\ r # q
      BY <1>2, <2>1 DEF Reject, Accept, CheckAndRecord, Allow, Whereabouts
    <3>2. pc'[q] = pc[q] /\ answer'[q] = answer[q] /\ twinned' \subseteq twinned \cup {r}
      BY <1>0, <2>1, <3>1 DEF Reject, Accept, CheckAndRecord, Allow
    <3> QED BY <1>2, <3>1, <3>2
  <2>2. ASSUME NEW r \in Requests, \/ AnswerDuplicate(r) \/ AnswerLimited(r) \/ PublishNats(r)
                                   \/ Enqueue(r) \/ AnswerIngested(r) \/ HangUp(r)
        PROVE  q \notin twinned' /\ (Working(q)' \/ Answered(q)')
    <3>1. CASE r # q
      <4>1. pc'[q] = pc[q] /\ answer'[q] = answer[q] /\ twinned' = twinned
        BY <1>0, <2>2, <3>1 DEF AnswerDuplicate, AnswerLimited, PublishNats, Enqueue, AnswerIngested, HangUp
      <4> QED BY <1>2, <4>1
    <3>2. CASE r = q
      <4>1. pc[q] # "done"
        BY <2>2, <3>2 DEF AnswerDuplicate, AnswerLimited, PublishNats, Enqueue, AnswerIngested, HangUp
      <4>2. answer[q] = "none" /\ Working(q)
        BY <1>2, <4>1 DEF Whereabouts
      <4> QED BY <1>0, <1>2, <2>2, <3>2, <4>2
            DEF AnswerDuplicate, AnswerLimited, PublishNats, Enqueue, AnswerIngested, HangUp
    <3> QED BY <3>1, <3>2
  <2>3. ASSUME NEW r \in Requests, ServerAnswers(r)
        PROVE  q \notin twinned' /\ (Working(q)' \/ Answered(q)')
    BY <1>2, <2>3 DEF ServerAnswers
  <2>4. CASE Tick \/ UNCHANGED vars
    BY <1>2, <2>4 DEF Tick, vars
  <2>5. CASE Crash
    BY <1>0, <1>2, <2>5 DEF Crash
  <2> QED BY <2>1, <2>2, <2>3, <2>4, <2>5 DEF Next, HandlerStep
<1>3. ASSUME pc[q] = "rating", pc'[q] = "publishing"
      PROVE  q \notin twinned' /\ ~Working(q) /\ ~Answered(q)
  <2>1. answer[q] = "none" /\ q \notin twinned
    BY <1>3 DEF Whereabouts
  <2>2. q \notin twinned'
    <3>1. Whereabouts'
      BY WhereaboutsStep
    <3> QED BY <1>3, <3>1 DEF Whereabouts
  <2> QED BY <1>3, <2>1, <2>2
<1> QED BY <1>1, <1>2, <1>3 DEF LetThrough

\* What each step does to the handlers' places and to the limiter's memory.
LEMMA RatingFrame ==
  ASSUME TypeOK, [Next]_vars
  PROVE  /\ request' = request
         /\ \/ Crash
            \/ \E r \in Requests :
                 /\ Allow(r)
                 /\ \/ Admit(BucketOf(r)) /\ pc' = [pc EXCEPT ![r] = "publishing"]
                    \/ Refuse(BucketOf(r)) /\ pc' = [pc EXCEPT ![r] = "limited"]
            \/ /\ UNCHANGED <<admitted, refusals>>
               /\ \/ pc' = pc
                  \/ \E r \in Requests, s \in Stages \ {"limited"} : pc' = [pc EXCEPT ![r] = s]
<1> DEFINE Quiet == /\ request' = request
                    /\ UNCHANGED <<admitted, refusals>>
                    /\ \/ pc' = pc
                       \/ \E r \in Requests, s \in Stages \ {"limited"} : pc' = [pc EXCEPT ![r] = s]
<1> USE DEF Respond, Goto, filterVars, rateVars, Stages
<1>1. ASSUME NEW r \in Requests, Reject(r) PROVE Quiet
  BY <1>1 DEF Reject
<1>2. ASSUME NEW r \in Requests, Accept(r) PROVE Quiet
  BY <1>2 DEF Accept
<1>3. ASSUME NEW r \in Requests, CheckAndRecord(r) PROVE Quiet
  BY <1>3 DEF CheckAndRecord
<1>4. ASSUME NEW r \in Requests, AnswerDuplicate(r) \/ AnswerLimited(r) \/ AnswerIngested(r) PROVE Quiet
  BY <1>4 DEF AnswerDuplicate, AnswerLimited, AnswerIngested
<1>5. ASSUME NEW r \in Requests, PublishNats(r) PROVE Quiet
  BY <1>5 DEF PublishNats
<1>6. ASSUME NEW r \in Requests, Enqueue(r) PROVE Quiet
  BY <1>6 DEF Enqueue
<1>7. ASSUME NEW r \in Requests, HangUp(r) PROVE Quiet
  BY <1>7 DEF HangUp
<1>8. ASSUME NEW r \in Requests, ServerAnswers(r) PROVE Quiet
  BY <1>8 DEF ServerAnswers
<1>9. ASSUME Tick \/ UNCHANGED vars PROVE Quiet
  BY <1>9 DEF Tick, vars
<1>10. CASE Crash
  BY <1>10 DEF Crash
<1>11. ASSUME NEW r \in Requests, Allow(r)
       PROVE  /\ request' = request
              /\ \/ Admit(BucketOf(r)) /\ pc' = [pc EXCEPT ![r] = "publishing"]
                 \/ Refuse(BucketOf(r)) /\ pc' = [pc EXCEPT ![r] = "limited"]
  BY <1>11 DEF Allow
<1> HIDE DEF Quiet
<1>12. Quiet \/ Crash \/ \E r \in Requests : Allow(r)
  <2>1. CASE UNCHANGED vars \/ Tick
    BY <1>9, <2>1
  <2>2. ASSUME NEW r \in Requests, HandlerStep(r), ~Allow(r) PROVE Quiet
    BY <1>1, <1>2, <1>3, <1>4, <1>5, <1>6, <2>2 DEF HandlerStep
  <2>3. Next \/ UNCHANGED vars
    OBVIOUS
  <2> QED BY <1>7, <1>8, <2>1, <2>2, <2>3 DEF Next
<1>13. CASE Quiet
  BY <1>13 DEF Quiet
<1> QED BY <1>10, <1>11, <1>12, <1>13

LEMMA CountedStep ==
  ASSUME TypeOK, Whereabouts, AnswersAreTrue, LookedUpOnce, AdmissionsCounted, [Next]_vars
  PROVE  AdmissionsCounted'
<1> DEFINE Begun == {r \in Requests : pc[r] # "idle"}
<1>0. pc \in [Requests -> Stages] /\ admitted \in [BucketKeys -> Seq(Instants)]
  BY DEF TypeOK, RateTypeOK
<1>1. \A r \in Requests : BucketOf(r)' = BucketOf(r) /\ BucketOf(r) \in BucketKeys
  BY RatingFrame, RequestType DEF BucketOf, Tier, SeverityOf
<1>2. IsFiniteSet(Begun')
  <2>1. CASE Crash
    <3>1. Begun' = Begun
      BY <1>0, <2>1 DEF Crash
    <3> QED BY <3>1 DEF AdmissionsCounted
  <2>2. CASE \E r \in Requests, s \in Stages : pc' = [pc EXCEPT ![r] = s]
    <3>1. PICK r \in Requests, s \in Stages : pc' = [pc EXCEPT ![r] = s]
      BY <2>2
    <3>2. Begun' \subseteq Begun \cup {r}
      BY <1>0, <3>1
    <3>3. IsFiniteSet(Begun \cup {r})
      BY FS_AddElement DEF AdmissionsCounted
    <3> QED BY <3>2, <3>3, FS_Subset
  <2>3. CASE pc' = pc
    BY <2>3 DEF AdmissionsCounted
  <2> QED BY <2>1, <2>2, <2>3, RatingFrame DEF Stages
<1>3. ASSUME NEW b \in BucketKeys
      PROVE  Len(admitted'[b]) <= Cardinality(LetThrough(b)')
  <2>1. LetThrough(b)' \subseteq Begun'
    <3>1. Whereabouts'
      BY WhereaboutsStep
    <3> QED BY <3>1 DEF LetThrough, Whereabouts
  <2>2. IsFiniteSet(LetThrough(b)') /\ LetThrough(b) \subseteq LetThrough(b)'
    BY <1>2, <2>1, FS_Subset, LetThroughStep
  <2>3. IsFiniteSet(LetThrough(b)) /\ Cardinality(LetThrough(b)) \in Nat /\ Cardinality(LetThrough(b)') \in Nat
    BY <2>2, FS_Subset, FS_CardinalityType
  <2>4. Len(admitted[b]) <= Cardinality(LetThrough(b)) /\ Len(admitted[b]) \in Nat
    BY <1>0 DEF AdmissionsCounted
  <2>5. Cardinality(LetThrough(b)) <= Cardinality(LetThrough(b)')
    BY <2>2, FS_Subset
  <2>6. CASE admitted'[b] = admitted[b]
    BY <2>3, <2>4, <2>5, <2>6
  <2>7. CASE admitted'[b] = <<>>
    <3>1. Len(admitted'[b]) = 0
      BY <2>7
    <3> QED BY <2>3, <3>1
  <2>8. ASSUME NEW r \in Requests, Allow(r), BucketOf(r) = b, Admit(b), pc' = [pc EXCEPT ![r] = "publishing"]
        PROVE  Len(admitted'[b]) <= Cardinality(LetThrough(b)')
    <3>1. pc[r] = "rating" /\ pc'[r] = "publishing"
      BY <1>0, <2>8 DEF Allow
    <3>2. r \in LetThrough(b)' \ LetThrough(b)
      BY <2>8, <3>1, LetThroughStep
    <3>3. LetThrough(b) \cup {r} \subseteq LetThrough(b)'
      BY <2>2, <3>2
    <3>4. /\ Cardinality(LetThrough(b) \cup {r}) = Cardinality(LetThrough(b)) + 1
          /\ Cardinality(LetThrough(b) \cup {r}) <= Cardinality(LetThrough(b)')
      <4>1. Cardinality(LetThrough(b) \cup {r}) = Cardinality(LetThrough(b)) + 1
        BY <2>3, <3>2, FS_AddElement
      <4>2. Cardinality(LetThrough(b) \cup {r}) <= Cardinality(LetThrough(b)')
        BY <2>2, <3>3, FS_Subset
      <4> QED BY <4>1, <4>2
    <3>5. Len(admitted'[b]) = Len(admitted[b]) + 1
      <4>1. admitted'[b] = Append(admitted[b], clock) /\ admitted[b] \in Seq(Instants) /\ clock \in Instants
        BY <1>0, <2>8 DEF Admit, TypeOK, RateTypeOK
      <4> QED BY <4>1
    <3> QED BY <2>3, <2>4, <3>4, <3>5
  <2>9. CASE Crash
    BY <2>7, <2>9 DEF Crash, EmptyMap
  <2>10. CASE UNCHANGED <<admitted, refusals>>
    BY <2>6, <2>10
  <2>11. ASSUME NEW r \in Requests, Allow(r), \/ Admit(BucketOf(r)) /\ pc' = [pc EXCEPT ![r] = "publishing"]
                                             \/ Refuse(BucketOf(r))
         PROVE  Len(admitted'[b]) <= Cardinality(LetThrough(b)')
    <3>1. CASE Refuse(BucketOf(r))
      BY <2>6, <3>1 DEF Refuse
    <3>2. CASE Admit(BucketOf(r)) /\ b # BucketOf(r)
      BY <1>0, <2>6, <3>2 DEF Admit
    <3> QED BY <2>8, <2>11, <3>1, <3>2
  <2> QED BY <2>9, <2>10, <2>11, RatingFrame
<1>4. ASSUME NEW r \in Requests, pc'[r] = "limited"
      PROVE  \E t \in Instants : <<BucketOf(r), t>> \in refusals'
  <2>1. CASE Crash
    BY <1>0, <1>4, <2>1 DEF Crash
  <2>2. CASE pc[r] = "limited" /\ refusals \subseteq refusals'
    BY <2>2 DEF AdmissionsCounted
  <2>3. CASE /\ UNCHANGED <<admitted, refusals>>
             /\ \/ pc' = pc
                \/ \E q \in Requests, s \in Stages \ {"limited"} : pc' = [pc EXCEPT ![q] = s]
    <3>1. pc[r] = "limited"
      BY <1>0, <1>4, <2>3
    <3>2. refusals \subseteq refusals'
      BY <2>3
    <3> QED BY <2>2, <3>1, <3>2
  <2>4. ASSUME NEW q \in Requests, Admit(BucketOf(q)), pc' = [pc EXCEPT ![q] = "publishing"]
        PROVE  \E t \in Instants : <<BucketOf(r), t>> \in refusals'
    <3>1. pc[r] = "limited"
      BY <1>0, <1>4, <2>4
    <3> QED BY <2>2, <2>4, <3>1 DEF Admit
  <2>5. ASSUME NEW q \in Requests, Refuse(BucketOf(q)), pc' = [pc EXCEPT ![q] = "limited"]
        PROVE  \E t \in Instants : <<BucketOf(r), t>> \in refusals'
    <3>1. CASE q = r
      BY <2>5, <3>1 DEF Refuse, TypeOK, RateTypeOK
    <3>2. CASE q # r
      <4>1. pc[r] = "limited"
        BY <1>0, <1>4, <2>5, <3>2
      <4> QED BY <2>2, <2>5, <4>1 DEF Refuse
    <3> QED BY <3>1, <3>2
  <2> QED BY <2>1, <2>3, <2>4, <2>5, RatingFrame
<1>5. \A r \in Requests : pc'[r] = "limited" => \E t \in Instants : <<BucketOf(r)', t>> \in refusals'
  BY <1>1, <1>4
<1> QED BY <1>2, <1>3, <1>5 DEF AdmissionsCounted

LEMMA CountedInit == Init => AdmissionsCounted
<1> SUFFICES ASSUME Init PROVE AdmissionsCounted
  OBVIOUS
<1>1. {r \in Requests : pc[r] # "idle"} = {}
  BY DEF Init
<1>2. ASSUME NEW b \in BucketKeys PROVE Len(admitted[b]) = 0 /\ LetThrough(b) = {}
  BY DEF Init, RateInit, LetThrough
<1>3. IsFiniteSet({}) /\ Cardinality({}) = 0
  BY FS_EmptySet
<1>4. \A r \in Requests : pc[r] # "limited"
  BY DEF Init
<1>5. IsFiniteSet({r \in Requests : pc[r] # "idle"})
  BY <1>1, <1>3
<1>6. ASSUME NEW b \in BucketKeys PROVE Len(admitted[b]) <= Cardinality(LetThrough(b))
  <2>1. Cardinality(LetThrough(b)) = 0
    BY <1>2, <1>3
  <2> QED BY <1>2, <2>1
<1> QED BY <1>4, <1>5, <1>6 DEF AdmissionsCounted

\* Those that used up the allowance of r went through its own bucket.
LEMMA RefusalsCounted ==
  ASSUME TypeOK, RefusedOnlyWhenBusy, Whereabouts, AdmissionsCounted
  PROVE  RefusedForItsOwnKind
<1> SUFFICES ASSUME NEW r \in Requests, pc[r] = "limited"
             PROVE  Cardinality({q \in Requests \ {r} :
                      /\ request[q].source = request[r].source
                      /\ SeverityOf(q) = "P0" <=> SeverityOf(r) = "P0"
                      /\ q \notin twinned
                      /\ \/ pc[q] \in {"publishing", "enqueueing", "auditing"}
                         \/ answer[q] \in {"202", "503", "dropped"}})
                    >= IF SeverityOf(r) = "P0" THEN P0PerMin ELSE NormalPerMin
  BY DEF RefusedForItsOwnKind
<1> DEFINE b == BucketOf(r)
<1>1. b \in BucketKeys
  BY RequestType
<1>2. {q \in Requests \ {r} :
        /\ request[q].source = request[r].source
        /\ SeverityOf(q) = "P0" <=> SeverityOf(r) = "P0"
        /\ q \notin twinned
        /\ \/ pc[q] \in {"publishing", "enqueueing", "auditing"}
           \/ answer[q] \in {"202", "503", "dropped"}} = LetThrough(b)
  <2>1. answer[r] = "none"
    BY DEF Whereabouts
  <2>2. \A q \in Requests : BucketOf(q) = b <=>
          request[q].source = request[r].source /\ (SeverityOf(q) = "P0" <=> SeverityOf(r) = "P0")
    BY DEF BucketOf, Tier
  <2> QED BY <2>1, <2>2 DEF LetThrough
<1>3. PerMin(b) = IF SeverityOf(r) = "P0" THEN P0PerMin ELSE NormalPerMin
  BY DEF BucketOf, Tier, PerMin
<1>4. PICK t \in Instants : <<b, t>> \in refusals
  BY DEF AdmissionsCounted
<1>5. Cardinality(Late(b, t)) >= PerMin(b)
  BY <1>4 DEF RefusedOnlyWhenBusy
<1> HIDE DEF b
<1>6. Cardinality(Late(b, t)) <= Len(admitted[b]) /\ Cardinality(Late(b, t)) \in Nat
  BY <1>1, LateFinite DEF TypeOK
<1>7. Len(admitted[b]) <= Cardinality(LetThrough(b)) /\ Len(admitted[b]) \in Nat
  BY <1>1 DEF AdmissionsCounted, TypeOK, RateTypeOK
<1>8. Cardinality(LetThrough(b)) \in Nat
  <2>1. LetThrough(b) \subseteq {q \in Requests : pc[q] # "idle"}
    BY DEF LetThrough, Whereabouts
  <2> QED BY <2>1, FS_Subset, FS_CardinalityType DEF AdmissionsCounted
<1>9. PerMin(b) \in Nat
  BY RateAssumption DEF PerMin
<1>10. Cardinality(LetThrough(b)) >= PerMin(b)
  BY <1>5, <1>6, <1>7, <1>8, <1>9
<1> QED BY <1>2, <1>3, <1>10

\* Everything the proofs above rest on, as one inductive invariant.
LEMMA IngestInvariant == Spec => []IInv
<1>1. Spec => []AdmissionsCounted
  BY CountedInit, CountedStep, IngestTypeCorrect, WhereaboutsInvariant, SpacingInvariant, PTL DEF Spec
<1> QED
  BY <1>1, UsesTheLimiter, BusyInvariant, IngestTypeCorrect, SpacingInvariant, CoveredInvariant,
     WhereaboutsInvariant, PTL DEF IInv

\* A message is refused only after as many of its own source and urgency as the
\* allowance lets through in a minute (ratelimit.rs:3-4, webhook.rs:182-193).
THEOREM RefusedForOwnKind == Spec => []RefusedForItsOwnKind
<1>1. IInv => RefusedForItsOwnKind
  BY RefusalsCounted DEF IInv
<1> QED BY <1>1, IngestInvariant, PTL
=============================================================================
