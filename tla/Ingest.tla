-------------------------------- MODULE Ingest --------------------------------
(***************************************************************************)
(* The HTTP ingestion (source/webhook.rs) with its two in-memory filters,  *)
(* the dedup cache (filter/dedup.rs) and the rate limiter (RateLimiter),   *)
(* and the outbox table (queue.rs).                                        *)
(*                                                                         *)
(* axum runs the handlers concurrently on several threads: one action per  *)
(* stretch of a handler between two awaits or two locks.                   *)
(*                                                                         *)
(* Abstracted: the text of a request (its dedup hash is a key, its source  *)
(* an identifier), the NATS subject (each of them lands on ALERTS).        *)
(***************************************************************************)
EXTENDS RateLimiter, SeverityRouting

CONSTANTS
  Requests,      \* HTTP requests, a retry being a request of its own
  Traffic,       \* what requests may carry, a subset of Payload
  Keys,
  Window,        \* filter.dedup_window_secs, in ticks
  LockDelay,     \* ticks a thread may lose between the clock and the dedup lock
  Faults,        \* bound: the kinds of failure that may happen
  MaxCrashes     \* bound: crashes

\* wellFormed: the JSON has the fields the endpoint requires.  success, level
\* and severity are read by forgejo, wazuh and generic respectively.
Payload == [endpoint : {"generic", "wazuh", "forgejo"}, wellFormed : BOOLEAN,
            success : BOOLEAN, level : Nat, severity : Severities,
            key : Keys, source : Sources]

FaultKinds == {"nats", "sqlite", "client"}

ASSUME IngestAssumption ==
  /\ Traffic \subseteq Payload
  /\ Faults \subseteq FaultKinds
  /\ {Window, LockDelay, MaxCrashes} \subseteq Nat

VARIABLES
  request,   \* request[r]: what r carries
  pc,        \* pc[r]: where r's handler is
  readAt,    \* readAt[r]: the instant that check_and_record read for r
  answer,    \* answer[r]: the status code the client got
  crashes,   \* counted against its bound
  seen,      \* the dedup cache: key -> instant, for the keys it holds
  inFlight,  \* handed to the NATS client, not yet stored by the server
  stored,    \* on ALERTS
  outbox,    \* rows of the outbox table
  (* history *)
  checked,   \* the requests this process looked up in its dedup cache
  twinned,   \* the requests some process took for duplicates
  handed     \* the requests handed to the NATS client

filterVars == <<seen, rateVars>>
storeVars == <<inFlight, stored, outbox>>
historyVars == <<checked, twinned, handed>>
vars == <<request, pc, readAt, answer, clock, crashes, filterVars, storeVars, historyVars>>

Stages == {"idle", "checking", "rating", "duplicate", "limited",
           "publishing", "enqueueing", "auditing", "done"}
Answers == {"none", "202", "204", "400", "429", "503", "dropped"}

TypeOK ==
  /\ request \in [Requests -> Traffic]
  /\ pc \in [Requests -> Stages]
  /\ readAt \in [Requests -> Instants]
  /\ answer \in [Requests -> Answers]
  /\ RateTypeOK /\ crashes \in Nat
  /\ \E held \in SUBSET Keys : seen \in [held -> Instants]
  /\ inFlight \in SUBSET Requests /\ stored \in SUBSET Requests
  /\ outbox \in SUBSET Requests
  /\ checked \in SUBSET Requests /\ twinned \in SUBSET Requests
  /\ handed \in SUBSET Requests

-----------------------------------------------------------------------------
(* What the handlers make of a request. *)

SeverityOf(r) ==
  CASE request[r].endpoint = "generic" -> request[r].severity
    [] request[r].endpoint = "wazuh"   -> FromWazuhLevel(request[r].level)
    [] request[r].endpoint = "forgejo" -> "P1"

\* A forgejo payload has a default for every field.
Malformed(r) == request[r].endpoint # "forgejo" /\ ~request[r].wellFormed
IgnoredSuccess(r) == request[r].endpoint = "forgejo" /\ request[r].success

\* Mutant: one bucket for all severities.
OneTier(r) == "normal"

Tier(r) == IF SeverityOf(r) = "P0" THEN "p0" ELSE "normal"
BucketOf(r) == <<request[r].source, Tier(r)>>

\* Mutants: no entry expires; the key is not recorded.
NeverExpired(cache, t) == DOMAIN cache
NotRecorded(cache, k, t) == cache

\* Instant::duration_since is zero when the other instant is the later one.
Elapsed(from, to) == IF from <= to THEN to - from ELSE 0

\* DedupCache: entries as old as the window are dropped, then the key is looked
\* up and recorded, found or not.
Fresh(cache, t) == {k \in DOMAIN cache : Elapsed(cache[k], t) < Window}
IsDuplicate(cache, k, t) == k \in Fresh(cache, t)
Recorded(cache, k, t) ==
  [x \in Fresh(cache, t) \cup {k} |-> IF x = k THEN t ELSE cache[x]]

-----------------------------------------------------------------------------
Init ==
  /\ request \in [Requests -> Traffic]
  /\ pc = [r \in Requests |-> "idle"]
  /\ readAt = [r \in Requests |-> 0]
  /\ answer = [r \in Requests |-> "none"]
  /\ RateInit /\ crashes = 0
  /\ seen = [k \in {} |-> 0]
  /\ inFlight = {} /\ stored = {} /\ outbox = {}
  /\ checked = {} /\ twinned = {} /\ handed = {}

Goto(r, stage) == pc' = [pc EXCEPT ![r] = stage]
Respond(r, code) == Goto(r, "done") /\ answer' = [answer EXCEPT ![r] = code]

\* A request that never reaches publish(); 400 stands for every 4xx, those of
\* axum's Json extractor included.
Reject(r) ==
  /\ pc[r] = "idle"
  /\ \/ Malformed(r) /\ Respond(r, "400")
     \/ IgnoredSuccess(r) /\ Respond(r, "204")
  /\ UNCHANGED <<request, readAt, clock, crashes, filterVars, storeVars, historyVars>>

\* The handler builds its Message and check_and_record reads the clock, which
\* it does before it takes the lock.
Accept(r) ==
  /\ pc[r] = "idle" /\ ~Malformed(r) /\ ~IgnoredSuccess(r)
  /\ readAt' = [readAt EXCEPT ![r] = clock]
  /\ Goto(r, "checking")
  /\ UNCHANGED <<request, answer, clock, crashes, filterVars, storeVars, historyVars>>

\* check_and_record under its lock.
CheckAndRecord(r) ==
  /\ pc[r] = "checking"
  /\ LET k == request[r].key
         t == readAt[r]
     IN /\ seen' = Recorded(seen, k, t)
        /\ IF IsDuplicate(seen, k, t)
           THEN Goto(r, "duplicate") /\ twinned' = twinned \cup {r}
           ELSE Goto(r, "rating") /\ UNCHANGED twinned
  /\ checked' = checked \cup {r}
  /\ UNCHANGED <<request, readAt, answer, clock, crashes, rateVars, storeVars, handed>>

\* AdaptiveRateLimiter::allow, clock and all, under its lock.
Allow(r) ==
  /\ pc[r] = "rating"
  /\ \/ Admit(BucketOf(r)) /\ Goto(r, "publishing")
     \/ Refuse(BucketOf(r)) /\ Goto(r, "limited")
  /\ UNCHANGED <<request, readAt, answer, clock, crashes, seen, storeVars, historyVars>>

\* The message_deduped and message_rate_limited rows, then the answer.
AnswerDuplicate(r) ==
  /\ pc[r] = "duplicate" /\ Respond(r, "202")
  /\ UNCHANGED <<request, readAt, clock, crashes, filterVars, storeVars, historyVars>>

\* Mutant: the refusal is reported as an internal error.
AnswerLimitedAs500(r) ==
  /\ pc[r] = "limited" /\ Respond(r, "500")
  /\ UNCHANGED <<request, readAt, clock, crashes, filterVars, storeVars, historyVars>>

AnswerLimited(r) ==
  /\ pc[r] = "limited" /\ Respond(r, "429")
  /\ UNCHANGED <<request, readAt, clock, crashes, filterVars, storeVars, historyVars>>

\* Mutant: the error of js.publish() is ignored like that of the outbox.
PublishErrorIgnored(r) ==
  /\ pc[r] = "publishing" /\ Goto(r, "enqueueing")
  /\ \/ inFlight' = inFlight \cup {r} /\ handed' = handed \cup {r}
     \/ "nats" \in Faults /\ UNCHANGED <<inFlight, handed>>
  /\ UNCHANGED <<request, readAt, answer, clock, crashes, filterVars, stored, outbox,
                 checked, twinned>>

\* js.publish().await: the client takes the message or fails.  The future with
\* the server's ack that it returns is dropped.
PublishNats(r) ==
  /\ pc[r] = "publishing"
  /\ \/ /\ Goto(r, "enqueueing")
        /\ inFlight' = inFlight \cup {r} /\ handed' = handed \cup {r}
        /\ UNCHANGED answer
     \/ /\ "nats" \in Faults
        /\ Respond(r, "503")
        /\ UNCHANGED <<inFlight, handed>>
  /\ UNCHANGED <<request, readAt, clock, crashes, filterVars, stored, outbox,
                 checked, twinned>>

\* queue.enqueue().await.ok().
Enqueue(r) ==
  /\ pc[r] = "enqueueing"
  /\ Goto(r, "auditing")
  /\ \/ outbox' = outbox \cup {r}
     \/ "sqlite" \in Faults /\ UNCHANGED outbox
  /\ UNCHANGED <<request, readAt, answer, clock, crashes, filterVars, inFlight, stored, historyVars>>

\* The message_ingested row, then the answer.
AnswerIngested(r) ==
  /\ pc[r] = "auditing" /\ Respond(r, "202")
  /\ UNCHANGED <<request, readAt, clock, crashes, filterVars, storeVars, historyVars>>

\* The client hangs up: hyper drops the handler at the await where it is.
HangUp(r) ==
  /\ "client" \in Faults
  /\ pc[r] \in {"duplicate", "limited", "publishing", "enqueueing", "auditing"}
  /\ Respond(r, "dropped")
  /\ UNCHANGED <<request, readAt, clock, crashes, filterVars, storeVars, historyVars>>

-----------------------------------------------------------------------------
(* NATS, time, and the process. *)

\* The server stores what the client sent, or refuses it and nobody listens.
ServerAnswers(r) ==
  /\ r \in inFlight
  /\ inFlight' = inFlight \ {r}
  /\ \/ stored' = stored \cup {r}
     \/ "nats" \in Faults /\ UNCHANGED stored
  /\ UNCHANGED <<request, pc, readAt, answer, clock, crashes, filterVars, outbox, historyVars>>

Tick ==
  /\ Ticks
  /\ \A r \in Requests : pc[r] = "checking" => clock - readAt[r] < LockDelay
  /\ UNCHANGED <<request, pc, readAt, answer, crashes, filterVars, storeVars, historyVars>>

\* The process dies and systemd starts it again with empty filters; what was in
\* flight is lost, the stream and the outbox stay.  Nothing here happens while
\* it is down, so the restart is part of the step.
Crash ==
  /\ crashes < MaxCrashes
  /\ crashes' = crashes + 1
  /\ pc' = [r \in Requests |-> IF pc[r] = "idle" THEN "idle" ELSE "done"]
  /\ answer' = [r \in Requests |->
       IF pc[r] \in {"idle", "done"} THEN answer[r] ELSE "dropped"]
  /\ seen' = [k \in {} |-> 0]
  /\ EmptyMap(clock)
  /\ inFlight' = {}
  /\ checked' = {}
  /\ UNCHANGED <<request, readAt, clock, stored, outbox, twinned, handed>>

HandlerStep(r) ==
  \/ Reject(r) \/ Accept(r) \/ CheckAndRecord(r) \/ Allow(r)
  \/ AnswerDuplicate(r) \/ AnswerLimited(r)
  \/ PublishNats(r) \/ Enqueue(r) \/ AnswerIngested(r)

Next ==
  \/ \E r \in Requests : HandlerStep(r) \/ HangUp(r) \/ ServerAnswers(r)
  \/ Tick \/ Crash

Spec == Init /\ [][Next]_vars

-----------------------------------------------------------------------------
(* Properties. *)

\* The requests this process found new, and those with the key of r it looked up.
Passed == checked \ twinned
Alike(r) == {q \in checked : request[q].key = request[r].key}

\* Two messages with one key that both got past the cache of one process lie a
\* window apart, less twice what a thread may lose between the clock and the
\* lock (dedup.rs:28-41 reads the clock first): a late duplicate may set the
\* entry back by that much, and a message of another key, which purges it, may
\* overtake the next one of this key by as much.
PassesApart ==
  \A r, q \in Passed : r # q /\ request[r].key = request[q].key =>
    \/ readAt[r] - readAt[q] >= Window - 2 * LockDelay
    \/ readAt[q] - readAt[r] >= Window - 2 * LockDelay

\* A duplicate renews the entry (dedup.rs:26, :39), so that the window slides,
\* but only as long as the alert repeats: from a message that did pass up to the
\* suppressed one, no instant is a window away from the last of their key.
SilentOnlyWhileRepeated ==
  \A r \in checked \cap twinned : \E q \in Alike(r) \cap Passed :
    \A t \in readAt[q]..readAt[r] : \E x \in Alike(r) \ {r} :
      readAt[x] <= t /\ t - readAt[x] < Window

\* The status codes tell the truth about the message's own fate, whatever was
\* retried, refused or crashed before (webhook.rs:10-14): after a refusal it is
\* nowhere, 202 is for a message NATS was given or a duplicate, and the outbox
\* has no other message than those NATS was given.
AnswersAreTrue ==
  \A r \in Requests :
    /\ answer[r] \in {"204", "400", "429", "503"} => r \notin handed \cup stored \cup outbox
    /\ answer[r] = "202" => r \in handed \cup twinned
    /\ r \in handed => r \notin twinned
    /\ r \in outbox \cup stored => r \in handed

\* Only messages of its own source and urgency use up the allowance of a
\* message: a P0 is refused after as many P0s of its source, never because of
\* normal traffic (ratelimit.rs:3-4).
RefusedForItsOwnKind ==
  \A r \in Requests : pc[r] = "limited" =>
    Cardinality({q \in Requests \ {r} :
      /\ request[q].source = request[r].source
      /\ SeverityOf(q) = "P0" <=> SeverityOf(r) = "P0"
      /\ q \notin twinned
      /\ \/ pc[q] \in {"publishing", "enqueueing", "auditing"}
         \/ answer[q] \in {"202", "503", "dropped"}})
      >= IF SeverityOf(r) = "P0" THEN P0PerMin ELSE NormalPerMin

-----------------------------------------------------------------------------
(* What the proofs need besides (Ingest_proofs). *)

\* A request is looked up once, with a clock that is LockDelay old at most.
LookedUpOnce ==
  \A r \in Requests :
    /\ pc[r] \in {"idle", "checking"} => r \notin checked \cup twinned
    /\ readAt[r] <= clock
    /\ pc[r] = "checking" => clock <= readAt[r] + LockDelay

\* The entry of a message that passed was set back by LockDelay at most, and is
\* purged no earlier than a window after that.
EntriesLast ==
  \A q \in Passed :
    LET k == request[q].key IN
      IF k \in DOMAIN seen THEN readAt[q] <= seen[k] + LockDelay
                           ELSE readAt[q] + Window <= clock + LockDelay

\* From a message that passed until its entry expires, no instant is a window
\* away from the last message of that key.
Covers(S, first, last) ==
  \A t \in first..last : \E x \in S : readAt[x] <= t /\ t - readAt[x] < Window
EntriesCovered ==
  \A k \in DOMAIN seen :
    LET alike == {q \in checked : request[q].key = k} IN
      \E q \in alike \cap Passed : Covers(alike, readAt[q], seen[k] + Window - 1)

\* Where the message of a request is while its handler is at work.
Whereabouts ==
  \A r \in Requests :
    /\ pc[r] # "done" <=> answer[r] = "none"
    /\ r \in inFlight \cup stored \cup outbox => r \in handed
    /\ pc[r] \in {"idle", "checking", "rating", "limited", "publishing"}
         => r \notin handed \cup twinned
    /\ pc[r] = "duplicate" => r \in twinned
    /\ pc[r] \in {"enqueueing", "auditing"} => r \in handed

\* The requests that a bucket let through are at least as many as it admitted,
\* and it refused those that are about to be told so.
LetThrough(b) ==
  {q \in Requests :
    /\ BucketOf(q) = b /\ q \notin twinned
    /\ \/ pc[q] \in {"publishing", "enqueueing", "auditing"}
       \/ answer[q] \in {"202", "503", "dropped"}}
AdmissionsCounted ==
  /\ IsFiniteSet({r \in Requests : pc[r] # "idle"})
  /\ \A b \in BucketKeys : Len(admitted[b]) <= Cardinality(LetThrough(b))
  /\ \A r \in Requests : pc[r] = "limited" => \E t \in Instants : <<BucketOf(r), t>> \in refusals

IInv == /\ TypeOK /\ RateInv /\ BusyInv /\ RefusedOnlyWhenBusy
        /\ LookedUpOnce /\ EntriesLast /\ PassesApart
        /\ EntriesCovered /\ SilentOnlyWhileRepeated
        /\ Whereabouts /\ AnswersAreTrue
        /\ AdmissionsCounted

-----------------------------------------------------------------------------
(* What the repository says and the code does not do. *)

\* webhook.rs:11: 202 means published or deduplicated: some message with that
\* key was published.
AcceptedWasPublished ==
  \A r \in Requests : answer[r] = "202" =>
    \E q \in handed : request[q].key = request[r].key
=============================================================================
