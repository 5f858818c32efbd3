------------------------------- MODULE Watchdog -------------------------------
(***************************************************************************)
(* BigBrother and its watchdog (deploy/bigbrother-agent): an analysis that *)
(* reads the stream ALERTS every hour, and a script that is to see to it   *)
(* that no alert stays unheard when the analysis falls silent.             *)
(*                                                                         *)
(* Time is counted in ticks, the period of the watchdog's timer.  Every    *)
(* clock value the scripts compare is kept as an age in ticks, up to the   *)
(* point where no comparison can tell it from an older one.  One action    *)
(* per command of a script that another script, the stream or a reboot can *)
(* come between.  Of the alerts any one that nobody has heard of is        *)
(* followed; the others are only known to be on the stream.                *)
(*                                                                         *)
(* Abstracted: what Claude makes of the alerts, the texts, the logs but    *)
(* for the DONE line, the audit message on AGENTS (it is only logged).     *)
(***************************************************************************)
EXTENDS Integers

CONSTANTS
  RunPeriod,        \* bigbrother-analyze.timer, OnUnitActiveSec, in ticks
  Lookback,         \* how far back the analysis reads the streams, in ticks
  HeartbeatMaxAge,  \* HEARTBEAT_MAX_AGE, in ticks
  DedupWindow,      \* DEDUP_WINDOW, in ticks
  MaxFaults         \* bound: mishaps and reboots

ASSUME WatchdogAssumption ==
  /\ {RunPeriod, Lookback, HeartbeatMaxAge, DedupWindow} \subseteq Nat \ {0}
  /\ MaxFaults \in Nat

\* With a longer window the note of a message would outlast the next silence
\* (DEDUP_WINDOW is one hour, HEARTBEAT_MAX_AGE two).
ASSUME WindowAssumption == DedupWindow <= HeartbeatMaxAge

VARIABLES
  run,        \* the analysis: "idle", "started" or, once it has the alerts, "read"
  sinceRun,   \* age of its last start
  sinceDone,  \* age of the last DONE line in analyze.log
  check,      \* where the watchdog script is
  sinceCheck, \* age of its last start
  sinceNote,  \* age of the instant in STATE_FILE
  stored,     \* does ALERTS hold a message
  faults,     \* counted against its bound
  (* history *)
  waiting,    \* age of the alert that is followed, or Nobody
  collected,  \* is it among those that the current run has read
  excused,    \* did a mishap hide it
  sinceTold,  \* age of the last attempt to send a message
  rebooted    \* was there a reboot since that attempt

runVars == <<run, sinceRun, sinceDone>>
checkVars == <<check, sinceCheck, sinceNote>>
toldVars == <<sinceTold, rebooted>>
alertVars == <<stored, waiting, collected>>
vars == <<runVars, checkVars, toldVars, alertVars, faults, excused>>

\* An alert that arrives right after a run has read the stream waits until that
\* run, which hangs, ends just before it would be missed, and until the next is.
Deadline == 2 * (HeartbeatMaxAge + 1)
Nobody == -1
Oldest == Lookback + 1
Waits == {Nobody} \cup 0..Oldest

\* What may be heard in time is still read (six hours, and twice two and a half).
ASSUME LookbackAssumption == Deadline < Lookback

TypeOK ==
  /\ run \in {"idle", "started", "read"} /\ sinceRun \in 0..RunPeriod
  /\ sinceDone \in 0..(HeartbeatMaxAge + 1)
  /\ check \in {"idle", "count", "tell", "note"} /\ sinceCheck \in 0..1
  /\ sinceNote \in 0..(DedupWindow + 1) /\ sinceTold \in 0..(DedupWindow + 1)
  /\ {stored, collected, excused, rebooted} \subseteq BOOLEAN
  /\ faults \in 0..MaxFaults /\ waiting \in Waits

-----------------------------------------------------------------------------
\* A clock of age ticks is between age - 1 and age + 1 periods old, so that at
\* the bound a script may find it younger or older.
MayBeYounger(age, bound) == age <= bound
MayBeOlder(age, bound) == age >= bound

Older(age, bound) == IF age < bound THEN age + 1 ELSE bound
WaitsOn(age) == IF age = Nobody THEN Nobody ELSE Older(age, Oldest)

RunDue == run = "idle" /\ sinceRun = RunPeriod
CheckDue == check = "idle" /\ sinceCheck = 1

\* The alert is heard of, or gone.
Forgotten == waiting' = Nobody /\ collected' = FALSE

\* A mishap that hides alerts for a while.
Mishap ==
  /\ faults < MaxFaults /\ faults' = faults + 1
  /\ excused' = (excused \/ waiting # Nobody)

NoMishap == UNCHANGED faults /\ excused' = (excused /\ waiting' # Nobody)

\* Nothing has run yet, so that there is no DONE line and no STATE_FILE.
Init ==
  /\ run = "idle" /\ sinceRun = RunPeriod /\ sinceDone = HeartbeatMaxAge + 1
  /\ check = "idle" /\ sinceCheck = 1 /\ sinceNote = DedupWindow + 1
  /\ stored = FALSE /\ waiting = Nobody /\ collected = FALSE
  /\ faults = 0 /\ excused = FALSE
  /\ sinceTold = DedupWindow + 1 /\ rebooted = FALSE

\* The daemon publishes an alert, which is followed or not.
Alert ==
  /\ stored' = TRUE
  /\ waiting' = waiting \/ (waiting = Nobody /\ waiting' = 0)
  /\ UNCHANGED <<runVars, checkVars, toldVars, collected, faults, excused>>

\* Messages leave ALERTS after seven days: the one that is followed not before
\* it is older than all that is compared here, and with it or without others.
Expire ==
  /\ stored /\ waiting \in {Nobody, Oldest}
  /\ stored' \in BOOLEAN
  /\ Forgotten /\ NoMishap
  /\ UNCHANGED <<runVars, checkVars, toldVars>>

\* Timers fire within the tick and the watchdog's script, whose calls all have
\* timeouts, ends within it.
Tick ==
  /\ ~RunDue /\ ~CheckDue /\ check = "idle"
  /\ sinceRun' = Older(sinceRun, RunPeriod)
  /\ sinceDone' = Older(sinceDone, HeartbeatMaxAge + 1)
  /\ sinceCheck' = 1
  /\ sinceNote' = Older(sinceNote, DedupWindow + 1)
  /\ sinceTold' = Older(sinceTold, DedupWindow + 1)
  /\ waiting' = WaitsOn(waiting)
  /\ UNCHANGED <<run, check, stored, collected, faults, excused, rebooted>>

-----------------------------------------------------------------------------
(* bigbrother-analyze.sh. *)

\* Mutant: the watchdog takes the START line for a sign of life.
StartIsSignOfLife ==
  /\ RunDue
  /\ run' = "started" /\ sinceRun' = 0 /\ sinceDone' = 0
  /\ UNCHANGED <<checkVars, toldVars, alertVars, faults, excused>>

StartRun ==
  /\ RunDue
  /\ run' = "started" /\ sinceRun' = 0
  /\ UNCHANGED <<sinceDone, checkVars, toldVars, alertVars, faults, excused>>

\* Claude collects the streams, as far back as the prompt says.
ReadAlerts ==
  /\ run = "started" /\ run' = "read"
  /\ \/ waiting # Nobody /\ MayBeYounger(waiting, Lookback) /\ collected' = TRUE
     \/ (waiting = Nobody \/ MayBeOlder(waiting, Lookback)) /\ collected' = FALSE
  /\ UNCHANGED <<sinceRun, sinceDone, checkVars, toldVars, stored, waiting, faults, excused>>

\* Claude exits with 0 and the DONE line is written, also when Claude could not
\* read the streams.
Done ==
  /\ run \in {"started", "read"}
  /\ run' = "idle" /\ sinceDone' = 0
  /\ waiting' = (IF collected THEN Nobody ELSE waiting) /\ collected' = FALSE
  /\ IF run = "read" THEN NoMishap ELSE Mishap
  /\ UNCHANGED <<sinceRun, checkVars, toldVars, stored>>

\* Claude exits with an error.  It may also never exit: nothing limits a oneshot
\* service, and the timer does not start it again while it is active.
RunFails ==
  /\ run \in {"started", "read"}
  /\ run' = "idle" /\ collected' = FALSE
  /\ UNCHANGED <<sinceRun, sinceDone, checkVars, toldVars, stored, waiting, faults, excused>>

-----------------------------------------------------------------------------
(* bigbrother-watchdog.sh. *)

\* How old is the last DONE line?
CheckAlive ==
  /\ CheckDue /\ sinceCheck' = 0
  /\ \/ MayBeYounger(sinceDone, HeartbeatMaxAge) /\ UNCHANGED check
     \/ MayBeOlder(sinceDone, HeartbeatMaxAge) /\ check' = "count"
  /\ UNCHANGED <<sinceNote, runVars, toldVars, alertVars, faults, excused>>

\* Mutants: a failing nats command ends the script; a skip renews the note.
CountFails ==
  /\ check = "count"
  /\ \/ Mishap /\ check' = "failed"
     \/ check' = "tell" /\ stored /\ UNCHANGED <<faults, excused>>
  /\ UNCHANGED <<sinceCheck, sinceNote, runVars, toldVars, alertVars>>
SkipRenewsNote ==
  /\ check = "count"
  /\ \/ Mishap /\ check' = "idle" /\ UNCHANGED sinceNote
     \/ /\ UNCHANGED <<faults, excused>>
        /\ \/ ~stored /\ check' = "idle" /\ UNCHANGED sinceNote
           \/ /\ stored /\ MayBeYounger(sinceNote, DedupWindow)
              /\ check' = "idle" /\ sinceNote' = 0
           \/ /\ stored /\ MayBeOlder(sinceNote, DedupWindow)
              /\ check' = "tell" /\ UNCHANGED sinceNote
  /\ UNCHANGED <<sinceCheck, runVars, toldVars, alertVars>>

\* ALERTS_COUNT, 0 when NATS does not answer, and the age of the last message.
CountAlerts ==
  /\ check = "count"
  /\ \/ Mishap /\ check' = "idle"
     \/ /\ UNCHANGED <<faults, excused>>
        /\ \/ (~stored \/ MayBeYounger(sinceNote, DedupWindow)) /\ check' = "idle"
           \/ stored /\ MayBeOlder(sinceNote, DedupWindow) /\ check' = "tell"
  /\ UNCHANGED <<sinceCheck, sinceNote, runVars, toldVars, alertVars>>

\* Mutant: a message that was not sent is not noted.
TellOrForget ==
  /\ check = "tell"
  /\ sinceTold' = 0 /\ rebooted' = FALSE
  /\ \/ check' = "note" /\ Forgotten /\ NoMishap
     \/ check' = "idle" /\ Mishap /\ UNCHANGED <<waiting, collected>>
  /\ UNCHANGED <<sinceCheck, sinceNote, runVars, stored>>

\* send-telegram.sh, which may be missing or fail; the script goes on.
Tell ==
  /\ check = "tell" /\ check' = "note"
  /\ sinceTold' = 0 /\ rebooted' = FALSE
  /\ \/ Forgotten /\ NoMishap
     \/ Mishap /\ UNCHANGED <<waiting, collected>>
  /\ UNCHANGED <<sinceCheck, sinceNote, runVars, stored>>

\* STATE_FILE is written, whether or not the message was sent.
Note ==
  /\ check = "note" /\ check' = "idle"
  /\ sinceNote' = 0
  /\ UNCHANGED <<sinceCheck, runVars, toldVars, alertVars, faults, excused>>

\* The host is rebooted: both scripts are gone, a STATE_FILE that was being
\* written may be empty, which bash reads as 0, and the timers fire soon.
Reboot ==
  /\ faults < MaxFaults /\ faults' = faults + 1
  /\ run' = "idle" /\ collected' = FALSE /\ sinceRun' = RunPeriod
  /\ check' = "idle" /\ sinceCheck' = 1
  /\ sinceNote' \in {sinceNote} \cup {DedupWindow + 1 : x \in {check} \cap {"note"}}
  /\ rebooted' = TRUE
  /\ UNCHANGED <<sinceDone, sinceTold, stored, waiting, excused>>

-----------------------------------------------------------------------------
WatchdogStep == CheckAlive \/ CountAlerts \/ Tell \/ Note

Next ==
  \/ Alert \/ Expire \/ Tick
  \/ StartRun \/ ReadAlerts \/ Done \/ RunFails
  \/ WatchdogStep \/ Reboot

Spec == Init /\ [][Next]_vars

\* Time passes and systemd's timers fire; nobody promises that a run ends.
Fairness == WF_vars(Tick) /\ WF_vars(StartRun) /\ WF_vars(WatchdogStep)

FairSpec == Spec /\ Fairness

-----------------------------------------------------------------------------
(* Properties. *)

\* Whatever the runs do, hang, fail or succeed just often enough to seem alive,
\* an alert is read by a run that ends well, or the user is told, within two
\* silences (bigbrother-watchdog.sh:2-4, :14-17), unless NATS, Telegram or a run
\* that read nothing got in the way.
HeardInTime == waiting <= Deadline \/ excused

\* However many mishaps there were, an alert is told of in the end, unless a run
\* ends well: a message that failed, and was noted as if it had not, or a count
\* that NATS did not answer does not silence the watchdog (bigbrother-watchdog.sh:49-96).
\* What the run does for the alert is another question: see Lookback.
ToldWhileSilent == waiting # Nobody ~> waiting = Nobody \/ sinceDone = 0

\* At most one message an hour (bigbrother-watchdog.sh:17), failed ones included,
\* save that a reboot between message and note lets it be sent again.
OnceAnHour ==
  [][Tell => sinceTold >= DedupWindow \/ rebooted]_vars

-----------------------------------------------------------------------------
(* What the proof of HeardInTime needs besides (Watchdog_proofs). *)

\* The ticks until the watchdog surely sends a message, if no run ends well, with
\* a DONE line and a note of these ages.
Most(x, y) == IF x <= y THEN y ELSE x
Ahead(done, note) == Most(HeartbeatMaxAge + 1 - done, DedupWindow + 1 - note)

\* What waits is on the stream, and only a run that has read the stream has it.
Waiting == /\ waiting # Nobody => stored
           /\ collected => waiting # Nobody /\ run = "read"

\* The watchdog is due in time for the alert that waits.  One that the current
\* run has not read arrived while that run did not end, so that the watchdog is
\* due within one silence of its arrival; if the run does end, one more passes.
InTime ==
  LET ahead == Ahead(sinceDone, sinceNote) IN
    /\ waiting + ahead <= Deadline
    /\ run = "read" /\ ~collected => waiting + ahead <= HeartbeatMaxAge + 1
    /\ check = "note" => waiting = 0
    /\ check = "idle" /\ sinceCheck = 0 /\ ahead = 0 => waiting = 0

IInv == /\ TypeOK /\ Waiting
        /\ check # "idle" => sinceCheck = 0
        /\ waiting # Nobody /\ ~excused => InTime
=============================================================================
