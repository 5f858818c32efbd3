--------------------------- MODULE Watchdog_proofs ---------------------------
(***************************************************************************)
(* The watchdog does not nag, and it answers an alert within two of the    *)
(* heartbeat's silences, for every period, every window that is no longer  *)
(* than the silence and every analysis that reads further back than two.   *)
(***************************************************************************)
EXTENDS Watchdog, TLAPS

\* As long as the host stays up, the note is as old as the last attempt, but
\* between the two, and a script that is about to tell found it old enough.
NoteIsTrue ==
  /\ sinceTold \in Nat /\ sinceNote \in Nat
  /\ ~rebooted =>
       /\ check = "note" => sinceTold = 0
       /\ check # "note" => sinceNote = sinceTold
       /\ check = "tell" => sinceTold >= DedupWindow

LEMMA NoteInit == Init => NoteIsTrue
BY WatchdogAssumption DEF Init, NoteIsTrue

LEMMA NoteStep == NoteIsTrue /\ [Next]_vars => NoteIsTrue'
<1> SUFFICES ASSUME NoteIsTrue, [Next]_vars PROVE NoteIsTrue'
  OBVIOUS
<1> USE WatchdogAssumption DEF NoteIsTrue, runVars, checkVars, toldVars, alertVars
<1>1. CASE Alert \/ Expire \/ StartRun \/ ReadAlerts \/ Done \/ RunFails \/ UNCHANGED vars
  BY <1>1 DEF Alert, Expire, StartRun, ReadAlerts, Done, RunFails, vars
<1>2. CASE Tick
  BY <1>2 DEF Tick, Older
<1>3. CASE CheckAlive
  BY <1>3 DEF CheckAlive, CheckDue
<1>4. CASE CountAlerts
  BY <1>4 DEF CountAlerts, MayBeOlder
<1>5. CASE Tell
  BY <1>5 DEF Tell
<1>6. CASE Note
  BY <1>6 DEF Note
<1>7. CASE Reboot
  BY <1>7 DEF Reboot
<1> QED BY <1>1, <1>2, <1>3, <1>4, <1>5, <1>6, <1>7 DEF Next, WatchdogStep

\* The user gets no second message within the dedup window, whatever the runs,
\* NATS and Telegram do, unless the host was rebooted (bigbrother-watchdog.sh:60-67, :96).
THEOREM NoNagging == Spec => OnceAnHour
<1>1. ASSUME NoteIsTrue, [Next]_vars PROVE [Tell => sinceTold >= DedupWindow \/ rebooted]_vars
  BY <1>1 DEF NoteIsTrue, Tell
<1> QED BY NoteInit, NoteStep, <1>1, PTL DEF Spec, OnceAnHour

-----------------------------------------------------------------------------
(* Type correctness. *)

LEMMA TypeInit == Init => TypeOK
<1> SUFFICES ASSUME Init PROVE TypeOK
  OBVIOUS
<1>1. {stored, collected, excused, rebooted} \subseteq BOOLEAN
  BY DEF Init
<1>2. /\ sinceRun \in 0..RunPeriod /\ sinceDone \in 0..(HeartbeatMaxAge + 1)
      /\ sinceNote \in 0..(DedupWindow + 1) /\ sinceTold \in 0..(DedupWindow + 1)
      /\ sinceCheck \in 0..1 /\ faults \in 0..MaxFaults
  BY WatchdogAssumption DEF Init
<1> QED BY <1>1, <1>2 DEF Init, TypeOK, Waits

\* The faults that a step counts, and whether it excuses the waiting alerts.
LEMMA MishapType ==
  ASSUME TypeOK, Mishap \/ NoMishap \/ UNCHANGED <<faults, excused>>
  PROVE  /\ faults' \in 0..MaxFaults
         /\ stored \in BOOLEAN /\ collected \in BOOLEAN
         /\ excused \in BOOLEAN /\ rebooted \in BOOLEAN
         /\ excused' \in BOOLEAN
<1>1. /\ faults \in 0..MaxFaults /\ MaxFaults \in Nat
      /\ stored \in BOOLEAN /\ collected \in BOOLEAN
      /\ excused \in BOOLEAN /\ rebooted \in BOOLEAN
  BY WatchdogAssumption DEF TypeOK
<1>2. faults' \in 0..MaxFaults
  BY <1>1 DEF Mishap, NoMishap
<1>3. excused' \in BOOLEAN
  BY <1>1, Zenon DEF Mishap, NoMishap
<1> QED BY <1>1, <1>2, <1>3

LEMMA OlderStays ==
  /\ \A bound \in Nat : \A age \in 0..bound : Older(age, bound) \in 0..bound
  /\ \A age \in Waits : WaitsOn(age) \in Waits
<1>1. \A bound \in Nat : \A age \in 0..bound : Older(age, bound) \in 0..bound
  BY DEF Older
<1>2. Oldest \in Nat
  BY WatchdogAssumption DEF Oldest
<1>3. \A age \in Waits : WaitsOn(age) \in Waits
  BY <1>1, <1>2 DEF Waits, WaitsOn
<1> QED BY <1>1, <1>3

LEMMA TypeStep == TypeOK /\ [Next]_vars => TypeOK'
<1> SUFFICES ASSUME TypeOK, [Next]_vars PROVE TypeOK'
  OBVIOUS
<1>a. TypeOK
  OBVIOUS
<1> USE DEF runVars, checkVars, toldVars, alertVars
<1>0. /\ Nobody \in Waits /\ 0 \in Waits
      /\ 0 \in 0..RunPeriod /\ RunPeriod \in 0..RunPeriod /\ 0 \in 0..(HeartbeatMaxAge + 1)
      /\ 0 \in 0..(DedupWindow + 1) /\ DedupWindow + 1 \in 0..(DedupWindow + 1)
  BY WatchdogAssumption DEF Waits, Oldest
<1>b. /\ stored \in BOOLEAN /\ collected \in BOOLEAN /\ excused \in BOOLEAN /\ rebooted \in BOOLEAN
  BY DEF TypeOK
<1>1. CASE Alert
  <2>1. waiting' \in {waiting, 0}
    BY <1>1 DEF Alert
  <2> QED BY <1>0, <1>1, <2>1 DEF Alert, TypeOK
<1>2. CASE Expire
  <2>1. faults' \in 0..MaxFaults /\ excused' \in BOOLEAN
    BY <1>2, <1>a, MishapType DEF Expire
  <2>2. /\ stored' \in BOOLEAN /\ waiting' = Nobody /\ collected' = FALSE
        /\ UNCHANGED <<runVars, checkVars, toldVars>>
    BY <1>2 DEF Expire, Forgotten
  <2> QED BY <1>0, <1>b, <2>1, <2>2 DEF TypeOK
<1>3. CASE Tick
  <2>1. /\ sinceRun' \in 0..RunPeriod /\ sinceDone' \in 0..(HeartbeatMaxAge + 1)
        /\ sinceNote' \in 0..(DedupWindow + 1) /\ sinceTold' \in 0..(DedupWindow + 1)
    BY <1>3, OlderStays, WatchdogAssumption DEF Tick, TypeOK
  <2>2. waiting' \in Waits
    BY <1>3, OlderStays DEF Tick, TypeOK
  <2> QED BY <1>3, <2>1, <2>2 DEF Tick, TypeOK
<1>4. CASE StartRun \/ ReadAlerts \/ RunFails
  BY <1>0, <1>4 DEF StartRun, ReadAlerts, RunFails, TypeOK
<1>5. CASE Done
  <2>1. faults' \in 0..MaxFaults /\ excused' \in BOOLEAN
    BY <1>5, <1>a, MishapType DEF Done
  <2>2. /\ run' = "idle" /\ sinceDone' = 0 /\ waiting' \in {waiting, Nobody} /\ collected' = FALSE
        /\ UNCHANGED <<sinceRun, checkVars, toldVars, stored>>
    BY <1>5 DEF Done
  <2> QED BY <1>0, <1>b, <2>1, <2>2 DEF TypeOK
<1>6. CASE CheckAlive
  BY <1>6 DEF CheckAlive, TypeOK
<1>7. CASE CountAlerts
  <2>1. faults' \in 0..MaxFaults /\ excused' \in BOOLEAN
    BY <1>7, <1>a, MishapType DEF CountAlerts
  <2>2. check' \in {"idle", "tell"}
        /\ UNCHANGED <<sinceCheck, sinceNote, runVars, toldVars, alertVars>>
    BY <1>7 DEF CountAlerts
  <2> QED BY <1>b, <2>1, <2>2 DEF TypeOK
<1>8. CASE Tell
  <2>1. faults' \in 0..MaxFaults /\ excused' \in BOOLEAN
    BY <1>8, <1>a, MishapType DEF Tell
  <2>2. /\ check' = "note" /\ sinceTold' = 0 /\ rebooted' = FALSE
        /\ waiting' \in {waiting, Nobody} /\ collected' \in {collected, FALSE}
        /\ UNCHANGED <<sinceCheck, sinceNote, runVars, stored>>
    BY <1>8 DEF Tell, Forgotten
  <2> QED BY <1>0, <1>b, <2>1, <2>2 DEF TypeOK
<1>9. CASE Note
  BY <1>0, <1>9 DEF Note, TypeOK
<1>10. CASE Reboot
  <2>1. faults' \in 0..MaxFaults
    BY <1>10, WatchdogAssumption DEF Reboot, TypeOK
  <2>2. /\ sinceNote' \in 0..(DedupWindow + 1) /\ sinceCheck' \in 0..1
        /\ run' = "idle" /\ check' = "idle" /\ sinceRun' = RunPeriod
        /\ collected' = FALSE /\ rebooted' = TRUE
        /\ UNCHANGED <<sinceDone, sinceTold, stored, waiting, excused>>
    BY <1>0, <1>10 DEF Reboot, TypeOK
  <2> QED BY <1>0, <1>b, <2>1, <2>2 DEF TypeOK
<1>11. CASE UNCHANGED vars
  BY <1>11 DEF vars, TypeOK
<1> QED
  BY <1>1, <1>2, <1>3, <1>4, <1>5, <1>6, <1>7, <1>8, <1>9, <1>10, <1>11 DEF Next, WatchdogStep

\* Type correctness for every period and window.
THEOREM WatchdogTypeCorrect == Spec => []TypeOK
BY TypeInit, TypeStep, PTL DEF Spec

-----------------------------------------------------------------------------
(* No alert stays unheard. *)

LEMMA AheadType ==
  ASSUME NEW done \in 0..(HeartbeatMaxAge + 1), NEW note \in 0..(DedupWindow + 1)
  PROVE  /\ Ahead(done, note) \in Nat /\ Ahead(done, note) <= HeartbeatMaxAge + 1
         /\ done <= HeartbeatMaxAge \/ note <= DedupWindow => Ahead(done, note) # 0
BY WatchdogAssumption, WindowAssumption DEF Ahead, Most

\* Time brings the watchdog nearer, and a run that ends puts it off.
LEMMA AheadMoves ==
  ASSUME NEW done \in 0..(HeartbeatMaxAge + 1), NEW note \in 0..(DedupWindow + 1)
  PROVE  /\ Ahead(Older(done, HeartbeatMaxAge + 1), Older(note, DedupWindow + 1))
              = IF Ahead(done, note) = 0 THEN 0 ELSE Ahead(done, note) - 1
         /\ Ahead(0, note) = HeartbeatMaxAge + 1
         /\ Ahead(done, DedupWindow + 1) <= Ahead(done, note)
BY WatchdogAssumption, WindowAssumption DEF Ahead, Most, Older

LEMMA OneTickMore ==
  ASSUME NEW age \in Int, NEW older \in Int, older <= age + 1,
         NEW ahead \in Nat, NEW next \in Nat,
         IF ahead = 0 THEN next = 0 /\ age = 0 ELSE next = ahead - 1,
         NEW bound \in Nat, 1 <= bound, age + ahead <= bound
  PROVE  older + next <= bound
OBVIOUS

LEMMA HeardInit == Init => IInv
<1> SUFFICES ASSUME Init PROVE IInv
  OBVIOUS
<1>1. waiting = Nobody /\ ~collected /\ check = "idle"
  BY DEF Init
<1> QED BY <1>1, TypeInit DEF IInv, Waiting

LEMMA WaitingStep == TypeOK /\ Waiting /\ [Next]_vars => Waiting'
<1> SUFFICES ASSUME TypeOK, Waiting, [Next]_vars PROVE Waiting'
  OBVIOUS
<1> USE DEF Waiting, Nobody, runVars, checkVars, toldVars, alertVars
<1>1. CASE Alert
  BY <1>1 DEF Alert
<1>2. CASE Tick
  <2>1. waiting' # Nobody <=> waiting # Nobody
    BY <1>2, WatchdogAssumption DEF Tick, WaitsOn, Older, TypeOK, Waits, Oldest
  <2> QED BY <1>2, <2>1 DEF Tick
<1>3. CASE StartRun
  BY <1>3 DEF StartRun, RunDue
<1>4. CASE ReadAlerts \/ Done \/ RunFails
  BY <1>4 DEF ReadAlerts, Done, RunFails
<1>5. CASE Tell \/ Reboot
  BY <1>5 DEF Tell, Reboot, Forgotten
<1>6. CASE Expire
  BY <1>6 DEF Expire, Forgotten
<1>7. CASE UNCHANGED <<run, stored, waiting, collected>>
  BY <1>7
<1> QED
  BY <1>1, <1>2, <1>3, <1>4, <1>5, <1>6, <1>7
     DEF Next, WatchdogStep, vars, CheckAlive, CountAlerts, Note

LEMMA HeardStep == IInv /\ [Next]_vars => IInv'
<1> SUFFICES ASSUME IInv, [Next]_vars PROVE IInv'
  OBVIOUS
<1>a. TypeOK /\ TypeOK' /\ Waiting /\ Waiting'
  BY TypeStep, WaitingStep DEF IInv
<1>p. PICK ahead : ahead = Ahead(sinceDone, sinceNote)
  OBVIOUS
<1>n. PICK next : next = Ahead(sinceDone', sinceNote')
  OBVIOUS
<1>b. /\ waiting \in Int /\ HeartbeatMaxAge \in Nat /\ DedupWindow \in Nat
      /\ ahead \in Nat /\ ahead <= HeartbeatMaxAge + 1
      /\ next \in Nat /\ next <= HeartbeatMaxAge + 1
      /\ waiting # Nobody => waiting \in Nat
      /\ Deadline = 2 * (HeartbeatMaxAge + 1)
  <2>1. HeartbeatMaxAge \in Nat /\ DedupWindow \in Nat
    BY WatchdogAssumption
  <2>2. /\ ahead \in Nat /\ ahead <= HeartbeatMaxAge + 1
        /\ next \in Nat /\ next <= HeartbeatMaxAge + 1
    BY <1>a, <1>p, <1>n, AheadType DEF TypeOK
  <2>3. Nobody \in Int /\ Oldest \in Nat
    BY WatchdogAssumption DEF Nobody, Oldest
  <2> QED BY <1>a, <2>1, <2>2, <2>3 DEF TypeOK, Waits, Deadline
<1>c. /\ waiting # Nobody /\ ~excused => InTime
      /\ check # "idle" => sinceCheck = 0
  BY DEF IInv
<1>d. InTime <=> /\ waiting + ahead <= Deadline
                 /\ run = "read" /\ ~collected => waiting + ahead <= HeartbeatMaxAge + 1
                 /\ check = "note" => waiting = 0
                 /\ check = "idle" /\ sinceCheck = 0 /\ ahead = 0 => waiting = 0
  BY <1>p DEF InTime
<1>e. InTime' <=> /\ waiting' + next <= Deadline
                  /\ run' = "read" /\ ~collected' => waiting' + next <= HeartbeatMaxAge + 1
                  /\ check' = "note" => waiting' = 0
                  /\ check' = "idle" /\ sinceCheck' = 0 /\ next = 0 => waiting' = 0
  BY <1>n DEF InTime, Deadline
<1> SUFFICES /\ check' # "idle" => sinceCheck' = 0
             /\ waiting' # Nobody /\ ~excused' => InTime'
  BY <1>a DEF IInv
<1> USE DEF runVars, checkVars, toldVars, alertVars
<1>1. CASE Alert
  <2>1. next = ahead /\ UNCHANGED <<check, sinceCheck, run, collected, excused>>
    BY <1>1, <1>p, <1>n DEF Alert
  <2>2. waiting' = waiting \/ (waiting = Nobody /\ waiting' = 0)
    BY <1>1 DEF Alert
  <2>3. CASE waiting' = waiting
    BY <1>c, <1>d, <1>e, <2>1, <2>3
  <2>4. CASE waiting' = 0
    BY <1>b, <1>c, <1>e, <2>1, <2>4
  <2> QED BY <2>2, <2>3, <2>4
<1>2. CASE Expire
  BY <1>2, <1>c DEF Expire, Forgotten
<1>3. CASE Tick
  <2>1. /\ check = "idle" /\ sinceCheck = 0
        /\ UNCHANGED <<run, check, collected, excused>> /\ sinceCheck' = 1
    BY <1>3, <1>a DEF Tick, CheckDue, TypeOK
  <2>2. next = IF ahead = 0 THEN 0 ELSE ahead - 1
    BY <1>3, <1>a, <1>p, <1>n, AheadMoves DEF Tick, TypeOK
  <2>3. waiting' # Nobody => waiting # Nobody /\ waiting' \in Int /\ waiting' <= waiting + 1
    BY <1>3, <1>b, WatchdogAssumption DEF Tick, WaitsOn, Older, Nobody, Oldest
  <2>4. ASSUME waiting' # Nobody, ~excused' PROVE InTime'
    <3>0. InTime
      BY <1>c, <2>1, <2>3, <2>4
    <3>p. PICK older : older = waiting'
      OBVIOUS
    <3>1. waiting \in Int /\ older \in Int /\ older <= waiting + 1
      BY <1>b, <2>3, <2>4, <3>p
    <3>2. ASSUME NEW bound \in Nat, 1 <= bound, waiting + ahead <= bound
          PROVE  waiting' + next <= bound
      <4>1. IF ahead = 0 THEN next = 0 /\ waiting = 0 ELSE next = ahead - 1
        BY <1>d, <2>1, <2>2, <3>0
      <4>2. ahead \in Nat /\ next \in Nat
        BY <1>b
      <4>3. older + next <= bound
        BY <3>1, <3>2, <4>1, <4>2, OneTickMore
      <4> QED BY <3>p, <4>3
    <3>3. /\ Deadline \in Nat /\ 1 <= Deadline
          /\ HeartbeatMaxAge + 1 \in Nat /\ 1 <= HeartbeatMaxAge + 1
      BY WatchdogAssumption DEF Deadline
    <3> QED BY <1>d, <1>e, <2>1, <3>0, <3>2, <3>3
  <2> QED BY <2>1, <2>4
<1>4. CASE StartRun
  BY <1>4, <1>c, <1>d, <1>e, <1>p, <1>n DEF StartRun
<1>5. CASE ReadAlerts
  <2>1. next = ahead /\ run' = "read" /\ UNCHANGED <<check, sinceCheck, waiting, excused>>
    BY <1>5, <1>p, <1>n DEF ReadAlerts
  <2>2. ASSUME waiting # Nobody, InTime PROVE collected'
    <3>1. waiting < Lookback
      BY <1>b, <1>d, <2>2, LookbackAssumption, WatchdogAssumption
    <3> QED BY <1>5, <1>b, <2>2, <3>1, WatchdogAssumption DEF ReadAlerts, MayBeOlder
  <2> QED BY <1>c, <1>d, <1>e, <2>1, <2>2
<1>6. CASE Done
  <2>1. /\ UNCHANGED <<check, sinceCheck, sinceNote>> /\ sinceDone' = 0 /\ run' = "idle"
        /\ waiting' # Nobody => waiting' = waiting /\ ~collected
    BY <1>6 DEF Done
  <2>2. ASSUME waiting' # Nobody, ~excused' PROVE InTime'
    <3>1. run = "read" /\ ~excused
      <4>1. ~Mishap
        BY <2>1, <2>2 DEF Mishap
      <4> QED BY <1>6, <2>2, <4>1 DEF Done, NoMishap
    <3>2. InTime /\ waiting' = waiting /\ ~collected
      BY <1>c, <2>1, <2>2, <3>1
    <3>3. next = HeartbeatMaxAge + 1
      BY <1>a, <1>n, <2>1, AheadMoves DEF TypeOK
    <3> QED BY <1>b, <1>d, <1>e, <2>1, <3>1, <3>2, <3>3
  <2> QED BY <1>c, <2>1, <2>2
<1>7. CASE RunFails
  BY <1>7, <1>c, <1>d, <1>e, <1>p, <1>n DEF RunFails
<1>8. CASE CheckAlive
  <2>1. /\ sinceCheck' = 0 /\ check = "idle" /\ next = ahead
        /\ UNCHANGED <<run, excused, waiting, collected>>
        /\ check' = "count" \/ (check' = "idle" /\ sinceDone <= HeartbeatMaxAge)
    BY <1>8, <1>p, <1>n DEF CheckAlive, CheckDue, MayBeYounger
  <2>2. sinceDone <= HeartbeatMaxAge => ahead # 0
    BY <1>a, <1>p, AheadType DEF TypeOK
  <2> QED BY <1>c, <1>d, <1>e, <2>1, <2>2
<1>9. CASE CountAlerts
  <2>1. check = "count" /\ UNCHANGED <<run, waiting, collected, sinceCheck>> /\ next = ahead
    BY <1>9, <1>p, <1>n DEF CountAlerts
  <2>2. ASSUME waiting' # Nobody, ~excused' PROVE InTime'
    <3>1. waiting # Nobody /\ stored /\ ~Mishap
      BY <1>a, <2>1, <2>2 DEF Mishap, Waiting
    <3>2. ~excused /\ (check' = "tell" \/ sinceNote <= DedupWindow)
      BY <1>9, <2>2, <3>1 DEF CountAlerts, MayBeYounger
    <3>3. sinceNote <= DedupWindow => ahead # 0
      BY <1>a, <1>p, AheadType DEF TypeOK
    <3>4. check' \in {"idle", "tell"}
      BY <1>9 DEF CountAlerts
    <3> QED BY <1>c, <1>d, <1>e, <2>1, <3>1, <3>2, <3>3, <3>4
  <2> QED BY <1>c, <2>1, <2>2
<1>10. CASE Tell
  <2>1. ASSUME waiting' # Nobody PROVE excused'
    BY <1>10, <2>1 DEF Tell, Forgotten, Mishap, NoMishap
  <2>2. check = "tell" /\ sinceCheck' = sinceCheck
    BY <1>10 DEF Tell
  <2> QED BY <1>c, <2>1, <2>2
<1>11. CASE Note
  <2>1. /\ check = "note" /\ check' = "idle" /\ UNCHANGED <<run, excused, waiting, collected, sinceCheck>>
        /\ sinceNote' = 0 /\ sinceDone' = sinceDone
    BY <1>11 DEF Note
  <2>2. next # 0
    BY <1>a, <1>b, <1>n, <2>1, AheadType DEF TypeOK
  <2>3. ASSUME waiting' # Nobody, ~excused' PROVE InTime'
    <3>1. waiting = 0
      BY <1>c, <1>d, <2>1, <2>3
    <3> QED BY <1>b, <1>e, <2>1, <2>2, <3>1
  <2> QED BY <2>1, <2>3
<1>12. CASE Reboot
  <2>1. /\ check' = "idle" /\ sinceCheck' = 1 /\ run' = "idle" /\ UNCHANGED <<excused, waiting, sinceDone>>
        /\ sinceNote' = sinceNote \/ sinceNote' = DedupWindow + 1
    BY <1>12 DEF Reboot
  <2>2. next <= ahead
    <3>1. CASE sinceNote' = sinceNote
      BY <1>b, <1>n, <1>p, <2>1, <3>1
    <3>2. CASE sinceNote' = DedupWindow + 1
      BY <1>a, <1>n, <1>p, <2>1, <3>2, AheadMoves DEF TypeOK
    <3> QED BY <2>1, <3>1, <3>2
  <2> QED BY <1>b, <1>c, <1>d, <1>e, <2>1, <2>2
<1>13. CASE UNCHANGED vars
  BY <1>13, <1>c, <1>d, <1>e, <1>p, <1>n DEF vars
<1> QED
  BY <1>1, <1>2, <1>3, <1>4, <1>5, <1>6, <1>7, <1>8, <1>9, <1>10, <1>11, <1>12, <1>13
     DEF Next, WatchdogStep

\* Whatever the runs do, an alert is read by a run that ends well, or the user is
\* told, within two silences, unless a mishap hid it (bigbrother-watchdog.sh:14-17,
\* :41-67): for all periods, as long as the window is no longer than a silence and
\* the analysis reads further back than two of them (bigbrother-analyze.sh:23).
THEOREM HeardWithinTwoSilences == Spec => []HeardInTime
<1>1. IInv => HeardInTime
  <2> SUFFICES ASSUME IInv, ~excused PROVE waiting <= Deadline
    BY DEF HeardInTime
  <2>1. Deadline \in Nat
    BY WatchdogAssumption DEF Deadline
  <2>2. CASE waiting = Nobody
    BY <2>1, <2>2 DEF Nobody
  <2>3. CASE waiting # Nobody
    <3>1. waiting + Ahead(sinceDone, sinceNote) <= Deadline /\ TypeOK
      BY <2>3 DEF IInv, InTime
    <3>2. waiting \in Nat /\ Ahead(sinceDone, sinceNote) \in Nat
      BY <2>3, <3>1, AheadType, WatchdogAssumption DEF TypeOK, Waits, Oldest
    <3> QED BY <2>1, <3>1, <3>2
  <2> QED BY <2>2, <2>3
<1> QED BY <1>1, HeardInit, HeardStep, PTL DEF Spec
=============================================================================
