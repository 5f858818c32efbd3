-------------------------- MODULE Dispatcher_proofs --------------------------
(***************************************************************************)
(* Theorems about Dispatcher for every value of its constants.             *)
(***************************************************************************)
EXTENDS Dispatcher, JetStream_proofs, SeverityRouting_proofs

USE DispatcherAssumption, StreamAssumption

-----------------------------------------------------------------------------
(* Type correctness. *)

\* What routing computes.
LEMMA PlanType ==
  ASSUME TypeOK, NEW m \in Msgs, NEW t
  PROVE  /\ PlanAt(m, t) \subseteq SinkChannels
         /\ ~header[m].parses \/ KeptInLog(m, t) => PlanAt(m, t) = {}
BY DEF PlanAt, KeptInLog, RoutedAt, Route, AllChannels, NtfyTelegram, EmailTelegram, LogOnly,
       Channels, SinkChannels, TypeOK, Header, Severities

LEMMA FirstChannelType ==
  ASSUME NEW S \in SUBSET SinkChannels, S # {}
  PROVE  FirstChannel(S) \in S
BY DEF FirstChannel, SinkChannels

LEMMA SinkType ==
  ASSUME TypeOK, NEW g \in Gens, NEW m \in Msgs, NEW ch \in SinkChannels
  PROVE  SinkFor(g, m, ch) \in Outlets \cup {"none"}
BY DEF SinkFor, SelectTelegramSink, TypeOK, Header, SinkChannels, Outlets, FixedOutlets

\* Different channels of a message never share a sink.
LEMMA SinksDiffer ==
  ASSUME TypeOK, NEW g \in Gens, NEW m \in Msgs,
         NEW ch1 \in SinkChannels, NEW ch2 \in SinkChannels, ch1 # ch2,
         SinkFor(g, m, ch1) # "none"
  PROVE  SinkFor(g, m, ch1) # SinkFor(g, m, ch2)
BY DEF SinkFor, SelectTelegramSink, TypeOK, Header, SinkChannels, Outlets, FixedOutlets

LEMMA TypeInit == Init => TypeOK
<1> SUFFICES ASSUME Init PROVE TypeOK
  OBVIOUS
<1>1. JSTypeOK
  BY JSInitType DEF Init
<1>2. buf \in [Tasks -> Seq(Msgs)]
  BY DEF Init
<1>3. bots \in [Gens -> SUBSET Bots] /\ gen \in Gens
  BY DEF Init, Gens
<1> QED
  BY <1>1, <1>2, <1>3 DEF Init, TypeOK, Stages, Instants

LEMMA TypeStep == TypeOK /\ [Next]_vars => TypeOK'
<1> SUFFICES ASSUME TypeOK, [Next]_vars PROVE TypeOK'
  OBVIOUS
<1> USE DEF TypeOK, processVars, taskVars, faultVars, historyVars, jsVars
<1>1. ASSUME NEW m \in Msgs, Publish(m) PROVE TypeOK'
  <2>1. header[m].stream \in Streams
    BY DEF Header
  <2> QED BY <1>1, <2>1, JSPublishType DEF Publish
<1>2. ASSUME NEW m \in Msgs, AckWaitExpires(m) PROVE TypeOK'
  BY <1>2, JSStepType DEF AckWaitExpires
<1>3. CASE Tick
  BY <1>3 DEF Tick, Instants, JSTypeOK
<1>4. ASSUME NEW t \in Tasks, NEW m \in Msgs, Fetch(t, m) PROVE TypeOK'
  BY <1>4, JSStepType DEF Fetch
<1>5. ASSUME NEW t \in Tasks, Receive(t) PROVE TypeOK'
  <2> DEFINE m == Head(buf[t])
  <2>1. m \in Msgs /\ Tail(buf[t]) \in Seq(Msgs)
    BY <1>5 DEF Receive
  <2>2. PlanAt(m, now) \in SUBSET SinkChannels
    BY <2>1, PlanType
  <2>3. buf' = [buf EXCEPT ![t] = Tail(buf[t])] /\ cur' = [cur EXCEPT ![t] = m]
    BY <1>5 DEF Receive
  <2>4. todo' = [todo EXCEPT ![t] = PlanAt(m, now)]
        /\ planned' = [planned EXCEPT ![m] = planned[m] \cup {PlanAt(m, now)}]
    BY <1>5 DEF Receive
  <2>5. \E stage \in {"ack", "log", "deliver"} : pc' = [pc EXCEPT ![t] = stage]
    BY <1>5 DEF Receive
  <2>6. UNCHANGED <<jsVars, header, processVars, alive, outlet, faultVars,
                    attempted, delivered, repeated, audited>>
    BY <1>5 DEF Receive
  <2> HIDE DEF m
  <2> QED BY <2>1, <2>2, <2>3, <2>4, <2>5, <2>6 DEF JSTypeOK, Stages
<1>6. ASSUME NEW t \in Tasks, ReceiveError(t) PROVE TypeOK'
  BY <1>6 DEF ReceiveError, JSTypeOK, Stages
<1>7. ASSUME NEW t \in Tasks, LogOnlyAudit(t) PROVE TypeOK'
  BY <1>7 DEF LogOnlyAudit, JSTypeOK, Stages
<1>8. ASSUME NEW t \in Tasks, Deliver(t) PROVE TypeOK'
  <2> DEFINE m == cur[t]
             ch == FirstChannel(todo[t])
             o == SinkFor(t[1], m, ch)
  <2>1. m \in Msgs /\ ch \in SinkChannels /\ t[1] \in Gens
    <3>1. pc[t] = "deliver" /\ todo[t] # {} /\ todo[t] \in SUBSET SinkChannels
      BY <1>8 DEF Deliver
    <3>2. ch \in todo[t]
      BY <3>1, FirstChannelType
    <3> QED BY <3>1, <3>2 DEF Tasks
  <2>2. o \in Outlets \cup {"none"}
    BY <2>1, SinkType
  <2>3. /\ todo' = [todo EXCEPT ![t] = @ \ {ch}]
        /\ attempted' = attempted \cup {<<m, ch>>}
        /\ UNCHANGED <<jsVars, header, processVars, alive, buf, cur, faultVars, planned, audited>>
    BY <1>8 DEF Deliver
  <2>4. \/ UNCHANGED <<pc, outlet, delivered, repeated>>
        \/ /\ o # "none"
           /\ pc' = [pc EXCEPT ![t] = "audit"]
           /\ outlet' = [outlet EXCEPT ![t] = o]
           /\ delivered' = delivered \cup {<<m, o>>}
           /\ repeated' = repeated \cup ({<<m, o>>} \cap delivered)
    BY <1>8 DEF Deliver, Takes
  <2>5. pc' \in [Tasks -> Stages] /\ outlet' \in [Tasks -> Outlets \cup {"none"}]
    <3> HIDE DEF m, ch, o
    <3>1. CASE UNCHANGED <<pc, outlet, delivered, repeated>>
      BY <3>1
    <3>2. CASE pc' = [pc EXCEPT ![t] = "audit"] /\ outlet' = [outlet EXCEPT ![t] = o]
      BY <2>2, <3>2 DEF Stages
    <3> QED BY <2>4, <3>1, <3>2
  <2>6. \A x \in Tasks : (pc'[x] # "recv" => cur'[x] \in Msgs)
                         /\ (pc'[x] = "audit" => outlet'[x] \in Outlets)
    BY <2>1, <2>2, <2>3, <2>4
  <2>7. delivered' \in SUBSET (Msgs \X Outlets) /\ repeated' \in SUBSET (Msgs \X Outlets)
    BY <2>1, <2>2, <2>4
  <2>8. todo' \in [Tasks -> SUBSET SinkChannels] /\ attempted' \in SUBSET (Msgs \X SinkChannels)
    <3> HIDE DEF m, ch, o
    <3> QED BY <2>1, <2>3
  <2> HIDE DEF m, ch, o
  <2>9. JSTypeOK' /\ buf' \in [Tasks -> Seq(Msgs)] /\ cur' \in [Tasks -> Msgs \cup {"none"}]
    BY <2>3 DEF JSTypeOK
  <2> QED BY <2>3, <2>5, <2>6, <2>7, <2>8, <2>9
<1>9. ASSUME NEW t \in Tasks, DeliveredAudit(t) PROVE TypeOK'
  <2>1. cur[t] \in Msgs /\ outlet[t] \in Outlets
    BY <1>9 DEF DeliveredAudit
  <2>2. audited' \in SUBSET (Msgs \X Targets)
    BY <1>9, <2>1 DEF DeliveredAudit, RowTarget, Targets, Outlets
  <2> QED BY <1>9, <2>1, <2>2 DEF DeliveredAudit, JSTypeOK, Stages
<1>10. ASSUME NEW t \in Tasks, MarkDelivered(t) PROVE TypeOK'
  BY <1>10 DEF MarkDelivered, JSTypeOK, Stages
<1>11. ASSUME NEW t \in Tasks, Ack(t) PROVE TypeOK'
  <2>1. JSTypeOK'
    BY <1>11, JSStepType DEF Ack, JSTypeOK
  <2> QED BY <1>11, <2>1 DEF Ack, Stages
<1>12. ASSUME NEW installed \in SUBSET Bots, Spawn(installed)
       PROVE  gen' \in Gens /\ bots' \in [Gens -> SUBSET Bots]
  BY <1>12 DEF Spawn, Gens
<1>13. CASE Reload
  BY <1>12, <1>13 DEF Reload, JSTypeOK
<1>14. CASE Crash
  <2>1. buf' \in [Tasks -> Seq(Msgs)]
    BY <1>14 DEF Crash
  <2>2. cur' = [t \in Tasks |-> "none"] /\ pc' = [t \in Tasks |-> "recv"]
    BY <1>14 DEF Crash
  <2> QED BY <1>14, <2>1, <2>2 DEF Crash, JSTypeOK, Stages
<1>15. CASE Restart
  BY <1>12, <1>15 DEF Restart, JSTypeOK
<1>16. CASE UNCHANGED vars
  BY <1>16 DEF vars, JSTypeOK
<1> QED
  BY <1>1, <1>2, <1>3, <1>4, <1>5, <1>6, <1>7, <1>8, <1>9, <1>10, <1>11, <1>13, <1>14,
     <1>15, <1>16 DEF Next, TaskStep

\* The variables keep their types, whatever the constants are.
THEOREM TypeCorrect == Spec => []TypeOK
BY TypeInit, TypeStep, PTL DEF Spec

-----------------------------------------------------------------------------
(* Who holds which message. *)

LEMMA InitIInv == Init => IInv
<1> SUFFICES ASSUME Init PROVE IInv
  OBVIOUS
<1>1. TypeOK
  BY TypeInit
<1>2. /\ \A t \in Tasks : /\ pc[t] = "recv" /\ cur[t] = "none" /\ buf[t] = <<>> /\ todo[t] = {}
                          /\ alive[t] => t[1] = 1
      /\ gen = 1 /\ \A m \in Msgs : status[m] = "absent"
      /\ delivered = {} /\ repeated = {}
  BY DEF Init, JSInit
<1>3. Holders
  <2> SUFFICES ASSUME NEW t \in Tasks PROVE HolderOf(t)
    BY DEF Holders
  <2>1. Len(buf[t]) = 0
    BY <1>2
  <2>2. cur[t] \notin Msgs /\ pc[t] = "recv" /\ cur[t] = "none"
    BY <1>2
  <2>3. alive[t] => t[1] <= gen
    BY <1>2
  <2> QED BY <2>1, <2>2, <2>3 DEF HolderOf
<1>4. RoutingProgress /\ AckedAfterRouting
  BY <1>2 DEF RoutingProgress, ProgressOf, AckedAfterRouting
<1>5. SingleCopy
  <2>1. \A t \in Tasks : Len(buf[t]) = 0 /\ todo[t] = {} /\ cur[t] \notin Msgs
    BY <1>2
  <2> SUFFICES ASSUME NEW m \in Msgs PROVE SingleCopyOf(m)
    BY DEF SingleCopy
  <2>2. \A t \in Tasks : cur[t] # m
    BY <2>1
  <2>3. \A o \in Outlets : <<m, o>> \notin delivered /\ <<m, o>> \notin repeated
    BY <1>2
  <2> QED BY <1>2, <2>1, <2>2, <2>3 DEF SingleCopyOf, Undelivered
<1> QED BY <1>1, <1>3, <1>4, <1>5 DEF IInv

\* A published message never becomes unpublished.
LEMMA StaysPublished ==
  ASSUME TypeOK, [Next]_vars, NEW m \in Msgs, status[m] # "absent"
  PROVE  status'[m] # "absent"
<1> USE DEF TypeOK, JSTypeOK, jsVars
<1>1. ASSUME NEW n \in Msgs, Publish(n) PROVE status'[m] # "absent"
  BY <1>1 DEF Publish, JSPublish
<1>2. ASSUME NEW n \in Msgs, AckWaitExpires(n) PROVE status'[m] # "absent"
  BY <1>2 DEF AckWaitExpires, JSAckWaitExpires
<1>3. ASSUME NEW t \in Tasks, NEW n \in Msgs, Fetch(t, n) PROVE status'[m] # "absent"
  BY <1>3 DEF Fetch, JSDeliver
<1>4. ASSUME NEW t \in Tasks, Ack(t) PROVE status'[m] # "absent"
  BY <1>4 DEF Ack, JSAck
<1>5. CASE UNCHANGED jsVars
  BY <1>5
<1> QED
  BY <1>1, <1>2, <1>3, <1>4, <1>5
     DEF Next, TaskStep, vars, Tick, Receive, ReceiveError, LogOnlyAudit, Deliver,
         DeliveredAudit, MarkDelivered, Reload, Crash, Restart

LEMMA HoldersStep == TypeOK /\ Holders /\ [Next]_vars => Holders'
<1> SUFFICES ASSUME TypeOK, Holders, [Next]_vars, NEW t \in Tasks PROVE HolderOf(t)'
  BY DEF Holders
<1>1. \A m \in Msgs : status[m] # "absent" => status'[m] # "absent"
  BY StaysPublished
<1>2. HolderOf(t)
  BY DEF Holders
<1>0. buf[t] \in Seq(Msgs) /\ \A i \in 1..Len(buf[t]) : buf[t][i] \in Msgs
  BY DEF TypeOK
\* The last two conjuncts of a task whose copies did not change.
<1>3. ASSUME buf'[t] = buf[t], cur'[t] = cur[t]
      PROVE  /\ cur'[t] \in Msgs => status'[cur'[t]] # "absent"
             /\ \A i \in 1..Len(buf'[t]) : status'[buf'[t][i]] # "absent"
  BY <1>0, <1>1, <1>2, <1>3 DEF HolderOf
<1>4. ASSUME UNCHANGED <<buf, cur, alive, pc, gen>> PROVE HolderOf(t)'
  BY <1>2, <1>3, <1>4 DEF HolderOf
<1> USE DEF TypeOK, processVars, taskVars, faultVars, historyVars, jsVars
<1>5. ASSUME NEW u \in Tasks, NEW m \in Msgs, Fetch(u, m) PROVE HolderOf(t)'
  <2>1. status'[m] # "absent" /\ UNCHANGED <<cur, alive, pc, gen>>
        /\ buf' = [buf EXCEPT ![u] = Append(buf[u], m)]
    BY <1>5 DEF Fetch, JSDeliver, JSTypeOK
  <2>2. CASE u = t
    <3>1. \A i \in 1..Len(buf'[t]) : buf'[t][i] = m \/ (i \in 1..Len(buf[t]) /\ buf'[t][i] = buf[t][i])
      BY <2>1, <2>2
    <3>2. \A i \in 1..Len(buf[t]) : buf[t][i] \in Msgs
      OBVIOUS
    <3> QED BY <1>1, <1>2, <2>1, <3>1, <3>2 DEF HolderOf
  <2> QED BY <1>2, <1>3, <2>1, <2>2 DEF HolderOf
<1>6. ASSUME NEW u \in Tasks, Receive(u) PROVE HolderOf(t)'
  <2>1. /\ alive[u] /\ buf[u] # <<>> /\ UNCHANGED <<status, alive, gen>>
        /\ buf' = [buf EXCEPT ![u] = Tail(buf[u])]
        /\ cur' = [cur EXCEPT ![u] = Head(buf[u])]
        /\ \E stage \in {"ack", "log", "deliver"} : pc' = [pc EXCEPT ![u] = stage]
    BY <1>6 DEF Receive
  <2>2. CASE u = t
    <3>1. Head(buf[t]) = buf[t][1] /\ 1 \in 1..Len(buf[t])
      BY <2>1, <2>2
    <3>2. \A i \in 1..Len(Tail(buf[t])) : Tail(buf[t])[i] = buf[t][i + 1] /\ i + 1 \in 1..Len(buf[t])
      BY <2>1, <2>2
    <3>3. pc'[t] # "recv" /\ cur'[t] = buf[t][1] /\ buf'[t] = Tail(buf[t]) /\ alive[t]
      BY <2>1, <2>2, <3>1
    <3> QED BY <1>2, <2>1, <3>1, <3>2, <3>3 DEF HolderOf
  <2>3. CASE u # t
    BY <1>2, <1>3, <2>1, <2>3 DEF HolderOf
  <2> QED BY <2>2, <2>3
<1>7. ASSUME NEW u \in Tasks, ReceiveError(u) PROVE HolderOf(t)'
  <2>1. buf'[t] = buf[t] \/ Len(buf'[t]) = 0
    BY <1>7 DEF ReceiveError
  <2> QED BY <1>1, <1>2, <1>7, <2>1 DEF ReceiveError, HolderOf
<1>8. ASSUME NEW u \in Tasks, LogOnlyAudit(u) \/ DeliveredAudit(u) \/ MarkDelivered(u) \/ Deliver(u)
      PROVE  HolderOf(t)'
  <2>1. UNCHANGED <<buf, cur, alive, gen>>
    BY <1>8 DEF LogOnlyAudit, DeliveredAudit, MarkDelivered, Deliver
  <2>2. pc'[t] = pc[t] \/ (pc'[t] # "recv" /\ pc[t] # "recv")
    BY <1>8 DEF LogOnlyAudit, DeliveredAudit, MarkDelivered, Deliver
  <2> QED BY <1>2, <1>3, <2>1, <2>2 DEF HolderOf
<1>9. ASSUME NEW u \in Tasks, Ack(u) PROVE HolderOf(t)'
  <2>1. /\ UNCHANGED <<buf, alive, gen>> /\ alive[u]
        /\ pc' = [pc EXCEPT ![u] = "recv"] /\ cur' = [cur EXCEPT ![u] = "none"]
    BY <1>9 DEF Ack
  <2>2. CASE u # t
    <3>1. UNCHANGED <<gen>> /\ alive'[t] = alive[t] /\ pc'[t] = pc[t] /\ cur'[t] = cur[t] /\ buf'[t] = buf[t]
      BY <2>1, <2>2
    <3> QED BY <1>2, <1>3, <3>1 DEF HolderOf
  <2>3. CASE u = t
    <3>1. /\ UNCHANGED <<gen>> /\ alive'[t] = alive[t] /\ alive[t] /\ buf'[t] = buf[t]
          /\ pc'[t] = "recv" /\ cur'[t] = "none"
      BY <2>1, <2>3
    <3>2. cur'[t] \notin Msgs
      BY <3>1 DEF DispatcherAssumption
    <3>3. \A i \in 1..Len(buf'[t]) : status'[buf'[t][i]] # "absent"
      BY <1>0, <1>1, <1>2, <3>1 DEF HolderOf
    <3> QED BY <1>2, <3>1, <3>2, <3>3 DEF HolderOf
  <2> QED BY <2>2, <2>3
<1>10. ASSUME NEW installed, Spawn(installed), UNCHANGED <<buf, cur, pc>>,
              alive' = [x \in Tasks |-> alive[x] \/ x[1] = gen + 1]
              \/ alive' = [x \in Tasks |-> x[1] = gen + 1]
       PROVE  HolderOf(t)'
  <2>1. gen' = gen + 1 /\ gen \in Nat /\ t[1] \in Nat
    BY <1>10 DEF Spawn, Tasks, Gens
  <2>2. alive'[t] => alive[t] \/ t[1] = gen + 1
    BY <1>10
  <2>3. alive'[t] \/ pc'[t] # "recv" => t[1] <= gen'
    BY <1>2, <1>10, <2>1, <2>2 DEF HolderOf
  <2> QED BY <1>2, <1>3, <1>10, <2>3 DEF HolderOf
<1>11. CASE Crash
  <2>1. pc'[t] = "recv" /\ cur'[t] = "none" /\ ~alive'[t] /\ Len(buf'[t]) = 0
    BY <1>11 DEF Crash
  <2> QED BY <2>1 DEF HolderOf
<1>12. CASE Reload \/ Restart
  BY <1>10, <1>12 DEF Reload, Restart
<1>13. ASSUME NEW m \in Msgs, Publish(m) \/ AckWaitExpires(m) PROVE HolderOf(t)'
  BY <1>4, <1>13 DEF Publish, AckWaitExpires
<1>14. CASE Tick \/ UNCHANGED vars
  BY <1>4, <1>14 DEF Tick, vars
<1> QED
  BY <1>5, <1>6, <1>7, <1>8, <1>9, <1>11, <1>12, <1>13, <1>14 DEF Next, TaskStep

-----------------------------------------------------------------------------
(* Acks come after routing. *)

\* The histories only grow.
LEMMA HistoryGrows ==
  ASSUME TypeOK, [Next]_vars
  PROVE  /\ attempted \subseteq attempted'
         /\ \A m \in Msgs : planned[m] \subseteq planned'[m]
<1> USE DEF historyVars
<1>1. ASSUME NEW t \in Tasks, Receive(t)
      PROVE  attempted \subseteq attempted' /\ \A m \in Msgs : planned[m] \subseteq planned'[m]
  BY <1>1 DEF Receive, TypeOK
<1>2. ASSUME NEW t \in Tasks, Deliver(t)
      PROVE  attempted \subseteq attempted' /\ \A m \in Msgs : planned[m] \subseteq planned'[m]
  BY <1>2 DEF Deliver
<1>3. CASE UNCHANGED <<attempted, planned>>
  BY <1>3
<1> QED
  BY <1>1, <1>2, <1>3
     DEF Next, TaskStep, vars, Tick, Publish, AckWaitExpires, Fetch, ReceiveError, LogOnlyAudit,
         DeliveredAudit, MarkDelivered, Ack, Reload, Crash, Restart

LEMMA FullyRoutedStays ==
  ASSUME TypeOK, [Next]_vars, NEW m \in Msgs, FullyRouted(m)
  PROVE  FullyRouted(m)'
BY HistoryGrows DEF FullyRouted

LEMMA RoutingStep == TypeOK /\ RoutingProgress /\ [Next]_vars => RoutingProgress'
<1> SUFFICES ASSUME TypeOK, RoutingProgress, [Next]_vars, NEW t \in Tasks PROVE ProgressOf(t)'
  BY DEF RoutingProgress
<1>1. ProgressOf(t) /\ (pc[t] # "recv" => cur[t] \in Msgs)
  BY DEF RoutingProgress, TypeOK
<1> USE DEF processVars, taskVars, faultVars, historyVars, jsVars
\* A task that keeps its message, its stage and its channels keeps its progress.
<1>2. ASSUME pc'[t] = pc[t], cur'[t] = cur[t], todo'[t] = todo[t] PROVE ProgressOf(t)'
  <2>1. CASE pc[t] \in {"deliver", "audit"}
    <3>1. PICK plan \in planned[cur[t]] :
            \A ch \in plan : ch \in todo[t] \/ <<cur[t], ch>> \in attempted
      BY <1>1, <2>1 DEF ProgressOf
    <3>2. plan \in planned'[cur[t]] /\ attempted \subseteq attempted'
      BY <1>1, <2>1, HistoryGrows
    <3> QED BY <1>2, <2>1, <3>1, <3>2 DEF ProgressOf
  <2>2. CASE pc[t] \in {"log", "ack"}
    BY <1>1, <1>2, <2>2, FullyRoutedStays DEF ProgressOf, FullyRouted
  <2> QED BY <1>2, <2>1, <2>2 DEF ProgressOf
<1>3. ASSUME NEW u \in Tasks, Receive(u) PROVE ProgressOf(t)'
  <2>1. CASE u = t
    <3> DEFINE m == Head(buf[t])
    <3>1. m \in Msgs /\ cur'[t] = m /\ todo'[t] = PlanAt(m, now) /\ PlanAt(m, now) \in planned'[m]
      BY <1>3, <2>1 DEF Receive, TypeOK
    <3>2. pc'[t] \in {"ack", "log"} => PlanAt(m, now) = {}
      BY <1>3, <2>1, <3>1, PlanType DEF Receive, TypeOK
    <3> HIDE DEF m
    <3> QED BY <3>1, <3>2 DEF ProgressOf, FullyRouted
  <2>2. CASE u # t
    BY <1>2, <1>3, <2>2 DEF Receive, TypeOK
  <2> QED BY <2>1, <2>2
<1>4. ASSUME NEW u \in Tasks, Deliver(u) PROVE ProgressOf(t)'
  <2>1. CASE u = t
    <3> DEFINE ch == FirstChannel(todo[t])
    <3>1. /\ pc[t] = "deliver" /\ pc'[t] \in {"deliver", "audit"} /\ cur'[t] = cur[t]
          /\ todo'[t] = todo[t] \ {ch} /\ attempted' = attempted \cup {<<cur[t], ch>>}
          /\ planned' = planned
      BY <1>4, <2>1 DEF Deliver, TypeOK
    <3> HIDE DEF ch
    <3> QED BY <1>1, <3>1 DEF ProgressOf
  <2>2. CASE u # t
    BY <1>2, <1>4, <2>2 DEF Deliver, TypeOK
  <2> QED BY <2>1, <2>2
<1>5. ASSUME NEW u \in Tasks, LogOnlyAudit(u) PROVE ProgressOf(t)'
  <2>1. CASE u = t
    BY <1>1, <1>5, <2>1 DEF LogOnlyAudit, ProgressOf, FullyRouted, TypeOK
  <2>2. CASE u # t
    BY <1>2, <1>5, <2>2 DEF LogOnlyAudit, TypeOK
  <2> QED BY <2>1, <2>2
<1>6. ASSUME NEW u \in Tasks, DeliveredAudit(u) PROVE ProgressOf(t)'
  <2>1. CASE u = t
    BY <1>1, <1>6, <2>1 DEF DeliveredAudit, ProgressOf, TypeOK
  <2>2. CASE u # t
    BY <1>2, <1>6, <2>2 DEF DeliveredAudit, TypeOK
  <2> QED BY <2>1, <2>2
<1>7. ASSUME NEW u \in Tasks, MarkDelivered(u) PROVE ProgressOf(t)'
  <2>1. CASE u = t
    BY <1>1, <1>7, <2>1 DEF MarkDelivered, ProgressOf, FullyRouted, TypeOK
  <2>2. CASE u # t
    BY <1>2, <1>7, <2>2 DEF MarkDelivered, TypeOK
  <2> QED BY <2>1, <2>2
<1>8. ASSUME NEW u \in Tasks, Ack(u) PROVE ProgressOf(t)'
  <2>1. CASE u = t
    BY <1>8, <2>1 DEF Ack, ProgressOf, TypeOK
  <2>2. CASE u # t
    BY <1>2, <1>8, <2>2 DEF Ack, TypeOK
  <2> QED BY <2>1, <2>2
<1>9. CASE Crash
  BY <1>9 DEF Crash, ProgressOf
<1>10. CASE UNCHANGED <<pc, cur, todo>>
  BY <1>2, <1>10
<1> QED
  BY <1>3, <1>4, <1>5, <1>6, <1>7, <1>8, <1>9, <1>10
     DEF Next, TaskStep, vars, Tick, Publish, AckWaitExpires, Fetch, ReceiveError, Reload, Restart

LEMMA AckedStep == TypeOK /\ RoutingProgress /\ AckedAfterRouting /\ [Next]_vars => AckedAfterRouting'
<1> SUFFICES ASSUME TypeOK, RoutingProgress, AckedAfterRouting, [Next]_vars,
                    NEW m \in Msgs, status'[m] = "acked"
             PROVE  FullyRouted(m)'
  BY DEF AckedAfterRouting
<1> USE DEF TypeOK, JSTypeOK, jsVars
<1>1. CASE status[m] = "acked"
  BY <1>1, FullyRoutedStays DEF AckedAfterRouting
<1>2. CASE status[m] # "acked"
  <2>1. ASSUME NEW n \in Msgs, Publish(n) \/ AckWaitExpires(n) PROVE FALSE
    BY <1>2, <2>1 DEF Publish, JSPublish, AckWaitExpires, JSAckWaitExpires
  <2>2. ASSUME NEW t \in Tasks, NEW n \in Msgs, Fetch(t, n) PROVE FALSE
    BY <1>2, <2>2 DEF Fetch, JSDeliver
  <2>3. ASSUME NEW t \in Tasks, Ack(t) PROVE FullyRouted(m)
    <3>1. cur[t] = m /\ pc[t] = "ack"
      BY <1>2, <2>3 DEF Ack, JSAck
    <3> QED BY <3>1 DEF RoutingProgress, ProgressOf
  <2>4. CASE UNCHANGED status
    BY <1>2, <2>4
  <2> QED
    BY <2>1, <2>2, <2>3, <2>4, FullyRoutedStays
       DEF Next, TaskStep, vars, Tick, Receive, ReceiveError, LogOnlyAudit, Deliver,
           DeliveredAudit, MarkDelivered, Reload, Crash, Restart
<1> QED BY <1>1, <1>2

-----------------------------------------------------------------------------
(* One copy per delivery. *)

\* A step keeps SingleCopyOf(m) if it hands m to nobody, drops whole buffers at
\* most, makes m neither unpublished nor due, and keeps what the sinks have.
LEMMA SingleCopyFrame ==
  ASSUME NEW m \in Msgs, SingleCopyOf(m),
         status'[m] = status[m] \/ status'[m] \notin {"absent", "due"},
         \A t \in Tasks : cur'[t] = m => cur[t] = m,
         \A t \in Tasks : buf'[t] = buf[t] \/ Len(buf'[t]) = 0,
         \A o \in Outlets : <<m, o>> \in delivered' <=> <<m, o>> \in delivered,
         \A o \in Outlets : <<m, o>> \in repeated' => <<m, o>> \in repeated,
         \A t \in Tasks : cur'[t] = m => \A ch \in todo'[t] : <<m, SinkFor(t[1], m, ch)'>> \notin delivered'
  PROVE  SingleCopyOf(m)'
<1>1. \A t \in Tasks : \A i \in 1..Len(buf'[t]) : buf'[t] = buf[t] /\ i \in 1..Len(buf[t])
  OBVIOUS
<1>2. Undelivered(m) => Undelivered(m)'
  BY DEF Undelivered
<1>3. status'[m] \in {"absent", "due"} => status[m] = status'[m]
  OBVIOUS
<1>4. (status[m] \in {"absent", "due"} => Undelivered(m))'
  BY <1>2, <1>3 DEF SingleCopyOf
<1>5. (status[m] = "due" => \A t \in Tasks : cur[t] # m /\ \A i \in 1..Len(buf[t]) : buf[t][i] # m)'
  BY <1>1, <1>3 DEF SingleCopyOf
<1>6. (\A t, u \in Tasks : cur[t] = m /\ cur[u] = m => t = u)'
  BY DEF SingleCopyOf
<1>7. ASSUME NEW t \in Tasks, NEW u \in Tasks, NEW i \in 1..Len(buf'[t]), buf'[t][i] = m
      PROVE  /\ cur'[u] # m
             /\ Undelivered(m)'
             /\ \A j \in 1..Len(buf'[u]) : buf'[u][j] = m => t = u /\ i = j
  <2>1. i \in 1..Len(buf[t]) /\ buf[t][i] = m
    BY <1>1, <1>7
  <2> QED BY <1>1, <1>2, <2>1 DEF SingleCopyOf
<1>8. (\A o \in Outlets : <<m, o>> \notin repeated)'
  BY DEF SingleCopyOf
<1> QED BY <1>4, <1>5, <1>6, <1>7, <1>8 DEF SingleCopyOf

LEMMA SingleCopyStep == TypeOK /\ Holders /\ SingleCopy /\ [Next]_vars => SingleCopy'
<1> SUFFICES ASSUME TypeOK, Holders, SingleCopy, [Next]_vars,
                    NEW m \in Msgs, m \notin redelivered'
             PROVE  SingleCopyOf(m)'
  BY DEF SingleCopy
<1> USE DEF processVars, taskVars, faultVars, historyVars, jsVars
<1>1. redelivered \subseteq redelivered'
  BY DEF Next, TaskStep, vars, Publish, JSPublish, AckWaitExpires, JSAckWaitExpires, Fetch,
         JSDeliver, Ack, JSAck, Tick, Receive, ReceiveError, LogOnlyAudit, Deliver,
         DeliveredAudit, MarkDelivered, Reload, Crash, Restart
<1>2. SingleCopyOf(m)
  BY <1>1 DEF SingleCopy
<1>3. /\ \A t \in Tasks : \A ch \in SinkChannels : cur[t] = m /\ ch \in todo[t] =>
           <<m, SinkFor(t[1], m, ch)>> \notin delivered
      /\ \A t \in Tasks : todo[t] \subseteq SinkChannels
  BY <1>2 DEF SingleCopyOf, TypeOK
\* The sink of a channel depends on the header and on the bots of the generation.
<1>4. ASSUME NEW t \in Tasks, NEW ch, header' = header, bots'[t[1]] = bots[t[1]]
      PROVE  SinkFor(t[1], m, ch)' = SinkFor(t[1], m, ch)
  BY <1>4 DEF SinkFor
\* Steps that leave the copies of m and its sinks alone.
<1>5. ASSUME UNCHANGED <<header, bots, buf, cur, todo, delivered, repeated>>,
             status'[m] = status[m] \/ status'[m] \notin {"absent", "due"}
      PROVE  SingleCopyOf(m)'
  <2>1. \A t \in Tasks : \A ch : SinkFor(t[1], m, ch)' = SinkFor(t[1], m, ch)
    BY <1>4, <1>5
  <2>2. \A t \in Tasks : cur'[t] = m => \A ch \in todo'[t] : <<m, SinkFor(t[1], m, ch)'>> \notin delivered'
    BY <1>2, <1>5, <2>1 DEF SingleCopyOf
  <2> QED BY <1>2, <1>5, <2>2, SingleCopyFrame
<1>6. ASSUME NEW n \in Msgs, Publish(n) PROVE SingleCopyOf(m)'
  <2>1. UNCHANGED <<header, bots, buf, cur, todo, delivered, repeated>>
    BY <1>6 DEF Publish
  <2>2. CASE n # m
    <3>1. status'[m] = status[m] \/ status'[m] = "evicted"
      BY <1>6, <2>2 DEF Publish, JSPublish
    <3> QED BY <1>5, <2>1, <3>1
  <2>3. CASE n = m
    <3>1. status[m] = "absent" /\ status'[m] = "due"
      BY <1>6, <2>3 DEF Publish, JSPublish
    <3>2. \A t \in Tasks : cur[t] # m /\ \A i \in 1..Len(buf[t]) : buf[t][i] # m
      BY <3>1 DEF Holders, HolderOf
    <3>3. Undelivered(m)' /\ \A o \in Outlets : <<m, o>> \notin repeated'
      BY <1>2, <2>1, <3>1 DEF SingleCopyOf, Undelivered
    <3> QED BY <2>1, <3>2, <3>3 DEF SingleCopyOf
  <2> QED BY <2>2, <2>3
<1>7. ASSUME NEW n \in Msgs, AckWaitExpires(n) PROVE SingleCopyOf(m)'
  <2>1. n # m
    BY <1>7 DEF AckWaitExpires, JSAckWaitExpires
  <2>2. status'[m] = status[m]
    BY <1>7, <2>1 DEF AckWaitExpires, JSAckWaitExpires, TypeOK, JSTypeOK
  <2> QED BY <1>5, <1>7, <2>2 DEF AckWaitExpires
<1>8. ASSUME NEW t \in Tasks, Ack(t) PROVE SingleCopyOf(m)'
  <2>1. status'[m] = status[m] \/ status'[m] = "acked"
    BY <1>8 DEF Ack, JSAck, TypeOK, JSTypeOK
  <2>2. /\ UNCHANGED <<header, bots, buf, todo, delivered, repeated>>
        /\ \A u \in Tasks : cur'[u] = m => cur[u] = m
    BY <1>8 DEF Ack, TypeOK, DispatcherAssumption
  <2>3. \A u \in Tasks : \A ch : SinkFor(u[1], m, ch)' = SinkFor(u[1], m, ch)
    BY <1>4, <2>2
  <2>4. \A u \in Tasks : cur'[u] = m => \A ch \in todo'[u] : <<m, SinkFor(u[1], m, ch)'>> \notin delivered'
    <3> SUFFICES ASSUME NEW u \in Tasks, cur'[u] = m, NEW ch \in todo'[u]
                 PROVE  <<m, SinkFor(u[1], m, ch)'>> \notin delivered'
      OBVIOUS
    <3>1. cur[u] = m /\ ch \in todo[u]
      BY <2>2
    <3>2. <<m, SinkFor(u[1], m, ch)>> \notin delivered
      BY <1>2, <3>1 DEF SingleCopyOf
    <3> QED BY <2>2, <2>3, <3>2
  <2> QED BY <1>2, <2>1, <2>2, <2>4, SingleCopyFrame
<1>9. ASSUME NEW t \in Tasks, ReceiveError(t) PROVE SingleCopyOf(m)'
  <2>1. /\ UNCHANGED <<status, header, bots, cur, todo, delivered, repeated>>
        /\ \A u \in Tasks : buf'[u] = buf[u] \/ Len(buf'[u]) = 0
    BY <1>9 DEF ReceiveError, TypeOK
  <2>2. \A u \in Tasks : \A ch : SinkFor(u[1], m, ch)' = SinkFor(u[1], m, ch)
    BY <1>4, <2>1
  <2>3. \A u \in Tasks : cur'[u] = m => \A ch \in todo'[u] : <<m, SinkFor(u[1], m, ch)'>> \notin delivered'
    BY <1>2, <2>1, <2>2 DEF SingleCopyOf
  <2> QED BY <1>2, <2>1, <2>3, SingleCopyFrame
<1>10. CASE Crash
  <2>1. /\ \A t \in Tasks : cur'[t] # m /\ Len(buf'[t]) = 0 /\ todo'[t] = {}
        /\ UNCHANGED <<status, delivered, repeated>>
    BY <1>10 DEF Crash
  <2>2. \A t \in Tasks : cur'[t] = m => \A ch \in todo'[t] : <<m, SinkFor(t[1], m, ch)'>> \notin delivered'
    BY <2>1
  <2> QED BY <1>2, <2>1, <2>2, SingleCopyFrame
<1>11. CASE Reload \/ Restart
  <2>1. UNCHANGED <<status, header, buf, cur, todo, delivered, repeated>>
    BY <1>11 DEF Reload, Restart
  <2>2. ASSUME NEW t \in Tasks, cur[t] = m PROVE bots'[t[1]] = bots[t[1]]
    <3>1. t[1] \in Nat /\ gen \in Nat
      BY DEF Tasks, Gens, TypeOK
    <3>2. pc[t] # "recv"
      BY <2>2, DispatcherAssumption DEF Holders, HolderOf
    <3>3. t[1] <= gen
      BY <3>2 DEF Holders, HolderOf
    <3>4. PICK installed : Spawn(installed)
      BY <1>11 DEF Reload, Restart
    <3> QED BY <3>1, <3>3, <3>4 DEF Spawn, TypeOK
  <2>3. \A t \in Tasks : cur'[t] = m => \A ch \in todo'[t] : <<m, SinkFor(t[1], m, ch)'>> \notin delivered'
    <3> SUFFICES ASSUME NEW t \in Tasks, cur'[t] = m, NEW ch \in todo'[t]
                 PROVE  <<m, SinkFor(t[1], m, ch)'>> \notin delivered'
      OBVIOUS
    <3>1. SinkFor(t[1], m, ch)' = SinkFor(t[1], m, ch)
      BY <1>4, <2>1, <2>2
    <3> QED BY <1>2, <2>1, <3>1 DEF SingleCopyOf
  <2> QED BY <1>2, <2>1, <2>3, SingleCopyFrame
\* m moves from the server into one buffer.
<1>12. ASSUME NEW t \in Tasks, NEW n \in Msgs, Fetch(t, n) PROVE SingleCopyOf(m)'
  <2>1. /\ UNCHANGED <<header, bots, cur, todo, delivered, repeated>>
        /\ buf' = [buf EXCEPT ![t] = Append(buf[t], n)]
        /\ status[n] = "due" /\ status' = [status EXCEPT ![n] = "out"]
    BY <1>12 DEF Fetch, JSDeliver
  <2>2. /\ \A u \in Tasks \ {t} : buf'[u] = buf[u]
        /\ Len(buf'[t]) = Len(buf[t]) + 1
        /\ buf'[t][Len(buf[t]) + 1] = n
        /\ \A i \in 1..Len(buf[t]) : buf'[t][i] = buf[t][i]
        /\ \A u \in Tasks : Len(buf[u]) \in Nat
    BY <2>1 DEF TypeOK
  <2>3. \A u \in Tasks : cur'[u] = m =>
          \A ch \in todo'[u] : <<m, SinkFor(u[1], m, ch)'>> \notin delivered'
    <3>1. \A u \in Tasks : \A ch : SinkFor(u[1], m, ch)' = SinkFor(u[1], m, ch)
      BY <1>4, <2>1
    <3> QED BY <1>2, <2>1, <3>1 DEF SingleCopyOf
  <2>4. CASE n = m
    <3>1. Undelivered(m) /\ \A u \in Tasks : cur[u] # m /\ \A i \in 1..Len(buf[u]) : buf[u][i] # m
      BY <1>2, <2>1, <2>4 DEF SingleCopyOf
    <3>2. \A u \in Tasks : \A i \in 1..Len(buf'[u]) : buf'[u][i] = m => u = t /\ i = Len(buf[t]) + 1
      BY <2>2, <3>1
    <3>3. status'[m] = "out"
      BY <2>1, <2>4 DEF TypeOK, JSTypeOK
    <3>4. \A u \in Tasks : cur'[u] # m
      BY <2>1, <3>1
    <3>5. Undelivered(m)' /\ \A o \in Outlets : <<m, o>> \notin repeated'
      BY <1>2, <2>1, <3>1 DEF SingleCopyOf, Undelivered
    <3> QED BY <3>2, <3>3, <3>4, <3>5 DEF SingleCopyOf
  <2>5. CASE n # m
    <3>1. \A u \in Tasks : \A i \in 1..Len(buf'[u]) : buf'[u][i] = m =>
            i \in 1..Len(buf[u]) /\ buf[u][i] = m
      BY <2>2, <2>5
    <3>2. status'[m] = status[m]
      BY <2>1, <2>5 DEF TypeOK, JSTypeOK
    <3>3. (Undelivered(m) => Undelivered(m)') /\ \A o \in Outlets : <<m, o>> \notin repeated'
      BY <1>2, <2>1 DEF SingleCopyOf, Undelivered
    <3>4. \A u \in Tasks : cur'[u] = cur[u]
      BY <2>1
    <3>5. (status[m] \in {"absent", "due"} => Undelivered(m))'
      BY <1>2, <3>2, <3>3 DEF SingleCopyOf
    <3>6. (status[m] = "due" => \A u \in Tasks : cur[u] # m /\ \A i \in 1..Len(buf[u]) : buf[u][i] # m)'
      BY <1>2, <3>1, <3>2, <3>4 DEF SingleCopyOf
    <3>7. (\A u, v \in Tasks : cur[u] = m /\ cur[v] = m => u = v)'
      BY <1>2, <3>4 DEF SingleCopyOf
    <3>8. ASSUME NEW u \in Tasks, NEW v \in Tasks, NEW i \in 1..Len(buf'[u]), buf'[u][i] = m
          PROVE  /\ cur'[v] # m
                 /\ Undelivered(m)'
                 /\ \A j \in 1..Len(buf'[v]) : buf'[v][j] = m => u = v /\ i = j
      BY <1>2, <3>1, <3>3, <3>4, <3>8 DEF SingleCopyOf
    <3> QED BY <2>3, <3>3, <3>5, <3>6, <3>7, <3>8 DEF SingleCopyOf
  <2> QED BY <2>4, <2>5
\* m moves from the head of a buffer into the hands of its task.
<1>13. ASSUME NEW t \in Tasks, Receive(t) PROVE SingleCopyOf(m)'
  <2> DEFINE n == Head(buf[t])
  <2>1. /\ UNCHANGED <<status, header, bots, delivered, repeated>>
        /\ buf' = [buf EXCEPT ![t] = Tail(buf[t])]
        /\ cur' = [cur EXCEPT ![t] = n]
        /\ todo' = [todo EXCEPT ![t] = PlanAt(n, now)]
        /\ buf[t] # <<>>
    BY <1>13 DEF Receive
  <2>2. /\ \A u \in Tasks \ {t} : buf'[u] = buf[u] /\ cur'[u] = cur[u] /\ todo'[u] = todo[u]
        /\ cur'[t] = n /\ todo'[t] = PlanAt(n, now)
        /\ Len(buf'[t]) = Len(buf[t]) - 1
        /\ \A i \in 1..Len(buf'[t]) : buf'[t][i] = buf[t][i + 1]
        /\ \A u \in Tasks : Len(buf[u]) \in Nat
        /\ n = buf[t][1] /\ n \in Msgs /\ Len(buf[t]) > 0
    BY <2>1 DEF TypeOK
  <2> HIDE DEF n
  <2>3. PlanAt(n, now) \subseteq SinkChannels
    BY <2>2, PlanType
  <2>4. \A u \in Tasks : \A ch : SinkFor(u[1], m, ch)' = SinkFor(u[1], m, ch)
    BY <1>4, <2>1
  <2>5. (Undelivered(m) => Undelivered(m)') /\ \A o \in Outlets : <<m, o>> \notin repeated'
    BY <1>2, <2>1 DEF SingleCopyOf, Undelivered
  <2>6. (status[m] \in {"absent", "due"} => Undelivered(m))'
    BY <1>2, <2>1, <2>5 DEF SingleCopyOf
  \* What is left in the buffers was there before.
  <2>7. \A u \in Tasks : \A i \in 1..Len(buf'[u]) : buf'[u][i] = m =>
          \/ u = t /\ i + 1 \in 1..Len(buf[t]) /\ buf[t][i + 1] = m
          \/ u # t /\ i \in 1..Len(buf[u]) /\ buf[u][i] = m
    BY <2>2
  <2>8. n = m => 1 \in 1..Len(buf[t]) /\ buf[t][1] = m
    BY <2>2
  <2>9. (status[m] = "due" => \A u \in Tasks : cur[u] # m /\ \A i \in 1..Len(buf[u]) : buf[u][i] # m)'
    <3> SUFFICES ASSUME status[m] = "due", NEW u \in Tasks
                 PROVE  cur'[u] # m /\ \A i \in 1..Len(buf'[u]) : buf'[u][i] # m
      BY <2>1
    <3>1. \A v \in Tasks : cur[v] # m /\ \A i \in 1..Len(buf[v]) : buf[v][i] # m
      BY <1>2 DEF SingleCopyOf
    <3> QED BY <2>2, <2>7, <2>8, <3>1
  <2>10. (\A u, v \in Tasks : cur[u] = m /\ cur[v] = m => u = v)'
    <3> SUFFICES ASSUME NEW u \in Tasks, NEW v \in Tasks, cur'[u] = m, cur'[v] = m PROVE u = v
      OBVIOUS
    <3>1. n = m => \A x \in Tasks : cur[x] # m
      BY <1>2, <2>8 DEF SingleCopyOf
    <3> QED BY <1>2, <2>2, <3>1 DEF SingleCopyOf
  <2>11. ASSUME NEW u \in Tasks, NEW v \in Tasks, NEW i \in 1..Len(buf'[u]), buf'[u][i] = m
         PROVE  /\ cur'[v] # m
                /\ Undelivered(m)'
                /\ \A j \in 1..Len(buf'[v]) : buf'[v][j] = m => u = v /\ i = j
    <3>1. PICK k \in 1..Len(buf[u]) : buf[u][k] = m /\ (IF u = t THEN k = i + 1 ELSE k = i)
      BY <2>7, <2>11
    <3>2. /\ \A x \in Tasks : cur[x] # m
          /\ Undelivered(m)
          /\ \A x \in Tasks : \A j \in 1..Len(buf[x]) : buf[x][j] = m => u = x /\ k = j
      BY <1>2, <3>1 DEF SingleCopyOf
    <3>3. n # m
      <4> SUFFICES ASSUME n = m PROVE FALSE
        OBVIOUS
      <4>1. u = t /\ k = 1
        BY <2>8, <3>2
      <4> QED BY <3>1, <4>1
    <3>4. cur'[v] # m
      BY <2>2, <3>2, <3>3
    <3>5. \A j \in 1..Len(buf'[v]) : buf'[v][j] = m => u = v /\ i = j
      BY <2>7, <3>1, <3>2
    <3> QED BY <2>5, <3>2, <3>4, <3>5
  <2>12. (\A u \in Tasks : cur[u] = m => \A ch \in todo[u] : <<m, SinkFor(u[1], m, ch)>> \notin delivered)'
    <3> SUFFICES ASSUME NEW u \in Tasks, cur'[u] = m, NEW ch \in todo'[u]
                 PROVE  <<m, SinkFor(u[1], m, ch)>> \notin delivered
      BY <2>1, <2>4
    <3>1. CASE u # t
      BY <1>2, <2>2, <3>1 DEF SingleCopyOf
    <3>2. CASE u = t
      <4>1. Undelivered(m)
        BY <1>2, <2>2, <2>8, <3>2 DEF SingleCopyOf
      <4> QED BY <4>1 DEF Undelivered, TypeOK
    <3> QED BY <3>1, <3>2
  <2> QED BY <2>5, <2>6, <2>9, <2>10, <2>11, <2>12 DEF SingleCopyOf
\* The holder of m sends it to the sink of one of its remaining channels.
<1>14. ASSUME NEW t \in Tasks, Deliver(t) PROVE SingleCopyOf(m)'
  <2> DEFINE n == cur[t]
             ch == FirstChannel(todo[t])
             o == SinkFor(t[1], n, ch)
  <2>1. /\ UNCHANGED <<status, header, bots, buf, cur>>
        /\ todo' = [todo EXCEPT ![t] = todo[t] \ {ch}]
        /\ n \in Msgs /\ todo[t] # {} /\ t[1] \in Gens
    BY <1>14 DEF Deliver, TypeOK, Tasks
  <2>2. \/ UNCHANGED <<delivered, repeated>>
        \/ /\ o # "none"
           /\ delivered' = delivered \cup {<<n, o>>}
           /\ repeated' = repeated \cup ({<<n, o>>} \cap delivered)
    BY <1>14 DEF Deliver, Takes
  <2>3. ch \in todo[t] /\ ch \in SinkChannels
    BY <1>3, <2>1, FirstChannelType
  <2> HIDE DEF n, ch, o
  <2>4. \A u \in Tasks : \A c : SinkFor(u[1], m, c)' = SinkFor(u[1], m, c)
    BY <1>4, <2>1
  <2>5. \A u \in Tasks : todo'[u] \subseteq todo[u]
    BY <2>1 DEF TypeOK
  <2>6. CASE n # m \/ UNCHANGED <<delivered, repeated>>
    <3>1. /\ \A p \in Outlets : <<m, p>> \in delivered' <=> <<m, p>> \in delivered
          /\ \A p \in Outlets : <<m, p>> \in repeated' => <<m, p>> \in repeated
      BY <2>2, <2>6
    <3>2. \A u \in Tasks : cur'[u] = m => \A c \in todo'[u] : <<m, SinkFor(u[1], m, c)'>> \notin delivered'
      <4> SUFFICES ASSUME NEW u \in Tasks, cur'[u] = m, NEW c \in todo'[u]
                   PROVE  <<m, SinkFor(u[1], m, c)>> \notin delivered'
        BY <2>4
      <4>1. <<m, SinkFor(u[1], m, c)>> \notin delivered
        BY <1>2, <2>1, <2>5 DEF SingleCopyOf
      <4> QED BY <2>2, <2>6, <4>1
    <3> QED BY <1>2, <2>1, <3>1, <3>2, SingleCopyFrame
  <2>7. CASE /\ n = m /\ o # "none"
             /\ delivered' = delivered \cup {<<n, o>>}
             /\ repeated' = repeated \cup ({<<n, o>>} \cap delivered)
    <3>1. cur[t] = m
      BY <2>7 DEF n
    <3>2. status'[m] \notin {"absent", "due"}
      BY <1>2, <2>1, <3>1 DEF SingleCopyOf, Holders, HolderOf
    <3>3. \A u \in Tasks : cur'[u] = m => u = t
      BY <1>2, <2>1, <3>1 DEF SingleCopyOf
    <3>4. \A u \in Tasks : \A i \in 1..Len(buf'[u]) : buf'[u][i] # m
      BY <1>2, <2>1, <3>1 DEF SingleCopyOf
    <3>5. o = SinkFor(t[1], m, ch) /\ <<m, o>> \notin delivered
      BY <1>2, <2>3, <2>7, <3>1 DEF SingleCopyOf, o
    <3>6. \A p \in Outlets : <<m, p>> \notin repeated'
      BY <1>2, <2>7, <3>5 DEF SingleCopyOf
    <3>7. ASSUME NEW c \in todo'[t] PROVE <<m, SinkFor(t[1], m, c)'>> \notin delivered'
      <4>1. c \in todo[t] /\ c # ch /\ c \in SinkChannels
        BY <1>3, <2>1, <3>7 DEF TypeOK
      <4>2. SinkFor(t[1], m, c) # o
        BY <2>1, <2>3, <2>7, <3>5, <4>1, SinksDiffer
      <4>3. <<m, SinkFor(t[1], m, c)>> \notin delivered
        BY <1>2, <3>1, <4>1 DEF SingleCopyOf
      <4> QED BY <2>4, <2>7, <4>2, <4>3
    <3> QED BY <3>2, <3>3, <3>4, <3>6, <3>7 DEF SingleCopyOf
  <2> QED BY <2>2, <2>6, <2>7
<1>15. ASSUME NEW t \in Tasks, LogOnlyAudit(t) \/ DeliveredAudit(t) \/ MarkDelivered(t)
       PROVE  SingleCopyOf(m)'
  BY <1>5, <1>15 DEF LogOnlyAudit, DeliveredAudit, MarkDelivered
<1>16. CASE Tick \/ UNCHANGED vars
  BY <1>5, <1>16 DEF Tick, vars
<1> QED
  BY <1>6, <1>7, <1>8, <1>9, <1>10, <1>11, <1>12, <1>13, <1>14, <1>15, <1>16 DEF Next, TaskStep

-----------------------------------------------------------------------------
(* The invariants. *)

LEMMA IInvStep == IInv /\ [Next]_vars => IInv'
BY TypeStep, HoldersStep, RoutingStep, AckedStep, SingleCopyStep DEF IInv

LEMMA Inductive == Spec => []IInv
BY InitIInv, IInvStep, PTL DEF Spec

\* consume acks after route_and_deliver (dispatcher.rs:130-136): through
\* crashes, reloads, lost acks and redeliveries to any number of generations,
\* no message is settled before some task went through all its channels.
THEOREM AcksFollowRouting == Spec => []AckedAfterRouting
<1>1. IInv => AckedAfterRouting
  BY DEF IInv
<1> QED BY <1>1, Inductive, PTL

\* The shared durable hands a message to one task at a time: without an expired
\* ack wait no sink sees a message twice, however many dispatchers survive
\* reloads (dispatcher.rs:91, main.rs:344).
THEOREM NoSpontaneousDuplicates == Spec => []OnceUnlessRedelivered
<1>1. IInv => OnceUnlessRedelivered
  BY DEF IInv, SingleCopy, SingleCopyOf, OnceUnlessRedelivered
<1> QED BY <1>1, Inductive, PTL

-----------------------------------------------------------------------------
(* The audit log. *)

\* The task that is about to write a row has had its message accepted.
AuditInv == /\ AuditedWasDelivered
            /\ \A t \in Tasks : pc[t] = "audit" => <<cur[t], outlet[t]>> \in delivered

LEMMA AuditStep == TypeOK /\ AuditInv /\ [Next]_vars => AuditInv'
<1> SUFFICES ASSUME TypeOK, AuditInv, [Next]_vars PROVE AuditInv'
  OBVIOUS
<1> USE DEF processVars, taskVars, faultVars, historyVars, jsVars
<1>1. ASSUME NEW u \in Tasks, Deliver(u) PROVE AuditInv'
  <2>1. delivered \subseteq delivered' /\ audited' = audited
    BY <1>1 DEF Deliver
  <2>2. ASSUME NEW t \in Tasks, pc'[t] = "audit" PROVE <<cur'[t], outlet'[t]>> \in delivered'
    <3>1. CASE t = u
      BY <1>1, <2>2, <3>1 DEF Deliver, TypeOK
    <3>2. CASE t # u
      BY <1>1, <2>1, <2>2, <3>2 DEF Deliver, TypeOK, AuditInv
    <3> QED BY <3>1, <3>2
  <2>3. AuditedWasDelivered'
    BY <2>1 DEF AuditInv, AuditedWasDelivered
  <2> QED BY <2>2, <2>3 DEF AuditInv
<1>2. ASSUME NEW u \in Tasks, DeliveredAudit(u) PROVE AuditInv'
  <2>1. /\ outlet[u] \in Outlets /\ <<cur[u], outlet[u]>> \in delivered
        /\ audited' \in {audited, audited \cup {<<cur[u], RowTarget(outlet[u])>>}}
        /\ delivered' = delivered
    BY <1>2 DEF DeliveredAudit, TypeOK, AuditInv
  <2>2. AuditedWasDelivered'
    BY <2>1 DEF AuditInv, AuditedWasDelivered
  <2>3. \A t \in Tasks : pc'[t] = "audit" => <<cur'[t], outlet'[t]>> \in delivered'
    BY <1>2 DEF DeliveredAudit, TypeOK, AuditInv
  <2> QED BY <2>2, <2>3 DEF AuditInv
<1>3. ASSUME NEW u \in Tasks, Receive(u) PROVE AuditInv'
  <2>1. UNCHANGED <<audited, delivered, outlet>>
        /\ \A t \in Tasks : t # u => pc'[t] = pc[t] /\ cur'[t] = cur[t]
    BY <1>3 DEF Receive, TypeOK
  <2>2. pc'[u] # "audit"
    BY <1>3 DEF Receive, TypeOK
  <2> QED BY <2>1, <2>2 DEF AuditInv, AuditedWasDelivered
<1>4. ASSUME NEW u \in Tasks, LogOnlyAudit(u) \/ MarkDelivered(u) \/ Ack(u) PROVE AuditInv'
  <2>1. UNCHANGED <<audited, delivered, outlet>>
        /\ \A t \in Tasks : t # u => pc'[t] = pc[t] /\ cur'[t] = cur[t]
    BY <1>4 DEF LogOnlyAudit, MarkDelivered, Ack, TypeOK
  <2>2. pc'[u] # "audit"
    BY <1>4 DEF LogOnlyAudit, MarkDelivered, Ack, TypeOK
  <2> QED BY <2>1, <2>2 DEF AuditInv, AuditedWasDelivered
<1>5. CASE Crash
  BY <1>5 DEF Crash, AuditInv, AuditedWasDelivered
<1>6. CASE UNCHANGED <<pc, cur, outlet, delivered, audited>>
  BY <1>6 DEF AuditInv, AuditedWasDelivered
<1> QED
  BY <1>1, <1>2, <1>3, <1>4, <1>5, <1>6
     DEF Next, TaskStep, vars, Tick, Publish, AckWaitExpires, Fetch, ReceiveError, Reload, Restart

\* Whatever crashes, is redelivered or is reloaded, an audit row of kind
\* message_delivered names a sink that accepted the message
\* (dispatcher.rs:197-291).
THEOREM AuditIsTrue == Spec => []AuditedWasDelivered
<1>1. Init => AuditInv
  BY DEF Init, AuditInv, AuditedWasDelivered
<1>2. AuditInv => AuditedWasDelivered
  BY DEF AuditInv
<1> QED BY <1>1, <1>2, TypeInit, TypeStep, AuditStep, PTL DEF Spec

-----------------------------------------------------------------------------
(* The quiet hours. *)

\* Tasks plan on receipt, and P2 by the clock alone: the dispatcher keeps a P2
\* in the log exactly within the quiet interval, for a day of any length and any
\* bounds (dispatcher.rs:168-195, severity.rs:60-91).
THEOREM QuietHours == Spec => QuietHoursKept
<1> DEFINE Kept == \A m \in Msgs : \A plan \in planned'[m] \ planned[m] :
                     header[m].parses /\ header[m].severity = "P2" =>
                       (plan = {} <=> InClockwiseInterval(Day, QuietStart, QuietEnd, now))
<1>1. TypeOK /\ [Next]_vars => [Kept]_vars
  <2> SUFFICES ASSUME TypeOK, Next PROVE Kept
    OBVIOUS
  <2>1. CASE UNCHANGED planned
    BY <2>1
  <2>2. ASSUME NEW t \in Tasks, Receive(t) PROVE Kept
    <3> DEFINE n == Head(buf[t])
    <3>1. n \in Msgs
      BY <2>2 DEF Receive, TypeOK
    <3>2. \A m \in Msgs : planned'[m] \ planned[m] \subseteq
                           (IF m = n THEN {PlanAt(m, now)} ELSE {})
      BY <2>2, <3>1 DEF Receive, TypeOK
    <3>3. ASSUME NEW m \in Msgs, header[m].parses, header[m].severity = "P2"
          PROVE  PlanAt(m, now) = {} <=> InClockwiseInterval(Day, QuietStart, QuietEnd, now)
      <4>1. IsQuietHours(QuietStart, QuietEnd, now) <=>
              InClockwiseInterval(Day, QuietStart, QuietEnd, now)
        BY QuietInterval DEF TypeOK, Instants
      <4>2. CASE IsQuietHours(QuietStart, QuietEnd, now)
        BY <3>3, <4>1, <4>2 DEF PlanAt, KeptInLog, RoutedAt, Route, LogOnly
      <4>3. CASE ~IsQuietHours(QuietStart, QuietEnd, now)
        BY <3>3, <4>1, <4>3 DEF PlanAt, KeptInLog, RoutedAt, Route, EmailTelegram
      <4> QED BY <4>2, <4>3
    <3> HIDE DEF n
    <3> QED BY <3>2, <3>3
  <2>3. \/ UNCHANGED planned
        \/ \E t \in Tasks : Receive(t)
    BY DEF Next, TaskStep, Publish, AckWaitExpires, Tick, Fetch, ReceiveError, LogOnlyAudit, Deliver,
           DeliveredAudit, MarkDelivered, Ack, Reload, Crash, Restart, historyVars
  <2> QED BY <2>1, <2>2, <2>3
<1> QED BY <1>1, TypeInit, TypeStep, PTL DEF Spec, QuietHoursKept

-----------------------------------------------------------------------------
(* The consumer implements the durable stream's promise. *)

\* Fates and service, step by step.
LEMMA SameFate ==
  ASSUME TypeOK, UNCHANGED jsVars
  PROVE  [m \in Msgs |-> Fate(m)]' = [m \in Msgs |-> Fate(m)]
BY DEF Fate, Unsettled, jsVars

LEMMA SameService ==
  ASSUME UNCHANGED <<planned, attempted>>
  PROVE  {m \in Msgs : FullyRouted(m)}' = {m \in Msgs : FullyRouted(m)}
BY DEF FullyRouted

\* A step of the task that processes n serves n or changes nothing.
LEMMA ServiceStep ==
  ASSUME TypeOK, [Next]_vars, NEW n \in Msgs, status[n] # "absent",
         UNCHANGED jsVars,
         \A m \in Msgs \ {n} : FullyRouted(m)' => FullyRouted(m)
  PROVE  [Promise!Next]_(Promise!vars)
<1>1. [m \in Msgs |-> Fate(m)]' = [m \in Msgs |-> Fate(m)]
  BY SameFate
<1>2. \A m \in Msgs : FullyRouted(m) => FullyRouted(m)'
  BY FullyRoutedStays
<1>3. [m \in Msgs |-> Fate(m)][n] # "absent"
  BY DEF Fate, Unsettled
<1>4. CASE FullyRouted(n)' /\ ~FullyRouted(n)
  <2>1. {m \in Msgs : FullyRouted(m)}' = {m \in Msgs : FullyRouted(m)} \cup {n}
    BY <1>2, <1>4
  <2>2. Promise!Serve(n)
    BY <1>1, <1>3, <2>1 DEF Promise!Serve
  <2> QED BY <2>2 DEF Promise!Next
<1>5. CASE FullyRouted(n)' <=> FullyRouted(n)
  <2>1. {m \in Msgs : FullyRouted(m)}' = {m \in Msgs : FullyRouted(m)}
    BY <1>2, <1>5
  <2> QED BY <1>1, <2>1 DEF Promise!vars
<1> QED BY <1>2, <1>4, <1>5

LEMMA FateType ==
  /\ TypeOK => [m \in Msgs |-> Fate(m)] \in [Msgs -> Promise!Fates]
  /\ TypeOK' => [m \in Msgs |-> Fate(m)]' \in [Msgs -> Promise!Fates]
BY DEF TypeOK, JSTypeOK, Statuses, Fate, Unsettled, Promise!Fates

LEMMA PromiseStep == IInv /\ IInv' /\ [Next]_vars => [Promise!Next]_(Promise!vars)
<1> SUFFICES ASSUME IInv, IInv', [Next]_vars PROVE [Promise!Next]_(Promise!vars)
  OBVIOUS
<1> DEFINE fate == [m \in Msgs |-> Fate(m)]
           served == {m \in Msgs : FullyRouted(m)}
<1>0. fate \in [Msgs -> Promise!Fates] /\ fate' \in [Msgs -> Promise!Fates]
  BY FateType DEF IInv
<1>1. TypeOK /\ Holders /\ RoutingProgress
  BY DEF IInv
<1>2. status \in [Msgs -> Statuses] /\ log \in [Streams -> Seq(Msgs)]
  BY <1>1 DEF TypeOK, JSTypeOK
<1> USE DEF processVars, taskVars, faultVars, historyVars
<1>3. ASSUME UNCHANGED <<planned, attempted>>, \A m \in Msgs : Fate(m)' = Fate(m)
      PROVE  [Promise!Next]_(Promise!vars)
  <2>1. served' = served
    BY <1>3, SameService
  <2>2. fate' = fate
    BY <1>3
  <2> QED BY <2>1, <2>2 DEF Promise!vars
<1>4. ASSUME NEW n \in Msgs, Publish(n) PROVE [Promise!Next]_(Promise!vars)
  <2> DEFINE s == header[n].stream
             x == Head(log[s])
  <2>1. /\ status[n] = "absent" /\ UNCHANGED <<planned, attempted>>
        /\ \A m \in Msgs : status'[m] = IF m = n THEN "due"
                                        ELSE IF Full(s) /\ m = x /\ Unsettled(m) THEN "evicted"
                                        ELSE status[m]
    BY <1>4 DEF Publish, JSPublish
  <2>2. served' = served
    BY <2>1, SameService
  <2>3. /\ fate[n] = "absent" /\ fate'[n] = "live"
        /\ fate' \in [Msgs -> Promise!Fates] /\ fate \in [Msgs -> Promise!Fates]
    BY <1>0, <2>1 DEF Fate, Unsettled
  <2>4. CASE Full(s) /\ x # n /\ x \in Msgs /\ Unsettled(x)
    <3>1. fate[x] = "live"
      BY <2>4 DEF Fate
    <3>2. fate' = [Promise!With({n}) EXCEPT ![x] = "evicted"]
      <4>1. ASSUME NEW m \in Msgs
            PROVE  fate'[m] = IF m = x THEN "evicted" ELSE IF m = n THEN "live" ELSE fate[m]
        <5> HIDE DEF s, x
        <5> QED BY <2>1, <2>4 DEF Fate, Unsettled
      <4>2. Promise!With({n}) = [m \in Msgs |-> IF m = n THEN "live" ELSE fate[m]]
        BY DEF Promise!With
      <4> HIDE DEF fate, x
      <4> QED BY <2>3, <2>4, <4>1, <4>2
    <3>3. Promise!Publish({n})
      BY <2>2, <2>3, <2>4, <3>1, <3>2 DEF Promise!Publish
    <3> QED BY <2>3, <3>3 DEF Promise!Next
  <2>5. CASE ~(Full(s) /\ x # n /\ x \in Msgs /\ Unsettled(x))
    <3>1. fate' = Promise!With({n})
      <4>1. ASSUME NEW m \in Msgs PROVE fate'[m] = IF m = n THEN "live" ELSE fate[m]
        <5> HIDE DEF s, x
        <5> QED BY <2>1, <2>5 DEF Fate, Unsettled
      <4>2. Promise!With({n}) = [m \in Msgs |-> IF m = n THEN "live" ELSE fate[m]]
        BY DEF Promise!With
      <4> HIDE DEF fate
      <4> QED BY <2>3, <4>1, <4>2
    <3>2. Promise!Publish({n})
      BY <2>2, <2>3, <3>1 DEF Promise!Publish
    <3> QED BY <2>3, <3>2 DEF Promise!Next
  <2> QED BY <2>4, <2>5
<1>5. ASSUME NEW n \in Msgs, AckWaitExpires(n) PROVE [Promise!Next]_(Promise!vars)
  <2>1. \A m \in Msgs : Fate(m)' = Fate(m)
    BY <1>2, <1>5 DEF AckWaitExpires, JSAckWaitExpires, Fate, Unsettled
  <2> QED BY <1>3, <1>5, <2>1 DEF AckWaitExpires
<1>6. ASSUME NEW t \in Tasks, NEW n \in Msgs, Fetch(t, n) PROVE [Promise!Next]_(Promise!vars)
  <2>1. \A m \in Msgs : Fate(m)' = Fate(m)
    BY <1>2, <1>6 DEF Fetch, JSDeliver, Fate, Unsettled
  <2> QED BY <1>3, <1>6, <2>1 DEF Fetch
<1>7. ASSUME NEW t \in Tasks, Receive(t) PROVE [Promise!Next]_(Promise!vars)
  <2> DEFINE n == Head(buf[t])
  <2>1. n \in Msgs /\ n = buf[t][1] /\ 1 \in 1..Len(buf[t])
    BY <1>1, <1>7 DEF Receive, TypeOK
  <2>2. status[n] # "absent"
    BY <1>1, <2>1 DEF Holders, HolderOf
  <2>3. \A m \in Msgs \ {n} : FullyRouted(m)' => FullyRouted(m)
    BY <1>1, <1>7 DEF Receive, FullyRouted, TypeOK
  <2>4. UNCHANGED jsVars
    BY <1>7 DEF Receive
  <2> HIDE DEF n
  <2> QED BY <1>1, <2>1, <2>2, <2>3, <2>4, ServiceStep
<1>8. ASSUME NEW t \in Tasks, Deliver(t) PROVE [Promise!Next]_(Promise!vars)
  <2>1. cur[t] \in Msgs /\ UNCHANGED <<jsVars, planned>>
    BY <1>1, <1>8 DEF Deliver, TypeOK
  <2>2. status[cur[t]] # "absent"
    BY <1>1, <2>1 DEF Holders, HolderOf
  <2>3. \A m \in Msgs \ {cur[t]} : \A ch : <<m, ch>> \in attempted' => <<m, ch>> \in attempted
    BY <1>8 DEF Deliver
  <2>4. \A m \in Msgs \ {cur[t]} : FullyRouted(m)' => FullyRouted(m)
    BY <2>1, <2>3 DEF FullyRouted
  <2> QED BY <1>1, <2>1, <2>2, <2>4, ServiceStep
<1>9. ASSUME NEW t \in Tasks, Ack(t) PROVE [Promise!Next]_(Promise!vars)
  <2>1. cur[t] \in Msgs /\ UNCHANGED <<planned, attempted>>
    BY <1>1, <1>9 DEF Ack, TypeOK
  <2>2. CASE Unsettled(cur[t]) /\ JSAck(cur[t])
    <3>1. FullyRouted(cur[t])
      BY <1>1, <1>9 DEF Ack, RoutingProgress, ProgressOf
    <3>2. fate[cur[t]] = "live"
      BY <2>1, <2>2 DEF Fate
    <3>3. fate' = [fate EXCEPT ![cur[t]] = "settled"]
      <4>1. ASSUME NEW m \in Msgs PROVE fate'[m] = IF m = cur[t] THEN "settled" ELSE fate[m]
        BY <1>2, <2>2 DEF JSAck, Fate, Unsettled
      <4>2. fate' \in [Msgs -> Promise!Fates] /\ fate \in [Msgs -> Promise!Fates]
        BY <1>0
      <4> HIDE DEF fate
      <4> QED BY <2>1, <4>1, <4>2
    <3>4. served' = served
      BY <2>1, SameService
    <3>5. Promise!Settle(cur[t])
      BY <2>1, <3>1, <3>2, <3>3, <3>4 DEF Promise!Settle
    <3> QED BY <2>1, <3>5 DEF Promise!Next
  <2>3. CASE ~(Unsettled(cur[t]) /\ JSAck(cur[t]))
    <3>1. status' = status
      BY <1>2, <1>9, <2>3 DEF Ack, JSAck, jsVars
    <3>2. \A m \in Msgs : Fate(m)' = Fate(m)
      BY <3>1 DEF Fate, Unsettled
    <3> QED BY <1>3, <2>1, <3>2
  <2> QED BY <2>2, <2>3
<1>10. CASE UNCHANGED <<jsVars, planned, attempted>>
  <2>1. \A m \in Msgs : Fate(m)' = Fate(m)
    BY <1>10 DEF Fate, Unsettled, jsVars
  <2> QED BY <1>3, <1>10, <2>1
<1> QED
  BY <1>4, <1>5, <1>6, <1>7, <1>8, <1>9, <1>10
     DEF Next, TaskStep, vars, Tick, ReceiveError, LogOnlyAudit, DeliveredAudit, MarkDelivered,
         Reload, Crash, Restart

\* The consumers of dispatcher.rs keep the promise of a durable stream: nothing
\* is settled unserved, nothing disappears but by eviction.
THEOREM ImplementsPromise == Spec => PromiseSafety
<1>1. Init => Promise!Init
  <2> SUFFICES ASSUME Init PROVE Promise!Init
    OBVIOUS
  <2>1. \A m \in Msgs : Fate(m) = "absent" /\ ~FullyRouted(m)
    BY DEF Init, JSInit, Fate, Unsettled, FullyRouted
  <2> QED BY <2>1 DEF Promise!Init
<1> QED BY <1>1, Inductive, PromiseStep, PTL DEF Spec, PromiseSafety, Promise!Safety

-----------------------------------------------------------------------------
(* Which sink gets which message. *)

\* The telegram sinks of a generation are those it was spawned with.
LEMMA BotsStay ==
  ASSUME TypeOK, [Next]_vars
  PROVE  /\ header' = header /\ gen \in Nat /\ gen' \in Nat /\ gen <= gen'
         /\ \A g \in 1..gen : bots'[g] = bots[g]
<1>1. gen \in 1..MaxGen /\ MaxGen \in Nat /\ bots \in [1..MaxGen -> SUBSET Bots]
  BY DEF TypeOK, Gens
<1>2. header' = header
  BY DEF Next, TaskStep, vars, Publish, AckWaitExpires, Tick, Fetch, Receive, ReceiveError, LogOnlyAudit,
         Deliver, DeliveredAudit, MarkDelivered, Ack, Reload, Crash, Restart
<1>3. \/ UNCHANGED <<gen, bots>>
      \/ \E installed \in SUBSET Bots : Spawn(installed)
  BY DEF Next, TaskStep, vars, Publish, AckWaitExpires, Tick, Fetch, Receive, ReceiveError, LogOnlyAudit,
         Deliver, DeliveredAudit, MarkDelivered, Ack, Reload, Crash, Restart, processVars
<1>4. CASE UNCHANGED <<gen, bots>>
  BY <1>1, <1>2, <1>4
<1>5. ASSUME NEW installed \in SUBSET Bots, Spawn(installed)
      PROVE  gen' = gen + 1 /\ bots' = [bots EXCEPT ![gen + 1] = installed]
  BY <1>5 DEF Spawn
<1> QED BY <1>1, <1>2, <1>3, <1>4, <1>5

LEMMA SameSink ==
  ASSUME TypeOK, [Next]_vars, NEW g \in 1..gen, NEW m, NEW ch
  PROVE  SinkFor(g, m, ch)' = SinkFor(g, m, ch)
BY BotsStay DEF SinkFor

\* A sink gets a message from a task that has its channel still to do.
LEMMA DeliveredStep ==
  ASSUME TypeOK, Holders, [Next]_vars
  PROVE  \/ delivered' = delivered
         \/ \E t \in Tasks : \E ch \in todo[t] :
              /\ pc[t] = "deliver" /\ cur[t] \in Msgs /\ t[1] \in 1..gen /\ ch \in SinkChannels
              /\ SinkFor(t[1], cur[t], ch) # "none"
              /\ delivered' = delivered \cup {<<cur[t], SinkFor(t[1], cur[t], ch)>>}
<1>1. ASSUME NEW t \in Tasks, Deliver(t), delivered' # delivered
      PROVE  \E ch \in todo[t] :
               /\ pc[t] = "deliver" /\ cur[t] \in Msgs /\ t[1] \in 1..gen /\ ch \in SinkChannels
               /\ SinkFor(t[1], cur[t], ch) # "none"
               /\ delivered' = delivered \cup {<<cur[t], SinkFor(t[1], cur[t], ch)>>}
  <2> DEFINE ch == FirstChannel(todo[t])
  <2>1. pc[t] = "deliver" /\ todo[t] # {} /\ todo[t] \in SUBSET SinkChannels /\ cur[t] \in Msgs
    BY <1>1 DEF Deliver, TypeOK
  <2>2. ch \in todo[t]
    BY <2>1, FirstChannelType
  <2>3. t[1] \in 1..gen
    <3>1. t[1] \in 1..MaxGen /\ t[1] <= gen /\ gen \in 1..MaxGen
      BY <2>1 DEF Holders, HolderOf, Tasks, Gens, TypeOK
    <3> QED BY <3>1
  <2>4. /\ SinkFor(t[1], cur[t], ch) # "none"
        /\ delivered' = delivered \cup {<<cur[t], SinkFor(t[1], cur[t], ch)>>}
    BY <1>1 DEF Deliver, Takes
  <2> QED BY <2>1, <2>2, <2>3, <2>4
<1>2. delivered' = delivered \/ \E t \in Tasks : Deliver(t)
  BY DEF Next, TaskStep, vars, Publish, AckWaitExpires, Tick, Fetch, Receive, ReceiveError, LogOnlyAudit,
         DeliveredAudit, MarkDelivered, Ack, Reload, Crash, Restart, historyVars
<1> QED BY <1>1, <1>2

\* What the source-aware routing of dispatcher.rs:156-164 makes of one channel.
LEMMA SinkOfThread ==
  ASSUME TypeOK, NEW g \in 1..gen, NEW m \in Msgs, NEW ch \in SinkChannels,
         NEW o \in Outlets, o = SinkFor(g, m, ch)
  PROVE  /\ o \in Bots => header[m].source = "telegram"
         /\ o = "email_reply" => header[m].source = "email"
         /\ o \in Bots => o = header[m].bot \/ (o = "default" /\ header[m].bot \notin bots[g])
<1>1. header[m].source \in {"email", "telegram"}
  BY DEF TypeOK, Header
<1>2. "none" \notin Bots /\ "email" \notin Bots /\ "ntfy" \notin Bots /\ "email_reply" \notin Bots
  BY DEF FixedOutlets
<1>3. g \in Gens
  BY DEF TypeOK, Gens
<1>4. bots[g] \subseteq Bots
  BY <1>3 DEF TypeOK
<1>5. CASE ch = "telegram"
  BY <1>1, <1>2, <1>4, <1>5 DEF SinkFor, SelectTelegramSink
<1>6. CASE ch # "telegram"
  BY <1>2, <1>6 DEF SinkFor, SinkChannels
<1> QED BY <1>5, <1>6

LEMMA ThreadStep == TypeOK /\ Holders /\ StaysInItsThread /\ [Next]_vars => StaysInItsThread'
<1> SUFFICES ASSUME TypeOK, Holders, StaysInItsThread, [Next]_vars,
                    NEW m \in Msgs, NEW o \in Outlets, <<m, o>> \in delivered'
             PROVE  /\ o \in Bots => header[m].source = "telegram"
                    /\ o = "email_reply" => header[m].source = "email"
                    /\ o \in Bots => \/ o = header[m].bot
                                     \/ o = "default" /\ \E g \in 1..gen' : header[m].bot \notin bots'[g]
  BY BotsStay DEF StaysInItsThread
<1>1. \A g \in 1..gen : g \in 1..gen' /\ bots'[g] = bots[g]
  BY BotsStay
<1>2. CASE <<m, o>> \in delivered
  BY <1>1, <1>2 DEF StaysInItsThread
<1>3. CASE <<m, o>> \notin delivered
  <2>1. PICK t \in Tasks : \E ch \in todo[t] : /\ t[1] \in 1..gen /\ ch \in SinkChannels
                                               /\ m = cur[t] /\ o = SinkFor(t[1], cur[t], ch)
    BY <1>3, DeliveredStep
  <2>2. PICK ch \in SinkChannels : t[1] \in 1..gen /\ o = SinkFor(t[1], m, ch)
    BY <2>1
  <2> QED BY <1>1, <2>2, SinkOfThread
<1> QED BY <1>2, <1>3

\* An answer to an email never goes out through a bot, and a bot's message only
\* through that bot or "default" (dispatcher.rs:156-164), across all reloads.
THEOREM ThreadsKeptApart == Spec => []StaysInItsThread
<1>1. Init => StaysInItsThread
  BY DEF Init, StaysInItsThread
<1>2. IInv => TypeOK /\ Holders
  BY DEF IInv
<1> QED BY <1>1, <1>2, ThreadStep, Inductive, PTL DEF Spec

\* What a step does to the plans and to what is left of them.
LEMMA TodoStep == TypeOK /\ TodoPlanned /\ [Next]_vars => TodoPlanned'
<1> SUFFICES ASSUME TypeOK, TodoPlanned, [Next]_vars PROVE TodoPlanned'
  OBVIOUS
<1> USE DEF processVars, taskVars, faultVars, historyVars
<1>1. ASSUME NEW t \in Tasks, Receive(t) PROVE TodoPlanned'
  <2> DEFINE n == Head(buf[t])
  <2>1. n \in Msgs
    BY <1>1 DEF Receive, TypeOK
  <2>2. /\ cur' = [cur EXCEPT ![t] = n] /\ todo' = [todo EXCEPT ![t] = PlanAt(n, now)]
        /\ planned' = [planned EXCEPT ![n] = planned[n] \cup {PlanAt(n, now)}]
        /\ \A u \in Tasks \ {t} : pc'[u] = pc[u]
    BY <1>1 DEF Receive, TypeOK
  <2> HIDE DEF n
  <2>3. ASSUME NEW u \in Tasks, pc'[u] \in {"deliver", "audit"}
        PROVE  \E plan \in planned'[cur'[u]] : todo'[u] \subseteq plan
    <3>1. CASE u = t
      <4>1. cur'[t] = n /\ todo'[t] = PlanAt(n, now) /\ PlanAt(n, now) \in planned'[n]
        BY <2>1, <2>2 DEF TypeOK
      <4> QED BY <3>1, <4>1
    <3>2. CASE u # t
      <4>1. cur'[u] = cur[u] /\ todo'[u] = todo[u] /\ pc[u] \in {"deliver", "audit"} /\ cur[u] \in Msgs
        BY <2>2, <2>3, <3>2 DEF TypeOK
      <4>2. planned[cur[u]] \subseteq planned'[cur[u]]
        BY <2>1, <2>2, <4>1 DEF TypeOK
      <4> QED BY <4>1, <4>2 DEF TodoPlanned
    <3> QED BY <3>1, <3>2
  <2> QED BY <2>3 DEF TodoPlanned
<1>2. ASSUME NEW t \in Tasks, Deliver(t) PROVE TodoPlanned'
  <2>1. /\ UNCHANGED <<cur, planned>> /\ pc[t] = "deliver"
        /\ todo'[t] \subseteq todo[t]
        /\ \A u \in Tasks \ {t} : pc'[u] = pc[u] /\ todo'[u] = todo[u]
    BY <1>2 DEF Deliver, TypeOK
  <2> QED BY <2>1 DEF TodoPlanned
<1>3. ASSUME NEW t \in Tasks, DeliveredAudit(t) PROVE TodoPlanned'
  <2>1. /\ UNCHANGED <<cur, planned, todo>> /\ pc[t] = "audit"
        /\ \A u \in Tasks \ {t} : pc'[u] = pc[u]
    BY <1>3 DEF DeliveredAudit, TypeOK
  <2> QED BY <2>1 DEF TodoPlanned
<1>4. ASSUME NEW t \in Tasks, LogOnlyAudit(t) \/ MarkDelivered(t) \/ Ack(t) PROVE TodoPlanned'
  <2>1. /\ UNCHANGED <<planned, todo>> /\ pc'[t] \notin {"deliver", "audit"}
        /\ \A u \in Tasks \ {t} : pc'[u] = pc[u] /\ cur'[u] = cur[u]
    BY <1>4 DEF LogOnlyAudit, MarkDelivered, Ack, TypeOK
  <2> QED BY <2>1 DEF TodoPlanned
<1>5. CASE Crash
  BY <1>5 DEF Crash, TodoPlanned
<1>6. CASE UNCHANGED <<pc, cur, todo, planned>>
  BY <1>6 DEF TodoPlanned
<1> QED
  BY <1>1, <1>2, <1>3, <1>4, <1>5, <1>6
     DEF Next, TaskStep, vars, Tick, Publish, AckWaitExpires, Fetch, ReceiveError, Reload, Restart

\* Plans are never forgotten.
LEMMA PlansStay ==
  ASSUME TypeOK, [Next]_vars, NEW m \in Msgs
  PROVE  planned[m] \subseteq planned'[m]
<1>1. ASSUME NEW t \in Tasks, Receive(t) PROVE planned[m] \subseteq planned'[m]
  BY <1>1 DEF Receive, TypeOK
<1>2. UNCHANGED planned \/ \E t \in Tasks : Receive(t)
  BY DEF Next, TaskStep, vars, Publish, AckWaitExpires, Tick, Fetch, ReceiveError, LogOnlyAudit, Deliver,
         DeliveredAudit, MarkDelivered, Ack, Reload, Crash, Restart, historyVars
<1> QED BY <1>1, <1>2

LEMMA SentStep == TypeOK /\ Holders /\ TodoPlanned /\ SentOnlyAsPlanned /\ [Next]_vars
                    => SentOnlyAsPlanned'
<1> SUFFICES ASSUME TypeOK, Holders, TodoPlanned, SentOnlyAsPlanned, [Next]_vars,
                    NEW m \in Msgs, NEW o \in Outlets, <<m, o>> \in delivered'
             PROVE  \E plan \in planned'[m] : \E ch \in plan, g \in 1..gen' : SinkFor(g, m, ch)' = o
  BY DEF SentOnlyAsPlanned
<1>1. \A g \in 1..gen : g \in 1..gen' /\ \A ch : SinkFor(g, m, ch)' = SinkFor(g, m, ch)
  BY BotsStay, SameSink
<1>2. PICK plan \in planned[m] : \E ch \in plan, g \in 1..gen : SinkFor(g, m, ch) = o
  <2>1. CASE <<m, o>> \in delivered
    BY <2>1 DEF SentOnlyAsPlanned
  <2>2. CASE <<m, o>> \notin delivered
    <3>1. PICK t \in Tasks : \E ch \in todo[t] : /\ pc[t] = "deliver" /\ t[1] \in 1..gen
                                                 /\ m = cur[t] /\ o = SinkFor(t[1], cur[t], ch)
      BY <2>2, DeliveredStep
    <3> QED BY <3>1 DEF TodoPlanned
  <2> QED BY <2>1, <2>2
<1> QED BY <1>1, <1>2, PlansStay

\* A sink has a message only if some task planned so when it received it
\* (dispatcher.rs:166-195), whatever time passes and whatever is reloaded.
THEOREM SentAsPlanned == Spec => []SentOnlyAsPlanned
<1>1. Init => TodoPlanned /\ SentOnlyAsPlanned
  BY DEF Init, TodoPlanned, SentOnlyAsPlanned
<1>2. IInv => TypeOK /\ Holders
  BY DEF IInv
<1> QED BY <1>1, <1>2, TodoStep, SentStep, Inductive, PTL DEF Spec
=============================================================================
