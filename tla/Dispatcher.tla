------------------------------ MODULE Dispatcher ------------------------------
(***************************************************************************)
(* The downstream half of the dispatcher (dispatcher.rs): one consumer     *)
(* task per stream pulls from a durable JetStream consumer, routes each    *)
(* message by severity, time of day and source, sends it to the sinks one  *)
(* after the other, and acks it.                                           *)
(*                                                                         *)
(* A generation is one call of spawn_all (main.rs:410-504): the start of   *)
(* the process, a restart by systemd, or a SIGHUP reload.  Its consumer    *)
(* tasks are detached by tokio::spawn (dispatcher.rs:91) and own the sinks *)
(* of their generation.                                                    *)
(*                                                                         *)
(* One action per stretch of code between two awaits.  Abstracted: message *)
(* contents (only the fields the routing reads are kept), the sinks'       *)
(* protocols (a delivery succeeds or fails), tracing.                      *)
(***************************************************************************)
EXTENDS JetStream, SeverityRouting, FiniteSets

CONSTANTS
  Traffic,          \* the headers that messages may have, a subset of Header
  Bots,             \* bot names that conf.d may declare
  HasNtfy,          \* is there an ntfy sink
  HasEmailReply,    \* is there an email_reply sink
  QuietStart, QuietEnd, Day,  \* quiet hours, in instants of a day
  Prefetch,         \* copies a pull request may buffer in a task
  MaxGen,           \* bound: generations of consumer tasks
  MaxReceiveErrors, \* bound: tasks that an error of their message stream ends
  MaxLostAcks       \* bound: acks that do not reach the server

\* What route_and_deliver and the sinks read of a message; parses is FALSE for
\* a payload that is not a Message, bot is "none" when meta.bot_name is absent,
\* addressed says that meta.email_from is a mailbox.
Header == [stream : Streams, parses : BOOLEAN, severity : Severities,
           source : {"email", "telegram"}, bot : Bots \cup {"none"}, addressed : BOOLEAN]

FixedOutlets == {"email", "ntfy", "email_reply"}
Outlets == FixedOutlets \cup Bots

\* How a message_delivered row names a sink.
Targets == FixedOutlets \cup {"telegram"}
RowTarget(o) == IF o \in Bots THEN "telegram" ELSE o

ASSUME DispatcherAssumption ==
  /\ Traffic \subseteq Header
  /\ "none" \notin Msgs
  /\ Bots \cap (FixedOutlets \cup {"none"}) = {}
  /\ HasNtfy \in BOOLEAN /\ HasEmailReply \in BOOLEAN
  /\ Day \in Nat \ {0}
  /\ QuietStart \in 0..(Day - 1) /\ QuietEnd \in 0..(Day - 1)
  /\ Prefetch \in Nat \ {0} /\ MaxGen \in Nat \ {0}
  /\ MaxReceiveErrors \in Nat /\ MaxLostAcks \in Nat

VARIABLES
  header,     \* header[m]: what m's publisher puts in it
  now,        \* time of day
  gen,        \* current generation
  up,         \* is the process running
  bots,       \* bots[g]: the telegram sinks of generation g
  alive,      \* alive[t]: is consumer task t running
  buf,        \* buf[t]: copies received and not yet looked at
  pc,         \* pc[t]: where t is in its loop
  cur,        \* cur[t]: the message t is processing, "none" when it receives
  todo,       \* todo[t]: the channels t has still to send cur[t] to
  outlet,     \* outlet[t]: the sink that has just accepted cur[t]
  failed,     \* the tasks that an error of their message stream ended
  lostAcks,   \* counted against its bound
  (* history *)
  planned,    \* planned[m]: the sets of sink channels some task chose for m
  attempted,  \* <<m, ch>>: channel ch of m was gone through by some task
  delivered,  \* <<m, o>>: sink o accepted m
  repeated,   \* <<m, o>>: sink o accepted m more than once
  audited     \* <<m, target>>: the audit log has a message_delivered row

taskVars == <<alive, buf, pc, cur, todo, outlet>>
processVars == <<now, gen, up, bots>>
faultVars == <<failed, lostAcks>>
historyVars == <<planned, attempted, delivered, repeated, audited>>
vars == <<jsVars, header, processVars, taskVars, faultVars, historyVars>>

\* Consumer tasks: "hubmq-agents" and "hubmq-cron" of each generation.
Gens == 1..MaxGen
Tasks == Gens \X Streams
Stages == {"recv", "log", "deliver", "audit", "ack"}
Instants == 0..(Day - 1)

TypeOK ==
  /\ JSTypeOK
  /\ header \in [Msgs -> Traffic]
  /\ now \in Instants /\ gen \in Gens /\ up \in BOOLEAN
  /\ bots \in [Gens -> SUBSET Bots]
  /\ alive \in [Tasks -> BOOLEAN]
  /\ buf \in [Tasks -> Seq(Msgs)]
  /\ pc \in [Tasks -> Stages]
  /\ cur \in [Tasks -> Msgs \cup {"none"}]
  /\ \A t \in Tasks : pc[t] # "recv" => cur[t] \in Msgs
  /\ \A t \in Tasks : pc[t] = "audit" => outlet[t] \in Outlets
  /\ todo \in [Tasks -> SUBSET SinkChannels]
  /\ outlet \in [Tasks -> Outlets \cup {"none"}]
  /\ failed \in SUBSET Tasks /\ lostAcks \in Nat
  /\ planned \in [Msgs -> SUBSET SUBSET SinkChannels]
  /\ attempted \in SUBSET (Msgs \X SinkChannels)
  /\ delivered \in SUBSET (Msgs \X Outlets)
  /\ repeated \in SUBSET (Msgs \X Outlets)
  /\ audited \in SUBSET (Msgs \X Targets)

-----------------------------------------------------------------------------
(* Routing. *)

RoutedAt(m, t) == Route(QuietStart, QuietEnd, header[m].severity, t)

\* Mutant: without the early return.
NeverKeptInLog(m, t) == FALSE

\* The sink channels route_and_deliver goes through: none when the message is
\* not a Message, and none when the router sets log_only (the early return).
KeptInLog(m, t) == "log_only" \in RoutedAt(m, t)
PlanAt(m, t) ==
  IF ~header[m].parses \/ KeptInLog(m, t) THEN {} ELSE RoutedAt(m, t)

\* Mutant: the email block without its condition.
EmailAlways(S) == "email"

\* The order of the three blocks of route_and_deliver.
FirstChannel(S) ==
  IF "email" \in S THEN "email" ELSE IF "ntfy" \in S THEN "ntfy" ELSE "telegram"

\* Mutant: the fallback comes first.
DefaultBotFirst(bot, installed) ==
  IF "default" \in installed THEN "default"
  ELSE IF bot \in installed THEN bot
  ELSE "none"

\* select_telegram_sink over the sinks of one dispatcher.
SelectTelegramSink(bot, installed) ==
  IF bot \in installed THEN bot
  ELSE IF "default" \in installed THEN "default"
  ELSE "none"

\* The sink a dispatcher of generation g uses for channel ch of m, or "none".
SinkFor(g, m, ch) ==
  CASE ch = "email" -> "email"
    [] ch = "ntfy" -> IF HasNtfy THEN "ntfy" ELSE "none"
    [] ch = "telegram" ->
         IF header[m].source = "email"
         THEN IF HasEmailReply THEN "email_reply" ELSE "none"
         ELSE SelectTelegramSink(header[m].bot, bots[g])

\* Can sink o send m at all?  EmailReplySink needs the address of the sender.
Takes(o, m) == o # "none" /\ (o = "email_reply" => header[m].addressed)

-----------------------------------------------------------------------------
(* Initial state and the environment. *)

Init ==
  /\ JSInit
  /\ header \in [Msgs -> Traffic]
  /\ now \in Instants
  /\ gen = 1 /\ up = TRUE
  /\ \E installed \in SUBSET Bots : bots = [g \in Gens |-> IF g = 1 THEN installed ELSE {}]
  /\ alive = [t \in Tasks |-> t[1] = 1]
  /\ buf = [t \in Tasks |-> <<>>]
  /\ pc = [t \in Tasks |-> "recv"]
  /\ cur = [t \in Tasks |-> "none"]
  /\ todo = [t \in Tasks |-> {}]
  /\ outlet = [t \in Tasks |-> "none"]
  /\ failed = {} /\ lostAcks = 0
  /\ planned = [m \in Msgs |-> {}]
  /\ attempted = {} /\ delivered = {} /\ repeated = {} /\ audited = {}

\* An agent, a timer job or BigBrother publishes on the message's stream.
Publish(m) ==
  /\ JSPublish(m, header[m].stream)
  /\ UNCHANGED <<header, processVars, taskVars, faultVars, historyVars>>

AckWaitExpires(m) ==
  /\ JSAckWaitExpires(m)
  /\ UNCHANGED <<header, processVars, taskVars, faultVars, historyVars>>

Tick ==
  /\ now' = (now + 1) % Day
  /\ UNCHANGED <<jsVars, header, gen, up, bots, taskVars, faultVars, historyVars>>

-----------------------------------------------------------------------------
(* One consumer task: Dispatcher::consume and route_and_deliver. *)

\* The server fills the pull request of t.
Fetch(t, m) ==
  /\ alive[t] /\ header[m].stream = t[2] /\ Len(buf[t]) < Prefetch
  /\ JSDeliver(m)
  /\ buf' = [buf EXCEPT ![t] = Append(@, m)]
  /\ UNCHANGED <<header, processVars, alive, pc, cur, todo, outlet, faultVars, historyVars>>

\* msgs.next() yields a message: parse it and, if it is a Message, read the
\* clock and route it.
Receive(t) ==
  /\ alive[t] /\ pc[t] = "recv" /\ buf[t] # <<>>
  /\ LET m == Head(buf[t]) IN
       /\ buf' = [buf EXCEPT ![t] = Tail(@)]
       /\ cur' = [cur EXCEPT ![t] = m]
       /\ todo' = [todo EXCEPT ![t] = PlanAt(m, now)]
       /\ planned' = [planned EXCEPT ![m] = @ \cup {PlanAt(m, now)}]
       /\ pc' = [pc EXCEPT ![t] = IF ~header[m].parses THEN "ack"
                                  ELSE IF KeptInLog(m, now) THEN "log"
                                  ELSE "deliver"]
  /\ UNCHANGED <<jsVars, header, processVars, alive, outlet, faultVars,
                 attempted, delivered, repeated, audited>>

\* Mutant: the error is propagated and ends the consumers of both streams.
ReceiveErrorEndsAll(t) ==
  /\ alive[t] /\ pc[t] = "recv" /\ Cardinality(failed) < MaxReceiveErrors
  /\ failed' = failed \cup {t}
  /\ alive' = [u \in Tasks |-> FALSE]
  /\ UNCHANGED <<jsVars, header, processVars, buf, pc, cur, todo, outlet, lostAcks, historyVars>>

\* msgs.next() yields an error: `let msg = msg?` ends the task, its buffer is
\* dropped, and nothing starts it again.
ReceiveError(t) ==
  /\ alive[t] /\ pc[t] = "recv" /\ Cardinality(failed) < MaxReceiveErrors
  /\ failed' = failed \cup {t}
  /\ alive' = [alive EXCEPT ![t] = FALSE]
  /\ buf' = [buf EXCEPT ![t] = <<>>]
  /\ UNCHANGED <<jsVars, header, processVars, pc, cur, todo, outlet, lostAcks, historyVars>>

\* The message_log_only row, whose error is ignored.
LogOnlyAudit(t) ==
  /\ alive[t] /\ pc[t] = "log"
  /\ pc' = [pc EXCEPT ![t] = "ack"]
  /\ UNCHANGED <<jsVars, header, processVars, alive, buf, cur, todo, outlet,
                 faultVars, historyVars>>

\* The next channel is gone through: without a sink or with a failing sink
\* nothing is sent and the next channel follows; an accepted message is audited.
Deliver(t) ==
  /\ alive[t] /\ pc[t] = "deliver" /\ todo[t] # {}
  /\ LET m == cur[t]
         ch == FirstChannel(todo[t])
         o == SinkFor(t[1], m, ch)
     IN /\ todo' = [todo EXCEPT ![t] = @ \ {ch}]
        /\ attempted' = attempted \cup {<<m, ch>>}
        /\ \/ UNCHANGED <<pc, outlet, delivered, repeated>>
           \/ /\ Takes(o, m)
              /\ pc' = [pc EXCEPT ![t] = "audit"]
              /\ outlet' = [outlet EXCEPT ![t] = o]
              /\ delivered' = delivered \cup {<<m, o>>}
              /\ repeated' = repeated \cup ({<<m, o>>} \cap delivered)
  /\ UNCHANGED <<jsVars, header, processVars, alive, buf, cur, faultVars, planned, audited>>

\* Mutants: every row names the same sink; a failed row starts the routing over.
AuditNamesEmail(t) ==
  /\ alive[t] /\ pc[t] = "audit"
  /\ pc' = [pc EXCEPT ![t] = "deliver"]
  /\ audited' = audited \cup {<<cur[t], "email">>}
  /\ UNCHANGED <<jsVars, header, processVars, alive, buf, cur, todo, outlet,
                 faultVars, planned, attempted, delivered, repeated>>
AuditFailureRetries(t) ==
  /\ alive[t] /\ pc[t] = "audit"
  /\ pc' = [pc EXCEPT ![t] = "deliver"]
  /\ todo' = [todo EXCEPT ![t] = PlanAt(cur[t], now)]
  /\ UNCHANGED <<jsVars, header, processVars, alive, buf, cur, outlet, faultVars, historyVars>>

\* The message_delivered row, whose error is ignored.
DeliveredAudit(t) ==
  /\ alive[t] /\ pc[t] = "audit"
  /\ pc' = [pc EXCEPT ![t] = "deliver"]
  /\ audited' \in {audited, audited \cup {<<cur[t], RowTarget(outlet[t])>>}}
  /\ outlet' = [outlet EXCEPT ![t] = "none"]
  /\ UNCHANGED <<jsVars, header, processVars, alive, buf, cur, todo,
                 faultVars, planned, attempted, delivered, repeated>>

\* Mutant: after the first sink.
MarkDeliveredEarly(t) ==
  /\ alive[t] /\ pc[t] = "deliver"
  /\ pc' = [pc EXCEPT ![t] = "ack"]
  /\ UNCHANGED <<jsVars, header, processVars, alive, buf, cur, todo, outlet,
                 faultVars, historyVars>>

\* queue.mark_delivered, whatever the sinks answered.  The UPDATE finds no row:
\* only the webhooks enqueue, and they publish on ALERTS.
MarkDelivered(t) ==
  /\ alive[t] /\ pc[t] = "deliver" /\ todo[t] = {}
  /\ pc' = [pc EXCEPT ![t] = "ack"]
  /\ UNCHANGED <<jsVars, header, processVars, alive, buf, cur, todo, outlet,
                 faultVars, historyVars>>

\* msg.ack().await.ok(): the ack may be lost and nobody notices.
Ack(t) ==
  /\ alive[t] /\ pc[t] = "ack"
  /\ pc' = [pc EXCEPT ![t] = "recv"]
  /\ cur' = [cur EXCEPT ![t] = "none"]
  /\ \/ JSAck(cur[t]) /\ UNCHANGED lostAcks
     \/ /\ lostAcks < MaxLostAcks
        /\ lostAcks' = lostAcks + 1
        /\ UNCHANGED jsVars
  /\ UNCHANGED <<header, processVars, alive, buf, todo, outlet, failed, historyVars>>

-----------------------------------------------------------------------------
(* The process: main.rs and systemd. *)

\* spawn_all for a new generation: two new consumer tasks, with the telegram
\* sinks of the bots that conf.d declares by now.
Spawn(installed) ==
  /\ gen < MaxGen
  /\ gen' = gen + 1
  /\ bots' = [bots EXCEPT ![gen + 1] = installed]

\* SIGHUP: active_dispatcher.abort() ends the task that waits in run(); the
\* consumer tasks it spawned are detached and go on.
Reload ==
  /\ up
  /\ \E installed \in SUBSET Bots : Spawn(installed)
  /\ alive' = [t \in Tasks |-> alive[t] \/ t[1] = gen + 1]
  /\ UNCHANGED <<jsVars, header, now, up, buf, pc, cur, todo, outlet, faultVars, historyVars>>

\* The process dies between two awaits; its memory is lost.
Crash ==
  /\ up /\ gen < MaxGen
  /\ up' = FALSE
  /\ alive' = [t \in Tasks |-> FALSE]
  /\ buf' = [t \in Tasks |-> <<>>]
  /\ pc' = [t \in Tasks |-> "recv"]
  /\ cur' = [t \in Tasks |-> "none"]
  /\ todo' = [t \in Tasks |-> {}]
  /\ outlet' = [t \in Tasks |-> "none"]
  /\ UNCHANGED <<jsVars, header, now, gen, bots, faultVars, historyVars>>

\* Restart=always (deploy/hubmq.service).
Restart ==
  /\ ~up
  /\ up' = TRUE
  /\ \E installed \in SUBSET Bots : Spawn(installed)
  /\ alive' = [t \in Tasks |-> t[1] = gen + 1]
  /\ UNCHANGED <<jsVars, header, now, buf, pc, cur, todo, outlet, faultVars, historyVars>>

-----------------------------------------------------------------------------
TaskStep(t) ==
  \/ Receive(t) \/ LogOnlyAudit(t) \/ Deliver(t) \/ DeliveredAudit(t)
  \/ MarkDelivered(t) \/ Ack(t)

Next ==
  \/ \E m \in Msgs : Publish(m) \/ AckWaitExpires(m)
  \/ Tick
  \/ \E t \in Tasks : TaskStep(t) \/ ReceiveError(t) \/ \E m \in Msgs : Fetch(t, m)
  \/ Reload \/ Crash \/ Restart

Spec == Init /\ [][Next]_vars

\* Sinks whose calls have no timeout: ntfy's HTTP client (Client::new) and the
\* python3-apprise process behind every bot.  SMTP has lettre's timeout.
Untimed == {"ntfy"} \cup Bots

\* t waits for such a sink.
Waits(t) ==
  /\ alive[t] /\ pc[t] = "deliver" /\ todo[t] # {}
  /\ SinkFor(t[1], cur[t], FirstChannel(todo[t])) \in Untimed

\* The runtime polls every task that is ready, but nobody promises that a sink
\* without a timeout answers; the server answers some pull request while a
\* message is due and runs its ack timers; systemd restarts the daemon.  Nobody
\* is obliged to publish, to reload or to crash.
Fairness ==
  /\ \A t \in Tasks : WF_vars(TaskStep(t) /\ ~Waits(t))
  /\ \A m \in Msgs : WF_vars(\E t \in Tasks : Fetch(t, m)) /\ WF_vars(AckWaitExpires(m))
  /\ WF_vars(Restart)

FairSpec == Spec /\ Fairness

-----------------------------------------------------------------------------
(* Properties. *)

\* Some task went through every channel that it chose for m.
FullyRouted(m) == \E plan \in planned[m] : \A ch \in plan : <<m, ch>> \in attempted

\* A message leaves the stream's account only after some task has gone through
\* every channel that one routing decision gave it: no crash, reload, late or
\* lost ack, and no copy in another generation's hands settles it earlier
\* (consume acks after route_and_deliver, dispatcher.rs:130-136).
AckedAfterRouting == \A m \in Msgs : status[m] = "acked" => FullyRouted(m)

\* A sink gets a message twice only if the server delivered it twice: the
\* consumers of all generations share one durable, and within a delivery a
\* channel is gone through once.
OnceUnlessRedelivered ==
  \A m \in Msgs, o \in Outlets : <<m, o>> \in repeated => m \in redelivered

\* Source-aware routing (dispatcher.rs:156-164): an answer to an email goes out
\* by email_reply only, never through a bot, and a bot's message goes through
\* that bot, or through "default" when some dispatcher did not know the bot.
StaysInItsThread ==
  \A m \in Msgs, o \in Outlets : <<m, o>> \in delivered =>
    /\ o \in Bots => header[m].source = "telegram"
    /\ o = "email_reply" => header[m].source = "email"
    /\ o \in Bots =>
         \/ o = header[m].bot
         \/ o = "default" /\ \E g \in 1..gen : header[m].bot \notin bots[g]

\* The audit log never claims a delivery that no sink accepted, whatever
\* crashes between the sink and the row.
AuditedWasDelivered ==
  \A row \in audited : \E o \in Outlets : RowTarget(o) = row[2] /\ <<row[1], o>> \in delivered

\* A sink has a message only if some task decided so when it received it: a
\* slow sink or the end of the quiet hours does not change what was decided.
SentOnlyAsPlanned ==
  \A m \in Msgs, o \in Outlets : <<m, o>> \in delivered =>
    \E plan \in planned[m] : \E ch \in plan, g \in 1..gen : SinkFor(g, m, ch) = o

\* A P2 is kept in the log exactly when the clock, as the task reads it on
\* receipt, is within the quiet hours, midnight and the bounds included; no
\* crash, redelivery or reload makes a plan at another time (severity.rs:60-91).
QuietHoursKept ==
  [][\A m \in Msgs : \A plan \in planned'[m] \ planned[m] :
       header[m].parses /\ header[m].severity = "P2" =>
         (plan = {} <=> InClockwiseInterval(Day, QuietStart, QuietEnd, now))]_vars

\* No consumer task is left on stream s, because its own message stream failed.
Unattended(s) ==
  /\ \A t \in Tasks : alive[t] => t[2] # s
  /\ \E t \in failed : t[2] = s

\* Every consumer task of stream s waits for a sink.
Held(s) ==
  /\ \E t \in Tasks : alive[t] /\ t[2] = s
  /\ \A t \in Tasks : alive[t] /\ t[2] = s => Waits(t)

\* Every message that reaches a stream is acked in the end, or makes room for
\* newer ones, whatever crashes, reloads and lost acks come in between, as long
\* as its own stream keeps a consumer that does not wait for a sink for ever:
\* neither the death of the other stream's consumer nor sinks that hang there,
\* nor an older generation that hangs with the message in hand, hold it up
\* (dispatcher.rs:78-79).
EventuallySettled ==
  \A m \in Msgs :
    []<>~Held(header[m].stream) =>
      (Unsettled(m) ~> ~Unsettled(m) \/ Unattended(header[m].stream))

\* The consumer implements the durable stream's promise.
Fate(m) == IF Unsettled(m) THEN "live"
           ELSE IF status[m] = "acked" THEN "settled"
           ELSE status[m]

Promise == INSTANCE AtLeastOnce
  WITH fate <- [m \in Msgs |-> Fate(m)],
       served <- {m \in Msgs : FullyRouted(m)}

PromiseSafety == Promise!Safety

-----------------------------------------------------------------------------
(* The inductive invariant behind AckedAfterRouting, OnceUnlessRedelivered *)
(* and PromiseSafety.                                                      *)

\* A task past its routing decision has gone through the channels of the
\* decision that are no longer in todo; one about to ack, through all of them.
ProgressOf(t) ==
  /\ pc[t] \in {"deliver", "audit"} =>
       \E plan \in planned[cur[t]] :
         \A ch \in plan : ch \in todo[t] \/ <<cur[t], ch>> \in attempted
  /\ pc[t] \in {"log", "ack"} => FullyRouted(cur[t])

RoutingProgress == \A t \in Tasks : ProgressOf(t)

\* Only generations that were spawned work, and only on published messages.
HolderOf(t) ==
  /\ alive[t] \/ pc[t] # "recv" => t[1] <= gen
  /\ pc[t] = "recv" => cur[t] = "none"
  /\ cur[t] \in Msgs => status[cur[t]] # "absent"
  /\ \A i \in 1..Len(buf[t]) : status[buf[t][i]] # "absent"

Holders == \A t \in Tasks : HolderOf(t)

Undelivered(m) == \A o \in Outlets : <<m, o>> \notin delivered

\* A message whose ack wait never expired has one copy among all the tasks of
\* all the generations, and none while the server still has to deliver it; no
\* sink has it while it is in a buffer, and none that its holder has to visit.
SingleCopyOf(m) ==
  /\ status[m] \in {"absent", "due"} => Undelivered(m)
  /\ status[m] = "due" => \A t \in Tasks : cur[t] # m /\ \A i \in 1..Len(buf[t]) : buf[t][i] # m
  /\ \A t, u \in Tasks : cur[t] = m /\ cur[u] = m => t = u
  /\ \A t, u \in Tasks : \A i \in 1..Len(buf[t]) : buf[t][i] = m =>
       /\ cur[u] # m
       /\ Undelivered(m)
       /\ \A j \in 1..Len(buf[u]) : buf[u][j] = m => t = u /\ i = j
  /\ \A t \in Tasks : cur[t] = m =>
       \A ch \in todo[t] : <<m, SinkFor(t[1], m, ch)>> \notin delivered
  /\ \A o \in Outlets : <<m, o>> \notin repeated

SingleCopy == \A m \in Msgs \ redelivered : SingleCopyOf(m)

IInv == TypeOK /\ Holders /\ RoutingProgress /\ AckedAfterRouting /\ SingleCopy

\* What a task has still to go through is of one plan for its message; the
\* invariant behind SentOnlyAsPlanned.
TodoPlanned ==
  \A t \in Tasks : pc[t] \in {"deliver", "audit"} =>
    \E plan \in planned[cur[t]] : todo[t] \subseteq plan

-----------------------------------------------------------------------------
(* What the repository says and the code does not do. *)

\* dispatcher.rs:152, severity.rs:73: a P0 goes to email, ntfy and
\* telegram/email_reply.
P0GoesToEverySink ==
  \A m \in Msgs : status[m] = "acked" /\ header[m].parses /\ header[m].severity = "P0" =>
    \A ch \in SinkChannels : <<m, ch>> \in attempted
=============================================================================
