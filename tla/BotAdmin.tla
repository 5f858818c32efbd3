------------------------------- MODULE BotAdmin -------------------------------
(***************************************************************************)
(* Adding and removing Telegram bots in a running daemon: the admin        *)
(* consumer (admin.rs) edits the credential files and conf.d/bots.toml and *)
(* sends the process a SIGHUP, on which main (main.rs:253-383) loads       *)
(* conf.d into the registry (config.rs), aborts the polling tasks and the  *)
(* admin consumer, and spawns them again.                                  *)
(*                                                                         *)
(* main and the admin consumer run on two threads: one action per step on  *)
(* the files that the other may see, and per stretch between two awaits.   *)
(* An abort takes effect at an await; the stretch of the consumer that     *)
(* edits files has none and is taken to end within the 500 ms that main    *)
(* sleeps before it aborts.                                                *)
(*                                                                         *)
(* Abstracted: allowlists, TOML, the .bak copies (nothing reads them), the *)
(* listeners (handled like the polling tasks), the consumer's answers.     *)
(* Every bot has its credential under the name that admin.rs gives it.  A  *)
(* write of one file is one step, whole or cut short.  A lost ack acts as  *)
(* an abort before it.                                                     *)
(***************************************************************************)
EXTENDS JetStream, FiniteSets

CONSTANTS
  Bots,        \* bot names that conf.d may hold
  Agents,      \* agent names, DefaultAgent among them
  DefaultAgent,
  AgentsFile,  \* the agents of conf.d/agents.toml
  Orders,      \* what commands may ask, a subset of Order
  Prefetch,    \* commands a pull request may buffer
  MaxFaults    \* bound: crashes and mishaps together

Cmds == Msgs

\* valid: the payload parses and its name, token and requester are in order.
Order == [op : {"add", "remove"}, bot : Bots, agent : Agents, valid : BOOLEAN]

ASSUME BotAdminAssumption ==
  /\ Streams = {"AGENTS"}
  /\ "default" \notin Bots
  /\ DefaultAgent \in Agents /\ AgentsFile \subseteq Agents
  /\ Orders \subseteq Order
  /\ Cmds \cap {"none", "first"} = {}
  /\ Prefetch \in Nat \ {0} /\ MaxFaults \in Nat

VARIABLES
  order,     \* order[c]: what command c asks
  (* files *)
  token,     \* token[b]: the command that wrote b's credential, "first" or "none"
  declared,  \* the bots in bots.toml
  temps,     \* temporary files in conf.d
  (* the process *)
  up,
  hup,       \* is a SIGHUP waiting for main
  main,      \* where main's loop is
  listed,    \* the temporary files that main's glob has listed
  entries,   \* entries[b]: how often the registry has bot b
  agents,    \* the registry's agents
  handles,   \* handles[b]: the token of the polling task that main can abort
  strays,    \* <<b, token>>: polling tasks whose handle main has lost
  (* the admin consumer *)
  pc, cmd, buf,
  (* counted against their bound *)
  crashes,
  mishaps,   \* writes that failed, and consumers that did not start
  (* history *)
  doubled,   \* the bots that some load has found twice
  damaged    \* the bots with an edit that failed halfway, or was forgotten before its SIGHUP

fileVars == <<token, declared, temps>>
mainVars == <<hup, main, listed, entries, agents, handles, strays>>
adminVars == <<pc, cmd, buf>>
historyVars == <<doubled, damaged>>
faultVars == <<crashes, mishaps>>
vars == <<jsVars, order, fileVars, up, mainVars, adminVars, faultVars, historyVars>>

Names == Bots \cup {"default"}
Tokens == Cmds \cup {"none", "first"}
TempFile == [faults : 0..MaxFaults, cmd : Cmds, bots : SUBSET Bots, whole : BOOLEAN]

TypeOK ==
  /\ JSTypeOK
  /\ order \in [Cmds -> Orders]
  /\ token \in [Names -> Tokens]
  /\ declared \in SUBSET Bots
  /\ temps \in SUBSET TempFile
  /\ up \in BOOLEAN /\ hup \in BOOLEAN
  /\ main \in {"idle", "temps", "toml", "abort", "respawn"}
  /\ listed \in SUBSET TempFile
  /\ entries \in [Names -> Nat]
  /\ agents \in SUBSET Agents
  /\ handles \in [Names -> Tokens]
  /\ strays \in SUBSET (Names \X Tokens)
  /\ pc \in {"recv", "credential", "temp", "rename", "audit", "ack", "dead"}
  /\ cmd \in Cmds \cup {"none"} /\ (pc \notin {"recv", "dead"} => cmd \in Cmds)
  /\ buf \in Seq(Cmds)
  /\ crashes \in 0..MaxFaults /\ mishaps \in 0..(MaxFaults - crashes)
  /\ doubled \in SUBSET Bots /\ damaged \in SUBSET Bots

-----------------------------------------------------------------------------
(* The registry. *)

\* Registry::load_conf_d: the glob *.toml also matches the temporary files.
LoadConfD(temporary) ==
  [b \in Names |-> Cardinality({f \in temporary : b \in f.bots})
                   + (IF b \in declared THEN 1 ELSE 0)]

\* A file that is not TOML makes load_conf_d fail, and so does one that the glob
\* has listed and that is gone when its turn comes.
Readable(files) == \A f \in files : f.whole /\ f \in temps

Twice(registry) == {b \in Bots : registry[b] > 1}

\* The start of main adds the bot "default" to an empty registry, and the
\* default agent to any.
WithDefault(registry) ==
  IF \A b \in Bots : registry[b] = 0 THEN [registry EXCEPT !["default"] = 1] ELSE registry

\* spawn_all: a polling task per entry that has a credential; a second entry
\* of the same name takes the place of the first one's handle.
SpawnAll(registry) ==
  handles' = [b \in Names |-> IF registry[b] > 0 THEN token[b] ELSE "none"]
SpawnedTwice(registry) ==
  {<<b, token[b]>> : b \in {x \in Twice(registry) : token[x] # "none"}}

-----------------------------------------------------------------------------
\* The daemon has just started, with NATS at hand, on a conf.d in order.
Init ==
  /\ JSInit
  /\ order \in [Cmds -> Orders]
  /\ declared \in SUBSET Bots
  /\ token = [b \in Names |-> IF b \in declared \cup {"default"} THEN "first" ELSE "none"]
  /\ temps = {} /\ listed = {}
  /\ up = TRUE /\ hup = FALSE /\ main = "idle"
  /\ entries = WithDefault(LoadConfD({}))
  /\ agents = AgentsFile \cup {DefaultAgent}
  /\ handles = [b \in Names |-> IF entries[b] > 0 THEN token[b] ELSE "none"]
  /\ strays = {}
  /\ pc = "recv" /\ cmd = "none" /\ buf = <<>>
  /\ crashes = 0 /\ mishaps = 0
  /\ doubled = {} /\ damaged = {}

\* The email source or an operator's skill publishes a command.
Publish(c) ==
  /\ JSPublish(c, "AGENTS")
  /\ UNCHANGED <<order, fileVars, up, mainVars, adminVars, faultVars, historyVars>>

AckWaitExpires(c) ==
  /\ JSAckWaitExpires(c)
  /\ UNCHANGED <<order, fileVars, up, mainVars, adminVars, faultVars, historyVars>>

Mishap == crashes + mishaps < MaxFaults /\ mishaps' = mishaps + 1

-----------------------------------------------------------------------------
(* The admin consumer. *)

\* run finds its stream and its durable and subscribes; an error in that ends it.
StartAdmin ==
  \/ pc' = "recv" /\ UNCHANGED mishaps
  \/ pc' = "dead" /\ Mishap

Fetch(c) ==
  /\ up /\ pc # "dead" /\ Len(buf) < Prefetch
  /\ JSDeliver(c)
  /\ buf' = Append(buf, c)
  /\ UNCHANGED <<order, fileVars, up, mainVars, pc, cmd, faultVars, historyVars>>

\* Validation against the registry of the last load.
Accepted(c) ==
  /\ order[c].valid
  /\ order[c].op = "add" => order[c].agent \in agents
  /\ order[c].op = "remove" => entries[order[c].bot] > 0

Handle ==
  /\ up /\ pc = "recv" /\ buf # <<>>
  /\ cmd' = Head(buf) /\ buf' = Tail(buf)
  /\ pc' = IF Accepted(Head(buf)) THEN "credential" ELSE "ack"
  /\ UNCHANGED <<jsVars, order, fileVars, up, mainVars, faultVars, historyVars>>

\* `?` on a failed write: the command is answered with an error.
Fails ==
  /\ Mishap
  /\ pc' = "ack"
  /\ damaged' = damaged \cup {order[cmd].bot}

\* atomic_write_credential, or the rename to .bak.
WriteCredential ==
  /\ up /\ pc = "credential"
  /\ \/ /\ token' = [token EXCEPT ![order[cmd].bot] =
                       IF order[cmd].op = "add" THEN cmd ELSE "none"]
        /\ pc' = "temp"
        /\ UNCHANGED <<declared, temps, mishaps, damaged>>
     \/ /\ order[cmd].op = "remove" => token[order[cmd].bot] # "none"
        /\ Fails
        /\ UNCHANGED fileVars
  /\ UNCHANGED <<jsVars, order, up, mainVars, cmd, buf, crashes, doubled>>

\* Mutants: the bot's entry is kept; an empty list gets the default bot.
NothingRetired(c) == declared \cup {order[c].bot}
DefaultWhenEmpty(c) ==
  IF order[c].op = "add" THEN declared \cup {order[c].bot}
  ELSE IF declared = {order[c].bot} THEN {"default"} ELSE declared \ {order[c].bot}

\* atomic_write_toml: the new list goes to a temporary file in conf.d first.
Edited(c) == IF order[c].op = "add" THEN declared \cup {order[c].bot}
             ELSE declared \ {order[c].bot}

\* Its name is unique; here the faults so far tell it from those left behind.
MyTemp == [faults |-> crashes + mishaps, cmd |-> cmd, bots |-> Edited(cmd), whole |-> TRUE]

\* fs::write fails halfway, and what it has written stays in conf.d, or nothing is.
CutShort(file) == temps' \in {temps, temps \cup {[file EXCEPT !.whole = FALSE]}}

WriteTemp ==
  /\ up /\ pc = "temp"
  /\ \/ /\ temps' = temps \cup {MyTemp}
        /\ pc' = "rename"
        /\ UNCHANGED <<mishaps, damaged>>
     \/ Fails /\ CutShort(MyTemp)
  /\ UNCHANGED <<jsVars, order, token, declared, up, mainVars, cmd, buf, crashes, doubled>>

\* A rename that fails leaves the temporary file behind.
Rename ==
  /\ up /\ pc = "rename"
  /\ \/ /\ declared' = Edited(cmd)
        /\ temps' = temps \ {MyTemp}
        /\ pc' = "audit"
        /\ UNCHANGED <<token, mishaps, damaged>>
     \/ Fails /\ UNCHANGED fileVars
  /\ UNCHANGED <<jsVars, order, up, mainVars, cmd, buf, crashes, doubled>>

\* Mutant: a removal sends no signal.
SighupAfterAdd ==
  /\ up /\ pc = "audit"
  /\ hup' = (hup \/ order[cmd].op = "add")
  /\ pc' = "ack"
  /\ UNCHANGED <<jsVars, order, fileVars, up, main, listed, entries, agents, handles, strays,
                 cmd, buf, faultVars, historyVars>>

\* The audit row, then send_sighup_self.
SendSighup ==
  /\ up /\ pc = "audit"
  /\ hup' = TRUE
  /\ pc' = "ack"
  /\ UNCHANGED <<jsVars, order, fileVars, up, main, listed, entries, agents, handles, strays,
                 cmd, buf, faultVars, historyVars>>

\* The answer is published and the command acked, carried out or not.
Ack ==
  /\ up /\ pc = "ack"
  /\ JSAck(cmd)
  /\ pc' = "recv" /\ cmd' = "none"
  /\ UNCHANGED <<order, fileVars, up, mainVars, buf, faultVars, historyVars>>

-----------------------------------------------------------------------------
(* main: reload, crash, start. *)

\* Mutant: the signal is not consumed.
SighupStays ==
  /\ up /\ main = "idle" /\ hup
  /\ listed' = temps
  /\ main' = IF temps = {} THEN "toml" ELSE "temps"
  /\ UNCHANGED <<jsVars, order, fileVars, up, hup, entries, agents, handles, strays,
                 adminVars, faultVars, historyVars>>

\* sighup.recv(), which any number of signals wakes once, and the glob.
ReceiveSighup ==
  /\ up /\ main = "idle" /\ hup
  /\ hup' = FALSE
  /\ listed' = temps
  /\ main' = IF temps = {} THEN "toml" ELSE "temps"
  /\ UNCHANGED <<jsVars, order, fileVars, up, entries, agents, handles, strays,
                 adminVars, faultVars, historyVars>>

\* The temporary files come first in the order of names.  If one of them cannot
\* be read the reload is given up, and the registry stays.
ReadTemps ==
  /\ up /\ main = "temps"
  /\ main' = IF Readable(listed) THEN "toml" ELSE "idle"
  /\ listed' = IF Readable(listed) THEN listed ELSE {}
  /\ UNCHANGED <<jsVars, order, fileVars, up, hup, entries, agents, handles, strays,
                 adminVars, faultVars, historyVars>>

\* bots.toml is read last; then the registry is replaced.
ReadToml ==
  /\ up /\ main = "toml"
  /\ entries' = LoadConfD(listed)
  /\ agents' = AgentsFile
  /\ doubled' = doubled \cup Twice(LoadConfD(listed))
  /\ listed' = {}
  /\ main' = "abort"
  /\ UNCHANGED <<jsVars, order, fileVars, up, hup, handles, strays,
                 adminVars, faultVars, damaged>>

\* Mutant: only the polling tasks of removed bots are aborted, as before the
\* fix that main.rs:328 mentions.
AbortRemoved ==
  /\ up /\ main = "abort"
  /\ strays' = strays \cup {<<b, handles[b]>> : b \in
                             {x \in Names : entries[x] > 0 /\ handles[x] # "none"}}
  /\ handles' = [b \in Names |-> "none"]
  /\ main' = "respawn"
  /\ UNCHANGED <<jsVars, order, fileVars, up, hup, listed, entries, agents,
                 adminVars, faultVars, historyVars>>

\* After 5 s for each removed bot all the polling tasks are aborted.
AbortPollers ==
  /\ up /\ main = "abort"
  /\ handles' = [b \in Names |-> "none"]
  /\ main' = "respawn"
  /\ UNCHANGED <<jsVars, order, fileVars, up, hup, listed, entries, agents, strays,
                 adminVars, faultVars, historyVars>>

\* The command will not be carried out when it is delivered again: it is settled,
\* or its agent was only the default one, which the reload has dropped.
Forgotten(c) == ~Unsettled(c) \/ (order[c].op = "add" /\ ~Accepted(c))

\* The admin consumer is aborted at its await, with what it has buffered.
AbortAdmin ==
  /\ cmd' = "none" /\ buf' = <<>>
  /\ damaged' = IF pc = "audit" /\ Forgotten(cmd) THEN damaged \cup {order[cmd].bot}
                ELSE damaged

\* 500 ms later the admin consumer is aborted and spawn_all starts everything
\* anew from the registry and the credentials.
Respawn ==
  /\ up /\ main = "respawn" /\ pc \in {"recv", "audit", "ack", "dead"}
  /\ AbortAdmin /\ StartAdmin
  /\ SpawnAll(entries)
  /\ strays' = strays \cup SpawnedTwice(entries)
  /\ main' = "idle"
  /\ UNCHANGED <<jsVars, order, fileVars, up, hup, listed, entries, agents, crashes, doubled>>

\* The process dies anywhere; the files stay as they are.
Crash ==
  /\ up /\ crashes + mishaps < MaxFaults
  /\ crashes' = crashes + 1
  /\ up' = FALSE /\ hup' = FALSE /\ main' = "idle" /\ listed' = {}
  /\ pc' = "recv" /\ cmd' = "none" /\ buf' = <<>>
  /\ handles' = [b \in Names |-> "none"] /\ strays' = {}
  /\ damaged' = IF pc \in {"temp", "rename"} /\ ~Unsettled(cmd) THEN damaged \cup {order[cmd].bot}
                ELSE damaged
  /\ UNCHANGED <<jsVars, order, fileVars, entries, agents, mishaps, doubled>>

\* A conf.d that cannot be read ends the start with an error, time and again.
Start ==
  /\ ~up /\ Readable(temps)
  /\ up' = TRUE
  /\ StartAdmin
  /\ LET registry == WithDefault(LoadConfD(temps)) IN
       /\ entries' = registry
       /\ SpawnAll(registry)
       /\ strays' = SpawnedTwice(registry)
       /\ doubled' = doubled \cup Twice(registry)
  /\ agents' = AgentsFile \cup {DefaultAgent}
  /\ UNCHANGED <<jsVars, order, fileVars, hup, main, listed, cmd, buf, crashes, damaged>>

-----------------------------------------------------------------------------
AdminStep == Handle \/ WriteCredential \/ WriteTemp \/ Rename \/ SendSighup \/ Ack
MainStep == ReceiveSighup \/ ReadTemps \/ ReadToml \/ AbortPollers \/ Respawn

Next ==
  \/ \E c \in Cmds : Publish(c) \/ AckWaitExpires(c) \/ Fetch(c)
  \/ AdminStep \/ MainStep
  \/ Crash \/ Start

Spec == Init /\ [][Next]_vars

\* main, the consumer's file operations, systemd and the server make progress
\* (weak fairness).  A reload may abort the consumer before it goes on from an
\* await, again and again, but it sleeps 500 ms first: strong fairness says that
\* the consumer is not every time too slow for that.
Fairness ==
  /\ WF_vars(MainStep) /\ WF_vars(Start)
  /\ WF_vars(WriteCredential \/ WriteTemp \/ Rename)
  /\ SF_vars(Handle) /\ SF_vars(SendSighup) /\ SF_vars(Ack)
  /\ \A c \in Cmds : WF_vars(AckWaitExpires(c))
  /\ WF_vars(\E c \in Cmds : Fetch(c))

FairSpec == Spec /\ Fairness

-----------------------------------------------------------------------------
(* Properties. *)

\* c was published and not acked; the full stream may have dropped it halfway.
Open(c) == status[c] \in {"due", "out", "evicted"}
Busy(b) == \E c \in Cmds : order[c].bot = b /\ Open(c)

\* No reload is under way or asked for, nor about to be asked for.
Calm == up /\ main = "idle" /\ ~hup /\ pc \in {"recv", "ack", "dead"}

\* A write that failed halfway has left a file that no reload and no start reads
\* past, until somebody removes it.
Jammed == ~Readable(temps)

\* What a task of b would poll with if a registry had b, or had it not, and what
\* it would poll with if the files were loaded now.
PollsWith(b, present) == IF present THEN token[b] ELSE "none"
InFiles(b, temporary) == b \in declared \/ \E f \in temporary : b \in f.bots
ByConfD(b) == PollsWith(b, InFiles(b, temps))

\* Once nothing is left to do about a bot, it polls with its latest credential
\* if conf.d has it and does not poll otherwise, whatever was aborted, crashed
\* or read halfway in between (admin.rs:8, main.rs:18-23).
CalmMeansConverged ==
  Calm /\ ~Jammed => \A b \in Bots \ damaged : ~Busy(b) => handles[b] = ByConfD(b)

\* bots.toml names no bot without a credential, except while a command that
\* removes the bot is unfinished (credential first, bots.toml second).
CredentialForDeclared ==
  \A b \in declared \ damaged : token[b] = "none" =>
    \E c \in Cmds : /\ order[c].op = "remove" /\ order[c].bot = b
                    /\ Open(c) \/ cmd = c

\* Two polling tasks of one bot only if its entry was loaded twice: a reload
\* aborts all the tasks it knows before it spawns new ones (main.rs:328-339).
OnePollerUnlessDoubled ==
  \A b \in Bots \ doubled, t \in Tokens : <<b, t>> \notin strays

\* Commands and reloads come to an end: main is idle for good and every command
\* is settled, although reloads abort the consumer and commands come back; or the
\* consumer of the last start or reload did not find NATS (admin.rs:111-136), or
\* conf.d is jammed by a write that failed.
Quiet == Calm /\ (pc = "dead" \/ (pc = "recv" /\ \A c \in Cmds : ~Unsettled(c)))
EventuallyQuiet == <>[](Quiet \/ Jammed)

-----------------------------------------------------------------------------
(* What the proofs of the properties need besides (BotAdmin_proofs). *)

\* Where main stands with the files it has listed.  One that has vanished since
\* was renamed, and the rename's SIGHUP is still to be received.
Listing ==
  /\ IsFiniteSet(temps) /\ IsFiniteSet(listed)
  /\ main \notin {"temps", "toml"} => listed = {}
  /\ \A f \in listed \ temps : f.whole /\ (hup \/ pc = "audit")
  /\ ~up => main = "idle" /\ pc = "recv"

\* A command that is being carried out is a valid one, has written its
\* credential before anything else, and removes only what is loaded.
Editing ==
  /\ pc \in {"credential", "temp", "rename", "audit"} => order[cmd].valid
  /\ pc = "credential" /\ order[cmd].op = "remove" /\ order[cmd].bot \in declared =>
       entries[order[cmd].bot] > 0
  /\ pc \in {"temp", "rename", "audit"} =>
       (token[order[cmd].bot] = "none" <=> order[cmd].op = "remove")

\* The removal of b is half done, and nobody was told that it has failed.
HalfRemoved(b) == b \in declared \ damaged /\ token[b] = "none"

Removes(c, b) == order[c].valid /\ order[c].op = "remove" /\ order[c].bot = b

\* The command that has removed half of b is at work or is accepted again, as b
\* stays loaded; no command about b ends while b is like that.
Removal ==
  \A b \in Bots : HalfRemoved(b) =>
    /\ up => entries[b] > 0
    /\ \E c \in Cmds : Removes(c, b) /\ (Open(c) \/ (cmd = c /\ pc \in {"temp", "rename"}))
    /\ pc \in {"audit", "ack"} => ~Removes(cmd, b)

\* A command about b is between its credential and its rename.
Midway(b) == pc \in {"temp", "rename"} /\ order[cmd].bot = b

\* A command that adds b was interrupted and will be accepted when it comes back.
Redone(b) ==
  \E c \in Cmds : /\ order[c].op = "add" /\ order[c].bot = b /\ Accepted(c)
                  /\ Open(c) /\ ~(cmd = c /\ pc \in {"audit", "ack"})

\* What running bots and files differ in is on its way: as long as main is idle a
\* SIGHUP will come, and a reload sees what it has not read yet.
Converging(b) ==
  \/ Midway(b)
  \/ /\ main = "idle"
     /\ handles[b] = ByConfD(b) \/ hup \/ pc = "audit" \/ Redone(b)
  \/ /\ main \in {"temps", "toml"}
     /\ PollsWith(b, InFiles(b, listed)) = ByConfD(b)
  \/ /\ main \in {"abort", "respawn"}
     /\ \/ PollsWith(b, entries[b] > 0) = ByConfD(b)
        \/ hup
        \/ pc = "audit" /\ order[cmd].bot = b

TwiceIsDoubled == Twice(entries) \subseteq doubled /\ OnePollerUnlessDoubled

Converges == up /\ ~Jammed => \A b \in Bots \ damaged : Converging(b)

IInv == TypeOK /\ Listing /\ Editing /\ Removal /\ TwiceIsDoubled /\ Converges

-----------------------------------------------------------------------------
(* What the repository says and the code does not do. *)

\* main.rs:328-331: no two polling tasks for one bot.
OnePollerPerBot == \A b \in Bots : handles[b] # "none" => \A t \in Tokens : <<b, t>> \notin strays
=============================================================================
