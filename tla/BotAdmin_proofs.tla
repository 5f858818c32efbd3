---------------------------- MODULE BotAdmin_proofs ----------------------------
(***************************************************************************)
(* Adding and removing bots, for every set of bots, agents and commands,   *)
(* every capacity of the stream and any number of faults.                  *)
(***************************************************************************)
EXTENDS BotAdmin, JetStream_proofs, FiniteSetTheorems

USE DEF Cmds

-----------------------------------------------------------------------------
(* Type correctness. *)

FilesFinite == IsFiniteSet(temps) /\ IsFiniteSet(listed)

LEMMA ConstantTypes ==
  /\ "AGENTS" \in Streams /\ "default" \notin Bots /\ Bots \subseteq Names
  /\ AgentsFile \cup {DefaultAgent} \subseteq Agents /\ AgentsFile \subseteq Agents
  /\ MaxFaults \in Nat /\ "none" \notin Msgs /\ "first" \notin Msgs
BY BotAdminAssumption DEF Names

LEMMA OrderType ==
  ASSUME TypeOK, NEW c \in Msgs
  PROVE  /\ order[c].op \in {"add", "remove"} /\ order[c].bot \in Bots
         /\ order[c].agent \in Agents /\ order[c].valid \in BOOLEAN
<1>1. order[c] \in Order
  BY BotAdminAssumption DEF TypeOK
<1> QED BY <1>1 DEF Order

\* A registry has a bot if one of the files that were loaded has it.
LEMMA RegistryType ==
  ASSUME NEW files, IsFiniteSet(files)
  PROVE  LET loaded == LoadConfD(files) IN
         /\ loaded \in [Names -> Nat] /\ WithDefault(loaded) \in [Names -> Nat]
         /\ \A b \in Bots : /\ WithDefault(loaded)[b] = loaded[b]
                            /\ loaded[b] > 0 <=> InFiles(b, files)
<1>1. ASSUME NEW b
      PROVE  LET having == {f \in files : b \in f.bots} IN
             Cardinality(having) \in Nat /\ (Cardinality(having) = 0 <=> having = {})
  <2> DEFINE having == {f \in files : b \in f.bots}
  <2>1. IsFiniteSet(having)
    BY FS_Subset
  <2> HIDE DEF having
  <2>2. Cardinality(having) \in Nat /\ (Cardinality(having) = 0 <=> having = {})
    BY <2>1, FS_CardinalityType, FS_EmptySet
  <2> QED BY <2>2 DEF having
<1>2. LoadConfD(files) \in [Names -> Nat]
  BY <1>1 DEF LoadConfD
<1>3. WithDefault(LoadConfD(files)) \in [Names -> Nat]
  BY <1>2 DEF WithDefault
<1>4. ASSUME NEW b \in Bots
      PROVE  /\ WithDefault(LoadConfD(files))[b] = LoadConfD(files)[b]
             /\ LoadConfD(files)[b] > 0 <=> InFiles(b, files)
  <2>1. b \in Names /\ b # "default"
    BY ConstantTypes
  <2>2. WithDefault(LoadConfD(files))[b] = LoadConfD(files)[b]
    BY <1>2, <2>1 DEF WithDefault
  <2>3. LoadConfD(files)[b] = Cardinality({f \in files : b \in f.bots})
                              + (IF b \in declared THEN 1 ELSE 0)
    BY <2>1 DEF LoadConfD
  <2>4. LoadConfD(files)[b] > 0 <=>
          b \in declared \/ Cardinality({f \in files : b \in f.bots}) # 0
    BY <1>1, <2>3
  <2>5. Cardinality({f \in files : b \in f.bots}) = 0 <=> ~\E f \in files : b \in f.bots
    BY <1>1
  <2> QED BY <2>2, <2>4, <2>5 DEF InFiles
<1> QED BY <1>2, <1>3, <1>4

LEMMA TypeInit == Init => TypeOK /\ FilesFinite
<1> SUFFICES ASSUME Init PROVE TypeOK /\ FilesFinite
  OBVIOUS
<1>1. FilesFinite
  BY FS_EmptySet DEF Init, FilesFinite
<1>2. entries \in [Names -> Nat]
  <2>1. Cardinality({f \in {} : FALSE}) = 0
    BY FS_EmptySet
  <2>2. \A b : {f \in {} : b \in f.bots} = {}
    OBVIOUS
  <2>3. LoadConfD({}) \in [Names -> Nat]
    BY <2>2, FS_EmptySet DEF LoadConfD
  <2> QED BY <2>3 DEF Init, WithDefault
<1>3. token \in [Names -> Tokens]
  BY DEF Init, Tokens
<1>4. handles \in [Names -> Tokens]
  BY <1>3 DEF Init, Tokens
<1>5. agents \in SUBSET Agents
  BY ConstantTypes DEF Init
<1>6. JSTypeOK
  BY JSInitType DEF Init
<1>7. crashes \in 0..MaxFaults /\ mishaps \in 0..(MaxFaults - crashes)
  BY ConstantTypes DEF Init
<1>8. buf \in Seq(Cmds)
  BY DEF Init
<1> QED BY <1>1, <1>2, <1>3, <1>4, <1>5, <1>6, <1>7, <1>8 DEF Init, TypeOK

LEMMA EditType ==
  ASSUME TypeOK, cmd \in Msgs
  PROVE  /\ Edited(cmd) \in SUBSET Bots /\ Edited(cmd) \subseteq declared \cup {order[cmd].bot}
         /\ declared \ {order[cmd].bot} \subseteq Edited(cmd)
         /\ MyTemp \in TempFile /\ [MyTemp EXCEPT !.whole = FALSE] \in TempFile
<1>1. order[cmd].bot \in Bots /\ declared \in SUBSET Bots
  BY OrderType DEF TypeOK
<1>2. /\ Edited(cmd) \in SUBSET Bots /\ Edited(cmd) \subseteq declared \cup {order[cmd].bot}
      /\ declared \ {order[cmd].bot} \subseteq Edited(cmd)
  BY <1>1 DEF Edited
<1>3. crashes + mishaps \in 0..MaxFaults
  BY ConstantTypes DEF TypeOK
<1> HIDE DEF Edited
<1> QED BY <1>2, <1>3 DEF MyTemp, TempFile

LEMMA FailsType ==
  ASSUME TypeOK, cmd \in Msgs, Fails
  PROVE  /\ mishaps' \in 0..(MaxFaults - crashes) /\ pc' = "ack"
         /\ damaged' = damaged \cup {order[cmd].bot} /\ damaged' \in SUBSET Bots
<1>1. mishaps' \in 0..(MaxFaults - crashes)
  BY ConstantTypes DEF Fails, Mishap, TypeOK
<1> QED BY <1>1, OrderType DEF Fails, TypeOK

LEMMA StartAdminType ==
  ASSUME TypeOK, StartAdmin
  PROVE  pc' \in {"recv", "dead"} /\ mishaps' \in 0..(MaxFaults - crashes)
BY ConstantTypes DEF StartAdmin, Mishap, TypeOK

LEMMA SpawnType ==
  ASSUME TypeOK, NEW registry
  PROVE  /\ [b \in Names |-> IF registry[b] > 0 THEN token[b] ELSE "none"] \in [Names -> Tokens]
         /\ SpawnedTwice(registry) \subseteq Names \X Tokens
         /\ Twice(registry) \subseteq Bots
BY ConstantTypes DEF TypeOK, Tokens, SpawnedTwice, Twice

LEMMA TypeStep == TypeOK /\ FilesFinite /\ [Next]_vars => TypeOK' /\ FilesFinite'
<1> SUFFICES ASSUME TypeOK, FilesFinite, [Next]_vars PROVE TypeOK' /\ FilesFinite'
  OBVIOUS
<1> USE DEF fileVars, mainVars, adminVars, historyVars, faultVars, jsVars
<1>0. JSTypeOK
  BY DEF TypeOK
<1>1. ASSUME NEW c \in Msgs, Publish(c) \/ AckWaitExpires(c) \/ Fetch(c)
      PROVE  TypeOK' /\ FilesFinite'
  <2>1. JSTypeOK'
    BY <1>0, <1>1, JSPublishType, JSStepType, ConstantTypes DEF Publish, AckWaitExpires, Fetch
  <2>2. buf' \in {buf, Append(buf, c)}
    BY <1>1 DEF Publish, AckWaitExpires, Fetch
  <2>3. buf \in Seq(Msgs) /\ Append(buf, c) \in Seq(Msgs)
    BY DEF TypeOK
  <2> QED BY <1>1, <2>1, <2>2, <2>3 DEF Publish, AckWaitExpires, Fetch, TypeOK, FilesFinite
<1>2. CASE Handle
  <2>1. cmd' \in Msgs /\ buf' \in Seq(Msgs) /\ pc' \in {"credential", "ack"}
    BY <1>2 DEF Handle, TypeOK
  <2> QED BY <1>2, <2>1 DEF Handle, TypeOK, JSTypeOK, FilesFinite
<1>3. CASE WriteCredential
  <2>1. cmd \in Msgs /\ order[cmd].bot \in Names
    BY <1>3, OrderType, ConstantTypes DEF WriteCredential, TypeOK
  <2>2. /\ token' \in [Names -> Tokens] /\ mishaps' \in 0..(MaxFaults - crashes)
        /\ pc' \in {"temp", "ack"} /\ damaged' \in SUBSET Bots
        /\ UNCHANGED <<declared, temps>>
    BY <1>3, <2>1, FailsType DEF WriteCredential, TypeOK, Tokens
  <2> QED BY <1>3, <2>1, <2>2 DEF WriteCredential, TypeOK, JSTypeOK, FilesFinite
<1>4. CASE WriteTemp
  <2>1. cmd \in Msgs
    BY <1>4 DEF WriteTemp, TypeOK
  <2>2. MyTemp \in TempFile /\ [MyTemp EXCEPT !.whole = FALSE] \in TempFile
    BY <2>1, EditType
  <2>3. PICK file \in TempFile : temps' \in {temps, temps \cup {file}}
    BY <1>4, <2>2 DEF WriteTemp, CutShort
  <2>4. temps' \in SUBSET TempFile /\ FilesFinite'
    BY <1>4, <2>3, FS_AddElement DEF WriteTemp, FilesFinite, TypeOK
  <2>5. /\ mishaps' \in 0..(MaxFaults - crashes) /\ damaged' \in SUBSET Bots
        /\ pc' \in {"rename", "ack"}
    BY <1>4, <2>1, FailsType DEF WriteTemp, TypeOK
  <2> QED BY <1>4, <2>1, <2>4, <2>5 DEF WriteTemp, TypeOK, JSTypeOK
<1>5. CASE Rename
  <2>1. cmd \in Msgs
    BY <1>5 DEF Rename, TypeOK
  <2>2. /\ mishaps' \in 0..(MaxFaults - crashes) /\ damaged' \in SUBSET Bots
        /\ pc' \in {"audit", "ack"} /\ token' = token
    BY <1>5, <2>1, FailsType DEF Rename, TypeOK
  <2>3. declared' \in SUBSET Bots
    BY <1>5, <2>1, EditType DEF Rename, TypeOK
  <2>4. temps' \in {temps, temps \ {MyTemp}}
    BY <1>5 DEF Rename
  <2>5. temps' \in SUBSET TempFile /\ FilesFinite'
    BY <1>5, <2>4, FS_RemoveElement DEF Rename, FilesFinite, TypeOK
  <2> QED BY <1>5, <2>1, <2>2, <2>3, <2>5 DEF Rename, TypeOK, JSTypeOK
<1>6. CASE SendSighup
  BY <1>6 DEF SendSighup, TypeOK, JSTypeOK, FilesFinite
<1>7. CASE Ack
  <2>1. JSTypeOK'
    BY <1>0, <1>7, JSStepType DEF Ack, TypeOK
  <2> QED BY <1>7, <2>1 DEF Ack, TypeOK, FilesFinite
<1>8. CASE ReceiveSighup
  BY <1>8 DEF ReceiveSighup, TypeOK, JSTypeOK, FilesFinite
<1>9. CASE ReadTemps
  BY <1>9, FS_EmptySet DEF ReadTemps, TypeOK, JSTypeOK, FilesFinite
<1>10. CASE ReadToml
  <2>1. entries' \in [Names -> Nat]
    BY <1>10, RegistryType DEF ReadToml, FilesFinite
  <2>2. doubled' \in SUBSET Bots /\ agents' \in SUBSET Agents
    BY <1>10, SpawnType, ConstantTypes DEF ReadToml, TypeOK
  <2> QED BY <1>10, <2>1, <2>2, FS_EmptySet DEF ReadToml, TypeOK, JSTypeOK, FilesFinite
<1>11. CASE AbortPollers
  <2>1. handles' \in [Names -> Tokens]
    BY <1>11 DEF AbortPollers, Tokens
  <2> QED BY <1>11, <2>1 DEF AbortPollers, TypeOK, JSTypeOK, FilesFinite
<1>12. CASE Respawn
  <2>1. pc' \in {"recv", "dead"} /\ mishaps' \in 0..(MaxFaults - crashes)
    BY <1>12, StartAdminType DEF Respawn
  <2>2. handles' \in [Names -> Tokens] /\ strays' \in SUBSET (Names \X Tokens)
    BY <1>12, SpawnType DEF Respawn, SpawnAll, TypeOK
  <2>3. damaged' \in SUBSET Bots
    BY <1>12, OrderType DEF Respawn, AbortAdmin, TypeOK
  <2>4. cmd' = "none" /\ buf' \in Seq(Msgs)
    BY <1>12 DEF Respawn, AbortAdmin
  <2> QED BY <1>12, <2>1, <2>2, <2>3, <2>4 DEF Respawn, TypeOK, JSTypeOK, FilesFinite
<1>13. CASE Crash
  <2>1. handles' \in [Names -> Tokens] /\ buf' \in Seq(Msgs)
    BY <1>13 DEF Crash, Tokens
  <2>2. damaged' \in SUBSET Bots
    BY <1>13, OrderType DEF Crash, TypeOK
  <2>3. crashes' \in 0..MaxFaults /\ mishaps' \in 0..(MaxFaults - crashes')
    BY <1>13, ConstantTypes DEF Crash, TypeOK
  <2> QED BY <1>13, <2>1, <2>2, <2>3, FS_EmptySet DEF Crash, TypeOK, JSTypeOK, FilesFinite
<1>14. CASE Start
  <2>1. pc' \in {"recv", "dead"} /\ mishaps' \in 0..(MaxFaults - crashes)
    BY <1>14, StartAdminType DEF Start
  <2> DEFINE registry == WithDefault(LoadConfD(temps))
  <2>2. registry \in [Names -> Nat]
    BY RegistryType DEF FilesFinite
  <2>3. /\ entries' = registry /\ SpawnAll(registry) /\ strays' = SpawnedTwice(registry)
        /\ doubled' = doubled \cup Twice(registry)
    BY <1>14 DEF Start
  <2> HIDE DEF registry
  <2>4. /\ handles' \in [Names -> Tokens] /\ strays' \in SUBSET (Names \X Tokens)
        /\ doubled' \in SUBSET Bots
    BY <2>3, SpawnType DEF SpawnAll, TypeOK
  <2>5. agents' \in SUBSET Agents
    BY <1>14, ConstantTypes DEF Start
  <2> QED BY <1>14, <2>1, <2>2, <2>3, <2>4, <2>5 DEF Start, TypeOK, JSTypeOK, FilesFinite
<1>15. CASE UNCHANGED vars
  BY <1>15 DEF vars, TypeOK, JSTypeOK, FilesFinite
<1> QED
  BY <1>1, <1>2, <1>3, <1>4, <1>5, <1>6, <1>7, <1>8, <1>9, <1>10, <1>11, <1>12, <1>13, <1>14, <1>15
     DEF Next, AdminStep, MainStep

\* Every variable keeps its type, whatever is ordered, fails or dies
\* (admin.rs:110-528, main.rs:253-383).
THEOREM BotAdminTypeCorrect == Spec => []TypeOK
<1>1. TypeOK /\ FilesFinite /\ [Next]_vars => (TypeOK /\ FilesFinite)'
  BY TypeStep
<1> QED BY <1>1, TypeInit, PTL DEF Spec

-----------------------------------------------------------------------------
(* Polling tasks that nobody can abort. *)

LEMMA TwiceInit == Init => TwiceIsDoubled
<1> SUFFICES ASSUME Init PROVE TwiceIsDoubled
  OBVIOUS
<1>1. ASSUME NEW b \in Bots PROVE entries[b] <= 1
  <2>1. {f \in {} : b \in f.bots} = {} /\ b \in Names /\ b # "default"
    BY ConstantTypes
  <2>2. LoadConfD({})[b] = 0 + (IF b \in declared THEN 1 ELSE 0)
    BY <2>1, FS_EmptySet DEF LoadConfD
  <2>3. WithDefault(LoadConfD({}))[b] = LoadConfD({})[b]
    BY RegistryType, FS_EmptySet
  <2> QED BY <2>2, <2>3 DEF Init
<1> QED BY <1>1, TypeInit DEF Init, TwiceIsDoubled, OnePollerUnlessDoubled, Twice, TypeOK, Names

LEMMA TwiceStep == TypeOK /\ TwiceIsDoubled /\ [Next]_vars => TwiceIsDoubled'
<1> SUFFICES ASSUME TypeOK, TwiceIsDoubled, [Next]_vars PROVE TwiceIsDoubled'
  OBVIOUS
<1> USE DEF TwiceIsDoubled, OnePollerUnlessDoubled, mainVars, historyVars
<1>1. CASE UNCHANGED <<entries, strays, doubled>>
  BY <1>1 DEF Twice
<1>2. CASE ReadToml
  BY <1>2 DEF ReadToml, Twice
<1>3. CASE Respawn
  BY <1>3 DEF Respawn, SpawnedTwice, Twice
<1>4. CASE Crash
  BY <1>4 DEF Crash, Twice
<1>5. CASE Start
  BY <1>5 DEF Start, SpawnedTwice, Twice
<1> QED
  BY <1>1, <1>2, <1>3, <1>4, <1>5
     DEF Next, AdminStep, MainStep, Publish, AckWaitExpires, Fetch, Handle, WriteCredential,
         WriteTemp, Rename, SendSighup, Ack, ReceiveSighup, ReadTemps, AbortPollers, vars

\* A reload leaves no polling task behind but the second one of an entry that it, or
\* an earlier one of the process, has loaded twice (main.rs:328-339, :426-463).
THEOREM NoSecondPoller == Spec => []OnePollerUnlessDoubled
<1>1. TypeOK /\ FilesFinite /\ TwiceIsDoubled /\ [Next]_vars
        => (TypeOK /\ FilesFinite /\ TwiceIsDoubled)'
  BY TypeStep, TwiceStep
<1>2. TwiceIsDoubled => OnePollerUnlessDoubled
  BY DEF TwiceIsDoubled
<1> QED BY <1>1, <1>2, TypeInit, TwiceInit, PTL DEF Spec

-----------------------------------------------------------------------------
(* The files that main has listed, and the command at work. *)

LEMMA OrderStays == [Next]_vars => order' = order
BY DEF Next, AdminStep, MainStep, Publish, AckWaitExpires, Fetch, Handle, WriteCredential,
       WriteTemp, Rename, SendSighup, Ack, ReceiveSighup, ReadTemps, ReadToml, AbortPollers,
       Respawn, Crash, Start, vars

LEMMA ListingInit == Init => Listing
BY FS_EmptySet DEF Init, Listing

LEMMA ListingStep == TypeOK /\ Listing /\ [Next]_vars => Listing'
<1> SUFFICES ASSUME TypeOK, Listing, [Next]_vars PROVE Listing'
  OBVIOUS
<1>0. FilesFinite'
  BY TypeStep DEF Listing, FilesFinite
<1>a. /\ main \notin {"temps", "toml"} => listed = {}
      /\ \A f \in listed \ temps : f.whole /\ (hup \/ pc = "audit")
      /\ ~up => main = "idle" /\ pc = "recv"
  BY DEF Listing
<1> SUFFICES /\ main' \notin {"temps", "toml"} => listed' = {}
             /\ \A f \in listed' \ temps' : f.whole /\ (hup' \/ pc' = "audit")
             /\ ~up' => main' = "idle" /\ pc' = "recv"
  BY <1>0 DEF Listing, FilesFinite
<1> USE DEF fileVars, mainVars, adminVars, historyVars, faultVars, jsVars
<1>1. ASSUME NEW c \in Msgs, Publish(c) \/ AckWaitExpires(c) \/ Fetch(c)
      PROVE  UNCHANGED <<main, listed, temps, hup, pc, up>>
  BY <1>1 DEF Publish, AckWaitExpires, Fetch
<1>2. CASE UNCHANGED <<main, listed, temps, hup, pc, up>>
  BY <1>a, <1>2
<1>3. CASE Handle \/ WriteCredential \/ SendSighup \/ Ack
  BY <1>a, <1>3 DEF Handle, WriteCredential, Fails, SendSighup, Ack
<1>4. CASE WriteTemp
  <2>1. temps \subseteq temps' /\ UNCHANGED <<main, listed, hup, up>> /\ up /\ pc = "temp"
    BY <1>4 DEF WriteTemp, CutShort
  <2> QED BY <1>a, <2>1
<1>5. CASE Rename
  <2>1. UNCHANGED <<main, listed, hup, up>> /\ up /\ pc = "rename"
    BY <1>5 DEF Rename
  <2>2. \/ temps' = temps \ {MyTemp} /\ pc' = "audit"
        \/ temps' = temps
    BY <1>5 DEF Rename
  <2>3. MyTemp.whole
    BY DEF MyTemp
  <2> QED BY <1>a, <2>1, <2>2, <2>3
<1>6. CASE ReceiveSighup
  BY <1>6 DEF ReceiveSighup
<1>7. CASE ReadTemps
  BY <1>a, <1>7 DEF ReadTemps
<1>8. CASE ReadToml \/ AbortPollers
  BY <1>a, <1>8 DEF ReadToml, AbortPollers
<1>9. CASE Respawn
  BY <1>a, <1>9 DEF Respawn
<1>10. CASE Crash \/ Start
  BY <1>a, <1>10 DEF Crash, Start
<1>11. CASE UNCHANGED vars
  BY <1>2, <1>11 DEF vars
<1> QED
  BY <1>1, <1>2, <1>3, <1>4, <1>5, <1>6, <1>7, <1>8, <1>9, <1>10, <1>11
     DEF Next, AdminStep, MainStep

LEMMA EditingInit == Init => Editing
BY DEF Init, Editing

LEMMA EditingStep == TypeOK /\ Listing /\ Editing /\ [Next]_vars => Editing'
<1> SUFFICES ASSUME TypeOK, Listing, Editing, [Next]_vars PROVE Editing'
  OBVIOUS
<1>0. order' = order
  BY OrderStays
<1> USE DEF fileVars, mainVars, adminVars, historyVars, faultVars, jsVars, Editing
<1>1. ASSUME NEW c \in Msgs, Publish(c) \/ AckWaitExpires(c) \/ Fetch(c)
      PROVE  UNCHANGED <<cmd, pc, token, declared, entries>>
  BY <1>1 DEF Publish, AckWaitExpires, Fetch
<1>2. CASE UNCHANGED <<cmd, pc, token, declared, entries>>
  BY <1>0, <1>2
<1>3. CASE Handle
  <2>1. UNCHANGED <<token, declared, entries>> /\ pc' \in {"credential", "ack"}
    BY <1>3 DEF Handle
  <2>2. pc' = "credential" => Accepted(cmd')
    BY <1>3 DEF Handle
  <2> QED BY <1>0, <2>1, <2>2 DEF Accepted
<1>4. CASE WriteCredential
  <2>1. cmd \in Msgs /\ order[cmd].bot \in Names /\ order[cmd].op \in {"add", "remove"}
    BY <1>4, OrderType, ConstantTypes DEF WriteCredential, TypeOK
  <2>2. pc = "credential" /\ UNCHANGED <<cmd, declared, entries>>
    BY <1>4 DEF WriteCredential
  <2>3. \/ pc' = "ack"
        \/ /\ pc' = "temp"
           /\ token'[order[cmd].bot] = IF order[cmd].op = "add" THEN cmd ELSE "none"
    BY <1>4, <2>1 DEF WriteCredential, Fails, TypeOK
  <2> QED BY <1>0, <2>1, <2>2, <2>3, ConstantTypes
<1>5. CASE WriteTemp \/ Rename \/ SendSighup \/ Ack
  BY <1>0, <1>5 DEF WriteTemp, Rename, SendSighup, Ack, Fails
<1>6. CASE ReadToml
  <2>1. UNCHANGED <<cmd, pc, token, declared>>
    BY <1>6 DEF ReadToml
  <2>2. \A b \in Bots : b \in declared => entries'[b] > 0
    BY <1>6, RegistryType DEF ReadToml, Listing, InFiles
  <2>3. pc = "credential" => order[cmd].bot \in Bots
    BY OrderType DEF TypeOK
  <2> QED BY <1>0, <2>1, <2>2, <2>3
<1>7. CASE Respawn \/ Crash \/ Start
  BY <1>7 DEF Respawn, Crash, Start, StartAdmin
<1>8. CASE ReceiveSighup \/ ReadTemps \/ AbortPollers \/ UNCHANGED vars
  BY <1>2, <1>8 DEF ReceiveSighup, ReadTemps, AbortPollers, vars
<1> QED
  BY <1>1, <1>2, <1>3, <1>4, <1>5, <1>6, <1>7, <1>8 DEF Next, AdminStep, MainStep

-----------------------------------------------------------------------------
(* Half-done removals. *)

\* Only the ack of a command settles it.
LEMMA OpenStays ==
  ASSUME TypeOK, [Next]_vars, NEW c \in Msgs, Open(c), ~(Ack /\ cmd = c)
  PROVE  Open(c)'
<1> USE DEF Open, jsVars
<1>0. status \in [Msgs -> Statuses]
  BY DEF TypeOK, JSTypeOK
<1>1. CASE UNCHANGED status
  BY <1>1
<1>2. ASSUME NEW d \in Msgs, Publish(d) PROVE Open(c)'
  BY <1>0, <1>2 DEF Publish, JSPublish, Unsettled
<1>3. ASSUME NEW d \in Msgs, AckWaitExpires(d) \/ Fetch(d) PROVE Open(c)'
  BY <1>0, <1>3 DEF AckWaitExpires, Fetch, JSAckWaitExpires, JSDeliver
<1>4. CASE Ack
  BY <1>0, <1>4 DEF Ack, JSAck
<1> QED
  BY <1>1, <1>2, <1>3, <1>4
     DEF Next, AdminStep, MainStep, Handle, WriteCredential, WriteTemp, Rename, SendSighup,
         ReceiveSighup, ReadTemps, ReadToml, AbortPollers, Respawn, Crash, Start, vars

\* A removal is half done from the step on that takes the credential.
LEMMA HalfRemovedBefore ==
  ASSUME TypeOK, Editing, [Next]_vars, NEW b \in Bots, HalfRemoved(b)'
  PROVE  \/ HalfRemoved(b)
         \/ WriteCredential /\ Removes(cmd, b) /\ cmd' = cmd /\ pc' = "temp"
<1>a. b \in declared' /\ b \notin damaged' /\ token'[b] = "none" /\ b \in Names
  BY ConstantTypes DEF HalfRemoved
<1> USE DEF HalfRemoved, fileVars, mainVars, adminVars, historyVars, faultVars, jsVars
<1>1. CASE UNCHANGED <<declared, token>> /\ damaged \subseteq damaged'
  BY <1>1, <1>a
<1>2. CASE WriteCredential
  <2>1. cmd \in Msgs /\ order[cmd].bot \in Names /\ order[cmd].op \in {"add", "remove"}
        /\ order[cmd].valid
    BY <1>2, OrderType, ConstantTypes DEF WriteCredential, TypeOK, Editing
  <2>2. \/ token' = token /\ damaged \subseteq damaged'
        \/ /\ token' = [token EXCEPT ![order[cmd].bot] =
                          IF order[cmd].op = "add" THEN cmd ELSE "none"]
           /\ pc' = "temp" /\ damaged' = damaged
    BY <1>2 DEF WriteCredential, Fails
  <2>3. declared' = declared /\ cmd' = cmd
    BY <1>2 DEF WriteCredential
  <2>4. CASE order[cmd].bot = b /\ token' # token
    <3>1. token'[b] = IF order[cmd].op = "add" THEN cmd ELSE "none"
      BY <1>a, <2>2, <2>4 DEF TypeOK
    <3>2. order[cmd].op = "remove"
      BY <1>a, <2>1, <3>1, ConstantTypes
    <3> QED BY <1>2, <2>1, <2>2, <2>3, <2>4, <3>2 DEF Removes
  <2>5. CASE order[cmd].bot # b \/ token' = token
    <3>1. token'[b] = token[b] /\ damaged \subseteq damaged'
      BY <1>a, <2>1, <2>2, <2>5 DEF TypeOK
    <3> QED BY <1>a, <2>3, <3>1
  <2> QED BY <2>4, <2>5
<1>3. CASE Rename
  <2>1. token' = token /\ damaged \subseteq damaged'
    BY <1>3 DEF Rename, Fails
  <2>2. CASE declared' = declared
    BY <1>a, <2>1, <2>2
  <2>3. CASE declared' = Edited(cmd)
    <3>1. b = order[cmd].bot /\ order[cmd].op = "add" => token[b] # "none"
      BY <1>3, <1>a DEF Rename, Editing
    <3> QED BY <1>a, <2>1, <2>3, <3>1 DEF Edited
  <2> QED BY <1>3, <2>2, <2>3 DEF Rename
<1>4. CASE WriteTemp \/ Respawn \/ Crash
  BY <1>1, <1>4 DEF WriteTemp, Fails, Respawn, AbortAdmin, Crash
<1> QED
  BY <1>1, <1>2, <1>3, <1>4
     DEF Next, AdminStep, MainStep, Publish, AckWaitExpires, Fetch, Handle, SendSighup, Ack,
         ReceiveSighup, ReadTemps, ReadToml, AbortPollers, Start, vars

\* As long as b is in bots.toml, the registry has it.
LEMMA StaysLoaded ==
  ASSUME TypeOK, Listing, [Next]_vars, NEW b \in Bots, b \in declared,
         up => entries[b] > 0, up'
  PROVE  entries'[b] > 0
<1>1. CASE ReadToml
  BY <1>1, RegistryType DEF ReadToml, Listing, InFiles
<1>2. CASE Start
  BY <1>2, RegistryType DEF Start, Listing, InFiles
<1>3. CASE entries' = entries /\ up' = up
  BY <1>3
<1> QED
  BY <1>1, <1>2, <1>3
     DEF Next, AdminStep, MainStep, Publish, AckWaitExpires, Fetch, Handle, WriteCredential,
         WriteTemp, Rename, SendSighup, Ack, ReceiveSighup, ReadTemps, AbortPollers, Respawn,
         Crash, vars, mainVars

LEMMA RemovalInit == Init => Removal
BY DEF Init, Removal, HalfRemoved, Names

LEMMA RemovalStep ==
  TypeOK /\ Listing /\ Editing /\ Removal /\ [Next]_vars => Removal'
<1> SUFFICES ASSUME TypeOK, Listing, Editing, Removal, [Next]_vars,
                    NEW b \in Bots, HalfRemoved(b)'
             PROVE  /\ up' => entries'[b] > 0
                    /\ \E c \in Msgs : Removes(c, b)' /\
                         (Open(c)' \/ (cmd' = c /\ pc' \in {"temp", "rename"}))
                    /\ pc' \in {"audit", "ack"} => ~Removes(cmd, b)'
  BY DEF Removal
<1>a. order' = order /\ (\A c : Removes(c, b)' <=> order'[c].valid /\ order'[c].op = "remove"
                                                   /\ order'[c].bot = b)
  BY OrderStays DEF Removes
<1>b. b \in declared' /\ b \notin damaged' /\ token'[b] = "none"
  BY DEF HalfRemoved
<1> USE DEF fileVars, mainVars, adminVars, historyVars, faultVars, jsVars
<1>1. CASE WriteCredential /\ Removes(cmd, b) /\ cmd' = cmd /\ pc' = "temp"
  <2>1. cmd \in Msgs /\ pc = "credential" /\ declared' = declared /\ entries' = entries
    BY <1>1 DEF WriteCredential, TypeOK
  <2>2. entries[b] > 0
    BY <1>1, <1>b, <2>1 DEF Editing, Removes
  <2> QED BY <1>1, <1>a, <2>1, <2>2 DEF Removes
<1>2. CASE HalfRemoved(b)
  <2>1. /\ up => entries[b] > 0
        /\ b \in declared /\ b \notin damaged /\ token[b] = "none"
        /\ pc \in {"audit", "ack"} => ~Removes(cmd, b)
    BY <1>2 DEF Removal, HalfRemoved
  <2>2. PICK c \in Msgs : Removes(c, b) /\ (Open(c) \/ (cmd = c /\ pc \in {"temp", "rename"}))
    BY <1>2 DEF Removal
  <2>3. up' => entries'[b] > 0
    BY <2>1, StaysLoaded
  <2>4. Removes(c, b)' /\ order[c].bot = b /\ order[c].op = "remove"
    BY <1>a, <2>2 DEF Removes
  <2>5. Open(c)' \/ (cmd' = c /\ pc' \in {"temp", "rename"})
    <3>1. CASE Open(c)
      <4>1. ~(Ack /\ cmd = c)
        BY <2>1, <2>2 DEF Ack
      <4> QED BY <3>1, <4>1, OpenStays
    <3>2. CASE cmd' = cmd /\ pc' = pc
      BY <2>2, <3>1, <3>2
    <3>3. CASE cmd = c /\ ~Open(c) /\ pc \in {"temp", "rename"}
      <4>1. ~Fails
        BY <1>b, <2>4, <3>3 DEF Fails
      <4>2. CASE WriteTemp
        BY <3>3, <4>1, <4>2 DEF WriteTemp
      <4>3. CASE Rename
        BY <1>b, <2>4, <3>3, <4>1, <4>3 DEF Rename, Edited
      <4>4. CASE Crash
        BY <1>b, <2>4, <3>3, <4>4 DEF Crash, Open, Unsettled
      <4>5. CASE Start
        BY <3>3, <4>5 DEF Start, Listing
      <4> QED
        BY <3>2, <3>3, <4>2, <4>3, <4>4, <4>5
           DEF Next, AdminStep, MainStep, Publish, AckWaitExpires, Fetch, Handle, WriteCredential,
               SendSighup, Ack, ReceiveSighup, ReadTemps, ReadToml, AbortPollers, Respawn, vars
    <3> QED BY <2>2, <3>1, <3>3
  <2>6. pc' \in {"audit", "ack"} => ~Removes(cmd, b)'
    <3> SUFFICES ASSUME pc' \in {"audit", "ack"}, Removes(cmd', b) PROVE FALSE
      BY <1>a DEF Removes
    <3>1. CASE cmd' = cmd /\ (pc' = pc \/ pc = "audit")
      BY <2>1, <3>1
    <3>2. CASE Handle
      BY <2>1, <3>2 DEF Handle, Accepted, Removes
    <3>3. CASE WriteCredential \/ WriteTemp \/ Rename
      <4>1. cmd' = cmd
        BY <3>3 DEF WriteCredential, WriteTemp, Rename
      <4>2. ~Fails
        BY <1>b, <4>1 DEF Fails, Removes
      <4>3. Rename
        BY <3>3, <4>2 DEF WriteCredential, WriteTemp
      <4> QED BY <1>b, <4>1, <4>2, <4>3 DEF Rename, Edited, Removes
    <3>4. CASE Ack \/ Respawn \/ Crash \/ Start
      BY <3>4 DEF Ack, Respawn, Crash, Start, StartAdmin
    <3> QED
      BY <3>1, <3>2, <3>3, <3>4
         DEF Next, AdminStep, MainStep, Publish, AckWaitExpires, Fetch, SendSighup,
             ReceiveSighup, ReadTemps, ReadToml, AbortPollers, vars
  <2> QED BY <2>3, <2>4, <2>5, <2>6
<1> QED BY <1>1, <1>2, HalfRemovedBefore

\* bots.toml names no bot whose credential is gone but while a command that removes the
\* bot is unfinished, or after an edit that failed or was forgotten: a removal that a
\* crash cuts in half is accepted again (admin.rs:373-412).
THEOREM NoBotWithoutCredential == Spec => []CredentialForDeclared
<1> DEFINE Inv == TypeOK /\ Listing /\ Editing /\ Removal
<1>1. Init => Inv
  BY TypeInit, ListingInit, EditingInit, RemovalInit
<1>2. Inv /\ [Next]_vars => Inv'
  BY TypeStep, ListingStep, EditingStep, RemovalStep DEF Listing, FilesFinite
<1>3. Inv => CredentialForDeclared
  BY DEF Removal, HalfRemoved, Removes, CredentialForDeclared, TypeOK
<1> QED BY <1>1, <1>2, <1>3, PTL DEF Spec

-----------------------------------------------------------------------------
(* Running bots and conf.d. *)

LEMMA JammedStays == Jammed /\ [Next]_vars => Jammed'
<1> SUFFICES ASSUME Jammed, [Next]_vars PROVE Jammed'
  OBVIOUS
<1>1. PICK f \in temps : ~f.whole
  BY DEF Jammed, Readable
<1>2. f # MyTemp
  BY <1>1 DEF MyTemp
<1>3. f \in temps'
  BY <1>1, <1>2
     DEF Next, AdminStep, MainStep, Publish, AckWaitExpires, Fetch, Handle, WriteCredential,
         WriteTemp, CutShort, Rename, SendSighup, Ack, ReceiveSighup, ReadTemps, ReadToml,
         AbortPollers, Respawn, Crash, Start, vars, fileVars
<1> QED BY <1>1, <1>3 DEF Jammed, Readable

LEMMA DamageStays == [Next]_vars => damaged \subseteq damaged'
BY DEF Next, AdminStep, MainStep, Publish, AckWaitExpires, Fetch, Handle, WriteCredential,
       WriteTemp, Rename, SendSighup, Ack, ReceiveSighup, ReadTemps, ReadToml, AbortPollers,
       Respawn, AbortAdmin, Crash, Start, Fails, vars, historyVars

\* A command about another bot leaves b's files as they are, whatever it writes.
LEMMA FilesOfOthers ==
  ASSUME TypeOK, [Next]_vars, NEW b \in Bots, b \notin damaged', ~Midway(b), ~Midway(b)'
  PROVE  /\ token'[b] = token[b] /\ (b \in declared' <=> b \in declared)
         /\ InFiles(b, temps)' <=> InFiles(b, temps)
         /\ ByConfD(b)' = ByConfD(b)
<1>a. b \in Names
  BY ConstantTypes
<1> SUFFICES /\ token'[b] = token[b] /\ (b \in declared' <=> b \in declared)
             /\ InFiles(b, temps)' <=> InFiles(b, temps)
  BY DEF ByConfD, PollsWith
<1> USE DEF fileVars, InFiles
<1>0. CASE UNCHANGED fileVars
  BY <1>0
<1>b. order' = order
  BY OrderStays
<1>1. CASE WriteCredential
  <2>1. UNCHANGED <<declared, temps>> /\ cmd' = cmd
    BY <1>1 DEF WriteCredential
  <2>2. CASE token' = token
    BY <2>1, <2>2
  <2>3. CASE /\ token' = [token EXCEPT ![order[cmd].bot] =
                            IF order[cmd].op = "add" THEN cmd ELSE "none"]
             /\ pc' = "temp"
    <3>1. order[cmd].bot # b
      BY <1>b, <2>1, <2>3 DEF Midway
    <3> QED BY <1>a, <2>1, <2>3, <3>1 DEF TypeOK
  <2> QED BY <1>1, <2>2, <2>3 DEF WriteCredential
<1>2. CASE WriteTemp
  <2>1. order[cmd].bot # b /\ UNCHANGED <<token, declared>>
    BY <1>2 DEF WriteTemp, Midway
  <2>2. b \in Edited(cmd) <=> b \in declared
    BY <2>1 DEF Edited
  <2>3. PICK file \in {MyTemp, [MyTemp EXCEPT !.whole = FALSE]} :
          temps' \in {temps, temps \cup {file}}
    BY <1>2 DEF WriteTemp, CutShort
  <2>4. file.bots = Edited(cmd)
    BY <2>3 DEF MyTemp
  <2> QED BY <2>1, <2>2, <2>3, <2>4
<1>3. CASE Rename
  <2>1. order[cmd].bot # b /\ token' = token
    BY <1>3 DEF Rename, Midway
  <2>2. b \in Edited(cmd) <=> b \in declared
    BY <2>1 DEF Edited
  <2>3. CASE declared' = Edited(cmd) /\ temps' = temps \ {MyTemp}
    <3>1. MyTemp.bots = Edited(cmd)
      BY DEF MyTemp
    <3> QED BY <2>1, <2>2, <2>3, <3>1
  <2> QED BY <1>0, <1>3, <2>3 DEF Rename
<1> QED
  BY <1>0, <1>1, <1>2, <1>3
     DEF Next, AdminStep, MainStep, Publish, AckWaitExpires, Fetch, Handle, SendSighup, Ack,
         ReceiveSighup, ReadTemps, ReadToml, AbortPollers, Respawn, Crash, Start, vars

\* A command about b that does not fail ends with its rename.
LEMMA MidwayEnds ==
  ASSUME TypeOK, Listing, Editing, [Next]_vars, NEW b \in Bots, b \notin damaged', up',
         Midway(b), ~Midway(b)'
  PROVE  Converging(b)'
<1>b. order' = order
  BY OrderStays
<1>1. pc \in {"temp", "rename"} /\ order[cmd].bot = b
  BY DEF Midway
<1>2. ~Fails
  BY <1>1 DEF Fails
<1>3. Rename
  <2>1. CASE cmd' = cmd /\ pc' \in {"temp", "rename"}
    BY <1>b, <1>1, <2>1 DEF Midway
  <2>2. CASE WriteTemp
    BY <1>2, <2>1, <2>2 DEF WriteTemp
  <2>3. CASE Crash \/ Start \/ Respawn
    BY <1>1, <2>3 DEF Crash, Start, Respawn, Listing
  <2> QED
    BY <1>1, <2>1, <2>2, <2>3
       DEF Next, AdminStep, MainStep, Publish, AckWaitExpires, Fetch, Handle, WriteCredential,
           SendSighup, Ack, ReceiveSighup, ReadTemps, ReadToml, AbortPollers, adminVars, vars
<1>4. /\ pc' = "audit" /\ cmd' = cmd /\ declared' = Edited(cmd) /\ token' = token
      /\ UNCHANGED <<main, listed, up>>
  BY <1>2, <1>3 DEF Rename, mainVars
<1>5. ASSUME NEW files PROVE PollsWith(b, InFiles(b, files))' = ByConfD(b)'
  <2>1. CASE order[cmd].op = "add"
    <3>1. b \in declared'
      BY <1>1, <1>4, <2>1 DEF Edited
    <3> QED BY <3>1 DEF ByConfD, InFiles
  <2>2. CASE order[cmd].op # "add"
    <3>1. cmd \in Msgs
      BY <1>1 DEF TypeOK
    <3>2. order[cmd].op = "remove"
      BY <2>2, <3>1, OrderType
    <3>3. token'[b] = "none"
      BY <1>1, <1>4, <3>2 DEF Editing
    <3> QED BY <3>3 DEF ByConfD, PollsWith
  <2> QED BY <2>1, <2>2
<1>6. PollsWith(b, InFiles(b, listed))' = ByConfD(b)'
  BY <1>5
<1>7. main' \in {"idle", "temps", "toml", "abort", "respawn"}
  BY <1>4 DEF TypeOK
<1> QED BY <1>b, <1>1, <1>4, <1>6, <1>7 DEF Converging

\* main waits, and the consumer or the streams move.
LEMMA AdminKeepsConverging ==
  ASSUME TypeOK, Editing, [Next]_vars, NEW b \in Bots, b \notin damaged',
         ~Midway(b), ~Midway(b)', Converging(b), UNCHANGED mainVars \/ SendSighup,
         ~Respawn, ~Crash, ~Start
  PROVE  Converging(b)'
<1>a. order' = order
  BY OrderStays
<1>b. /\ token'[b] = token[b] /\ (b \in declared' <=> b \in declared)
      /\ ByConfD(b)' = ByConfD(b)
  BY FilesOfOthers
<1>c. UNCHANGED <<main, listed, entries, agents, handles>> /\ (hup => hup')
  BY DEF mainVars, SendSighup
<1>d. pc = "audit" => hup' \/ (pc' = pc /\ cmd' = cmd)
  BY DEF Next, AdminStep, MainStep, Publish, AckWaitExpires, Fetch, Handle, WriteCredential,
         WriteTemp, Rename, SendSighup, Ack, ReceiveSighup, ReadTemps, ReadToml, AbortPollers,
         vars, adminVars, mainVars
<1>1. CASE main = "idle"
  <2>1. CASE handles[b] = ByConfD(b) \/ hup \/ pc = "audit"
    BY <1>1, <1>b, <1>c, <1>d, <2>1 DEF Converging
  <2>2. CASE Redone(b)
    <3>1. PICK c \in Msgs : /\ order[c].op = "add" /\ order[c].bot = b /\ Accepted(c)
                            /\ Open(c) /\ ~(cmd = c /\ pc \in {"audit", "ack"})
      BY <2>2 DEF Redone
    <3>2. Open(c)'
      BY <3>1, OpenStays DEF Ack
    <3>3. Accepted(c)'
      BY <1>a, <1>c, <3>1 DEF Accepted
    <3>4. CASE cmd' = c /\ pc' \in {"audit", "ack"}
      <4>1. CASE Handle
        BY <1>a, <3>1, <3>4, <4>1 DEF Handle
      <4>2. CASE WriteCredential \/ WriteTemp
        BY <3>1, <3>4, <4>2 DEF WriteCredential, WriteTemp, Fails
      <4>3. CASE Rename
        BY <3>1, <3>4, <4>3 DEF Rename, Midway
      <4>4. CASE SendSighup
        BY <1>1, <1>c, <4>4 DEF SendSighup, Converging
      <4>5. CASE Ack
        BY <3>1, <3>4, <4>5, ConstantTypes DEF Ack
      <4>6. CASE cmd' = cmd /\ pc' = pc
        BY <3>1, <3>4, <4>6
      <4> QED
        BY <4>1, <4>2, <4>3, <4>4, <4>5, <4>6
           DEF Next, AdminStep, MainStep, Publish, AckWaitExpires, Fetch, ReceiveSighup,
               ReadTemps, ReadToml, AbortPollers, vars, adminVars
    <3>5. CASE ~(cmd' = c /\ pc' \in {"audit", "ack"})
      <4>1. Redone(b)'
        BY <1>a, <3>1, <3>2, <3>3, <3>5 DEF Redone
      <4> QED BY <1>1, <1>c, <4>1 DEF Converging
    <3> QED BY <3>4, <3>5
  <2> QED BY <1>1, <2>1, <2>2 DEF Converging
<1>2. CASE main \in {"temps", "toml"}
  <2>1. PollsWith(b, InFiles(b, listed))' = PollsWith(b, InFiles(b, listed))
    BY <1>b, <1>c DEF PollsWith, InFiles
  <2>2. PollsWith(b, InFiles(b, listed)) = ByConfD(b)
    BY <1>2 DEF Converging
  <2> QED BY <1>2, <1>b, <1>c, <2>1, <2>2 DEF Converging
<1>3. CASE main \in {"abort", "respawn"}
  <2>1. PollsWith(b, entries[b] > 0)' = PollsWith(b, entries[b] > 0)
    BY <1>b, <1>c DEF PollsWith
  <2>2. \/ PollsWith(b, entries[b] > 0) = ByConfD(b)
        \/ hup
        \/ pc = "audit" /\ order[cmd].bot = b
    BY <1>3 DEF Converging
  <2> QED BY <1>3, <1>a, <1>b, <1>c, <1>d, <2>1, <2>2 DEF Converging
<1> QED BY <1>1, <1>2, <1>3 DEF Converging

\* main reads and spawns.
LEMMA MainKeepsConverging ==
  ASSUME TypeOK, Listing, Editing, [Next]_vars, NEW b \in Bots, b \notin damaged', ~Jammed,
         ~Midway(b), ~Midway(b)', Converging(b), MainStep
  PROVE  Converging(b)'
<1>a. order' = order
  BY OrderStays
<1>b. /\ token'[b] = token[b] /\ (b \in declared' <=> b \in declared)
      /\ ByConfD(b)' = ByConfD(b) /\ b \in Names
  BY FilesOfOthers, ConstantTypes
<1>1. CASE ReceiveSighup
  <2>1. listed' = temps /\ temps' = temps /\ main' \in {"temps", "toml"}
    BY <1>1 DEF ReceiveSighup, fileVars
  <2>2. PollsWith(b, InFiles(b, listed))' = ByConfD(b)'
    BY <2>1 DEF ByConfD, PollsWith, InFiles
  <2> QED BY <2>1, <2>2 DEF Converging
<1>2. CASE ReadTemps
  <2>1. main = "temps" /\ UNCHANGED <<hup, pc>>
    BY <1>2 DEF ReadTemps, adminVars
  <2>2. CASE Readable(listed)
    <3>1. main' = "toml" /\ listed' = listed
      BY <1>2, <2>2 DEF ReadTemps
    <3>2. PollsWith(b, InFiles(b, listed))' = PollsWith(b, InFiles(b, listed))
      BY <1>b, <3>1 DEF PollsWith, InFiles
    <3>3. PollsWith(b, InFiles(b, listed)) = ByConfD(b)
      BY <2>1 DEF Converging
    <3> QED BY <1>b, <3>1, <3>2, <3>3 DEF Converging
  <2>3. CASE ~Readable(listed)
    <3>1. PICK f \in listed : ~(f.whole /\ f \in temps)
      BY <2>3 DEF Readable
    <3>2. f \notin temps
      BY <3>1 DEF Jammed, Readable, Listing
    <3>3. hup \/ pc = "audit"
      BY <3>1, <3>2 DEF Listing
    <3>4. main' = "idle"
      BY <1>2, <2>3 DEF ReadTemps
    <3> QED BY <2>1, <3>3, <3>4 DEF Converging
  <2> QED BY <2>2, <2>3
<1>3. CASE ReadToml
  <2>1. main = "toml" /\ main' = "abort" /\ entries' = LoadConfD(listed)
    BY <1>3 DEF ReadToml
  <2>2. entries'[b] > 0 <=> InFiles(b, listed)
    BY <2>1, RegistryType DEF Listing
  <2>3. PollsWith(b, entries[b] > 0)' = PollsWith(b, InFiles(b, listed))
    BY <1>b, <2>2 DEF PollsWith
  <2>4. PollsWith(b, InFiles(b, listed)) = ByConfD(b)
    BY <2>1 DEF Converging
  <2> QED BY <1>b, <2>1, <2>3, <2>4 DEF Converging
<1>4. CASE AbortPollers
  <2>1. /\ main = "abort" /\ main' = "respawn"
        /\ UNCHANGED <<hup, entries, pc, cmd>>
    BY <1>4 DEF AbortPollers, adminVars
  <2>2. PollsWith(b, entries[b] > 0)' = PollsWith(b, entries[b] > 0)
    BY <1>b, <2>1 DEF PollsWith
  <2> QED BY <1>a, <1>b, <2>1, <2>2 DEF Converging
<1>5. CASE Respawn
  <2>1. main = "respawn" /\ main' = "idle" /\ UNCHANGED <<hup, entries, agents, status, token>>
    BY <1>5 DEF Respawn, fileVars, jsVars
  <2>2. handles'[b] = PollsWith(b, entries[b] > 0)
    BY <1>5, <1>b DEF Respawn, SpawnAll, PollsWith
  <2>3. CASE PollsWith(b, entries[b] > 0) = ByConfD(b)
    BY <1>b, <2>1, <2>2, <2>3 DEF Converging
  <2>4. CASE hup
    BY <2>1, <2>4 DEF Converging
  <2>5. CASE pc = "audit" /\ order[cmd].bot = b
    <3>1. cmd \in Msgs /\ cmd' = "none" /\ ~Forgotten(cmd)
      BY <1>5, <2>5 DEF Respawn, AbortAdmin, TypeOK
    <3>2. CASE order[cmd].op = "add"
      <4>1. Accepted(cmd) /\ Unsettled(cmd)
        BY <3>1, <3>2 DEF Forgotten
      <4>2. \A c \in Msgs : (Accepted(c)' <=> Accepted(c)) /\ (Open(c)' <=> Open(c))
        BY <1>a, <2>1 DEF Accepted, Open
      <4>3. Redone(b)'
        <5>1. PICK c \in Msgs : c = cmd
          BY <3>1
        <5>2. /\ order'[c].op = "add" /\ order'[c].bot = b /\ Accepted(c)' /\ Open(c)'
              /\ cmd' # c
          BY <1>a, <2>5, <3>1, <3>2, <4>1, <4>2, <5>1, ConstantTypes DEF Unsettled, Open
        <5> QED BY <5>2 DEF Redone
      <4> QED BY <2>1, <4>3 DEF Converging
    <3>3. CASE order[cmd].op # "add"
      <4>1. token[b] = "none"
        BY <2>5, <3>1, <3>3, OrderType DEF Editing
      <4>2. PollsWith(b, entries[b] > 0) = ByConfD(b)
        BY <4>1 DEF PollsWith, ByConfD
      <4> QED BY <2>3, <4>2
    <3> QED BY <3>2, <3>3
  <2> QED BY <2>1, <2>3, <2>4, <2>5 DEF Converging
<1> QED BY <1>1, <1>2, <1>3, <1>4, <1>5 DEF MainStep

LEMMA ConvergesInit == Init => Converges
<1> SUFFICES ASSUME Init, NEW b \in Bots PROVE Converging(b)
  BY DEF Converges
<1>1. b \in Names /\ temps = {} /\ main = "idle"
  BY ConstantTypes DEF Init
<1>2. entries[b] > 0 <=> InFiles(b, temps)
  BY RegistryType, FS_EmptySet DEF Init
<1>3. handles[b] = ByConfD(b)
  BY <1>1, <1>2 DEF Init, ByConfD, PollsWith
<1> QED BY <1>1, <1>3 DEF Converging

LEMMA ConvergesStep ==
  TypeOK /\ Listing /\ Editing /\ Converges /\ [Next]_vars => Converges'
<1> SUFFICES ASSUME TypeOK, Listing, Editing, Converges, [Next]_vars, up', ~Jammed',
                    NEW b \in Bots, b \notin damaged'
             PROVE  Converging(b)'
  BY DEF Converges
<1>1. ~Jammed /\ b \notin damaged
  BY JammedStays, DamageStays
<1>2. CASE Midway(b)'
  BY <1>2 DEF Converging
<1>3. CASE Midway(b) /\ ~Midway(b)'
  BY <1>3, MidwayEnds
<1>4. CASE ~Midway(b) /\ ~Midway(b)'
  <2>1. CASE Start
    <3>1. main' = "idle" /\ temps' = temps /\ declared' = declared /\ token' = token
      BY <2>1 DEF Start, Listing, fileVars
    <3>2. WithDefault(LoadConfD(temps))[b] > 0 <=> InFiles(b, temps)
      BY RegistryType DEF Listing
    <3>3. handles'[b] = PollsWith(b, InFiles(b, temps))
      BY <2>1, <3>2, ConstantTypes DEF Start, SpawnAll, PollsWith
    <3>4. handles'[b] = ByConfD(b)'
      BY <3>1, <3>3 DEF ByConfD, PollsWith, InFiles
    <3> QED BY <3>1, <3>4 DEF Converging
  <2>2. CASE ~Start
    <3>1. up /\ ~Crash
      BY <2>2 DEF Next, AdminStep, MainStep, Publish, AckWaitExpires, Fetch, Handle,
             WriteCredential, WriteTemp, Rename, SendSighup, Ack, ReceiveSighup, ReadTemps,
             ReadToml, AbortPollers, Respawn, Crash, vars
    <3>2. Converging(b)
      BY <1>1, <3>1 DEF Converges
    <3>3. CASE MainStep
      BY <1>1, <1>4, <3>2, <3>3, MainKeepsConverging
    <3>4. CASE ~MainStep
      <4>1. UNCHANGED mainVars \/ SendSighup
        BY <2>2, <3>1, <3>4 DEF Next, AdminStep, Publish, AckWaitExpires, Fetch, Handle,
           WriteCredential, WriteTemp, Rename, Ack, vars
      <4> QED BY <1>4, <2>2, <3>1, <3>2, <3>4, <4>1, AdminKeepsConverging DEF MainStep
    <3> QED BY <3>3, <3>4
  <2> QED BY <2>1, <2>2
<1> QED BY <1>2, <1>3, <1>4

LEMMA BotAdminInvariant == Spec => []IInv
<1>1. Init => IInv
  BY TypeInit, ListingInit, EditingInit, RemovalInit, TwiceInit, ConvergesInit
     DEF IInv
<1>2. IInv /\ [Next]_vars => IInv'
  BY TypeStep, ListingStep, EditingStep, RemovalStep, TwiceStep, ConvergesStep
     DEF IInv, Listing, FilesFinite
<1> QED BY <1>1, <1>2, PTL DEF Spec

\* Whenever reloads and commands have come to rest, a bot that no open command is about
\* polls with its latest credential if conf.d has it and not at all otherwise, unless an
\* edit of it has failed or a file cut short blocks every reload (admin.rs:8, main.rs:18-23).
THEOREM ConvergedWhenCalm == Spec => []CalmMeansConverged
<1>1. ASSUME IInv PROVE CalmMeansConverged
  <2> SUFFICES ASSUME Calm, ~Jammed, NEW b \in Bots, b \notin damaged, ~Busy(b)
               PROVE  handles[b] = ByConfD(b)
    BY DEF CalmMeansConverged
  <2>1. Converging(b)
    BY <1>1 DEF IInv, Converges, Calm
  <2>2. ~Redone(b)
    BY DEF Redone, Busy
  <2> QED BY <2>1, <2>2 DEF Converging, Calm, Midway
<1> QED BY <1>1, BotAdminInvariant, PTL
=============================================================================
