-------------------------- MODULE Conversation_proofs --------------------------
(***************************************************************************)
(* Theorems about Conversation for every value of its constants.           *)
(***************************************************************************)
EXTENDS Conversation, TLAPS

USE ConversationAssumption

-----------------------------------------------------------------------------
(* Type correctness. *)

LEMMA TypeInit == Init => TypeOK
<1> SUFFICES ASSUME Init PROVE TypeOK
  OBVIOUS
<1>1. gen \in Gens /\ drops \in 0..MaxDrops
  BY DEF Init, Gens
<1>2. wire \in Seq(Items) /\ buf \in [Readers -> Seq(Copies)]
  BY DEF Init
<1>3. step \in [Readers -> {"recv", "dead"}] /\ cur = [r \in Readers |-> Nothing]
  BY DEF Init, Started
<1>4. \A r \in Readers : cur[r] = Nothing /\ step[r] \in {"recv", "dead"}
  BY <1>3
<1>5. /\ cur \in [Readers -> Copies \cup {Nothing}]
      /\ step \in [Readers -> {"recv", "call", "ack", "dead"}]
      /\ \A r \in Readers : step[r] \in {"call", "ack"} <=> cur[r] # Nothing
      /\ \A r \in Readers : step[r] = "call" => ask[cur[r][1]].form # "broken"
  BY <1>3, <1>4
<1> QED
  BY <1>1, <1>2, <1>5 DEF Init, TypeOK

LEMMA CopyIsSomething == \A c \in Copies : c # Nothing
BY DEF Copies, Nothing

LEMMA WriteType ==
  ASSUME TypeOK, NEW item \in Items, Write(item)
  PROVE  wire' \in Seq(Items)
BY DEF TypeOK, Write

\* Sending an item and taking one from the wire keep it a sequence of items.
LEMMA TailType ==
  ASSUME TypeOK, wire # <<>>
  PROVE  Head(wire) \in Items /\ Tail(wire) \in Seq(Items)
BY DEF TypeOK

LEMMA HandType ==
  ASSUME TypeOK, NEW q \in Questions, NEW g \in Gens, Hand(q, g)
  PROVE  /\ sent' \in [Questions -> [Gens -> Nat]]
         /\ \A x \in Questions, y \in Gens :
              sent'[x][y] = IF x = q /\ y = g THEN sent[x][y] + 1 ELSE sent[x][y]
<1>1. sent \in [Questions -> [Gens -> Nat]] /\ sent[q] \in [Gens -> Nat] /\ sent[q][g] \in Nat
  BY DEF TypeOK
<1>2. [sent[q] EXCEPT ![g] = @ + 1] \in [Gens -> Nat]
  BY <1>1
<1>3. sent' = [sent EXCEPT ![q] = [sent[q] EXCEPT ![g] = @ + 1]]
  BY <1>1 DEF Hand
<1> QED BY <1>1, <1>2, <1>3

LEMMA StoredType ==
  ASSUME TypeOK, NEW c \in Copies, Stored(c)
  PROVE  standing' \in [Readers -> [Copies -> {"absent", "due", "out", "acked"}]]
BY DEF TypeOK, Stored

LEMMA ItemType ==
  ASSUME NEW i \in Items
  PROVE  /\ i.copy \in Copies
         /\ i.kind \in {"question", "answer", "ack"}
         /\ i.kind # "question" => i.reader \in Readers
BY DEF Items

LEMMA TypeStep == TypeOK /\ [Next]_vars => TypeOK'
<1> SUFFICES ASSUME TypeOK, [Next]_vars PROVE TypeOK'
  OBVIOUS
<1> USE DEF TypeOK, sourceVars, genVars, readerVars, historyVars
<1>1. ASSUME NEW q \in Questions, Send(q) PROVE TypeOK'
  <2>1. <<q, 1>> \in Copies
    BY DEF Copies, Gens
  <2>2. standing' \in [Readers -> [Copies -> {"absent", "due", "out", "acked"}]]
    BY <1>1, <2>1, StoredType DEF Send
  <2> QED BY <1>1, <2>2 DEF Send
<1>2. ASSUME NEW q \in Questions, FetchUpdate(q) PROVE TypeOK'
  BY <1>2 DEF FetchUpdate
<1>3. ASSUME NEW q \in Questions, Confirm(q) PROVE TypeOK'
  BY <1>3 DEF Confirm
<1>4. ASSUME NEW q \in Questions, MailFetch(q) PROVE TypeOK'
  BY <1>4 DEF MailFetch
<1>5. ASSUME NEW q \in Questions, MailFetchFails(q) PROVE TypeOK'
  BY <1>5 DEF MailFetchFails
<1>6. ASSUME NEW q \in Questions, NEW g \in Gens, Handle(q, g) PROVE TypeOK'
  <2>1. [kind |-> "question", copy |-> <<q, g>>] \in Items
    BY DEF Items, Copies
  <2>2. /\ wire' \in Seq(Items) /\ sent' \in [Questions -> [Gens -> Nat]]
        /\ failed' \subseteq Questions
    <3>1. CASE Hand(q, g) /\ UNCHANGED failed
      BY <3>1, <2>1, WriteType, HandType DEF Hand
    <3>2. CASE UNCHANGED <<sent, wire>> /\ failed' \in {failed, failed \cup {q}}
      BY <3>2
    <3> QED BY <1>6, <3>1, <3>2 DEF Handle
  <2> QED BY <1>6, <2>2 DEF Handle
<1>7. CASE MailPoll
  BY <1>7 DEF MailPoll, Unseen
<1>8. CASE MailProcess
  <2>1. mail \in Questions
    BY <1>8 DEF MailProcess
  <2>2. [kind |-> "question", copy |-> <<mail, gen>>] \in Items
    BY <2>1 DEF Items, Copies
  <2>3. /\ wire' \in Seq(Items) /\ sent' \in [Questions -> [Gens -> Nat]]
        /\ failed' \subseteq Questions
    <3>1. CASE Hand(mail, gen) /\ UNCHANGED failed
      BY <3>1, <2>1, <2>2, WriteType, HandType DEF Hand
    <3>2. CASE UNCHANGED <<sent, wire>> /\ failed' \in {failed, failed \cup {mail}}
      BY <3>2, <2>1
    <3> QED BY <1>8, <3>1, <3>2 DEF MailProcess
  <2> QED BY <1>8, <2>3 DEF MailProcess
<1>9. CASE ServerTakes
  <2> DEFINE i == Head(wire)
  <2>1. i \in Items /\ wire' \in Seq(Items)
    BY <1>9, TailType DEF ServerTakes
  <2>2. standing' \in [Readers -> [Copies -> {"absent", "due", "out", "acked"}]]
    <3>1. CASE i.kind = "question" /\ Stored(i.copy)
      BY <3>1, <2>1, ItemType, StoredType
    <3>2. CASE UNCHANGED standing
      BY <3>2
    <3>3. CASE i.kind = "ack" /\ AckExplicit(i.reader, i.copy)
      BY <3>3, <2>1, ItemType DEF AckExplicit
    <3> QED BY <1>9, <3>1, <3>2, <3>3 DEF ServerTakes
  <2>3. served' \subseteq Readers \X Copies /\ repeated' \subseteq served'
    <3>1. CASE UNCHANGED <<served, repeated>>
      BY <3>1
    <3>2. CASE i.kind = "answer" /\ served' = served \cup {<<i.reader, i.copy>>}
               /\ repeated' = repeated \cup ({<<i.reader, i.copy>>} \cap served)
      BY <3>2, <2>1, ItemType
    <3> QED BY <1>9, <3>1, <3>2 DEF ServerTakes
  <2> QED BY <1>9, <2>1, <2>2, <2>3 DEF ServerTakes
<1>10. CASE ServerDrops
  <2> DEFINE i == Head(wire)
  <2>1. i \in Items /\ wire' \in Seq(Items)
    BY <1>10, TailType DEF ServerDrops
  <2>2. excused' \subseteq Readers \X Copies
    BY <1>10, <2>1, ItemType DEF ServerDrops
  <2>3. drops' \in 0..MaxDrops
    BY <1>10 DEF ServerDrops
  <2> QED BY <1>10, <2>1, <2>2, <2>3 DEF ServerDrops
<1>11. ASSUME NEW r \in Readers, Take(r) PROVE TypeOK'
  <2> DEFINE c == Head(buf[r])
  <2>1. c \in Copies /\ Tail(buf[r]) \in Seq(Copies) /\ c # Nothing
    BY <1>11, CopyIsSomething DEF Take
  <2>2. /\ cur' = [cur EXCEPT ![r] = c]
        /\ buf' = [buf EXCEPT ![r] = Tail(buf[r])]
        /\ step' = [step EXCEPT ![r] = IF Calls(r, c) THEN "call" ELSE "ack"]
        /\ ask' = ask
    BY <1>11 DEF Take
  <2>3. /\ \A x \in Readers : step'[x] \in {"call", "ack"} <=> cur'[x] # Nothing
        /\ \A x \in Readers : step'[x] = "call" => ask'[cur'[x][1]].form # "broken"
    <3> HIDE DEF c
    <3> QED BY <2>1, <2>2 DEF Calls
  <2> QED BY <1>11, <2>1, <2>2, <2>3 DEF Take
<1>12. ASSUME NEW r \in Readers, Answer(r) PROVE TypeOK'
  <2>1. cur[r] \in Copies
    BY <1>12 DEF Answer
  <2>2. [kind |-> "answer", reader |-> r, copy |-> cur[r]] \in Items
    BY <2>1 DEF Items
  <2>3. wire' \in Seq(Items)
    BY <1>12, <2>2, WriteType DEF Answer
  <2> QED BY <1>12, <2>3 DEF Answer, GoesOnToAck
<1>13. ASSUME NEW r \in Readers, CallFails(r) PROVE TypeOK'
  BY <1>13 DEF CallFails
<1>14. ASSUME NEW r \in Readers, Ack(r) PROVE TypeOK'
  <2>1. cur[r] \in Copies
    BY <1>14 DEF Ack
  <2>2. [kind |-> "ack", reader |-> r, copy |-> cur[r]] \in Items
    BY <2>1 DEF Items
  <2>3. wire' \in Seq(Items)
    BY <1>14, <2>2, WriteType DEF Ack
  <2> QED BY <1>14, <2>3 DEF Ack
<1>15. ASSUME NEW r \in Readers, NEW c \in Copies, Deliver(r, c) PROVE TypeOK'
  BY <1>15 DEF Deliver
<1>16. ASSUME NEW r \in Readers, NEW c \in Copies, AckWaitExpires(r, c) PROVE TypeOK'
  BY <1>16 DEF AckWaitExpires
<1>17. CASE Relay
  <2>1. "bridge" \in Readers /\ cur["bridge"] \in Copies
    BY <1>17 DEF Relay, Readers
  <2> QED BY <1>17, <2>1 DEF Relay, GoesOnToAck
<1>18. CASE ReceiveError
  <2>1. "bridge" \in Readers /\ step["bridge"] = "recv" /\ cur["bridge"] = Nothing
    BY <1>18 DEF ReceiveError, Readers
  <2>2. buf' \in [Readers -> Seq(Copies)]
    <3>1. buf' = [buf EXCEPT !["bridge"] = <<>>] /\ <<>> \in Seq(Copies)
      BY <1>18 DEF ReceiveError
    <3> QED BY <3>1
  <2>3. step' \in [Readers -> {"recv", "call", "ack", "dead"}] /\ cur' = cur
        /\ \A r \in Readers : step'[r] = IF r = "bridge" THEN "dead" ELSE step[r]
    BY <1>18 DEF ReceiveError
  <2> QED BY <1>18, <2>1, <2>2, <2>3 DEF ReceiveError
<1>19. CASE Reload \/ Crash
  <2>1. gen' \in Gens
    BY <1>19 DEF Reload, Crash, NewGeneration, Gens
  <2>2. /\ buf' = [r \in Readers |-> <<>>] /\ cur' = [r \in Readers |-> Nothing]
        /\ step' \in [Readers -> {"recv", "dead"}]
        /\ inbox' = [q \in Questions |-> IF inbox[q] = "fetched" THEN "new" ELSE inbox[q]]
    BY <1>19 DEF Reload, Crash, NewGeneration, Started
  <2>3. wire' \in Seq(Items)
    <3>1. CASE wire' = <<>>
      BY <3>1
    <3> QED BY <1>19, <3>1 DEF Reload, Crash
  <2>8. found' \in [Questions -> SUBSET Gens]
    <3>1. found' = [q \in Questions |->
            IF inbox[q] = "fetched" THEN found[q] \cup {gen + 1} ELSE found[q]]
      BY <1>19 DEF Reload, Crash, NewGeneration
    <3>2. gen + 1 \in Gens
      BY <1>19, <2>1 DEF Reload, Crash, NewGeneration
    <3> QED BY <3>1, <3>2
  <2>4. handlers' \subseteq Questions \X Gens /\ polled' \subseteq Questions
        /\ mail' \in Questions \cup {"none"} /\ crashed' \in BOOLEAN
    BY <1>19 DEF Reload, Crash, MailGoesOn
  <2>5. UNCHANGED <<ask, sent, drops, standing, failed, served, repeated, excused, redelivered>>
    BY <1>19 DEF Reload, Crash
  <2>6. /\ cur' \in [Readers -> Copies \cup {Nothing}]
        /\ step' \in [Readers -> {"recv", "call", "ack", "dead"}]
        /\ buf' \in [Readers -> Seq(Copies)]
        /\ inbox' \in [Questions -> {"unsent", "new", "fetched", "done"}]
    BY <2>2
  <2>7. \A r \in Readers : cur'[r] = Nothing /\ step'[r] \in {"recv", "dead"}
    BY <2>2
  <2> QED BY <2>1, <2>3, <2>4, <2>5, <2>6, <2>7, <2>8
<1>20. CASE UNCHANGED vars
  BY <1>20 DEF vars
<1> QED
  BY <1>1, <1>2, <1>3, <1>4, <1>5, <1>6, <1>7, <1>8, <1>9, <1>10, <1>11, <1>12, <1>13,
     <1>14, <1>15, <1>16, <1>17, <1>18, <1>19, <1>20 DEF Next

\* Type correctness for every set of questions and agents and every bound.
THEOREM TypeCorrect == Spec => []TypeOK
<1> QED BY TypeInit, TypeStep, PTL DEF Spec, Safety

-----------------------------------------------------------------------------
(* What the sources promise. *)

\* The steps that concern neither a source nor a question on its way out.
OtherSteps ==
  \/ ServerTakes \/ ServerDrops \/ Relay \/ ReceiveError
  \/ \E r \in Readers : \/ Take(r) \/ Answer(r) \/ CallFails(r) \/ Ack(r)
                        \/ \E c \in Copies : Deliver(r, c) \/ AckWaitExpires(r, c)
  \/ UNCHANGED vars

LEMMA OtherStepsFrame ==
  ASSUME OtherSteps
  PROVE  UNCHANGED <<ask, sourceVars, gen, found, sent, failed, crashed>>
BY DEF OtherSteps, ServerTakes, ServerDrops, Relay, ReceiveError, Take, Answer, CallFails, Ack,
       Deliver, AckWaitExpires, vars, sourceVars, genVars, historyVars

LEMMA StepCases ==
  ASSUME [Next]_vars
  PROVE  \/ \E q \in Questions : \/ Send(q) \/ FetchUpdate(q) \/ Confirm(q)
                                 \/ MailFetch(q) \/ MailFetchFails(q)
                                 \/ \E g \in Gens : Handle(q, g)
         \/ MailPoll \/ MailProcess
         \/ OtherSteps
         \/ Reload \/ Crash
BY DEF Next, OtherSteps

\* What a publish, or none, does to the generations that published.
LEMMA SentByStep ==
  ASSUME TypeOK, NEW q \in Questions, NEW g \in Gens, Hand(q, g) \/ sent' = sent
  PROVE  \A x \in Questions : /\ SentBy(x) \subseteq SentBy(x)'
                              /\ SentBy(x)' \subseteq SentBy(x) \cup {g}
                              /\ x # q => SentBy(x)' = SentBy(x)
                              /\ Hand(q, g) => g \in SentBy(q)'
<1>1. CASE sent' = sent /\ ~Hand(q, g)
  BY <1>1 DEF SentBy
<1>2. CASE Hand(q, g)
  <2>1. \A x \in Questions, y \in Gens :
          sent'[x][y] = IF x = q /\ y = g THEN sent[x][y] + 1 ELSE sent[x][y]
    BY <1>2, HandType
  <2>2. \A x \in Questions, y \in Gens : sent[x][y] \in Nat
    BY DEF TypeOK
  <2>3. \A x \in Questions, y \in Gens :
          sent'[x][y] > 0 <=> sent[x][y] > 0 \/ (x = q /\ y = g)
    BY <2>1, <2>2
  <2> QED BY <2>3 DEF SentBy
<1> QED BY <1>1, <1>2

LEMMA SameSentBy ==
  ASSUME sent' = sent
  PROVE  \A x : SentBy(x)' = SentBy(x)
BY DEF SentBy

\* How the steps of the sources change who published what.
LEMMA SentByHandle ==
  ASSUME TypeOK, NEW q \in Questions, NEW g \in Gens, Handle(q, g)
  PROVE  Hand(q, g) \/ sent' = sent
BY DEF Handle

LEMMA SentByMail ==
  ASSUME TypeOK, MailProcess
  PROVE  /\ mail \in Questions /\ gen \in Gens
         /\ Hand(mail, gen) \/ sent' = sent
BY DEF MailProcess, TypeOK

LEMMA SourcesStep == TypeOK /\ SourcesApart /\ [Next]_vars => SourcesApart'
<1> SUFFICES ASSUME TypeOK, SourcesApart, [Next]_vars PROVE SourcesApart'
  OBVIOUS
<1> USE DEF SourcesApart, sourceVars, historyVars
<1>0. ask \in [Questions -> Asked] /\ inbox \in [Questions -> {"unsent", "new", "fetched", "done"}]
      /\ handlers \subseteq Questions \X Gens /\ polled \subseteq Questions
      /\ mail \in Questions \cup {"none"}
  BY DEF TypeOK
<1>1. ASSUME NEW q \in Questions, Send(q) PROVE SourcesApart'
  BY <1>0, <1>1, SameSentBy DEF Send
<1>2. ASSUME NEW q \in Questions, FetchUpdate(q) PROVE SourcesApart'
  BY <1>0, <1>2, SameSentBy DEF FetchUpdate
<1>3. ASSUME NEW q \in Questions, Confirm(q) PROVE SourcesApart'
  BY <1>0, <1>3, SameSentBy DEF Confirm
<1>4. ASSUME NEW q \in Questions, MailFetch(q) PROVE SourcesApart'
  BY <1>0, <1>4, SameSentBy DEF MailFetch
<1>5. ASSUME NEW q \in Questions, MailFetchFails(q) PROVE SourcesApart'
  BY <1>0, <1>5, SameSentBy DEF MailFetchFails
<1>6. ASSUME NEW q \in Questions, NEW g \in Gens, Handle(q, g) PROVE SourcesApart'
  <2>1. ask[q].via = "telegram"
    BY <1>6 DEF Handle
  <2>2. \A x \in Questions : x # q => SentBy(x)' = SentBy(x)
    BY <1>6, SentByHandle, SentByStep
  <2>3. handlers' \subseteq handlers /\ UNCHANGED <<ask, inbox, polled, mail>>
    BY <1>6 DEF Handle
  <2>4. mail # "none" => mail # q
    BY <2>1
  <2> QED BY <1>0, <2>1, <2>2, <2>3, <2>4
<1>7. CASE MailPoll
  BY <1>0, <1>7, SameSentBy DEF MailPoll, Unseen
<1>8. CASE MailProcess
  <2>1. mail \in Questions /\ inbox[mail] = "done" /\ mail' = "none"
    BY <1>0, <1>8 DEF MailProcess
  <2>2. \A x \in Questions : x # mail => SentBy(x)' = SentBy(x)
    BY <1>8, SentByMail, SentByStep
  <2>3. UNCHANGED <<ask, inbox, polled, handlers>>
    BY <1>8 DEF MailProcess
  <2> QED BY <1>0, <2>1, <2>2, <2>3
<1>9. CASE OtherSteps
  BY <1>9, OtherStepsFrame, SameSentBy
<1>10. CASE Reload \/ Crash
  <2>1. /\ UNCHANGED <<ask, sent>>
        /\ inbox' = [q \in Questions |-> IF inbox[q] = "fetched" THEN "new" ELSE inbox[q]]
        /\ handlers' \subseteq handlers /\ polled' \subseteq polled /\ mail' \in {mail, "none"}
    BY <1>10 DEF Reload, Crash, NewGeneration, MailGoesOn
  <2> QED BY <1>0, <2>1, SameSentBy
<1> QED
  BY StepCases, <1>1, <1>2, <1>3, <1>4, <1>5, <1>6, <1>7, <1>8, <1>9, <1>10

LEMMA HandedOnceStep == TypeOK /\ SourcesApart /\ HandedOnce /\ [Next]_vars => HandedOnce'
<1> SUFFICES ASSUME TypeOK, SourcesApart, HandedOnce, [Next]_vars PROVE HandedOnce'
  OBVIOUS
<1> USE DEF HandedOnce, sourceVars, genVars, historyVars
<1>0. ask \in [Questions -> Asked] /\ inbox \in [Questions -> {"unsent", "new", "fetched", "done"}]
      /\ handlers \subseteq Questions \X Gens /\ gen \in Gens /\ Gens \subseteq Nat
      /\ mail \in Questions \cup {"none"} /\ \A q \in Questions : SentBy(q) \subseteq Gens
  BY DEF TypeOK, Gens, SentBy
<1>1. ASSUME NEW q \in Questions, Send(q) PROVE HandedOnce'
  BY <1>0, <1>1, SameSentBy DEF Send
<1>2. ASSUME NEW q \in Questions, FetchUpdate(q) PROVE HandedOnce'
  BY <1>0, <1>2, SameSentBy DEF FetchUpdate
<1>3. ASSUME NEW q \in Questions, Confirm(q) PROVE HandedOnce'
  BY <1>0, <1>3, SameSentBy DEF Confirm
<1>4. ASSUME NEW q \in Questions, MailFetch(q) PROVE HandedOnce'
  BY <1>0, <1>4, SameSentBy DEF MailFetch, SourcesApart
<1>5. ASSUME NEW q \in Questions, MailFetchFails(q) PROVE HandedOnce'
  BY <1>0, <1>5, SameSentBy DEF MailFetchFails, SourcesApart
<1>6. ASSUME NEW q \in Questions, NEW g \in Gens, Handle(q, g) PROVE HandedOnce'
  <2>1. /\ ask[q].via = "telegram" /\ <<q, g>> \in handlers
        /\ handlers' = handlers \ {<<q, g>>} /\ UNCHANGED <<ask, inbox, gen>>
    BY <1>6 DEF Handle, SourcesApart
  <2>2. \A x \in Questions : /\ SentBy(x)' \subseteq SentBy(x) \cup {g}
                             /\ x # q => SentBy(x)' = SentBy(x)
    BY <1>6, SentByHandle, SentByStep
  <2>3. ASSUME NEW x \in Questions, NEW y \in Gens, <<x, y>> \in handlers'
        PROVE  y <= gen' /\ y \notin SentBy(x)'
    <3>1. <<x, y>> \in handlers /\ ~(x = q /\ y = g)
      BY <2>1, <2>3
    <3> QED BY <2>1, <2>2, <3>1
  <2>4. ASSUME NEW x \in Questions
        PROVE  /\ \A y \in SentBy(x)' : y <= gen'
               /\ ask'[x].via = "outside" => SentBy(x)' = {}
               /\ ask'[x].via = "telegram" /\ inbox'[x] \in {"unsent", "new"}
                    => gen' \notin SentBy(x)' /\ <<x, gen'>> \notin handlers'
    <3>1. g <= gen
      BY <2>1
    <3>2. x = q /\ inbox[q] \in {"unsent", "new"} => g # gen
      BY <2>1
    <3> QED BY <1>0, <2>1, <2>2, <3>1, <3>2
  <2> QED BY <2>3, <2>4
<1>7. CASE MailPoll
  BY <1>7, SameSentBy DEF MailPoll
<1>8. CASE MailProcess
  <2>1. /\ mail \in Questions /\ ask[mail].via = "email"
        /\ UNCHANGED <<ask, inbox, gen, handlers>>
    BY <1>0, <1>8 DEF MailProcess, SourcesApart
  <2>2. \A x \in Questions : /\ SentBy(x)' \subseteq SentBy(x) \cup {gen}
                             /\ x # mail => SentBy(x)' = SentBy(x)
    BY <1>8, SentByMail, SentByStep
  <2>3. \A x \in Questions, y \in Gens : <<x, y>> \in handlers => x # mail
    BY <2>1 DEF SourcesApart
  <2> QED BY <1>0, <2>1, <2>2, <2>3
<1>9. CASE OtherSteps
  BY <1>9, OtherStepsFrame, SameSentBy
<1>10. CASE Reload \/ Crash
  <2>1. /\ UNCHANGED <<ask, sent>> /\ gen' = gen + 1 /\ handlers' \subseteq handlers
        /\ \A q \in Questions : inbox'[q] \in {"unsent", "new"}
                                  => inbox[q] \in {"unsent", "new", "fetched"}
    BY <1>0, <1>10 DEF Reload, Crash, NewGeneration
  <2>2. PICK next : next = gen'
    OBVIOUS
  <2>3. gen \in Nat /\ next = gen + 1
    BY <1>0, <2>1, <2>2
  <2>4. ASSUME NEW q \in Questions PROVE next \notin SentBy(q) /\ <<q, next>> \notin handlers
    <3>1. next \in Gens => ~(next <= gen)
      BY <2>3
    <3> QED BY <1>0, <3>1
  <2>5. \A y \in Gens : y <= gen => y <= next
    BY <1>0, <2>3
  <2>6. ASSUME NEW q \in Questions, NEW g \in Gens, <<q, g>> \in handlers'
        PROVE  g <= next /\ g \notin SentBy(q)'
    BY <2>1, <2>5, <2>6, SameSentBy
  <2>7. ASSUME NEW q \in Questions
        PROVE  /\ \A g \in SentBy(q)' : g <= next
               /\ ask'[q].via = "outside" => SentBy(q)' = {}
               /\ next \notin SentBy(q)' /\ <<q, next>> \notin handlers'
    BY <1>0, <2>1, <2>4, <2>5, SameSentBy
  <2> QED BY <2>2, <2>6, <2>7
<1> QED
  BY StepCases, <1>1, <1>2, <1>3, <1>4, <1>5, <1>6, <1>7, <1>8, <1>9, <1>10

\* A telegram update is begun again only by a generation that found it unconfirmed.
LEMMA BegunStep ==
  TypeOK /\ SourcesApart /\ HandedOnce /\ BegunAgainOnlyUnconfirmed /\ [Next]_vars
    => BegunAgainOnlyUnconfirmed'
<1> SUFFICES ASSUME TypeOK, TypeOK', SourcesApart, HandedOnce, BegunAgainOnlyUnconfirmed,
                    [Next]_vars, NEW q \in Questions, ask'[q].via = "telegram"
             PROVE  /\ inbox'[q] = "unsent" => Begun(q)' = {}
                    /\ inbox'[q] = "new" => \A g \in Begun(q)' : FoundBetween(q, g, gen)'
                    /\ \A g, h \in Begun(q)' : g < h => FoundBetween(q, g, h)'
  BY TypeStep DEF BegunAgainOnlyUnconfirmed
<1> DEFINE Goal == /\ inbox'[q] = "unsent" => Begun(q)' = {}
                   /\ inbox'[q] = "new" => \A g \in Begun(q)' : FoundBetween(q, g, gen)'
                   /\ \A g, h \in Begun(q)' : g < h => FoundBetween(q, g, h)'
<1> USE DEF sourceVars, genVars, historyVars
<1>0. /\ inbox \in [Questions -> {"unsent", "new", "fetched", "done"}]
      /\ gen \in Gens /\ gen' \in Gens /\ found \in [Questions -> SUBSET Gens]
      /\ Gens \subseteq Nat /\ Begun(q) \subseteq Gens
  <2>1. Gens \subseteq Nat
    BY DEF Gens
  <2>2. SentBy(q) \subseteq Gens
    BY DEF SentBy
  <2>3. Begun(q) \subseteq Gens
    BY <2>2 DEF Begun
  <2> QED BY <2>1, <2>3 DEF TypeOK
<1>1. ask' = ask
  BY StepCases, OtherStepsFrame
     DEF Send, FetchUpdate, Confirm, MailFetch, MailFetchFails, Handle, MailPoll, MailProcess, Reload, Crash
<1>2. /\ ask[q].via = "telegram"
      /\ inbox[q] = "unsent" => Begun(q) = {}
      /\ inbox[q] = "new" => \A g \in Begun(q) : FoundBetween(q, g, gen)
      /\ \A g, h \in Begun(q) : g < h => FoundBetween(q, g, h)
  BY <1>1 DEF BegunAgainOnlyUnconfirmed
\* Nothing more begun, and the update does not get back into Telegram's queue.
<1>3. ASSUME Begun(q)' \subseteq Begun(q), UNCHANGED <<found, gen>>,
             inbox'[q] \in {"unsent", "new"} => inbox'[q] = inbox[q]
      PROVE  Goal
  <2>1. \A g, h : FoundBetween(q, g, h)' <=> FoundBetween(q, g, h)
    BY <1>3 DEF FoundBetween
  <2>2. \A g : FoundBetween(q, g, gen)' <=> FoundBetween(q, g, gen)
    BY <1>3 DEF FoundBetween
  <2> QED BY <1>2, <1>3, <2>1, <2>2
<1>4. ASSUME UNCHANGED <<sent, handlers>> PROVE Begun(q)' = Begun(q)
  BY <1>4 DEF Begun, SentBy
<1>5. ASSUME NEW x \in Questions, Send(x) PROVE Goal
  <2>1. CASE inbox'[q] = inbox[q]
    BY <1>3, <1>4, <1>5, <2>1 DEF Send
  <2>2. CASE inbox[q] = "unsent" /\ inbox'[q] \in {"new", "done"}
    <3>1. Begun(q)' = {}
      BY <1>2, <1>4, <1>5, <2>2 DEF Send
    <3> QED BY <3>1
  <2> QED BY <1>0, <1>5, <2>1, <2>2 DEF Send
<1>6. ASSUME NEW x \in Questions, FetchUpdate(x) PROVE Goal
  <2>1. UNCHANGED <<gen, found, sent>> /\ handlers' = handlers \cup {<<x, gen>>}
    BY <1>6 DEF FetchUpdate
  <2>2. CASE x # q
    <3>1. Begun(q)' = Begun(q) /\ inbox'[q] = inbox[q]
      BY <1>0, <1>6, <2>1, <2>2 DEF FetchUpdate, Begun, SentBy
    <3> QED BY <1>3, <2>1, <3>1
  <2>3. CASE x = q
    <3>1. inbox[q] = "new" /\ inbox'[q] = "fetched"
      BY <1>0, <1>6, <2>3 DEF FetchUpdate
    <3>2. Begun(q)' \subseteq Begun(q) \cup {gen}
      BY <2>1, <2>3 DEF Begun, SentBy
    <3>3. \A g \in Begun(q) : g <= gen
      BY DEF Begun, HandedOnce
    <3>4. \A g, h : FoundBetween(q, g, h)' <=> FoundBetween(q, g, h)
      BY <2>1 DEF FoundBetween
    <3>5. ASSUME NEW g \in Begun(q)', NEW h \in Begun(q)', g < h PROVE FoundBetween(q, g, h)
      <4>1. CASE h \in Begun(q) /\ g \in Begun(q)
        BY <1>2, <3>5, <4>1
      <4>2. CASE h = gen /\ g \in Begun(q)
        BY <1>2, <3>1, <4>2
      <4>3. CASE g = gen
        BY <1>0, <3>2, <3>3, <3>5, <4>3
      <4> QED BY <3>2, <3>5, <4>1, <4>2, <4>3
    <3> QED BY <3>1, <3>4, <3>5
  <2> QED BY <2>2, <2>3
<1>7. ASSUME NEW x \in Questions, Confirm(x) PROVE Goal
  BY <1>0, <1>3, <1>4, <1>7 DEF Confirm
<1>8. ASSUME NEW x \in Questions, MailFetch(x) \/ MailFetchFails(x) PROVE Goal
  <2>1. x # q
    BY <1>2, <1>8 DEF MailFetch, MailFetchFails, SourcesApart
  <2> QED BY <1>0, <1>3, <1>4, <1>8, <2>1 DEF MailFetch, MailFetchFails
<1>9. ASSUME NEW x \in Questions, NEW y \in Gens, Handle(x, y) PROVE Goal
  <2>1. <<x, y>> \in handlers /\ handlers' \subseteq handlers /\ UNCHANGED <<gen, found, inbox>>
    BY <1>9 DEF Handle
  <2>2. SentBy(q)' \subseteq SentBy(q) \cup (IF x = q THEN {y} ELSE {})
    BY <1>9, SentByHandle, SentByStep
  <2>3. Begun(q)' \subseteq Begun(q)
    BY <2>1, <2>2 DEF Begun
  <2> QED BY <1>3, <2>1, <2>3
<1>10. CASE MailPoll
  BY <1>3, <1>4, <1>10 DEF MailPoll
<1>11. CASE MailProcess
  <2>1. UNCHANGED <<handlers, gen, found, inbox>>
    BY <1>11 DEF MailProcess
  <2>2. mail # q
    BY <1>2 DEF SourcesApart
  <2>3. SentBy(q)' = SentBy(q)
    BY <1>11, <2>2, SentByMail, SentByStep
  <2>4. Begun(q)' \subseteq Begun(q)
    BY <2>1, <2>3 DEF Begun
  <2> QED BY <1>3, <2>1, <2>4
<1>12. CASE OtherSteps
  BY <1>3, <1>4, <1>12, OtherStepsFrame
<1>13. CASE Reload \/ Crash
  <2>1. /\ sent' = sent /\ handlers' \subseteq handlers /\ gen' = gen + 1
        /\ inbox'[q] = IF inbox[q] = "fetched" THEN "new" ELSE inbox[q]
        /\ found'[q] = IF inbox[q] = "fetched" THEN found[q] \cup {gen + 1} ELSE found[q]
    BY <1>0, <1>13 DEF Reload, Crash, NewGeneration
  <2>2. Begun(q)' \subseteq Begun(q)
    BY <2>1, SameSentBy DEF Begun
  <2>3. \A g, h : FoundBetween(q, g, h) => FoundBetween(q, g, h)'
    BY <2>1 DEF FoundBetween
  <2>p. PICK next \in Gens : next = gen'
    BY <1>0
  <2>4. next = gen + 1 /\ \A g \in Begun(q) : g < next
    <3>1. \A g \in Begun(q) : g \in Nat /\ g <= gen
      BY <1>0 DEF Begun, HandedOnce
    <3> QED BY <1>0, <2>1, <2>p, <3>1
  <2>5. ASSUME NEW g \in Begun(q)', inbox'[q] = "new" PROVE FoundBetween(q, g, gen)'
    <3>1. CASE inbox[q] = "fetched"
      <4>1. next \in found'[q] /\ g < next /\ next <= next
        BY <1>0, <2>1, <2>2, <2>4, <2>5, <2>p, <3>1
      <4> QED BY <2>p, <4>1 DEF FoundBetween
    <3>2. CASE inbox[q] = "new"
      <4>1. PICK k \in found[q] : g < k /\ k <= gen
        BY <1>2, <2>2, <2>5, <3>2 DEF FoundBetween
      <4>2. k <= next
        BY <1>0, <2>4, <4>1
      <4> QED BY <2>1, <2>p, <3>2, <4>1, <4>2 DEF FoundBetween
    <3> QED BY <2>1, <2>5, <3>1, <3>2
  <2>6. inbox'[q] = "unsent" => inbox[q] = "unsent"
    BY <2>1
  <2> QED BY <1>2, <2>2, <2>3, <2>5, <2>6
<1> QED
  BY StepCases, <1>5, <1>6, <1>7, <1>8, <1>9, <1>10, <1>11, <1>12, <1>13

LEMMA AskedAgainStep ==
  TypeOK /\ SourcesApart /\ HandedOnce /\ BegunAgainOnlyUnconfirmed /\ AskedAgainOnlyUnconfirmed
    /\ [Next]_vars => AskedAgainOnlyUnconfirmed'
<1> SUFFICES ASSUME TypeOK, SourcesApart, HandedOnce, BegunAgainOnlyUnconfirmed,
                    BegunAgainOnlyUnconfirmed', AskedAgainOnlyUnconfirmed, [Next]_vars
             PROVE  AskedAgainOnlyUnconfirmed'
  BY BegunStep
<1> USE DEF AskedAgainOnlyUnconfirmed, sourceVars, genVars, historyVars
<1>0. /\ sent \in [Questions -> [Gens -> Nat]] /\ gen \in Gens
      /\ mail \in Questions \cup {"none"} /\ Gens \subseteq Nat
  BY DEF TypeOK, Gens
<1>1. ask' = ask
  BY StepCases, OtherStepsFrame
     DEF Send, FetchUpdate, Confirm, MailFetch, MailFetchFails, Handle, MailPoll, MailProcess, Reload, Crash
<1>2. CASE sent' = sent
  <2>1. \A q \in Questions : found[q] \subseteq found'[q]
    <3>1. CASE found' = found
      BY <3>1
    <3>2. CASE NewGeneration
      BY <3>2 DEF NewGeneration
    <3> QED
      BY <3>1, <3>2, StepCases, OtherStepsFrame
         DEF Send, FetchUpdate, Confirm, MailFetch, MailFetchFails, Handle, MailPoll, MailProcess,
             Reload, Crash
  <2>2. \A q \in Questions : \A g, h : FoundBetween(q, g, h) => FoundBetween(q, g, h)'
    BY <2>1 DEF FoundBetween
  <2> QED BY <1>1, <1>2, <2>2, SameSentBy
\* A first publish by g.
<1>3. ASSUME NEW q \in Questions, NEW g \in Gens, Hand(q, g), g \notin SentBy(q)
      PROVE  /\ \A x \in Questions, y \in Gens : sent'[x][y] <= 1
             /\ \A x \in Questions : x # q => SentBy(x)' = SentBy(x)
  <2>1. sent[q][g] = 0
    BY <1>0, <1>3 DEF SentBy
  <2>2. \A x \in Questions, y \in Gens :
          sent'[x][y] = IF x = q /\ y = g THEN 1 ELSE sent[x][y]
    BY <1>3, <2>1, HandType
  <2> QED BY <1>3, <2>2, SentByStep
<1>4. ASSUME NEW q \in Questions, NEW g \in Gens, Handle(q, g), Hand(q, g)
      PROVE  AskedAgainOnlyUnconfirmed'
  <2>1. ask[q].via = "telegram" /\ g \notin SentBy(q) /\ found' = found
    BY <1>4 DEF Handle, HandedOnce, SourcesApart
  <2>2. \A h, k \in SentBy(q)' : h < k => FoundBetween(q, h, k)'
    BY <1>1, <2>1 DEF BegunAgainOnlyUnconfirmed, Begun
  <2>3. \A x \in Questions : \A h, k : FoundBetween(x, h, k)' <=> FoundBetween(x, h, k)
    BY <2>1 DEF FoundBetween
  <2> QED BY <1>1, <1>3, <1>4, <2>1, <2>2, <2>3
<1>5. ASSUME NEW q \in Questions, NEW g \in Gens, q = mail, g = gen, MailProcess, Hand(q, g)
      PROVE  AskedAgainOnlyUnconfirmed'
  <2>1. SentBy(q) = {} /\ found' = found
    BY <1>5 DEF MailProcess, SourcesApart
  <2>2. SentBy(q)' \subseteq {g} /\ ~(g < g)
    BY <1>0, <1>5, <2>1, SentByStep
  <2>3. \A x \in Questions : \A h, k : FoundBetween(x, h, k)' <=> FoundBetween(x, h, k)
    BY <2>1 DEF FoundBetween
  <2> QED BY <1>1, <1>3, <1>5, <2>1, <2>2, <2>3
<1> QED BY StepCases, OtherStepsFrame, <1>2, <1>4, <1>5, SentByMail
     DEF Send, FetchUpdate, Confirm, MailFetch, MailFetchFails, Handle, MailPoll, Reload, Crash

SourcesInv ==
  SourcesApart /\ HandedOnce /\ BegunAgainOnlyUnconfirmed /\ AskedAgainOnlyUnconfirmed

LEMMA SourcesInvariant == Spec => []SourcesInv
<1>1. Init => SourcesInv
  <2> SUFFICES ASSUME Init PROVE SourcesInv
    OBVIOUS
  <2>1. ASSUME NEW q \in Questions
        PROVE  SentBy(q) = {} /\ Begun(q) = {} /\ \A g \in Gens : sent[q][g] <= 1
    <3>1. \A g \in Gens : sent[q][g] = 0
      BY DEF Init
    <3>2. SentBy(q) = {} /\ \A g \in Gens : sent[q][g] <= 1
      BY <3>1 DEF SentBy
    <3> QED BY <3>2 DEF Begun, Init
  <2>2. SourcesApart /\ HandedOnce /\ BegunAgainOnlyUnconfirmed
    BY <2>1 DEF Init, SourcesApart, HandedOnce, BegunAgainOnlyUnconfirmed
  <2> QED BY <2>1, <2>2 DEF SourcesInv, AskedAgainOnlyUnconfirmed
<1>2. TypeOK /\ SourcesInv /\ [Next]_vars => SourcesInv'
  BY SourcesStep, HandedOnceStep, BegunStep, AskedAgainStep DEF SourcesInv
<1> QED BY <1>1, <1>2, TypeCorrect, PTL DEF Spec, Safety

\* A user's message is published once by each generation at most, and by a
\* second one only if it is a telegram update that a reload or a restart since
\* the first found unconfirmed (telegram.rs:34-53, main.rs:332, email.rs:301-345).
THEOREM AskedAgainOnlyIfUnconfirmed == Spec => []AskedAgainOnlyUnconfirmed
<1>1. SourcesInv => AskedAgainOnlyUnconfirmed
  BY DEF SourcesInv
<1> QED BY <1>1, SourcesInvariant, PTL

LEMMA NothingLostStep == TypeOK /\ SourcesApart /\ NothingLost /\ [Next]_vars => NothingLost'
<1> SUFFICES ASSUME TypeOK, SourcesApart, NothingLost, [Next]_vars, NEW q \in Questions,
                    Wanted(q)', inbox'[q] \in {"fetched", "done"}
             PROVE  SentBy(q)' # {} \/ BeingHandled(q)' \/ q \in failed' \/ crashed'
  BY DEF NothingLost
<1> USE DEF BeingHandled, sourceVars, historyVars
<1>0. /\ ask \in [Questions -> Asked] /\ inbox \in [Questions -> {"unsent", "new", "fetched", "done"}]
      /\ mail \in Questions \cup {"none"} /\ gen \in Gens
      /\ crashed \in BOOLEAN
  BY DEF TypeOK
<1>a. ask' = ask
  BY StepCases, OtherStepsFrame
     DEF Send, FetchUpdate, Confirm, MailFetch, MailFetchFails, Handle, MailPoll, MailProcess, Reload, Crash
<1>b. Wanted(q)
  BY <1>a DEF Wanted
<1>c. \/ inbox[q] \notin {"fetched", "done"}
      \/ SentBy(q) # {} \/ q = mail \/ (\E g \in Gens : <<q, g>> \in handlers)
      \/ q \in failed \/ crashed
  BY <1>b DEF NothingLost
<1> DEFINE Goal == SentBy(q)' # {} \/ BeingHandled(q)' \/ q \in failed' \/ crashed'
<1>1. ASSUME NEW x \in Questions, Send(x) PROVE Goal
  <2>1. x # q
    BY <1>0, <1>1, <1>b DEF Send, Wanted
  <2> QED BY <1>0, <1>1, <1>c, <2>1, SameSentBy DEF Send
<1>2. ASSUME NEW x \in Questions, FetchUpdate(x) PROVE Goal
  BY <1>0, <1>2, <1>c, SameSentBy DEF FetchUpdate
<1>3. ASSUME NEW x \in Questions, Confirm(x) PROVE Goal
  BY <1>0, <1>3, <1>c, SameSentBy DEF Confirm
<1>4. ASSUME NEW x \in Questions, MailFetch(x) PROVE Goal
  BY <1>0, <1>4, <1>c, SameSentBy DEF MailFetch
<1>5. ASSUME NEW x \in Questions, MailFetchFails(x) PROVE Goal
  BY <1>0, <1>5, <1>c, SameSentBy DEF MailFetchFails
<1>6. ASSUME NEW x \in Questions, NEW g \in Gens, Handle(x, g) PROVE Goal
  <2>1. UNCHANGED <<inbox, mail, crashed>> /\ handlers' = handlers \ {<<x, g>>}
    BY <1>6 DEF Handle
  <2>2. /\ failed \subseteq failed' /\ SentBy(q) \subseteq SentBy(q)'
        /\ Hand(x, g) => g \in SentBy(x)'
    BY <1>6, SentByHandle, SentByStep DEF Handle
  <2>3. CASE x = q
    <3>1. ask[q].welcome
      BY <1>b DEF Wanted
    <3>2. ask[q].form = "text" \/ ask[q].via = "email"
      BY <1>b DEF Wanted
    <3>3. ask[q].via = "telegram"
      BY <1>6, <2>3 DEF Handle, SourcesApart
    <3>4. SentBy(q)' # {} \/ q \in failed'
      BY <1>0, <1>6, <2>2, <2>3, <3>1, <3>2, <3>3 DEF Handle
    <3> QED BY <3>4
  <2>4. CASE x # q
    BY <1>c, <2>1, <2>2, <2>4
  <2> QED BY <2>3, <2>4
<1>7. CASE MailPoll
  BY <1>7, <1>c, SameSentBy DEF MailPoll
<1>8. CASE MailProcess
  <2>1. UNCHANGED <<inbox, handlers, crashed>>
    BY <1>8 DEF MailProcess
  <2>2. /\ failed \subseteq failed' /\ SentBy(q) \subseteq SentBy(q)'
        /\ Hand(mail, gen) /\ mail = q => SentBy(q)' # {}
    BY <1>8, SentByMail, SentByStep DEF MailProcess
  <2>3. CASE mail = q
    <3>1. ask[q].welcome /\ ask[q].form \in {"text", "admin"}
      BY <1>b DEF Wanted
    <3>2. SentBy(q)' # {} \/ q \in failed'
      BY <1>0, <1>8, <2>2, <2>3, <3>1 DEF MailProcess
    <3> QED BY <3>2
  <2>4. CASE mail # q
    BY <1>c, <2>1, <2>2, <2>4
  <2> QED BY <2>3, <2>4
<1>9. CASE OtherSteps
  BY <1>9, <1>c, OtherStepsFrame, SameSentBy
<1>10. CASE Reload
  <2>1. /\ UNCHANGED <<sent, handlers, mail, failed, crashed>>
        /\ inbox'[q] = IF inbox[q] = "fetched" THEN "new" ELSE inbox[q]
    BY <1>0, <1>10 DEF Reload, NewGeneration, MailGoesOn
  <2> QED BY <1>c, <2>1, SameSentBy
<1>11. CASE Crash
  BY <1>11 DEF Crash
<1> QED
  BY StepCases, <1>1, <1>2, <1>3, <1>4, <1>5, <1>6, <1>7, <1>8, <1>9, <1>10, <1>11

LEMMA NothingLostInvariant == Spec => []NothingLost
<1>1. Init => NothingLost
  BY DEF Init, NothingLost
<1>2. SourcesInv => SourcesApart
  BY DEF SourcesInv
<1> QED BY <1>1, <1>2, TypeCorrect, SourcesInvariant, NothingLostStep, PTL DEF Spec, Safety

\* A reload loses nothing that a welcome user wrote, and neither does the
\* handling of a message without logging an error (email.rs:351-436,
\* telegram.rs:73-164, main.rs:259-381).
THEOREM OnlyCrashesLose == Spec => []LostOnlyByCrash
<1>1. NothingLost => LostOnlyByCrash
  BY DEF NothingLost, LostOnlyByCrash
<1> QED BY <1>1, NothingLostInvariant, PTL

-----------------------------------------------------------------------------
(* The connection keeps an answer ahead of its ack. *)

OrderInv == AcksBehindAnswers /\ AnsweredAtAck /\ AckedMeansServed

\* What is answered before a position stays so when an item is appended ...
LEMMA AnsweredAppend ==
  ASSUME TypeOK, NEW item \in Items, wire' = Append(wire, item),
         served \cup excused \subseteq served' \cup excused',
         NEW n \in Nat, NEW r, NEW c, AnsweredBefore(n, r, c)
  PROVE  AnsweredBefore(n, r, c)'
<1>1. CASE <<r, c>> \in served \cup excused
  BY <1>1 DEF AnsweredBefore
<1>2. CASE \E j \in 1..Len(wire) : j < n /\ wire[j] = [kind |-> "answer", reader |-> r, copy |-> c]
  <2>1. wire \in Seq(Items)
    BY DEF TypeOK
  <2>2. \A j \in 1..Len(wire) : j \in 1..Len(wire') /\ wire'[j] = wire[j]
    BY <2>1
  <2> QED BY <1>2, <2>2 DEF AnsweredBefore
<1> QED BY <1>1, <1>2 DEF AnsweredBefore

\* ... and moves up by one when the first is taken away, unless that was the
\* answer, which is then stored or given up.
LEMMA AnsweredTail ==
  ASSUME TypeOK, wire # <<>>, wire' = Tail(wire),
         served \cup excused \subseteq served' \cup excused',
         Head(wire).kind = "answer"
           => <<Head(wire).reader, Head(wire).copy>> \in served' \cup excused',
         NEW n \in Nat, NEW r, NEW c, AnsweredBefore(n + 1, r, c)
  PROVE  AnsweredBefore(n, r, c)'
<1>1. CASE <<r, c>> \in served \cup excused
  BY <1>1 DEF AnsweredBefore
<1>2. ASSUME NEW j \in 1..Len(wire), j < n + 1,
             wire[j] = [kind |-> "answer", reader |-> r, copy |-> c]
      PROVE  AnsweredBefore(n, r, c)'
  <2>1. wire \in Seq(Items) /\ Len(wire) \in Nat
    BY DEF TypeOK
  <2>2. CASE j = 1
    <3>1. Head(wire) = [kind |-> "answer", reader |-> r, copy |-> c]
      BY <1>2, <2>1, <2>2
    <3>2. <<r, c>> \in served' \cup excused'
      BY <3>1
    <3> QED BY <3>2 DEF AnsweredBefore
  <2>3. CASE j # 1
    <3>1. j - 1 \in 1..Len(wire') /\ j - 1 < n /\ wire'[j - 1] = wire[j]
      BY <1>2, <2>1, <2>3
    <3> QED BY <1>2, <3>1 DEF AnsweredBefore
  <2> QED BY <2>2, <2>3
<1> QED BY <1>1, <1>2 DEF AnsweredBefore

\* The two orders, copy by copy.
LEMMA AcksBehindIf ==
  ASSUME ask' = ask,
         ASSUME NEW i \in 1..Len(wire'), wire'[i].kind = "ack",
                NEW r, wire'[i].reader = r, NEW c, wire'[i].copy = c, Calls(r, c)
         PROVE  AnsweredBefore(i, r, c)'
  PROVE  AcksBehindAnswers'
BY DEF AcksBehindAnswers, Calls, AnsweredBefore

LEMMA AtAckIf ==
  ASSUME ask' = ask, NEW n \in Nat, Len(wire') + 1 = n,
         ASSUME NEW r \in Readers, step'[r] = "ack", NEW c, cur'[r] = c, Calls(r, c)
         PROVE  AnsweredBefore(n, r, c)'
  PROVE  AnsweredAtAck'
BY DEF AnsweredAtAck, Calls, AnsweredBefore

\* A step that appends to the wire keeps the acks behind their answers, if what
\* it appends is no ack or the ack of something answered.
LEMMA AcksAppend ==
  ASSUME TypeOK, AcksBehindAnswers, ask' = ask,
         NEW item \in Items, wire' = Append(wire, item),
         served \cup excused \subseteq served' \cup excused',
         item.kind = "ack" /\ Calls(item.reader, item.copy)
           => AnsweredBefore(Len(wire) + 1, item.reader, item.copy)
  PROVE  AcksBehindAnswers'
<1>1. wire \in Seq(Items) /\ Len(wire) \in Nat
  BY DEF TypeOK
<1> SUFFICES ASSUME NEW i \in 1..Len(wire'), wire'[i].kind = "ack",
                    NEW r, wire'[i].reader = r, NEW c, wire'[i].copy = c, Calls(r, c)
             PROVE  AnsweredBefore(i, r, c)'
  BY AcksBehindIf
<1>2. i \in Nat
  BY <1>1
<1>3. CASE i \in 1..Len(wire)
  <2>1. wire'[i] = wire[i]
    BY <1>1, <1>3
  <2>2. AnsweredBefore(i, r, c)
    BY <1>3, <2>1 DEF AcksBehindAnswers
  <2> QED BY <1>2, <2>2, AnsweredAppend
<1>4. CASE i \notin 1..Len(wire)
  <2>1. i = Len(wire) + 1 /\ wire'[i] = item
    BY <1>1, <1>4
  <2>2. AnsweredBefore(i, r, c)
    BY <2>1
  <2> QED BY <1>2, <2>2, AnsweredAppend
<1> QED BY <1>3, <1>4

\* A reader that stays where it is, or goes on to an ack of something answered.
LEMMA AtAckAppend ==
  ASSUME TypeOK, AnsweredAtAck, ask' = ask,
         NEW item \in Items, wire' = Append(wire, item),
         served \cup excused \subseteq served' \cup excused',
         \A r \in Readers : step'[r] = "ack" =>
           \/ step[r] = "ack" /\ cur'[r] = cur[r]
           \/ item = [kind |-> "answer", reader |-> r, copy |-> cur'[r]]
  PROVE  AnsweredAtAck'
<1>1. wire \in Seq(Items) /\ Len(wire) \in Nat
  BY DEF TypeOK
<1>2. PICK n \in Nat : n = Len(wire) + 2 /\ Len(wire') + 1 = n
  BY <1>1
<1> SUFFICES ASSUME NEW r \in Readers, step'[r] = "ack", NEW c, cur'[r] = c, Calls(r, c)
             PROVE  AnsweredBefore(n, r, c)'
  BY <1>2, AtAckIf
<1>3. CASE step[r] = "ack" /\ cur'[r] = cur[r]
  <2>1. AnsweredBefore(Len(wire) + 1, r, c)
    BY <1>3 DEF AnsweredAtAck
  <2>2. AnsweredBefore(n, r, c)
    BY <1>1, <1>2, <2>1 DEF AnsweredBefore
  <2> QED BY <2>2, AnsweredAppend
<1>4. CASE item = [kind |-> "answer", reader |-> r, copy |-> c]
  <2>1. wire'[Len(wire) + 1] = [kind |-> "answer", reader |-> r, copy |-> c]
    BY <1>1, <1>4
  <2>2. Len(wire) + 1 \in 1..Len(wire')
    BY <1>1
  <2>3. Len(wire) + 1 < n
    BY <1>1, <1>2
  <2> QED BY <2>1, <2>2, <2>3 DEF AnsweredBefore
<1> QED BY <1>3, <1>4


\* A step that leaves the wire alone.
LEMMA OrderFrame ==
  ASSUME TypeOK, OrderInv, ask' = ask, wire' = wire,
         served \cup excused \subseteq served' \cup excused',
         \A r \in Readers : step'[r] = "ack" =>
           \/ step[r] = "ack" /\ cur'[r] = cur[r]
           \/ Calls(r, cur'[r]) => <<r, cur'[r]>> \in served' \cup excused',
         \A r \in Readers, c \in Copies : standing'[r][c] = "acked" => standing[r][c] = "acked"
  PROVE  OrderInv'
<1>1. AcksBehindAnswers'
  BY DEF OrderInv, AcksBehindAnswers, AnsweredBefore, Calls
<1>2. AnsweredAtAck'
  BY DEF OrderInv, AnsweredAtAck, AnsweredBefore, Calls
<1>3. AckedMeansServed'
  BY DEF OrderInv, AckedMeansServed, Calls
<1> QED BY <1>1, <1>2, <1>3 DEF OrderInv

\* The server has taken, or not taken, the first item.
LEMMA OrderTail ==
  ASSUME TypeOK, OrderInv, ask' = ask, wire # <<>>, wire' = Tail(wire),
         served \cup excused \subseteq served' \cup excused',
         Head(wire).kind = "answer"
           => <<Head(wire).reader, Head(wire).copy>> \in served' \cup excused',
         UNCHANGED <<step, cur>>
  PROVE  AcksBehindAnswers' /\ AnsweredAtAck'
<1>1. wire \in Seq(Items) /\ Len(wire) \in Nat /\ Len(wire') + 1 = Len(wire)
  BY DEF TypeOK
<1>2. AcksBehindAnswers'
  <2> SUFFICES ASSUME NEW i \in 1..Len(wire'), wire'[i].kind = "ack",
                      NEW r, wire'[i].reader = r, NEW c, wire'[i].copy = c, Calls(r, c)
               PROVE  AnsweredBefore(i, r, c)'
    BY AcksBehindIf
  <2>1. i \in Nat /\ i + 1 \in 1..Len(wire) /\ wire'[i] = wire[i + 1]
    BY <1>1
  <2>2. AnsweredBefore(i + 1, r, c)
    BY <2>1 DEF OrderInv, AcksBehindAnswers
  <2> QED BY <2>1, <2>2, AnsweredTail
<1>3. AnsweredAtAck'
  <2>0. PICK n \in Nat : n = Len(wire) /\ Len(wire') + 1 = n
    BY <1>1
  <2> SUFFICES ASSUME NEW r \in Readers, step'[r] = "ack", NEW c, cur'[r] = c, Calls(r, c)
               PROVE  AnsweredBefore(n, r, c)'
    BY <2>0, AtAckIf
  <2>1. AnsweredBefore(n + 1, r, c)
    BY <2>0 DEF OrderInv, AnsweredAtAck
  <2> QED BY <2>1, AnsweredTail
<1> QED BY <1>2, <1>3


\* A step of a reader that hands an item to the client.
LEMMA OrderAppend ==
  ASSUME TypeOK, OrderInv, ask' = ask,
         NEW item \in Items, wire' = Append(wire, item),
         UNCHANGED <<served, excused, standing>>,
         item.kind = "ack" /\ Calls(item.reader, item.copy)
           => AnsweredBefore(Len(wire) + 1, item.reader, item.copy),
         \A r \in Readers : step'[r] = "ack" =>
           \/ step[r] = "ack" /\ cur'[r] = cur[r]
           \/ item = [kind |-> "answer", reader |-> r, copy |-> cur'[r]]
  PROVE  OrderInv'
<1>1. AcksBehindAnswers'
  BY AcksAppend DEF OrderInv
<1>2. AnsweredAtAck'
  BY AtAckAppend DEF OrderInv
<1>3. AckedMeansServed'
  BY DEF OrderInv, AckedMeansServed, Calls
<1> QED BY <1>1, <1>2, <1>3 DEF OrderInv

LEMMA OrderStep == TypeOK /\ OrderInv /\ [Next]_vars => OrderInv'
<1> SUFFICES ASSUME TypeOK, OrderInv, [Next]_vars PROVE OrderInv'
  OBVIOUS
<1> USE DEF sourceVars, genVars, readerVars, historyVars
<1>0. /\ step \in [Readers -> {"recv", "call", "ack", "dead"}]
      /\ cur \in [Readers -> Copies \cup {Nothing}]
      /\ standing \in [Readers -> [Copies -> {"absent", "due", "out", "acked"}]]
      /\ mail \in Questions \cup {"none"} /\ gen \in Gens
  BY DEF TypeOK
<1>1. ASSUME NEW q \in Questions, Send(q) PROVE OrderInv'
  <2>1. \A r \in Readers, c \in Copies : standing'[r][c] = "acked" => standing[r][c] = "acked"
    <3>1. CASE UNCHANGED standing
      BY <3>1
    <3>2. ASSUME NEW d, Stored(d) PROVE <2>1
      BY <1>0, <3>2 DEF Stored
    <3> QED BY <1>1, <3>1, <3>2 DEF Send
  <2> QED BY <1>1, <2>1, OrderFrame DEF Send
<1>2. ASSUME NEW q \in Questions, FetchUpdate(q) \/ Confirm(q) \/ MailFetch(q) \/ MailFetchFails(q)
      PROVE  OrderInv'
  BY <1>2, OrderFrame DEF FetchUpdate, Confirm, MailFetch, MailFetchFails
<1>3. ASSUME NEW q \in Questions, NEW g \in Gens, Handle(q, g) PROVE OrderInv'
  <2>1. UNCHANGED <<ask, served, excused, standing, step, cur>>
    BY <1>3 DEF Handle
  <2>2. CASE wire' = wire
    BY <2>1, <2>2, OrderFrame
  <2>3. CASE wire' = Append(wire, [kind |-> "question", copy |-> <<q, g>>])
    <3>1. [kind |-> "question", copy |-> <<q, g>>] \in Items
      BY DEF Items, Copies
    <3> QED BY <2>1, <2>3, <3>1, OrderAppend
  <2> QED BY <1>3, <2>2, <2>3 DEF Handle, Hand, Write
<1>4. CASE MailProcess
  <2>1. UNCHANGED <<ask, served, excused, standing, step, cur>>
    BY <1>4 DEF MailProcess
  <2>2. CASE wire' = wire
    BY <2>1, <2>2, OrderFrame
  <2>3. CASE wire' = Append(wire, [kind |-> "question", copy |-> <<mail, gen>>])
    <3>1. [kind |-> "question", copy |-> <<mail, gen>>] \in Items
      BY <1>0, <1>4 DEF MailProcess, Items, Copies
    <3> QED BY <2>1, <2>3, <3>1, OrderAppend
  <2> QED BY <1>4, <2>2, <2>3 DEF MailProcess, Hand, Write
<1>5. CASE MailPoll
  BY <1>5, OrderFrame DEF MailPoll
<1>6. CASE ServerTakes
  <2> DEFINE i == Head(wire)
  <2>1. i \in Items
    BY <1>6, TailType DEF ServerTakes
  <2>2. /\ wire # <<>> /\ wire' = Tail(wire) /\ UNCHANGED <<ask, step, cur, excused>>
        /\ served \subseteq served' /\ (i.kind = "answer" => <<i.reader, i.copy>> \in served')
    BY <1>6 DEF ServerTakes
  <2>3. AcksBehindAnswers' /\ AnsweredAtAck'
    BY <2>2, OrderTail
  <2>4. ASSUME NEW r \in Readers, NEW c \in Copies, standing'[r][c] = "acked",
               standing[r][c] # "acked", Calls(r, c)
        PROVE  <<r, c>> \in served \cup excused
    <3>1. i.kind = "ack" /\ i.reader = r /\ i.copy = c
      BY <1>0, <1>6, <2>1, <2>4, ItemType DEF ServerTakes, Stored, AckExplicit
    <3>2. 1 \in 1..Len(wire) /\ wire[1] = i
      BY <2>2 DEF TypeOK
    <3>3. AnsweredBefore(1, r, c)
      BY <2>4, <3>1, <3>2 DEF OrderInv, AcksBehindAnswers
    <3>4. ~ \E j \in 1..Len(wire) : j < 1
      BY DEF TypeOK
    <3> QED BY <3>3, <3>4 DEF AnsweredBefore
  <2>5. AckedMeansServed'
    BY <2>2, <2>4 DEF OrderInv, AckedMeansServed, Calls
  <2> QED BY <2>3, <2>5 DEF OrderInv
<1>7. CASE ServerDrops
  <2>1. /\ wire # <<>> /\ wire' = Tail(wire) /\ UNCHANGED <<ask, step, cur, served, standing>>
        /\ excused \subseteq excused'
        /\ Head(wire).kind = "answer" => <<Head(wire).reader, Head(wire).copy>> \in excused'
    BY <1>7 DEF ServerDrops
  <2>2. AcksBehindAnswers' /\ AnsweredAtAck'
    BY <2>1, OrderTail
  <2>3. AckedMeansServed'
    BY <2>1 DEF OrderInv, AckedMeansServed, Calls
  <2> QED BY <2>2, <2>3 DEF OrderInv
<1>8. ASSUME NEW r \in Readers, Take(r) PROVE OrderInv'
  <2>1. \A x \in Readers : step'[x] = "ack" =>
          \/ step[x] = "ack" /\ cur'[x] = cur[x]
          \/ ~Calls(x, cur'[x])
    BY <1>0, <1>8 DEF Take
  <2> QED BY <1>8, <2>1, OrderFrame DEF Take
<1>9. ASSUME NEW r \in Readers, Answer(r) PROVE OrderInv'
  <2> DEFINE item == [kind |-> "answer", reader |-> r, copy |-> cur[r]]
  <2>1. item \in Items
    BY <1>9 DEF Answer, TypeOK, Items
  <2>2. wire' = Append(wire, item) /\ UNCHANGED <<ask, served, excused, standing, cur>>
    BY <1>9 DEF Answer, Write
  <2>3. \A x \in Readers : step'[x] = "ack" => step[x] = "ack" \/ x = r
    BY <1>0, <1>9 DEF Answer, GoesOnToAck
  <2> QED BY <2>1, <2>2, <2>3, OrderAppend
<1>10. ASSUME NEW r \in Readers, CallFails(r) PROVE OrderInv'
  <2>1. \A x \in Readers : step'[x] = "ack" =>
          step[x] = "ack" \/ <<x, cur[x]>> \in excused'
    BY <1>0, <1>10 DEF CallFails
  <2> QED BY <1>10, <2>1, OrderFrame DEF CallFails
<1>11. ASSUME NEW r \in Readers, Ack(r) PROVE OrderInv'
  <2> DEFINE item == [kind |-> "ack", reader |-> r, copy |-> cur[r]]
  <2>1. item \in Items
    BY <1>11 DEF Ack, TypeOK, Items
  <2>2. wire' = Append(wire, item) /\ UNCHANGED <<ask, served, excused, standing>>
    BY <1>11 DEF Ack, Write
  <2>3. Calls(r, cur[r]) => AnsweredBefore(Len(wire) + 1, r, cur[r])
    BY <1>11 DEF Ack, OrderInv, AnsweredAtAck
  <2>4. \A x \in Readers : step'[x] = "ack" => step[x] = "ack" /\ cur'[x] = cur[x]
    BY <1>0, <1>11 DEF Ack
  <2> QED BY <1>11, <2>1, <2>2, <2>3, <2>4, OrderAppend
<1>12. ASSUME NEW r \in Readers, NEW c \in Copies, Deliver(r, c) \/ AckWaitExpires(r, c)
       PROVE  OrderInv'
  <2>1. \A x \in Readers, d \in Copies : standing'[x][d] = "acked" => standing[x][d] = "acked"
    BY <1>0, <1>12 DEF Deliver, AckWaitExpires
  <2> QED BY <1>12, <2>1, OrderFrame DEF Deliver, AckWaitExpires
<1>13. CASE Relay
  <2>1. \A x \in Readers : step'[x] = "ack" =>
          step[x] = "ack" \/ <<x, cur[x]>> \in served'
    BY <1>0, <1>13 DEF Relay, GoesOnToAck
  <2> QED BY <1>13, <2>1, OrderFrame DEF Relay
<1>14. CASE ReceiveError
  <2>1. \A x \in Readers : step'[x] = "ack" => step[x] = "ack"
    BY <1>0, <1>14 DEF ReceiveError
  <2> QED BY <1>14, <2>1, OrderFrame DEF ReceiveError
<1>15. CASE Reload
  <2>1. \A x \in Readers : step'[x] # "ack"
    BY <1>15 DEF Reload, NewGeneration, Started
  <2> QED BY <1>15, <2>1, OrderFrame DEF Reload
<1>16. CASE Crash
  <2>1. (\A x \in Readers : step'[x] # "ack") /\ wire' = <<>>
        /\ UNCHANGED <<ask, served, excused, standing>>
    BY <1>16 DEF Crash, NewGeneration, Started
  <2>2. AcksBehindAnswers' /\ AnsweredAtAck'
    BY <2>1 DEF AcksBehindAnswers, AnsweredAtAck
  <2>3. AckedMeansServed'
    BY <2>1 DEF OrderInv, AckedMeansServed, Calls
  <2> QED BY <2>2, <2>3 DEF OrderInv
<1>17. CASE UNCHANGED vars
  BY <1>17, OrderFrame DEF vars
<1> QED
  BY <1>1, <1>2, <1>3, <1>4, <1>5, <1>6, <1>7, <1>8, <1>9, <1>10, <1>11, <1>12, <1>13,
     <1>14, <1>15, <1>16, <1>17 DEF Next

LEMMA OrderInvariant == Spec => []OrderInv
<1>1. Init => OrderInv
  BY DEF Init, Started, OrderInv, AcksBehindAnswers, AnsweredAtAck, AckedMeansServed
<1> QED BY <1>1, TypeCorrect, OrderStep, PTL DEF Spec, Safety

\* What a durable has settled is answered, or its call or publish failed and was
\* logged, whatever restarts in between: the listener hands over the answer
\* before the ack, and the connection keeps their order (llm_openai.rs:156-188).
THEOREM AcksFollowAnswers == Spec => []AckedMeansServed
<1>1. OrderInv => AckedMeansServed
  BY DEF OrderInv
<1> QED BY <1>1, OrderInvariant, PTL

-----------------------------------------------------------------------------
(* The stream gets each copy once, and its readers hold nothing else. *)

\* What is on the wire after an item was appended to it ...
LEMMA WireAppend ==
  ASSUME TypeOK, NEW item \in Items, wire' = Append(wire, item)
  PROVE  /\ \A x : OnWire(x)' <=> OnWire(x) \/ x = item
         /\ \A x : AtMostOnceOnWire(x) /\ (x # item \/ ~OnWire(x)) => AtMostOnceOnWire(x)'
<1>1. /\ wire \in Seq(Items) /\ Len(wire) \in Nat /\ Len(wire') = Len(wire) + 1
      /\ \A i \in 1..Len(wire) : wire'[i] = wire[i]
      /\ wire'[Len(wire) + 1] = item
  BY DEF TypeOK
<1>2. \A i : i \in 1..Len(wire') <=> i \in 1..Len(wire) \/ i = Len(wire) + 1
  BY <1>1
<1> QED BY <1>1, <1>2 DEF OnWire, AtMostOnceOnWire

\* ... and after the first item was taken from it.
LEMMA WireTail ==
  ASSUME TypeOK, wire # <<>>, wire' = Tail(wire)
  PROVE  /\ OnWire(Head(wire))
         /\ \A x : OnWire(x)' => OnWire(x)
         /\ \A x : AtMostOnceOnWire(x) => AtMostOnceOnWire(x)'
         /\ \A x : AtMostOnceOnWire(x) /\ x = Head(wire) => ~OnWire(x)'
<1>1. /\ wire \in Seq(Items) /\ Len(wire) \in Nat /\ Len(wire') = Len(wire) - 1
      /\ 1 \in 1..Len(wire) /\ wire[1] = Head(wire)
      /\ \A i \in 1..Len(wire') : wire'[i] = wire[i + 1] /\ i + 1 \in 1..Len(wire)
  BY DEF TypeOK
<1>2. OnWire(Head(wire))
  BY <1>1 DEF OnWire
<1>3. \A x : OnWire(x)' => OnWire(x)
  BY <1>1 DEF OnWire
<1>4. ASSUME NEW x, AtMostOnceOnWire(x)
      PROVE  AtMostOnceOnWire(x)' /\ (x = Head(wire) => ~OnWire(x)')
  <2>1. ASSUME NEW i \in 1..Len(wire'), NEW j \in 1..Len(wire'), wire'[i] = x, wire'[j] = x
        PROVE  i = j
    BY <1>1, <1>4, <2>1 DEF AtMostOnceOnWire
  <2>2. ASSUME NEW i \in 1..Len(wire'), wire'[i] = x, x = Head(wire)
        PROVE  FALSE
    BY <1>1, <1>4, <2>2 DEF AtMostOnceOnWire
  <2> QED BY <2>1, <2>2 DEF AtMostOnceOnWire, OnWire
<1> QED BY <1>2, <1>3, <1>4

LEMMA ItemsDiffer ==
  /\ \A c, d : QuestionItem(c) = QuestionItem(d) => c = d
  /\ \A r, s, c, d : AnswerItem(r, c) = AnswerItem(s, d) => r = s /\ c = d
  /\ \A r, c, d : QuestionItem(c) # AnswerItem(r, d)
  /\ \A r, s, c, d : /\ QuestionItem(c) # [kind |-> "ack", reader |-> r, copy |-> d]
                     /\ AnswerItem(s, c) # [kind |-> "ack", reader |-> r, copy |-> d]
<1>1. \A r, c : QuestionItem(c).kind = "question" /\ AnswerItem(r, c).kind = "answer"
                /\ [kind |-> "ack", reader |-> r, copy |-> c].kind = "ack"
  BY DEF QuestionItem, AnswerItem
<1>2. \A r, c : QuestionItem(c).copy = c /\ AnswerItem(r, c).copy = c /\ AnswerItem(r, c).reader = r
  BY DEF QuestionItem, AnswerItem
<1> QED BY <1>1, <1>2

\* An item of the wire is one of the three.
LEMMA ItemForms ==
  ASSUME NEW i \in Items
  PROVE  /\ i.kind = "question" => i = QuestionItem(i.copy)
         /\ i.kind = "answer" => i = AnswerItem(i.reader, i.copy)
         /\ i.kind = "ack" => i = [kind |-> "ack", reader |-> i.reader, copy |-> i.copy]
<1>1. CASE i \in [kind : {"question"}, copy : Copies]
  BY <1>1 DEF QuestionItem
<1>2. CASE i \in [kind : {"answer", "ack"}, reader : Readers, copy : Copies]
  BY <1>2 DEF AnswerItem
<1> QED BY <1>1, <1>2 DEF Items

\* Questions keep their kind, publishes are remembered, what is done is done.
LEMMA SourceHistory ==
  ASSUME TypeOK, [Next]_vars
  PROVE  /\ ask' = ask
         /\ \A q \in Questions : /\ SentBy(q) \subseteq SentBy(q)'
                                 /\ inbox[q] = "done" => inbox'[q] = "done"
<1> USE DEF sourceVars
<1>0. inbox \in [Questions -> {"unsent", "new", "fetched", "done"}]
  BY DEF TypeOK
<1>1. ASSUME NEW q \in Questions, Send(q) \/ FetchUpdate(q) \/ Confirm(q) \/ MailFetch(q)
                                    \/ MailFetchFails(q)
      PROVE  /\ UNCHANGED <<ask, sent>>
             /\ \A x \in Questions : inbox[x] = "done" => inbox'[x] = "done"
  BY <1>0, <1>1 DEF Send, FetchUpdate, Confirm, MailFetch, MailFetchFails
<1>2. ASSUME NEW q \in Questions, NEW g \in Gens, Handle(q, g)
      PROVE  UNCHANGED <<ask, inbox>> /\ \A x \in Questions : SentBy(x) \subseteq SentBy(x)'
  BY <1>2, SentByHandle, SentByStep DEF Handle
<1>3. CASE MailProcess
  BY <1>3, SentByMail, SentByStep DEF MailProcess
<1>4. CASE MailPoll
  BY <1>4, SameSentBy DEF MailPoll
<1>5. CASE OtherSteps
  BY <1>5, OtherStepsFrame, SameSentBy
<1>6. CASE Reload \/ Crash
  BY <1>0, <1>6, SameSentBy DEF Reload, Crash, NewGeneration
<1> QED BY StepCases, <1>1, <1>2, <1>3, <1>4, <1>5, <1>6, SameSentBy

\* Nothing is stored or handed over.
LEMMA StoredOnceFrame ==
  ASSUME TypeOK, StoredOnce, [Next]_vars,
         \A r \in Readers, c \in Copies : standing'[r][c] = "absent" <=> standing[r][c] = "absent",
         \A c \in Copies : /\ OnWire(QuestionItem(c))' => OnWire(QuestionItem(c))
                           /\ AtMostOnceOnWire(QuestionItem(c)) => AtMostOnceOnWire(QuestionItem(c))'
  PROVE  StoredOnce'
<1>1. \A c \in Copies : c[1] \in Questions
  BY DEF Copies
<1> QED BY <1>1, SourceHistory DEF StoredOnce

\* The question <<q, g>> is handed over for the first time.
LEMMA StoredOnceHand ==
  ASSUME TypeOK, StoredOnce, [Next]_vars,
         NEW q \in Questions, NEW g \in Gens, Hand(q, g), standing' = standing,
         g \notin SentBy(q), ask[q].via # "outside"
  PROVE  StoredOnce'
<1> DEFINE item == QuestionItem(<<q, g>>)
<1>1. <<q, g>> \in Copies /\ item \in Items /\ wire' = Append(wire, item)
  BY DEF Copies, Items, Hand, Write, QuestionItem
<1>2. g \in SentBy(q)'
  BY SentByStep
<1>3. \A r \in Readers : standing[r][<<q, g>>] = "absent"
  BY <1>1 DEF StoredOnce
<1>4. ~OnWire(item) /\ AtMostOnceOnWire(item)
  BY <1>1 DEF StoredOnce, AtMostOnceOnWire, OnWire
<1>5. \A c \in Copies : c[1] \in Questions
  BY DEF Copies
<1>6. /\ \A c \in Copies : OnWire(QuestionItem(c))' => OnWire(QuestionItem(c)) \/ c = <<q, g>>
      /\ \A c \in Copies : AtMostOnceOnWire(QuestionItem(c)) => AtMostOnceOnWire(QuestionItem(c))'
  <2> HIDE DEF item
  <2>1. \A c : QuestionItem(c) = item => c = <<q, g>>
    BY ItemsDiffer DEF item
  <2> QED BY <1>1, <1>4, <2>1, WireAppend
<1>7. AtMostOnceOnWire(QuestionItem(<<q, g>>))'
  BY <1>1, <1>4, <1>6
<1> HIDE DEF item
<1> QED BY <1>1, <1>2, <1>3, <1>5, <1>6, <1>7, SourceHistory DEF StoredOnce

LEMMA StoredOnceStep ==
  TypeOK /\ SourcesApart /\ HandedOnce /\ StoredOnce /\ [Next]_vars => StoredOnce'
<1> SUFFICES ASSUME TypeOK, SourcesApart, HandedOnce, StoredOnce, [Next]_vars PROVE StoredOnce'
  OBVIOUS
<1> USE DEF sourceVars, genVars, readerVars, historyVars
<1>0. /\ standing \in [Readers -> [Copies -> {"absent", "due", "out", "acked"}]]
      /\ inbox \in [Questions -> {"unsent", "new", "fetched", "done"}]
      /\ mail \in Questions \cup {"none"} /\ gen \in Gens /\ handlers \subseteq Questions \X Gens
  BY DEF TypeOK
<1>1. \A x : (wire' = wire => (OnWire(x)' => OnWire(x)) /\ (AtMostOnceOnWire(x) => AtMostOnceOnWire(x)'))
  BY DEF OnWire, AtMostOnceOnWire
<1>2. CASE UNCHANGED <<wire, standing>>
  BY <1>1, <1>2, StoredOnceFrame
<1>3. ASSUME NEW q \in Questions, Send(q) PROVE StoredOnce'
  <2>1. CASE standing' = standing
    BY <1>2, <1>3, <2>1 DEF Send
  <2>2. CASE ask[q].via = "outside" /\ Stored(<<q, 1>>)
    <3>1. /\ \A r \in Readers, c \in Copies : standing'[r][c] = "absent" <=>
                standing[r][c] = "absent" /\ ~(Reads(r, q) /\ c = <<q, 1>>)
          /\ inbox'[q] = "done" /\ SentBy(q) = {} /\ wire' = wire
      BY <1>0, <1>3, <2>2 DEF Send, Stored, HandedOnce
    <3>2. \A c \in Copies : c[1] \in Questions
      BY DEF Copies
    <3>3. \A c \in Copies : OnWire(QuestionItem(c)) => c # <<q, 1>>
      BY <3>1 DEF StoredOnce
    <3> QED BY <1>1, <2>2, <3>1, <3>2, <3>3, SourceHistory DEF StoredOnce
  <2> QED BY <1>3, <2>1, <2>2 DEF Send
<1>4. ASSUME NEW q \in Questions, NEW g \in Gens, Handle(q, g) PROVE StoredOnce'
  <2>1. g \notin SentBy(q) /\ ask[q].via # "outside" /\ standing' = standing
    <3>1. <<q, g>> \in handlers /\ standing' = standing
      BY <1>4 DEF Handle
    <3> QED BY <3>1 DEF HandedOnce, SourcesApart
  <2>2. CASE Hand(q, g)
    BY <2>1, <2>2, StoredOnceHand
  <2> QED BY <1>2, <1>4, <2>1, <2>2 DEF Handle
<1>5. CASE MailProcess
  <2>1. /\ mail \in Questions /\ gen \notin SentBy(mail) /\ ask[mail].via # "outside"
        /\ standing' = standing
    BY <1>0, <1>5 DEF MailProcess, SourcesApart
  <2>2. CASE Hand(mail, gen)
    BY <1>0, <2>1, <2>2, StoredOnceHand
  <2> QED BY <1>2, <1>5, <2>1, <2>2 DEF MailProcess
<1>6. CASE ServerTakes
  <2> DEFINE i == Head(wire)
  <2>1. i \in Items /\ wire # <<>> /\ wire' = Tail(wire)
    BY <1>6, TailType DEF ServerTakes
  <2>2. /\ \A x : OnWire(x)' => OnWire(x)
        /\ \A x : AtMostOnceOnWire(x) => AtMostOnceOnWire(x)'
    BY <2>1, WireTail
  <2>3. CASE i.kind = "question" /\ Stored(i.copy)
    <3>1. PICK d \in Copies : d = i.copy /\ i = QuestionItem(d)
      BY <2>1, <2>3, ItemType, ItemForms
    <3>2. OnWire(QuestionItem(d)) /\ ~OnWire(QuestionItem(d))'
      BY <2>1, <3>1, WireTail DEF StoredOnce
    <3>3. \A r \in Readers, c \in Copies : standing'[r][c] = "absent" <=>
            standing[r][c] = "absent" /\ ~(Reads(r, d[1]) /\ c = d)
      BY <1>0, <2>3, <3>1 DEF Stored
    <3>4. d[2] \in SentBy(d[1])
      BY <3>2 DEF StoredOnce
    <3>5. \A c \in Copies : c[1] \in Questions
      BY DEF Copies
    <3> QED BY <2>2, <3>2, <3>3, <3>4, <3>5, SourceHistory DEF StoredOnce
  <2>4. CASE UNCHANGED standing
    BY <2>2, <2>4, StoredOnceFrame
  <2>5. CASE i.kind = "ack" /\ AckExplicit(i.reader, i.copy)
    <3>1. \A r \in Readers, c \in Copies : standing'[r][c] = "absent" <=> standing[r][c] = "absent"
      BY <1>0, <2>1, <2>5, ItemType DEF AckExplicit, Unsettled
    <3> QED BY <2>2, <3>1, StoredOnceFrame
  <2> QED BY <1>6, <2>3, <2>4, <2>5 DEF ServerTakes
<1>7. CASE ServerDrops
  BY <1>7, WireTail, StoredOnceFrame DEF ServerDrops
<1>8. ASSUME NEW r \in Readers, Answer(r) \/ Ack(r) PROVE StoredOnce'
  <2>1. PICK item \in Items : wire' = Append(wire, item) /\ \A c : QuestionItem(c) # item
    <3>1. cur[r] \in Copies
      BY <1>8 DEF TypeOK, Answer, Ack
    <3>2. /\ AnswerItem(r, cur[r]) \in Items
          /\ [kind |-> "ack", reader |-> r, copy |-> cur[r]] \in Items
      BY <3>1 DEF Items, AnswerItem
    <3>3. CASE wire' = Append(wire, AnswerItem(r, cur[r]))
      BY <3>2, <3>3, ItemsDiffer
    <3>4. CASE wire' = Append(wire, [kind |-> "ack", reader |-> r, copy |-> cur[r]])
      BY <3>2, <3>4, ItemsDiffer
    <3> QED BY <1>8, <3>3, <3>4 DEF Answer, Ack, Write, AnswerItem
  <2>2. standing' = standing
    BY <1>8 DEF Answer, Ack
  <2> QED BY <2>1, <2>2, WireAppend, StoredOnceFrame
<1>9. ASSUME NEW r \in Readers, NEW c \in Copies, Deliver(r, c) \/ AckWaitExpires(r, c)
      PROVE  StoredOnce'
  <2>1. wire' = wire /\ \A x \in Readers, d \in Copies :
          standing'[x][d] = "absent" <=> standing[x][d] = "absent"
    BY <1>0, <1>9 DEF Deliver, AckWaitExpires
  <2> QED BY <1>1, <2>1, StoredOnceFrame
<1>10. CASE Crash
  <2>1. standing' = standing /\ \A x : ~OnWire(x)' /\ AtMostOnceOnWire(x)'
    BY <1>10 DEF Crash, OnWire, AtMostOnceOnWire
  <2> QED BY <2>1, StoredOnceFrame
<1> QED
  BY <1>2, <1>3, <1>4, <1>5, <1>6, <1>7, <1>8, <1>9, <1>10
     DEF Next, FetchUpdate, Confirm, MailFetch, MailFetchFails, MailPoll, Take, CallFails,
         Relay, ReceiveError, Reload, vars

-----------------------------------------------------------------------------
(* Copy by copy: what a step does to copy c at reader r. *)

\* What is in the buffer of r after d was delivered to it ...
LEMMA BufAppend ==
  ASSUME TypeOK, NEW r \in Readers, NEW d \in Copies, buf'[r] = Append(buf[r], d)
  PROVE  /\ \A c : InBuf(r, c)' <=> InBuf(r, c) \/ c = d
         /\ \A c : AtMostOnceInBuf(r, c) /\ (c # d \/ ~InBuf(r, c)) => AtMostOnceInBuf(r, c)'
<1>1. /\ buf[r] \in Seq(Copies) /\ Len(buf[r]) \in Nat /\ Len(buf'[r]) = Len(buf[r]) + 1
      /\ \A i \in 1..Len(buf[r]) : buf'[r][i] = buf[r][i]
      /\ buf'[r][Len(buf[r]) + 1] = d
  BY DEF TypeOK
<1>2. \A i : i \in 1..Len(buf'[r]) <=> i \in 1..Len(buf[r]) \/ i = Len(buf[r]) + 1
  BY <1>1
<1> QED BY <1>1, <1>2 DEF InBuf, AtMostOnceInBuf

\* ... and after its first copy was taken from it.
LEMMA BufTail ==
  ASSUME TypeOK, NEW r \in Readers, buf[r] # <<>>, buf'[r] = Tail(buf[r])
  PROVE  /\ Head(buf[r]) \in Copies /\ InBuf(r, Head(buf[r]))
         /\ \A c : InBuf(r, c)' => InBuf(r, c)
         /\ \A c : AtMostOnceInBuf(r, c) => AtMostOnceInBuf(r, c)'
         /\ \A c : AtMostOnceInBuf(r, c) /\ c = Head(buf[r]) => ~InBuf(r, c)'
<1>1. /\ buf[r] \in Seq(Copies) /\ Len(buf[r]) \in Nat /\ Len(buf'[r]) = Len(buf[r]) - 1
      /\ 1 \in 1..Len(buf[r]) /\ buf[r][1] = Head(buf[r])
      /\ \A i \in 1..Len(buf'[r]) : buf'[r][i] = buf[r][i + 1] /\ i + 1 \in 1..Len(buf[r])
  BY DEF TypeOK
<1>2. Head(buf[r]) \in Copies /\ InBuf(r, Head(buf[r]))
  BY <1>1 DEF InBuf
<1>3. \A c : InBuf(r, c)' => InBuf(r, c)
  BY <1>1 DEF InBuf
<1>4. ASSUME NEW c, AtMostOnceInBuf(r, c)
      PROVE  AtMostOnceInBuf(r, c)' /\ (c = Head(buf[r]) => ~InBuf(r, c)')
  <2>1. ASSUME NEW i \in 1..Len(buf'[r]), NEW j \in 1..Len(buf'[r]), buf'[r][i] = c, buf'[r][j] = c
        PROVE  i = j
    BY <1>1, <1>4, <2>1 DEF AtMostOnceInBuf
  <2>2. ASSUME NEW i \in 1..Len(buf'[r]), buf'[r][i] = c, c = Head(buf[r])
        PROVE  FALSE
    BY <1>1, <1>4, <2>2 DEF AtMostOnceInBuf
  <2> QED BY <2>1, <2>2 DEF AtMostOnceInBuf, InBuf
<1> QED BY <1>2, <1>3, <1>4

\* The steps that move copy c at reader r on; any other may only settle it, put
\* it into the stream, or make r or the wire forget it.
Touches(r, c) ==
  \/ Deliver(r, c) \/ AckWaitExpires(r, c)
  \/ Take(r) /\ Head(buf[r]) = c
  \/ Answer(r) /\ cur[r] = c
  \/ r = "bridge" /\ Relay /\ cur[r] = c
  \/ ServerTakes /\ Head(wire) = AnswerItem(r, c)

InStream(r, c) ==
  /\ standing'[r][c] = "absent" => standing[r][c] = "absent"
  /\ standing'[r][c] = "due" => standing[r][c] \in {"absent", "due"}
InReader(r, c) ==
  /\ cur'[r] = c => cur[r] = c
  /\ cur'[r] = c /\ step'[r] = "call" => step[r] = "call"
  /\ InBuf(r, c)' => InBuf(r, c)
  /\ AtMostOnceInBuf(r, c) => AtMostOnceInBuf(r, c)'
InWire(r, c) ==
  /\ OnWire(AnswerItem(r, c))' => OnWire(AnswerItem(r, c))
  /\ AtMostOnceOnWire(AnswerItem(r, c)) => AtMostOnceOnWire(AnswerItem(r, c))'
InHistory(r, c) ==
  /\ <<r, c>> \in served' <=> <<r, c>> \in served
  /\ <<r, c>> \in repeated' <=> <<r, c>> \in repeated

LEMMA StreamOfOthers ==
  ASSUME TypeOK, HandedOnce, StoredOnce, [Next]_vars, NEW r \in Readers, NEW c \in Copies,
         ~Touches(r, c)
  PROVE  InStream(r, c)
<1> USE DEF InStream
<1>0. standing \in [Readers -> [Copies -> {"absent", "due", "out", "acked"}]]
  BY DEF TypeOK
<1>1. ASSUME NEW d \in Copies, Stored(d), standing[r][d] = "absent" PROVE InStream(r, c)
  BY <1>0, <1>1 DEF Stored
<1>2. ASSUME NEW q \in Questions, Send(q) PROVE InStream(r, c)
  <2>1. CASE standing' = standing
    BY <2>1
  <2>2. CASE ask[q].via = "outside" /\ inbox[q] = "unsent" /\ Stored(<<q, 1>>)
    <3>1. <<q, 1>> \in Copies
      BY DEF Copies, Gens
    <3>2. SentBy(q) = {}
      BY <2>2 DEF HandedOnce
    <3>3. standing[r][<<q, 1>>] = "absent"
      BY <1>0, <2>2, <3>1, <3>2 DEF StoredOnce
    <3> QED BY <1>1, <2>2, <3>1, <3>3
  <2> QED BY <1>2, <2>1, <2>2 DEF Send
<1>3. CASE ServerTakes
  <2> DEFINE i == Head(wire)
  <2>1. i \in Items /\ wire # <<>> /\ wire' = Tail(wire)
    BY <1>3, TailType DEF ServerTakes
  <2>2. CASE i.kind = "question" /\ Stored(i.copy)
    <3>1. PICK d \in Copies : d = i.copy /\ i = QuestionItem(d)
      BY <2>1, <2>2, ItemType, ItemForms
    <3>2. standing[r][d] = "absent"
      BY <2>1, <3>1, WireTail DEF StoredOnce
    <3> QED BY <1>1, <2>2, <3>1, <3>2
  <2>3. CASE UNCHANGED standing
    BY <2>3
  <2>4. CASE i.kind = "ack" /\ AckExplicit(i.reader, i.copy)
    BY <1>0, <2>1, <2>4, ItemType DEF AckExplicit, Unsettled
  <2> QED BY <1>3, <2>2, <2>3, <2>4 DEF ServerTakes
<1>4. ASSUME NEW s \in Readers, NEW d \in Copies, Deliver(s, d) \/ AckWaitExpires(s, d)
      PROVE  InStream(r, c)
  <2>1. s # r \/ d # c
    BY <1>4 DEF Touches
  <2> QED BY <1>0, <1>4, <2>1 DEF Deliver, AckWaitExpires
<1>5. CASE UNCHANGED standing
  BY <1>5
<1> QED
  BY <1>2, <1>3, <1>4, <1>5
     DEF Next, FetchUpdate, Confirm, MailFetch, MailFetchFails, Handle, MailPoll, MailProcess,
         ServerDrops, Take, Answer, CallFails, Ack, Relay, ReceiveError, Reload, Crash, vars

LEMMA ReadersOfOthers ==
  ASSUME TypeOK, [Next]_vars, NEW r \in Readers, NEW c \in Copies, ~Touches(r, c)
  PROVE  InReader(r, c)
<1> USE DEF InReader, readerVars
<1>0. /\ buf \in [Readers -> Seq(Copies)] /\ cur \in [Readers -> Copies \cup {Nothing}]
      /\ step \in [Readers -> {"recv", "call", "ack", "dead"}] /\ c # Nothing
  BY CopyIsSomething DEF TypeOK
<1>1. CASE UNCHANGED <<buf[r], cur[r], step[r]>>
  BY <1>1 DEF InBuf, AtMostOnceInBuf
<1>2. CASE Take(r)
  <2>1. Head(buf[r]) # c
    BY <1>2 DEF Touches
  <2>2. buf[r] # <<>> /\ buf'[r] = Tail(buf[r]) /\ cur'[r] = Head(buf[r])
    BY <1>0, <1>2 DEF Take
  <2> QED BY <2>1, <2>2, BufTail
<1>3. ASSUME NEW d \in Copies, Deliver(r, d) PROVE InReader(r, c)
  <2>1. d # c
    BY <1>3 DEF Touches
  <2>2. buf'[r] = Append(buf[r], d) /\ UNCHANGED <<cur, step>>
    BY <1>0, <1>3 DEF Deliver
  <2> QED BY <2>1, <2>2, BufAppend
<1>4. CASE /\ buf'[r] \in {buf[r], <<>>} /\ cur'[r] \in {cur[r], Nothing}
           /\ step'[r] = "call" => step[r] = "call"
  <2>1. CASE buf'[r] = buf[r]
    BY <1>0, <1>4, <2>1 DEF InBuf, AtMostOnceInBuf
  <2>2. CASE buf'[r] = <<>>
    BY <1>0, <1>4, <2>2 DEF InBuf, AtMostOnceInBuf
  <2> QED BY <1>4, <2>1, <2>2
<1>5. ASSUME NEW s \in Readers, Answer(s) \/ CallFails(s) \/ Ack(s) PROVE InReader(r, c)
  BY <1>0, <1>4, <1>5 DEF Answer, CallFails, Ack, GoesOnToAck
<1>6. CASE Relay \/ ReceiveError
  BY <1>0, <1>4, <1>6 DEF Relay, ReceiveError, GoesOnToAck
<1>7. CASE Reload \/ Crash
  BY <1>0, <1>4, <1>7 DEF Reload, Crash, NewGeneration, Started
<1>8. ASSUME NEW s \in Readers, s # r, NEW d \in Copies, Take(s) \/ Deliver(s, d) PROVE InReader(r, c)
  BY <1>0, <1>1, <1>8 DEF Take, Deliver
<1> QED
  BY <1>1, <1>2, <1>3, <1>5, <1>6, <1>7, <1>8
     DEF Next, Send, FetchUpdate, Confirm, MailFetch, MailFetchFails, Handle, MailPoll, MailProcess,
         ServerTakes, ServerDrops, AckWaitExpires, vars

LEMMA WireOfOthers ==
  ASSUME TypeOK, [Next]_vars, NEW r \in Readers, NEW c \in Copies,
         ~(Answer(r) /\ cur[r] = c)
  PROVE  InWire(r, c)
<1> USE DEF InWire
<1>1. CASE wire' = wire
  BY <1>1 DEF OnWire, AtMostOnceOnWire
<1>2. ASSUME NEW item \in Items, wire' = Append(wire, item), item # AnswerItem(r, c)
      PROVE  InWire(r, c)
  BY <1>2, WireAppend
<1>3. ASSUME NEW q \in Questions, NEW g \in Gens, wire' = Append(wire, QuestionItem(<<q, g>>))
      PROVE  InWire(r, c)
  <2>1. QuestionItem(<<q, g>>) \in Items
    BY DEF Items, Copies, QuestionItem
  <2> QED BY <1>2, <1>3, <2>1, ItemsDiffer
<1>4. ASSUME NEW q \in Questions, NEW g \in Gens, Handle(q, g) PROVE InWire(r, c)
  BY <1>1, <1>3, <1>4 DEF Handle, Hand, Write, QuestionItem
<1>5. CASE MailProcess
  <2>1. mail \in Questions /\ gen \in Gens
    BY <1>5 DEF MailProcess, TypeOK
  <2> QED BY <1>1, <1>3, <1>5, <2>1 DEF MailProcess, Hand, Write, QuestionItem
<1>6. ASSUME NEW s \in Readers, Ack(s) PROVE InWire(r, c)
  <2>1. [kind |-> "ack", reader |-> s, copy |-> cur[s]] \in Items
    BY <1>6 DEF Items, Ack, TypeOK
  <2> QED BY <1>2, <1>6, <2>1, ItemsDiffer DEF Ack, Write
<1>7. ASSUME NEW s \in Readers, Answer(s) PROVE InWire(r, c)
  <2>1. AnswerItem(s, cur[s]) \in Items
    BY <1>7 DEF Items, Answer, TypeOK, AnswerItem
  <2>2. AnswerItem(s, cur[s]) # AnswerItem(r, c)
    BY <1>7, ItemsDiffer
  <2> QED BY <1>2, <1>7, <2>1, <2>2 DEF Answer, Write, AnswerItem
<1>8. CASE ServerTakes \/ ServerDrops
  BY <1>8, WireTail DEF ServerTakes, ServerDrops
<1>9. CASE Crash
  BY <1>9 DEF Crash, OnWire, AtMostOnceOnWire
<1> QED
  BY <1>1, <1>4, <1>5, <1>6, <1>7, <1>8, <1>9
     DEF Next, Send, FetchUpdate, Confirm, MailFetch, MailFetchFails, MailPoll, Deliver,
         AckWaitExpires, Take, CallFails, Relay, ReceiveError, Reload, vars

LEMMA HistoryOfOthers ==
  ASSUME TypeOK, [Next]_vars, NEW r \in Readers, NEW c \in Copies, ~Touches(r, c)
  PROVE  InHistory(r, c)
<1> USE DEF InHistory, historyVars
<1>1. CASE UNCHANGED <<served, repeated>>
  BY <1>1
<1>2. CASE ServerTakes
  <2>1. Head(wire) \in Items
    BY <1>2, TailType DEF ServerTakes
  <2>2. ASSUME Head(wire).kind = "answer" PROVE <<Head(wire).reader, Head(wire).copy>> # <<r, c>>
    BY <1>2, <2>1, <2>2, ItemForms DEF Touches
  <2> QED BY <1>1, <1>2, <2>2 DEF ServerTakes
<1>3. CASE Relay
  <2>1. <<"bridge", cur["bridge"]>> # <<r, c>>
    BY <1>3 DEF Touches
  <2> QED BY <1>3, <2>1 DEF Relay
<1> QED
  BY <1>1, <1>2, <1>3
     DEF Next, Send, FetchUpdate, Confirm, MailFetch, MailFetchFails, Handle, MailPoll, MailProcess,
         ServerDrops, Take, Answer, CallFails, Ack, Deliver, AckWaitExpires, ReceiveError, Reload,
         Crash, vars

\* What the steps that touch copy c do to it.
LEMMA TouchedCopy ==
  ASSUME TypeOK, NEW r \in Readers, NEW c \in Copies
  PROVE  /\ Deliver(r, c) =>
              /\ standing[r][c] = "due" /\ standing'[r][c] = "out" /\ InBuf(r, c)'
              /\ AtMostOnceInBuf(r, c) /\ ~InBuf(r, c) => AtMostOnceInBuf(r, c)'
              /\ UNCHANGED <<ask, wire, cur, step, served, repeated, redelivered>>
         /\ AckWaitExpires(r, c) =>
              /\ standing[r][c] = "out" /\ standing'[r][c] = "due" /\ <<r, c>> \in redelivered'
              /\ UNCHANGED <<ask, wire, cur, step, buf, served, repeated>>
         /\ Take(r) /\ Head(buf[r]) = c =>
              /\ InBuf(r, c) /\ cur'[r] = c /\ (InBuf(r, c)' => InBuf(r, c))
              /\ AtMostOnceInBuf(r, c) => ~InBuf(r, c)'
              /\ step'[r] = "call" => Calls(r, c)
              /\ UNCHANGED <<ask, wire, standing, served, repeated, redelivered>>
         /\ Answer(r) /\ cur[r] = c =>
              /\ step[r] = "call" /\ step'[r] = "ack" /\ OnWire(AnswerItem(r, c))'
              /\ ~OnWire(AnswerItem(r, c)) => AtMostOnceOnWire(AnswerItem(r, c))'
              /\ UNCHANGED <<ask, standing, buf, cur, served, repeated, redelivered>>
         /\ r = "bridge" /\ Relay /\ cur[r] = c =>
              /\ step[r] = "call" /\ step'[r] = "ack"
              /\ <<r, c>> \notin served => (<<r, c>> \in repeated' <=> <<r, c>> \in repeated)
              /\ UNCHANGED <<ask, standing, wire, buf, cur, redelivered>>
         /\ ServerTakes /\ Head(wire) = AnswerItem(r, c) =>
              /\ OnWire(AnswerItem(r, c))
              /\ AtMostOnceOnWire(AnswerItem(r, c)) => ~OnWire(AnswerItem(r, c))'
              /\ <<r, c>> \notin served => (<<r, c>> \in repeated' <=> <<r, c>> \in repeated)
              /\ UNCHANGED <<ask, standing, buf, cur, step, redelivered>>
<1> USE DEF readerVars, historyVars, sourceVars, genVars
<1>0. /\ standing \in [Readers -> [Copies -> {"absent", "due", "out", "acked"}]]
      /\ buf \in [Readers -> Seq(Copies)] /\ cur \in [Readers -> Copies \cup {Nothing}]
      /\ step \in [Readers -> {"recv", "call", "ack", "dead"}]
  BY DEF TypeOK
<1>1. ASSUME Deliver(r, c)
      PROVE  /\ standing[r][c] = "due" /\ standing'[r][c] = "out" /\ InBuf(r, c)'
             /\ AtMostOnceInBuf(r, c) /\ ~InBuf(r, c) => AtMostOnceInBuf(r, c)'
             /\ UNCHANGED <<ask, wire, cur, step, served, repeated, redelivered>>
  <2>1. buf'[r] = Append(buf[r], c)
    BY <1>0, <1>1 DEF Deliver
  <2> QED BY <1>0, <1>1, <2>1, BufAppend DEF Deliver
<1>2. ASSUME AckWaitExpires(r, c)
      PROVE  /\ standing[r][c] = "out" /\ standing'[r][c] = "due" /\ <<r, c>> \in redelivered'
             /\ UNCHANGED <<ask, wire, cur, step, buf, served, repeated>>
  BY <1>0, <1>2 DEF AckWaitExpires
<1>3. ASSUME Take(r), Head(buf[r]) = c
      PROVE  /\ InBuf(r, c) /\ cur'[r] = c /\ (InBuf(r, c)' => InBuf(r, c))
             /\ AtMostOnceInBuf(r, c) => ~InBuf(r, c)'
             /\ step'[r] = "call" => Calls(r, c)
             /\ UNCHANGED <<ask, wire, standing, served, repeated, redelivered>>
  <2>1. buf[r] # <<>> /\ buf'[r] = Tail(buf[r])
    BY <1>0, <1>3 DEF Take
  <2>2. InBuf(r, c) /\ (InBuf(r, c)' => InBuf(r, c)) /\ (AtMostOnceInBuf(r, c) => ~InBuf(r, c)')
    BY <1>3, <2>1, BufTail
  <2> QED BY <1>0, <1>3, <2>2 DEF Take
<1>4. ASSUME Answer(r), cur[r] = c
      PROVE  /\ step[r] = "call" /\ step'[r] = "ack" /\ OnWire(AnswerItem(r, c))'
             /\ ~OnWire(AnswerItem(r, c)) => AtMostOnceOnWire(AnswerItem(r, c))'
             /\ UNCHANGED <<ask, standing, buf, cur, served, repeated, redelivered>>
  <2>1. AnswerItem(r, c) \in Items /\ wire' = Append(wire, AnswerItem(r, c))
    BY <1>4 DEF Answer, Write, AnswerItem, Items
  <2>2. ~OnWire(AnswerItem(r, c)) => AtMostOnceOnWire(AnswerItem(r, c))
    BY DEF OnWire, AtMostOnceOnWire
  <2>3. /\ OnWire(AnswerItem(r, c))'
        /\ ~OnWire(AnswerItem(r, c)) => AtMostOnceOnWire(AnswerItem(r, c))'
    BY <2>1, <2>2, WireAppend
  <2> QED BY <1>0, <1>4, <2>3 DEF Answer, GoesOnToAck
<1>5. ASSUME r = "bridge", Relay, cur[r] = c
      PROVE  /\ step[r] = "call" /\ step'[r] = "ack"
             /\ <<r, c>> \notin served => (<<r, c>> \in repeated' <=> <<r, c>> \in repeated)
             /\ UNCHANGED <<ask, standing, wire, buf, cur, redelivered>>
  BY <1>0, <1>5 DEF Relay, GoesOnToAck
<1>6. ASSUME ServerTakes, Head(wire) = AnswerItem(r, c)
      PROVE  /\ OnWire(AnswerItem(r, c))
             /\ AtMostOnceOnWire(AnswerItem(r, c)) => ~OnWire(AnswerItem(r, c))'
             /\ <<r, c>> \notin served => (<<r, c>> \in repeated' <=> <<r, c>> \in repeated)
             /\ UNCHANGED <<ask, standing, buf, cur, step, redelivered>>
  <2>1. Head(wire).kind = "answer" /\ Head(wire).reader = r /\ Head(wire).copy = c
    BY <1>6 DEF AnswerItem
  <2>2. wire # <<>> /\ wire' = Tail(wire)
    BY <1>6 DEF ServerTakes
  <2>3. OnWire(AnswerItem(r, c))
        /\ (AtMostOnceOnWire(AnswerItem(r, c)) => ~OnWire(AnswerItem(r, c))')
    BY <1>6, <2>2, WireTail
  <2> QED BY <1>6, <2>1, <2>3 DEF ServerTakes
<1> QED BY <1>1, <1>2, <1>3, <1>4, <1>5, <1>6

LEMMA HeldStep == TypeOK /\ HandedOnce /\ StoredOnce /\ HeldIsStored /\ [Next]_vars => HeldIsStored'
<1> SUFFICES ASSUME TypeOK, HandedOnce, StoredOnce, [Next]_vars,
                    NEW r \in Readers, NEW c \in Copies, HeldCopy(r, c)
             PROVE  HeldCopy(r, c)'
  BY DEF HeldIsStored
<1> USE DEF HeldCopy
<1>0. Calls(r, c)' <=> Calls(r, c)
  BY SourceHistory DEF Calls
<1>1. CASE ~Touches(r, c)
  BY <1>0, <1>1, StreamOfOthers, ReadersOfOthers, WireOfOthers
     DEF InStream, InReader, InWire, Touches
<1>2. CASE Deliver(r, c)
  BY <1>0, <1>2, TouchedCopy DEF OnWire
<1>3. CASE AckWaitExpires(r, c)
  BY <1>0, <1>3, TouchedCopy DEF OnWire, InBuf
<1>4. CASE Take(r) /\ Head(buf[r]) = c
  BY <1>0, <1>4, TouchedCopy DEF OnWire
<1>5. CASE Answer(r) /\ cur[r] = c
  BY <1>0, <1>5, TouchedCopy DEF InBuf
<1>6. CASE r = "bridge" /\ Relay /\ cur[r] = c
  BY <1>0, <1>6, TouchedCopy DEF OnWire, InBuf
<1>7. CASE ServerTakes /\ Head(wire) = AnswerItem(r, c)
  <2>1. OnWire(AnswerItem(r, c)) /\ UNCHANGED <<standing, buf, cur, step>>
    BY <1>7, TouchedCopy
  <2> QED BY <1>0, <2>1 DEF InBuf
<1> QED BY <1>1, <1>2, <1>3, <1>4, <1>5, <1>6, <1>7 DEF Touches

LEMMA RedeliveredGrows == [Next]_vars => redelivered \subseteq redelivered'
BY DEF Next, Send, FetchUpdate, Confirm, MailFetch, MailFetchFails, Handle, MailPoll, MailProcess,
       ServerTakes, ServerDrops, Take, Answer, CallFails, Ack, Deliver, AckWaitExpires, Relay,
       ReceiveError, Reload, Crash, vars, historyVars

LEMMA SingleCopyStep == TypeOK /\ HandedOnce /\ StoredOnce /\ SingleCopy /\ [Next]_vars => SingleCopy'
<1> SUFFICES ASSUME TypeOK, HandedOnce, StoredOnce, [Next]_vars,
                    NEW r \in Readers, NEW c \in Copies, <<r, c>> \notin redelivered',
                    SingleCopyOf(r, c)
             PROVE  SingleCopyOf(r, c)'
  BY RedeliveredGrows DEF SingleCopy
<1> USE DEF SingleCopyOf, Unanswered
<1>0. standing[r][c] \in {"absent", "due", "out", "acked"}
  BY DEF TypeOK
<1>0a. standing'[r][c] \in {"absent", "due", "out", "acked"}
  BY TypeStep DEF TypeOK
<1>1. CASE ~Touches(r, c)
  <2>1. InStream(r, c) /\ InReader(r, c) /\ InWire(r, c) /\ InHistory(r, c)
    BY <1>1, StreamOfOthers, ReadersOfOthers, WireOfOthers, HistoryOfOthers DEF Touches
  <2> QED BY <1>0, <1>0a, <2>1 DEF InStream, InReader, InWire, InHistory
<1>2. CASE Deliver(r, c)
  <2>1. Unanswered(r, c)' /\ cur'[r] # c /\ ~InBuf(r, c)
    BY <1>2, TouchedCopy DEF OnWire
  <2>2. ~InBuf(r, c) => AtMostOnceInBuf(r, c)
    BY DEF InBuf, AtMostOnceInBuf
  <2> QED BY <1>2, <2>1, <2>2, TouchedCopy
<1>3. CASE AckWaitExpires(r, c)
  BY <1>3, TouchedCopy
<1>4. CASE Take(r) /\ Head(buf[r]) = c
  <2>1. Unanswered(r, c)' /\ ~InBuf(r, c)' /\ standing'[r][c] \notin {"absent", "due"}
    BY <1>4, TouchedCopy DEF OnWire
  <2> QED BY <1>4, <2>1, TouchedCopy
<1>5. CASE Answer(r) /\ cur[r] = c
  <2>1. /\ standing'[r][c] \notin {"absent", "due"} /\ ~InBuf(r, c)' /\ <<r, c>> \notin served'
        /\ AtMostOnceOnWire(AnswerItem(r, c))'
    BY <1>5, TouchedCopy DEF InBuf
  <2> QED BY <1>5, <2>1, TouchedCopy
<1>6. CASE r = "bridge" /\ Relay /\ cur[r] = c
  <2>1. /\ standing'[r][c] \notin {"absent", "due"} /\ ~InBuf(r, c)' /\ <<r, c>> \notin served
        /\ ~OnWire(AnswerItem(r, c))'
    BY <1>6, TouchedCopy DEF InBuf, OnWire
  <2> QED BY <1>6, <2>1, TouchedCopy
<1>7. CASE ServerTakes /\ Head(wire) = AnswerItem(r, c)
  <2>1. OnWire(AnswerItem(r, c)) /\ UNCHANGED <<standing, buf, cur, step>>
    BY <1>7, TouchedCopy
  <2>2. /\ standing'[r][c] \notin {"absent", "due"} /\ ~InBuf(r, c)' /\ <<r, c>> \notin served
        /\ ~(cur'[r] = c /\ step'[r] = "call")
    BY <2>1 DEF InBuf
  <2> QED BY <1>7, <2>2, TouchedCopy
<1> QED BY <1>1, <1>2, <1>3, <1>4, <1>5, <1>6, <1>7 DEF Touches

CopiesInv == StoredOnce /\ HeldIsStored /\ SingleCopy

LEMMA CopiesInvariant == Spec => []CopiesInv
<1>1. Init => CopiesInv
  <2> SUFFICES ASSUME Init PROVE CopiesInv
    OBVIOUS
  <2>1. /\ wire = <<>> /\ \A x : ~OnWire(x)
        /\ \A r \in Readers, c \in Copies : /\ standing[r][c] = "absent" /\ cur[r] = Nothing
                                            /\ ~InBuf(r, c) /\ c # Nothing
    BY CopyIsSomething DEF Init, OnWire, InBuf
  <2>3. StoredOnce /\ HeldIsStored
    BY <2>1 DEF StoredOnce, HeldIsStored, HeldCopy
  <2>4. SingleCopy
    BY <2>1 DEF Init, SingleCopy, SingleCopyOf, Unanswered
  <2> QED BY <2>3, <2>4 DEF CopiesInv
<1>2. TypeOK /\ SourcesInv /\ CopiesInv /\ [Next]_vars => CopiesInv'
  BY StoredOnceStep, HeldStep, SingleCopyStep DEF CopiesInv, SourcesInv
<1> QED BY <1>1, <1>2, TypeCorrect, SourcesInvariant, PTL DEF Spec, Safety

\* One message on USER_IN is answered, or relayed, twice only after its ack wait
\* expired: through reloads, restarts, lost acks and a slow LLM.
THEOREM NoSpontaneousRepeats == Spec => []RepeatedOnlyIfRedelivered
<1>1. TypeOK /\ CopiesInv => RepeatedOnlyIfRedelivered
  <2> SUFFICES ASSUME TypeOK, CopiesInv, NEW s \in repeated PROVE s \in redelivered
    BY DEF RepeatedOnlyIfRedelivered
  <2>1. PICK r \in Readers, c \in Copies : s = <<r, c>>
    BY DEF TypeOK
  <2> QED BY <2>1 DEF CopiesInv, SingleCopy, SingleCopyOf
<1> QED BY <1>1, CopiesInvariant, TypeCorrect, PTL

-----------------------------------------------------------------------------
(* USER_IN keeps the promise of a durable stream to each of its readers. *)

Fates == [d \in Readers \X Copies |-> Fate(d[1], d[2])]

LEMMA FatesType ==
  ASSUME TypeOK
  PROVE  /\ Fates \in [Readers \X Copies -> Promise!Fates]
         /\ \A r \in Readers, c \in Copies : Fates[<<r, c>>] = Fate(r, c)
BY DEF TypeOK, Fates, Fate, Promise!Fates

\* Two fates of every copy are the same if they are so pair by pair.
LEMMA SameFates ==
  ASSUME TypeOK, TypeOK', \A r \in Readers, c \in Copies : Fate(r, c)' = Fate(r, c)
  PROVE  Fates' = Fates
BY DEF Fates

\* A copy enters the stream: those of its readers who call for it get it.
LEMMA StoringPublishes ==
  ASSUME TypeOK, TypeOK', ask' = ask, NEW d \in Copies, Stored(d),
         \A r \in Readers : standing[r][d] = "absent",
         UNCHANGED <<served, excused>>
  PROVE  [Promise!Next]_(Promise!vars)
<1> DEFINE S == {<<r, d>> : r \in {x \in Readers : Reads(x, d[1]) /\ Calls(x, d)}}
<1>0. standing \in [Readers -> [Copies -> {"absent", "due", "out", "acked"}]]
  BY DEF TypeOK
<1>1. \A r \in Readers, c \in Copies : <<r, c>> \in S <=> c = d /\ Reads(r, d[1]) /\ Calls(r, d)
  OBVIOUS
<1>2. ASSUME NEW r \in Readers, NEW c \in Copies
      PROVE  Fate(r, c)' = IF <<r, c>> \in S THEN "live" ELSE Fate(r, c)
  <2>1. standing'[r][c] = IF c = d /\ Reads(r, d[1]) THEN "due" ELSE standing[r][c]
    BY <1>0 DEF Stored
  <2>2. Calls(r, c)' <=> Calls(r, c)
    BY DEF Calls
  <2>3. c = d => standing[r][c] = "absent"
    OBVIOUS
  <2> HIDE DEF S
  <2> QED BY <1>1, <2>1, <2>2, <2>3 DEF Fate
<1>3. \A m \in S : m \in Readers \X Copies /\ Fates[m] = "absent" /\ Fates'[m] = "live"
  <2>1. ASSUME NEW r \in Readers, <<r, d>> \in S
        PROVE  Fates[<<r, d>>] = "absent" /\ Fates'[<<r, d>>] = "live"
    <3>1. Fate(r, d) = "absent"
      BY DEF Fate
    <3>2. Fate(r, d)' = "live"
      BY <1>2, <2>1
    <3> QED BY <3>1, <3>2 DEF Fates
  <2> QED BY <2>1
<1>4. CASE S = {}
  <2>1. Fates' = Fates
    BY <1>2, <1>4, SameFates
  <2> QED BY <2>1 DEF Promise!vars, Fates
<1>5. CASE S # {}
  <2> HIDE DEF S
  <2>1. Fates' = Promise!With(S)
    <3>1. ASSUME NEW m \in Readers \X Copies
          PROVE  Fates'[m] = IF m \in S THEN "live" ELSE Fates[m]
      BY <1>2 DEF Fates
    <3>2. Promise!With(S) = [m \in Readers \X Copies |-> IF m \in S THEN "live" ELSE Fates[m]]
      BY DEF Promise!With, Fates
    <3> QED BY <3>1, <3>2 DEF Fates
  <2>2. Promise!Publish(S)
    BY <1>3, <1>5, <2>1 DEF Promise!Publish, Fates
  <2>3. S \in SUBSET {m \in Readers \X Copies : Fates[m] = "absent"}
    BY <1>3
  <2> QED BY <2>2, <2>3 DEF Promise!Next, Fates
<1> QED BY <1>4, <1>5

\* An answer is stored, taken by msg-relay, or given up: its copy is in the
\* stream and called for it.
LEMMA AnsweringServes ==
  ASSUME TypeOK, TypeOK', UNCHANGED <<ask, standing>>, NEW r \in Readers, NEW c \in Copies,
         standing[r][c] # "absent", Calls(r, c),
         served' \cup excused' = (served \cup excused) \cup {<<r, c>>}
  PROVE  [Promise!Next]_(Promise!vars)
<1>1. \A x \in Readers, d \in Copies : Fate(x, d)' = Fate(x, d)
  BY DEF Fate, Calls
<1>2. Fates' = Fates
  BY <1>1, SameFates
<1>3. Fates[<<r, c>>] # "absent"
  BY DEF Fates, Fate
<1>4. Promise!Serve(<<r, c>>)
  BY <1>2, <1>3 DEF Promise!Serve, Fates
<1> QED BY <1>4 DEF Promise!Next

\* Nothing enters the stream, is settled in it or answered.
LEMMA PromiseStutter ==
  ASSUME TypeOK, TypeOK', \A r \in Readers, c \in Copies : Fate(r, c)' = Fate(r, c),
         UNCHANGED <<served, excused>>
  PROVE  [Promise!Next]_(Promise!vars)
BY SameFates DEF Promise!vars, Fates

\* An ack settles what was answered.
LEMMA AckSettles ==
  ASSUME TypeOK, TypeOK', AcksBehindAnswers, ask' = ask, NEW r \in Readers, NEW c \in Copies,
         wire # <<>>, Head(wire) = [kind |-> "ack", reader |-> r, copy |-> c],
         AckExplicit(r, c), UNCHANGED <<served, excused>>
  PROVE  [Promise!Next]_(Promise!vars)
<1>0. standing \in [Readers -> [Copies -> {"absent", "due", "out", "acked"}]]
  BY DEF TypeOK
<1>1. CASE Unsettled(r, c) /\ Calls(r, c)
  <2>1. <<r, c>> \in served \cup excused
    <3>1. 1 \in 1..Len(wire) /\ wire[1] = Head(wire)
      BY DEF TypeOK
    <3>2. wire[1].kind = "ack" /\ wire[1].reader = r /\ wire[1].copy = c
      BY <3>1
    <3>3. AnsweredBefore(1, r, c)
      BY <1>1, <3>1, <3>2 DEF AcksBehindAnswers
    <3>4. ~ \E j \in 1..Len(wire) : j < 1
      BY DEF TypeOK
    <3> QED BY <3>3, <3>4 DEF AnsweredBefore
  <2>2. ASSUME NEW x \in Readers, NEW d \in Copies
        PROVE  Fate(x, d)' = IF x = r /\ d = c THEN "settled" ELSE Fate(x, d)
    <3>1. standing'[x][d] = IF x = r /\ d = c THEN "acked" ELSE standing[x][d]
      BY <1>0, <1>1 DEF AckExplicit
    <3>2. Calls(x, d)' <=> Calls(x, d)
      BY DEF Calls
    <3> QED BY <1>1, <3>1, <3>2 DEF Fate
  <2>3. Fates[<<r, c>>] = "live"
    BY <1>1 DEF Fates, Fate, Unsettled
  <2>4. Fates' = [Fates EXCEPT ![<<r, c>>] = "settled"]
    <3>1. ASSUME NEW m \in Readers \X Copies
          PROVE  Fates'[m] = IF m = <<r, c>> THEN "settled" ELSE Fates[m]
      BY <2>2 DEF Fates
    <3> QED BY <3>1 DEF Fates
  <2>5. Promise!Settle(<<r, c>>)
    BY <2>1, <2>3, <2>4 DEF Promise!Settle, Fates
  <2> QED BY <2>5 DEF Promise!Next
<1>2. CASE ~(Unsettled(r, c) /\ Calls(r, c))
  <2>1. ASSUME NEW x \in Readers, NEW d \in Copies PROVE Fate(x, d)' = Fate(x, d)
    <3>1. Calls(x, d)' <=> Calls(x, d)
      BY DEF Calls
    <3>2. standing'[x][d] = IF x = r /\ d = c /\ Unsettled(r, c) THEN "acked" ELSE standing[x][d]
      BY <1>0 DEF AckExplicit
    <3> QED BY <1>2, <3>1, <3>2 DEF Fate
  <2> QED BY <2>1, PromiseStutter
<1> QED BY <1>1, <1>2

LEMMA PromiseStep == IInv /\ IInv' /\ [Next]_vars => [Promise!Next]_(Promise!vars)
<1> SUFFICES ASSUME IInv, IInv', [Next]_vars PROVE [Promise!Next]_(Promise!vars)
  OBVIOUS
<1> USE DEF sourceVars, genVars, readerVars, historyVars
<1>0. TypeOK /\ TypeOK' /\ AcksBehindAnswers /\ HandedOnce /\ StoredOnce /\ HeldIsStored
  BY DEF IInv
<1>1. standing \in [Readers -> [Copies -> {"absent", "due", "out", "acked"}]]
  BY <1>0 DEF TypeOK
<1>2. ask' = ask
  BY <1>0, SourceHistory
<1>3. CASE UNCHANGED <<standing, served, excused>>
  BY <1>0, <1>2, <1>3, PromiseStutter DEF Fate, Calls
<1>4. ASSUME NEW q \in Questions, Send(q) PROVE [Promise!Next]_(Promise!vars)
  <2>1. CASE ask[q].via = "outside" /\ inbox[q] = "unsent" /\ Stored(<<q, 1>>)
    <3>1. <<q, 1>> \in Copies
      BY DEF Copies, Gens
    <3>2. SentBy(q) = {}
      BY <1>0, <2>1 DEF HandedOnce
    <3>3. \A r \in Readers : standing[r][<<q, 1>>] = "absent"
      BY <1>0, <2>1, <3>1, <3>2 DEF StoredOnce
    <3> QED BY <1>0, <1>2, <1>4, <2>1, <3>1, <3>3, StoringPublishes DEF Send
  <2> QED BY <1>3, <1>4, <2>1 DEF Send
<1>5. CASE ServerTakes
  <2> DEFINE i == Head(wire)
  <2>1. i \in Items /\ wire # <<>> /\ excused' = excused
    BY <1>0, <1>5, TailType DEF ServerTakes
  <2>2. CASE i.kind = "question" /\ Stored(i.copy) /\ UNCHANGED <<served, repeated>>
    <3>1. PICK d \in Copies : d = i.copy /\ i = QuestionItem(d)
      BY <2>1, <2>2, ItemType, ItemForms
    <3>2. OnWire(QuestionItem(d))
      <4>1. 1 \in 1..Len(wire) /\ wire[1] = i
        BY <1>0, <2>1 DEF TypeOK
      <4> QED BY <3>1, <4>1 DEF OnWire
    <3>3. \A r \in Readers : standing[r][d] = "absent"
      BY <1>0, <3>2 DEF StoredOnce
    <3> QED BY <1>0, <1>2, <2>1, <2>2, <3>1, <3>3, StoringPublishes
  <2>3. CASE i.kind = "answer" /\ served' = served \cup {<<i.reader, i.copy>>} /\ UNCHANGED standing
    <3>1. PICK r \in Readers, c \in Copies : r = i.reader /\ c = i.copy /\ i = AnswerItem(r, c)
      BY <2>1, <2>3, ItemType, ItemForms
    <3>2. OnWire(AnswerItem(r, c))
      <4>1. 1 \in 1..Len(wire) /\ wire[1] = i
        BY <1>0, <2>1 DEF TypeOK
      <4> QED BY <3>1, <4>1 DEF OnWire
    <3>3. standing[r][c] # "absent" /\ Calls(r, c)
      BY <1>0, <3>2 DEF HeldIsStored, HeldCopy
    <3> QED BY <1>0, <1>2, <2>1, <2>3, <3>1, <3>3, AnsweringServes
  <2>4. CASE i.kind = "ack" /\ AckExplicit(i.reader, i.copy) /\ UNCHANGED <<served, repeated>>
    <3>1. PICK r \in Readers, c \in Copies :
            r = i.reader /\ c = i.copy /\ i = [kind |-> "ack", reader |-> r, copy |-> c]
      BY <2>1, <2>4, ItemType, ItemForms
    <3> QED BY <1>0, <1>2, <2>1, <2>4, <3>1, AckSettles
  <2> QED BY <1>5, <2>2, <2>3, <2>4 DEF ServerTakes
<1>6. CASE ServerDrops
  <2> DEFINE i == Head(wire)
  <2>1. i \in Items /\ wire # <<>> /\ UNCHANGED <<standing, served>>
    BY <1>0, <1>6, TailType DEF ServerDrops
  <2>2. CASE i.kind = "answer"
    <3>1. PICK r \in Readers, c \in Copies : r = i.reader /\ c = i.copy /\ i = AnswerItem(r, c)
      BY <2>1, <2>2, ItemType, ItemForms
    <3>2. OnWire(AnswerItem(r, c))
      <4>1. 1 \in 1..Len(wire) /\ wire[1] = i
        BY <1>0, <2>1 DEF TypeOK
      <4> QED BY <3>1, <4>1 DEF OnWire
    <3>3. standing[r][c] # "absent" /\ Calls(r, c)
      BY <1>0, <3>2 DEF HeldIsStored, HeldCopy
    <3>4. excused' = excused \cup {<<r, c>>}
      BY <1>6, <2>2, <3>1 DEF ServerDrops
    <3> QED BY <1>0, <1>2, <2>1, <3>3, <3>4, AnsweringServes
  <2> QED BY <1>3, <1>6, <2>1, <2>2 DEF ServerDrops
<1>7. ASSUME NEW r \in Readers, step[r] = "call", UNCHANGED standing,
             served' \cup excused' = (served \cup excused) \cup {<<r, cur[r]>>}
      PROVE  [Promise!Next]_(Promise!vars)
  <2>1. cur[r] \in Copies
    BY <1>0, <1>7 DEF TypeOK
  <2>2. standing[r][cur[r]] # "absent" /\ Calls(r, cur[r])
    BY <1>0, <1>7, <2>1 DEF HeldIsStored, HeldCopy
  <2> QED BY <1>0, <1>2, <1>7, <2>1, <2>2, AnsweringServes
<1>8. ASSUME NEW r \in Readers, CallFails(r) PROVE [Promise!Next]_(Promise!vars)
  BY <1>7, <1>8 DEF CallFails
<1>9. CASE Relay
  <2>1. "bridge" \in Readers
    BY DEF Readers
  <2> QED BY <1>7, <1>9, <2>1 DEF Relay
<1>10. ASSUME NEW r \in Readers, NEW c \in Copies, Deliver(r, c) \/ AckWaitExpires(r, c)
       PROVE  [Promise!Next]_(Promise!vars)
  <2>1. UNCHANGED <<served, excused>>
    BY <1>10 DEF Deliver, AckWaitExpires
  <2>2. ASSUME NEW x \in Readers, NEW d \in Copies PROVE Fate(x, d)' = Fate(x, d)
    <3>1. \/ standing'[x][d] = standing[x][d]
          \/ standing'[x][d] \in {"due", "out"} /\ standing[x][d] \in {"due", "out"}
      <4>1. PICK f \in {"due", "out"} :
              standing[r][c] \in {"due", "out"} /\ standing' = [standing EXCEPT ![r][c] = f]
        BY <1>10 DEF Deliver, AckWaitExpires
      <4>2. standing'[x][d] = IF x = r /\ d = c THEN f ELSE standing[x][d]
        BY <1>1, <4>1
      <4> QED BY <4>1, <4>2
    <3> QED BY <1>2, <3>1 DEF Fate, Calls
  <2> QED BY <1>0, <2>1, <2>2, PromiseStutter
<1> QED
  BY <1>3, <1>4, <1>5, <1>6, <1>8, <1>9, <1>10
     DEF Next, FetchUpdate, Confirm, MailFetch, MailFetchFails, Handle, MailPoll, MailProcess,
         Take, Answer, Ack, ReceiveError, Reload, Crash, vars

\* The inductive invariant as a whole.
LEMMA Inductive == Spec => []IInv
<1>1. TypeOK /\ OrderInv /\ SourcesInv /\ NothingLost /\ CopiesInv => IInv
  BY DEF OrderInv, SourcesInv, CopiesInv, IInv
<1> QED
  BY <1>1, TypeCorrect, OrderInvariant, SourcesInvariant, NothingLostInvariant, CopiesInvariant, PTL

\* To each of its readers USER_IN is a durable stream with a consumer that
\* acknowledges: what calls for an answer is settled only after it was answered
\* or given up with a logged error, through reloads, crashes, dying readers and
\* lost acks, and one reader's acks settle nothing of another's.
THEOREM ImplementsPromise == Spec => PromiseSafety
<1>1. Init => Promise!Init
  <2> SUFFICES ASSUME Init PROVE Promise!Init
    OBVIOUS
  <2>1. \A r \in Readers, c \in Copies : Fate(r, c) = "absent"
    BY DEF Init, Fate
  <2> QED BY <2>1 DEF Promise!Init, Init
<1> QED BY <1>1, Inductive, PromiseStep, PTL DEF Spec, Safety, PromiseSafety, Promise!Safety
=============================================================================
