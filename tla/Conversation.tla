----------------------------- MODULE Conversation -----------------------------
(***************************************************************************)
(* A user's question and its answer: the Telegram source                   *)
(* (source/telegram.rs) and the mailbox (source/email.rs) publish it on    *)
(* USER_IN, where two kinds of readers consume it, each with a durable     *)
(* consumer of its own: the listener of the LLM agent it is addressed to   *)
(* (listener/llm_openai.rs), and the upstream loop with the bridge to      *)
(* msg-relay (dispatcher.rs, bridge.rs), which reads everything.           *)
(*                                                                         *)
(* All of them hand their messages and acks to one NATS client, whose      *)
(* publish(..).await returns before the server has seen the message.  wire *)
(* is what the client has taken and the server has not: it is in order,    *)
(* and a crash empties it.                                                 *)
(*                                                                         *)
(* Abstracted: texts and identifiers, audit rows, the limits of USER_IN    *)
(* (JetStream and Dispatcher have them).                                   *)
(***************************************************************************)
EXTENDS Naturals, Sequences

CONSTANTS
  Questions,
  Asked,      \* the kinds of questions there are, a subset of Ask
  Agents,     \* agents of kind llm-openai-compat, each with a listener
  Prefetch,   \* messages a pull request may buffer in a reader
  Channel,    \* what the client takes before a publish or an ack has to wait
  MaxGen,     \* bound: starts, restarts and reloads of the process
  MaxDrops    \* bound: messages and acks that the server does not take

\* What decides about a question.  welcome: the chat or the sender is in the
\* allowlist, and the message is not a forwarded one.  form: a telegram
\* message is "text" or "empty"; a mail may also be an "admin" command, have
\* an "unknown" subject or be "broken" (no body, a command without a token);
\* a "broken" message from outside is not a Message.  relayed: there is a
\* msg-relay and decide() accepts the verb or the chat.
Ask == [via : {"telegram", "email", "outside"}, welcome : BOOLEAN,
        form : {"text", "empty", "admin", "unknown", "broken"},
        agent : Agents \cup {"claude-hubmq"}, relayed : BOOLEAN]

ASSUME ConversationAssumption ==
  /\ Asked \subseteq Ask
  /\ "bridge" \notin Agents /\ "claude-hubmq" \notin Agents
  /\ "none" \notin Questions
  /\ Prefetch \in Nat \ {0} /\ Channel \in Nat \ {0}
  /\ MaxGen \in Nat \ {0} /\ MaxDrops \in Nat

VARIABLES
  ask,       \* ask[q]: the kind of q
  inbox,     \* inbox[q]: q at Telegram's server or in the mailbox
  handlers,  \* <<q, g>>: a handler of poller g is at work on update q
  polled,    \* mails that the running poll has still to process
  mail,      \* the mail it has fetched and not yet processed, or "none"
  gen,       \* current generation of pollers and readers
  sent,      \* sent[q][g]: how often generation g handed q to the NATS client
  wire,      \* what the client has taken and the server has not
  drops,     \* counted against its bound
  standing,  \* standing[r][c]: where the durable of r is with copy c
  buf,       \* buf[r]: copies that r has received and not looked at
  cur,       \* cur[r]: the copy r is busy with, or Nothing
  step,      \* step[r]: where r is in its loop
  (* history *)
  found,     \* found[q]: generations that began with update q fetched, not confirmed
  failed,    \* questions whose handler or process_email reported an error
  crashed,   \* has the process crashed
  served,    \* <<r, c>>: the answer is stored, or msg-relay has the copy
  repeated,  \* <<r, c>>: that happened more than once
  excused,   \* <<r, c>>: the call or the publish of the answer failed
  redelivered

sourceVars == <<inbox, handlers, polled, mail>>
genVars == <<gen, found>>
readerVars == <<buf, cur, step>>
historyVars == <<failed, crashed, served, repeated, excused, redelivered>>
vars == <<ask, sourceVars, genVars, sent, wire, drops, standing, readerVars, historyVars>>

Gens == 1..MaxGen
Readers == Agents \cup {"bridge"}

\* Every publish of a question is a message of its own, named after the
\* generation of the handler or of the mail that published it.
Copies == Questions \X Gens
Nothing == <<>>
Items == [kind : {"question"}, copy : Copies]
           \cup [kind : {"answer", "ack"}, reader : Readers, copy : Copies]

TypeOK ==
  /\ ask \in [Questions -> Asked]
  /\ inbox \in [Questions -> {"unsent", "new", "fetched", "done"}]
  /\ handlers \subseteq Questions \X Gens
  /\ polled \subseteq Questions /\ mail \in Questions \cup {"none"}
  /\ gen \in Gens
  /\ sent \in [Questions -> [Gens -> Nat]]
  /\ wire \in Seq(Items) /\ drops \in 0..MaxDrops
  /\ standing \in [Readers -> [Copies -> {"absent", "due", "out", "acked"}]]
  /\ buf \in [Readers -> Seq(Copies)]
  /\ cur \in [Readers -> Copies \cup {Nothing}]
  /\ step \in [Readers -> {"recv", "call", "ack", "dead"}]
  /\ \A r \in Readers : step[r] \in {"call", "ack"} <=> cur[r] # Nothing
  /\ \A r \in Readers : step[r] = "call" => ask[cur[r][1]].form # "broken"
  /\ found \in [Questions -> SUBSET Gens]
  /\ failed \subseteq Questions /\ crashed \in BOOLEAN
  /\ served \subseteq Readers \X Copies /\ repeated \subseteq served
  /\ excused \subseteq Readers \X Copies
  /\ redelivered \subseteq Readers \X Copies

\* Every reader finds its stream, finds or creates its durable and asks for
\* messages; an error in that ends it.
Started == [Readers -> {"recv", "dead"}]

Init ==
  /\ ask \in [Questions -> Asked]
  /\ inbox = [q \in Questions |-> "unsent"]
  /\ handlers = {} /\ polled = {} /\ mail = "none"
  /\ gen = 1 /\ found = [q \in Questions |-> {}]
  /\ sent = [q \in Questions |-> [g \in Gens |-> 0]]
  /\ wire = <<>> /\ drops = 0
  /\ standing = [r \in Readers |-> [c \in Copies |-> "absent"]]
  /\ buf = [r \in Readers |-> <<>>]
  /\ cur = [r \in Readers |-> Nothing]
  /\ step \in Started
  /\ failed = {} /\ crashed = FALSE
  /\ served = {} /\ repeated = {} /\ excused = {} /\ redelivered = {}

-----------------------------------------------------------------------------
(* The NATS client and the server. *)

\* The client takes an item, as soon as its channel has room.
Write(item) ==
  /\ Len(wire) < Channel
  /\ wire' = Append(wire, item)

\* The meta fields of a question, and those that publish_response copies.
QuestionMeta(q) ==
  CASE ask[q].via = "telegram" -> {"chat_id", "message_id", "bot_name", "target_agent"}
    [] ask[q].via = "email" -> {"source", "email_from", "email_msg_id",
                                "email_subject", "target_agent"}
    [] ask[q].via = "outside" -> {}
AnswerMeta(q) == QuestionMeta(q) \cap {"bot_name", "chat_id"}

\* The generations whose source published q.
SentBy(q) == {g \in Gens : sent[q][g] > 0}

\* js.publish(..).await of the question q.
Hand(q, g) ==
  /\ sent' = [sent EXCEPT ![q][g] = @ + 1]
  /\ Write([kind |-> "question", copy |-> <<q, g>>])

\* hubmq-user-in has no filter; a listener filters on the inbox of its agent.
\* A command goes to admin.bot.add, which is not on USER_IN.
Reads(r, q) ==
  /\ ask[q].form # "admin"
  /\ r = "bridge" \/ ask[q].agent = r

Unsettled(r, c) == standing[r][c] \in {"due", "out"}

Stored(c) ==
  standing' = [r \in Readers |->
    IF Reads(r, c[1]) THEN [standing[r] EXCEPT ![c] = "due"] ELSE standing[r]]

\* AckPolicy::Explicit: one copy, unless it is settled already.
AckExplicit(r, c) ==
  standing' = [standing EXCEPT ![r][c] = IF Unsettled(r, c) THEN "acked" ELSE @]

\* The server takes what comes first on the connection.
ServerTakes ==
  /\ wire # <<>>
  /\ wire' = Tail(wire)
  /\ LET i == Head(wire) IN
       \/ /\ i.kind = "question"
          /\ Stored(i.copy)
          /\ UNCHANGED <<served, repeated>>
       \/ /\ i.kind = "answer"
          /\ served' = served \cup {<<i.reader, i.copy>>}
          /\ repeated' = repeated \cup ({<<i.reader, i.copy>>} \cap served)
          /\ UNCHANGED standing
       \/ /\ i.kind = "ack"
          /\ AckExplicit(i.reader, i.copy)
          /\ UNCHANGED <<served, repeated>>
  /\ UNCHANGED <<ask, sourceVars, genVars, sent, drops, readerVars, failed, crashed,
                 excused, redelivered>>

\* The server refuses it, or the connection loses it: nobody awaits the reply.
ServerDrops ==
  /\ wire # <<>> /\ drops < MaxDrops
  /\ drops' = drops + 1
  /\ wire' = Tail(wire)
  /\ excused' = IF Head(wire).kind = "answer"
                THEN excused \cup {<<Head(wire).reader, Head(wire).copy>>}
                ELSE excused
  /\ UNCHANGED <<ask, sourceVars, genVars, sent, standing, readerVars, failed, crashed,
                 served, repeated, redelivered>>

-----------------------------------------------------------------------------
(* The sources. *)

\* A user sends q; from outside, something else publishes it on USER_IN.
Send(q) ==
  /\ inbox[q] = "unsent"
  /\ \/ /\ ask[q].via # "outside"
        /\ inbox' = [inbox EXCEPT ![q] = "new"]
        /\ UNCHANGED standing
     \/ /\ ask[q].via = "outside"
        /\ inbox' = [inbox EXCEPT ![q] = "done"]
        /\ Stored(<<q, 1>>)
  /\ UNCHANGED <<ask, handlers, polled, mail, genVars, sent, wire, drops, readerVars,
                 historyVars>>

\* Mutant: the offset is not advanced, and the update is fetched again.
OffsetStays(q) ==
  /\ ask[q].via = "telegram" /\ inbox[q] = "new"
  /\ handlers' = handlers \cup {<<q, gen>>}
  /\ UNCHANGED <<ask, inbox, polled, mail, genVars, sent, wire, drops, standing,
                 readerVars, historyVars>>

\* The poller receives the update and starts a handler for it ...
FetchUpdate(q) ==
  /\ ask[q].via = "telegram" /\ inbox[q] = "new"
  /\ inbox' = [inbox EXCEPT ![q] = "fetched"]
  /\ handlers' = handlers \cup {<<q, gen>>}
  /\ UNCHANGED <<ask, polled, mail, genVars, sent, wire, drops, standing, readerVars,
                 historyVars>>

\* ... and confirms it with its next getUpdates, whether it was handled or not.
Confirm(q) ==
  /\ ask[q].via = "telegram" /\ inbox[q] = "fetched"
  /\ inbox' = [inbox EXCEPT ![q] = "done"]
  /\ UNCHANGED <<ask, handlers, polled, mail, genVars, sent, wire, drops, standing,
                 readerVars, historyVars>>

\* telegram::handle; run_bot only logs its error.
Handle(q, g) ==
  /\ <<q, g>> \in handlers
  /\ handlers' = handlers \ {<<q, g>>}
  /\ \/ /\ ~(ask[q].welcome /\ ask[q].form = "text")
        /\ UNCHANGED <<sent, wire, failed>>
     \/ /\ ask[q].welcome /\ ask[q].form = "text"
        /\ Hand(q, g)
        /\ UNCHANGED failed
     \/ /\ ask[q].welcome /\ ask[q].form = "text"
        /\ failed' = failed \cup {q}
        /\ UNCHANGED <<sent, wire>>
  /\ UNCHANGED <<ask, inbox, polled, mail, genVars, drops, standing, readerVars, crashed,
                 served, repeated, excused, redelivered>>

\* Mutant: the search asks for ALL.
SearchAll == {q \in Questions : ask[q].via = "email" /\ inbox[q] \in {"new", "done"}}

\* The mails that SEARCH UNSEEN names.
Unseen == {q \in Questions : ask[q].via = "email" /\ inbox[q] = "new"}

\* poll_once connects and searches; without mail it ends at once.
MailPoll ==
  /\ polled = {} /\ mail = "none"
  /\ Unseen # {}
  /\ polled' = Unseen
  /\ UNCHANGED <<ask, inbox, handlers, mail, genVars, sent, wire, drops, standing,
                 readerVars, historyVars>>

\* process_email fetches the mail.  The FETCH of RFC822 sets \Seen on the
\* server; the uid_store at the end of process_email finds it set.
MailFetch(q) ==
  /\ q \in polled /\ mail = "none"
  /\ polled' = polled \ {q}
  /\ mail' = q
  /\ inbox' = [inbox EXCEPT ![q] = "done"]
  /\ UNCHANGED <<ask, handlers, genVars, sent, wire, drops, standing, readerVars,
                 historyVars>>

\* The fetch fails; poll_once flags the mail Seen and ignores a failure of that.
MailFetchFails(q) ==
  /\ q \in polled /\ mail = "none"
  /\ polled' = polled \ {q}
  /\ inbox' \in {inbox, [inbox EXCEPT ![q] = "done"]}
  /\ failed' = failed \cup {q}
  /\ UNCHANGED <<ask, handlers, mail, genVars, sent, wire, drops, standing, readerVars,
                 crashed, served, repeated, excused, redelivered>>

\* The rest of process_email, with handle_admin_email and handle_user_email.
MailProcess ==
  /\ mail # "none"
  /\ mail' = "none"
  /\ LET forwards == ask[mail].welcome /\ ask[mail].form \in {"text", "admin"}
         breaks == ask[mail].form = "broken" \/ forwards IN
       \/ /\ forwards
          /\ Hand(mail, gen)
          /\ UNCHANGED failed
       \/ /\ breaks
          /\ failed' = failed \cup {mail}
          /\ UNCHANGED <<sent, wire>>
       \/ /\ ~forwards /\ ask[mail].form # "broken"
          /\ UNCHANGED <<sent, wire, failed>>
  /\ UNCHANGED <<ask, inbox, handlers, polled, genVars, drops, standing, readerVars,
                 crashed, served, repeated, excused, redelivered>>

-----------------------------------------------------------------------------
(* The readers: run of a listener, and run_upstream with the bridge. *)

Deliver(r, c) ==
  /\ step[r] # "dead"
  /\ standing[r][c] = "due" /\ Len(buf[r]) < Prefetch
  /\ standing' = [standing EXCEPT ![r][c] = "out"]
  /\ buf' = [buf EXCEPT ![r] = Append(@, c)]
  /\ UNCHANGED <<ask, sourceVars, genVars, sent, wire, drops, cur, step, historyVars>>

AckWaitExpires(r, c) ==
  /\ standing[r][c] = "out"
  /\ standing' = [standing EXCEPT ![r][c] = "due"]
  /\ redelivered' = redelivered \cup {<<r, c>>}
  /\ UNCHANGED <<ask, sourceVars, genVars, sent, wire, drops, readerVars, failed, crashed,
                 served, repeated, excused>>

\* Mutant: an unparsable message is taken for a question.
CallsForAll(r, c) == r = "bridge" => ask[c[1]].relayed

\* Does r make a call for c: c parses, and the bridge relays it.
Calls(r, c) == ask[c[1]].form # "broken" /\ (r = "bridge" => ask[c[1]].relayed)

\* Mutant: acked on receipt.
AckOnReceipt(r) ==
  /\ step[r] = "recv" /\ buf[r] # <<>>
  /\ cur' = [cur EXCEPT ![r] = Head(buf[r])]
  /\ buf' = [buf EXCEPT ![r] = Tail(@)]
  /\ step' = [step EXCEPT ![r] = IF Calls(r, Head(buf[r])) THEN "call" ELSE "ack"]
  /\ Write([kind |-> "ack", reader |-> r, copy |-> Head(buf[r])])
  /\ UNCHANGED <<ask, sourceVars, genVars, sent, drops, standing, historyVars>>

Take(r) ==
  /\ step[r] = "recv" /\ buf[r] # <<>>
  /\ cur' = [cur EXCEPT ![r] = Head(buf[r])]
  /\ buf' = [buf EXCEPT ![r] = Tail(@)]
  /\ step' = [step EXCEPT ![r] = IF Calls(r, Head(buf[r])) THEN "call" ELSE "ack"]
  /\ UNCHANGED <<ask, sourceVars, genVars, sent, wire, drops, standing, historyVars>>

\* The message stream reports an error: it ends run_upstream, and a listener
\* passes over it.
ReceiveError ==
  /\ step["bridge"] = "recv"
  /\ step' = [step EXCEPT !["bridge"] = "dead"]
  /\ buf' = [buf EXCEPT !["bridge"] = <<>>]
  /\ UNCHANGED <<ask, sourceVars, genVars, sent, wire, drops, standing, cur, historyVars>>

\* Mutant: the loop goes on to the ack only some of the time.
RepeatsCall(r) == step' \in {step, [step EXCEPT ![r] = "ack"]}

GoesOnToAck(r) == step' = [step EXCEPT ![r] = "ack"]

\* call_llm returns a text, and publish_response hands it to the client.
Answer(r) ==
  /\ r \in Agents /\ step[r] = "call"
  /\ GoesOnToAck(r)
  /\ Write([kind |-> "answer", reader |-> r, copy |-> cur[r]])
  /\ UNCHANGED <<ask, sourceVars, genVars, sent, drops, standing, buf, cur, historyVars>>

\* msg-relay takes the POST of forward_from_telegram.
Relay ==
  /\ step["bridge"] = "call"
  /\ GoesOnToAck("bridge")
  /\ LET s == <<"bridge", cur["bridge"]>> IN
       /\ served' = served \cup {s}
       /\ repeated' = repeated \cup ({s} \cap served)
  /\ UNCHANGED <<ask, sourceVars, genVars, sent, wire, drops, standing, buf, cur, failed,
                 crashed, excused, redelivered>>

\* Mutant: no ack after a failure.
FailureWithoutAck(r) ==
  /\ step[r] = "call"
  /\ step' = [step EXCEPT ![r] = "recv"]
  /\ cur' = [cur EXCEPT ![r] = Nothing]
  /\ excused' = excused \cup {<<r, cur[r]>>}
  /\ UNCHANGED <<ask, sourceVars, genVars, sent, wire, drops, standing, buf, failed,
                 crashed, served, repeated, redelivered>>

\* The call fails or times out, or the answer cannot be published: it is logged.
CallFails(r) ==
  /\ step[r] = "call"
  /\ step' = [step EXCEPT ![r] = "ack"]
  /\ excused' = excused \cup {<<r, cur[r]>>}
  /\ UNCHANGED <<ask, sourceVars, genVars, sent, wire, drops, standing, buf, cur, failed,
                 crashed, served, repeated, redelivered>>

Ack(r) ==
  /\ step[r] = "ack"
  /\ Write([kind |-> "ack", reader |-> r, copy |-> cur[r]])
  /\ step' = [step EXCEPT ![r] = "recv"]
  /\ cur' = [cur EXCEPT ![r] = Nothing]
  /\ UNCHANGED <<ask, sourceVars, genVars, sent, drops, standing, buf, historyVars>>

-----------------------------------------------------------------------------
(* The process. *)

\* New pollers and readers; an update that was not confirmed is fetched again.
NewGeneration ==
  /\ gen < MaxGen /\ gen' = gen + 1
  /\ buf' = [r \in Readers |-> <<>>]
  /\ cur' = [r \in Readers |-> Nothing]
  /\ step' \in Started
  /\ inbox' = [q \in Questions |-> IF inbox[q] = "fetched" THEN "new" ELSE inbox[q]]
  /\ found' = [q \in Questions |->
       IF inbox[q] = "fetched" THEN found[q] \cup {gen + 1} ELSE found[q]]

\* Mutant: the reload aborts the mail source as well.
MailAborted == polled' = {} /\ mail' = "none"

MailGoesOn == UNCHANGED <<polled, mail>>

\* The reload of main aborts the pollers, the listeners and the dispatcher, in
\* which run_upstream lives.  Handlers under way are tasks of their own, and
\* the mail source was spawned once and for all.
Reload ==
  /\ NewGeneration
  /\ MailGoesOn
  /\ UNCHANGED <<ask, handlers, sent, wire, drops, standing, historyVars>>

\* The process dies, and systemd starts it again.
Crash ==
  /\ NewGeneration
  /\ handlers' = {} /\ polled' = {} /\ mail' = "none"
  /\ wire' = <<>>
  /\ crashed' = TRUE
  /\ UNCHANGED <<ask, sent, drops, standing, failed, served, repeated, excused,
                 redelivered>>

Next ==
  \/ \E q \in Questions : \/ Send(q)
                          \/ FetchUpdate(q)
                          \/ Confirm(q)
                          \/ MailFetch(q)
                          \/ MailFetchFails(q)
                          \/ \E g \in Gens : Handle(q, g)
  \/ MailPoll \/ MailProcess
  \/ ServerTakes \/ ServerDrops
  \/ \E r \in Readers : \/ Take(r)
                        \/ Answer(r)
                        \/ CallFails(r)
                        \/ Ack(r)
                        \/ \E c \in Copies : Deliver(r, c) \/ AckWaitExpires(r, c)
  \/ Relay \/ ReceiveError
  \/ Reload \/ Crash

\* What runs does not stop: the connection, the server's timer, a listener,
\* whose HTTP client has a timeout.  The client of the bridge has none
\* (Client::new, bridge.rs:47): a call to msg-relay may last for ever.
Fairness ==
  /\ WF_vars(ServerTakes)
  /\ \A r \in Agents : WF_vars(Take(r) \/ Answer(r) \/ CallFails(r) \/ Ack(r))
  /\ WF_vars(Take("bridge") \/ Ack("bridge"))
  /\ \A r \in Readers :
       /\ WF_vars(\E c \in Copies : Deliver(r, c))
       /\ \A c \in Copies : WF_vars(AckWaitExpires(r, c))

Safety == Init /\ [][Next]_vars
Spec == Safety /\ Fairness

-----------------------------------------------------------------------------
(* Properties. *)

\* A reader's ack never overtakes what it acknowledges: once the durable of a
\* reader has settled a copy, its answer is stored (or msg-relay has it), unless
\* the call or the publish failed, or the copy called for no answer.  The reader
\* hands over the answer first, and the connection keeps the order
\* (llm_openai.rs:156-188).
AckedMeansServed ==
  \A r \in Readers, c \in Copies :
    standing[r][c] = "acked" /\ Calls(r, c) => <<r, c>> \in served \cup excused

\* To each of its readers USER_IN is a durable stream with a consumer that
\* acknowledges, through reloads, crashes, dying readers and a connection that
\* loses acks: what calls for an answer (or for msg-relay) is settled only after
\* it was answered or given up with a logged error, and one reader's acks, or
\* those of another copy of the question, settle nothing of the other's.
Fate(r, c) ==
  IF standing[r][c] = "absent" \/ ~Calls(r, c) THEN "absent"
  ELSE IF standing[r][c] = "acked" THEN "settled"
  ELSE "live"

Promise == INSTANCE AtLeastOnce
  WITH Msgs <- Readers \X Copies,
       fate <- [d \in Readers \X Copies |-> Fate(d[1], d[2])],
       served <- served \cup excused

PromiseSafety == Promise!Safety

\* One message on USER_IN is answered, or relayed, twice only after its ack wait
\* expired: through reloads, restarts, lost acks and a slow LLM.
RepeatedOnlyIfRedelivered == repeated \subseteq redelivered

\* One of the generations after g, up to h, began with q fetched and not confirmed.
FoundBetween(q, g, h) == \E k \in found[q] : g < k /\ k <= h

\* A user's message is published once, however often its source polls, and a
\* second time only if it is a telegram update, by a later generation, and a
\* reload or a restart since the first found it not yet confirmed
\* (telegram.rs:34-53, main.rs:332).  A mail never is (email.rs:301-345).
AskedAgainOnlyUnconfirmed ==
  \A q \in Questions :
    /\ \A g \in Gens : sent[q][g] <= 1
    /\ \A g, h \in SentBy(q) :
         g < h => ask[q].via = "telegram" /\ FoundBetween(q, g, h)

Wanted(q) ==
  /\ ask[q].welcome
  /\ \/ ask[q].via \in {"telegram", "email"} /\ ask[q].form = "text"
     \/ ask[q].via = "email" /\ ask[q].form = "admin"
BeingHandled(q) == q = mail \/ \E g \in Gens : <<q, g>> \in handlers

\* What a welcome user wrote and the source has taken away from the server's
\* inbox is handed on, is being handled, or met an error that was logged; only
\* a crash loses it without a trace.  A reload does not.
LostOnlyByCrash ==
  \A q \in Questions :
    Wanted(q) /\ inbox[q] = "done" =>
      SentBy(q) # {} \/ BeingHandled(q) \/ q \in failed \/ crashed

\* A message on USER_IN is settled by everyone who reads it, or its reader is
\* dead (and stays so until the next reload), whatever fails: the listener acks
\* in every case (llm_openai.rs:187-188).  The bridge needs a msg-relay that
\* does not keep it waiting for ever.
EventuallyReadBy(r) ==
  \A c \in Copies : Unsettled(r, c) ~> standing[r][c] = "acked" \/ step[r] = "dead"
EventuallyRead ==
  /\ \A r \in Agents : EventuallyReadBy(r)
  /\ []<>(step["bridge"] # "call") => EventuallyReadBy("bridge")

-----------------------------------------------------------------------------
(* What the proofs need besides (Conversation_proofs). *)

\* An answer is stored or given up, or precedes position n of the wire.
AnsweredBefore(n, r, c) ==
  \/ <<r, c>> \in served \cup excused
  \/ \E j \in 1..Len(wire) : j < n /\ wire[j] = [kind |-> "answer", reader |-> r, copy |-> c]

\* Nothing is between an answer and its ack: neither of those under way ...
AcksBehindAnswers ==
  \A i \in 1..Len(wire) :
    wire[i].kind = "ack" /\ Calls(wire[i].reader, wire[i].copy)
      => AnsweredBefore(i, wire[i].reader, wire[i].copy)

\* ... nor of those a reader is about to send.
AnsweredAtAck ==
  \A r \in Readers :
    step[r] = "ack" /\ Calls(r, cur[r]) => AnsweredBefore(Len(wire) + 1, r, cur[r])

\* Only what is unread is polled, only the source of q has q in hand, and a mail
\* in hand was not published.
SourcesApart ==
  /\ \A q \in polled : ask[q].via = "email" /\ inbox[q] = "new"
  /\ \A q \in Questions :
       q = mail => ask[q].via = "email" /\ inbox[q] = "done" /\ SentBy(q) = {}
  /\ \A h \in handlers : ask[h[1]].via = "telegram"
  /\ \A q \in Questions :
       ask[q].via # "telegram" /\ SentBy(q) # {} => inbox[q] = "done"

\* LostOnlyByCrash, from the fetch on.
NothingLost ==
  \A q \in Questions :
    Wanted(q) /\ inbox[q] \in {"fetched", "done"} =>
      SentBy(q) # {} \/ BeingHandled(q) \/ q \in failed \/ crashed

QuestionItem(c) == [kind |-> "question", copy |-> c]
AnswerItem(r, c) == [kind |-> "answer", reader |-> r, copy |-> c]
OnWire(item) == \E i \in 1..Len(wire) : wire[i] = item
AtMostOnceOnWire(item) ==
  \A i, j \in 1..Len(wire) : wire[i] = item /\ wire[j] = item => i = j

\* A generation hands q over at most once, and has not done so nor begun to
\* while the update waits to be fetched.
HandedOnce ==
  /\ \A q \in Questions, g \in Gens :
       <<q, g>> \in handlers => g <= gen /\ g \notin SentBy(q)
  /\ \A q \in Questions :
       /\ \A g \in SentBy(q) : g <= gen
       /\ ask[q].via = "outside" => SentBy(q) = {}
       /\ ask[q].via = "telegram" /\ inbox[q] \in {"unsent", "new"}
            => gen \notin SentBy(q) /\ <<q, gen>> \notin handlers

\* The generations that fetched update q and took it up or published it.
Begun(q) == SentBy(q) \cup {g \in Gens : <<q, g>> \in handlers}

\* An update is begun once more only after it was found unconfirmed, and while
\* it waits to be fetched it has been found so since each of its beginnings.
BegunAgainOnlyUnconfirmed ==
  \A q \in Questions : ask[q].via = "telegram" =>
    /\ inbox[q] = "unsent" => Begun(q) = {}
    /\ inbox[q] = "new" => \A g \in Begun(q) : FoundBetween(q, g, gen)
    /\ \A g, h \in Begun(q) : g < h => FoundBetween(q, g, h)

\* The stream gets each copy at most once.
StoredOnce ==
  /\ \A c \in Copies : OnWire(QuestionItem(c)) =>
       /\ c[2] \in SentBy(c[1])
       /\ \A r \in Readers : standing[r][c] = "absent"
       /\ AtMostOnceOnWire(QuestionItem(c))
  /\ \A r \in Readers, c \in Copies : standing[r][c] # "absent" =>
       c[2] \in SentBy(c[1]) \/ (ask[c[1]].via = "outside" /\ inbox[c[1]] = "done")

InBuf(r, c) == \E i \in 1..Len(buf[r]) : buf[r][i] = c
AtMostOnceInBuf(r, c) == \A i, j \in 1..Len(buf[r]) : buf[r][i] = c /\ buf[r][j] = c => i = j

\* Readers hold and answer only what the stream has, and what calls for it.
HeldCopy(r, c) ==
  /\ standing[r][c] = "absent" => cur[r] # c /\ ~InBuf(r, c) /\ ~OnWire(AnswerItem(r, c))
  /\ cur[r] = c /\ step[r] = "call" => Calls(r, c)
  /\ OnWire(AnswerItem(r, c)) => Calls(r, c)
HeldIsStored == \A r \in Readers, c \in Copies : HeldCopy(r, c)

\* A copy whose ack wait never expired is in one place of its reader at most:
\* due, in the buffer, in hand, on its way as an answer, or served.
Unanswered(r, c) == <<r, c>> \notin served /\ ~OnWire(AnswerItem(r, c))
SingleCopyOf(r, c) ==
  /\ standing[r][c] \in {"absent", "due"} =>
       Unanswered(r, c) /\ cur[r] # c /\ ~InBuf(r, c)
  /\ InBuf(r, c) => Unanswered(r, c) /\ cur[r] # c /\ AtMostOnceInBuf(r, c)
  /\ cur[r] = c /\ step[r] = "call" => Unanswered(r, c)
  /\ OnWire(AnswerItem(r, c)) => <<r, c>> \notin served /\ AtMostOnceOnWire(AnswerItem(r, c))
  /\ <<r, c>> \notin repeated
SingleCopy ==
  \A r \in Readers, c \in Copies : <<r, c>> \notin redelivered => SingleCopyOf(r, c)

IInv == /\ TypeOK
        /\ AcksBehindAnswers /\ AnsweredAtAck /\ AckedMeansServed
        /\ SourcesApart /\ AskedAgainOnlyUnconfirmed
        /\ NothingLost
        /\ HandedOnce /\ BegunAgainOnlyUnconfirmed /\ StoredOnce /\ HeldIsStored /\ SingleCopy

-----------------------------------------------------------------------------
(* What the repository says and the code does not do. *)

\* CHANGELOG.md:18 and README.md:63 send the answer to a mail into its thread,
\* by meta.source: it has to be in the answer.
MailAnsweredInItsThread ==
  \A r \in Agents, c \in Copies :
    <<r, c>> \in served /\ ask[c[1]].via = "email" => "source" \in AnswerMeta(c[1])
=============================================================================
