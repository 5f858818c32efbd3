------------------------------ MODULE JetStream ------------------------------
(***************************************************************************)
(* What the daemon relies on of NATS JetStream: file-backed streams with   *)
(* DiscardPolicy::Old and a message limit (nats_conn.rs:59-105), and on    *)
(* each of them one durable pull consumer with the default configuration:  *)
(* deliver all, explicit ack, 30 s ack wait, no delivery limit.  The       *)
(* server's state survives a crash of the daemon.                          *)
(*                                                                         *)
(* External: the server is not in the repository.  Abstracted: sequence    *)
(* numbers, byte and age limits, the order in which due messages go out.   *)
(***************************************************************************)
EXTENDS Naturals, Sequences

CONSTANTS Msgs,           \* messages the publishers may send
          Streams,
          StreamCapacity  \* max_messages

ASSUME StreamAssumption == StreamCapacity \in Nat \ {0}

VARIABLES
  log,         \* log[s]: the messages stream s retains, oldest first
  status,      \* status[m]: where the durable consumer of m's stream is with m
  redelivered  \* history: the messages whose ack wait has expired

jsVars == <<log, status, redelivered>>

Statuses == {"absent",   \* not published
             "due",      \* to be delivered to the next pull request
             "out",      \* delivered, ack wait running
             "acked",
             "evicted"}  \* discarded by the limit before it was acked

Unsettled(m) == status[m] \in {"due", "out"}

JSTypeOK ==
  /\ log \in [Streams -> Seq(Msgs)]
  /\ status \in [Msgs -> Statuses]
  /\ redelivered \in SUBSET Msgs

JSInit ==
  /\ log = [s \in Streams |-> <<>>]
  /\ status = [m \in Msgs |-> "absent"]
  /\ redelivered = {}

Full(s) == Len(log[s]) >= StreamCapacity

\* A publisher's message reaches stream s; a full stream drops its oldest.
JSPublish(m, s) ==
  /\ status[m] = "absent"
  /\ log' = [log EXCEPT ![s] = Append(IF Full(s) THEN Tail(@) ELSE @, m)]
  /\ status' = [x \in Msgs |->
       IF x = m THEN "due"
       ELSE IF Full(s) /\ x = Head(log[s]) /\ Unsettled(x) THEN "evicted"
       ELSE status[x]]
  /\ UNCHANGED redelivered

\* The server answers a pull request with m.
JSDeliver(m) ==
  /\ status[m] = "due"
  /\ status' = [status EXCEPT ![m] = "out"]
  /\ UNCHANGED <<log, redelivered>>

\* No ack within the ack wait: m is delivered again, whoever still holds a copy.
JSAckWaitExpires(m) ==
  /\ status[m] = "out"
  /\ status' = [status EXCEPT ![m] = "due"]
  /\ redelivered' = redelivered \cup {m}
  /\ UNCHANGED log

\* The ack of any delivery of m reaches the server, a late one included.
JSAck(m) ==
  /\ status' = [status EXCEPT ![m] = IF Unsettled(m) THEN "acked" ELSE @]
  /\ UNCHANGED <<log, redelivered>>
=============================================================================
