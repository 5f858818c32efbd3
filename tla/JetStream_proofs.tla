--------------------------- MODULE JetStream_proofs ---------------------------
(***************************************************************************)
(* What every step of the streams preserves, for every set of messages and *)
(* streams and every capacity.                                             *)
(***************************************************************************)
EXTENDS JetStream, TLAPS

LEMMA JSInitType == JSInit => JSTypeOK
BY DEF JSInit, JSTypeOK, Statuses

LEMMA JSPublishType ==
  ASSUME JSTypeOK, NEW m \in Msgs, NEW s \in Streams, JSPublish(m, s)
  PROVE  JSTypeOK'
<1>1. log' \in [Streams -> Seq(Msgs)]
  <2>1. CASE Full(s)
    <3>1. log[s] \in Seq(Msgs) /\ Len(log[s]) > 0
      BY <2>1, StreamAssumption DEF Full, JSTypeOK
    <3>2. Tail(log[s]) \in Seq(Msgs)
      BY <3>1
    <3> QED BY <2>1, <3>2 DEF JSPublish, JSTypeOK
  <2>2. CASE ~Full(s)
    BY <2>2 DEF JSPublish, JSTypeOK
  <2> QED BY <2>1, <2>2
<1>2. status' \in [Msgs -> Statuses]
  BY DEF JSPublish, JSTypeOK, Statuses
<1> QED BY <1>1, <1>2 DEF JSPublish, JSTypeOK

LEMMA JSStepType ==
  ASSUME JSTypeOK, NEW m \in Msgs,
         JSDeliver(m) \/ JSAckWaitExpires(m) \/ JSAck(m)
  PROVE  JSTypeOK'
BY DEF JSTypeOK, JSDeliver, JSAckWaitExpires, JSAck, Statuses
=============================================================================
