----------------------------- MODULE AtLeastOnce -----------------------------
(***************************************************************************)
(* What a durable stream with a consumer that acknowledges promises to the *)
(* publisher of a message: it is settled only after it has been served, it *)
(* may be served again, it disappears unsettled only when the stream makes *)
(* room for a newer message, and otherwise it is settled eventually.       *)
(***************************************************************************)
CONSTANT Msgs

VARIABLES fate,    \* fate[m] in Fates
          served   \* the messages that were served completely at least once
vars == <<fate, served>>

Fates == {"absent", "live", "settled", "evicted"}

Init == /\ fate = [m \in Msgs |-> "absent"]
        /\ served = {}

\* Messages enter, and may push out one that is still live.
With(S) == [m \in Msgs |-> IF m \in S THEN "live" ELSE fate[m]]
Publish(S) ==
  /\ S # {} /\ \A m \in S : fate[m] = "absent" /\ fate'[m] = "live"
  /\ \/ fate' = With(S)
     \/ \E x \in Msgs : /\ fate[x] = "live"
                        /\ fate' = [With(S) EXCEPT ![x] = "evicted"]
  /\ UNCHANGED served

Serve(m) ==
  /\ fate[m] # "absent"
  /\ served' = served \cup {m}
  /\ UNCHANGED fate

Settle(m) ==
  /\ fate[m] = "live"
  /\ m \in served
  /\ fate' = [fate EXCEPT ![m] = "settled"]
  /\ UNCHANGED served

Next ==
  \/ \E S \in SUBSET {m \in Msgs : fate[m] = "absent"} : Publish(S)
  \/ \E m \in Msgs : Serve(m) \/ Settle(m)

Safety == Init /\ [][Next]_vars

\* Every message that was published is settled or evicted.
Progress == \A m \in Msgs : fate[m] = "live" ~> fate[m] \in {"settled", "evicted"}

Spec == Safety /\ Progress
=============================================================================
