------------------------------ MODULE MCBotAdmin ------------------------------
(***************************************************************************)
(* Small instances of BotAdmin.                                            *)
(***************************************************************************)
EXTENDS BotAdmin

Admin == {"AGENTS"}
BothAgents == {"claude-hubmq", "llmcore"}
Llmcore == {"llmcore"}

Add(bot, agent) == [op |-> "add", bot |-> bot, agent |-> agent, valid |-> TRUE]
Remove(bot) == [Add(bot, "llmcore") EXCEPT !.op = "remove"]

\* Two bots are added and removed; one order names the default agent.
AdminOrders == {Add("b1", "llmcore"), Remove("b1"), Add("b2", "claude-hubmq")}

\* A bot is removed and added, in either order, or two are added to an empty
\* conf.d; each pair of orders is tried once.
MCInit ==
  /\ Init
  /\ \E c, d \in Cmds : c # d /\ <<declared, order[c], order[d]>> \in
       {<<{"b1"}, Remove("b1"), Add("b1", "llmcore")>>,
        <<{}, Add("b1", "llmcore"), Add("b2", "claude-hubmq")>>}
  /\ order = CHOOSE o \in [Cmds -> Orders] :
       {o[c] : c \in Cmds} = {order[c] : c \in Cmds}
MCSpec == MCInit /\ [][Next]_vars /\ Fairness
=============================================================================
