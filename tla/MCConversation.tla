---------------------------- MODULE MCConversation ----------------------------
(***************************************************************************)
(* Small instances of Conversation.                                        *)
(***************************************************************************)
EXTENDS Conversation, MailText

OneAgent == {"llmcore"}

Wrote(via, form, agent, relayed) ==
  [via |-> via, welcome |-> TRUE, form |-> form, agent |-> agent, relayed |-> relayed]

\* The question that a mail is for process_email; "a" stands for llmcore.
Mailed(subject, lines) ==
  Wrote("email", FormOf(subject, lines),
        IF ParseSubject(subject) = UserMessage(<<"a">>, <<"A">>) THEN "llmcore" ELSE "claude-hubmq", FALSE)
Line(key, word) == [key |-> key, words |-> <<word>>]
Asking == <<"[", "a", "]", " ", "A">>
AddingBot == <<"HUBMQ_BOT_TOKEN", " ", "a">>

\* Every kind of message that takes another path.
EveryPath ==
  {Wrote("telegram", "text", "claude-hubmq", TRUE),
   Mailed(Asking, <<>>),
   Mailed(AddingBot, <<Line("token", "token1")>>),
   Mailed(AddingBot, <<Line("token", "word")>>),
   [Mailed(Asking, <<>>) EXCEPT !.welcome = FALSE],
   [Wrote("telegram", "text", "claude-hubmq", TRUE) EXCEPT !.welcome = FALSE],
   Wrote("outside", "broken", "llmcore", FALSE)}

Mails == {Mailed(Asking, <<>>)}
=============================================================================
