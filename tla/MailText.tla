------------------------------- MODULE MailText -------------------------------
(***************************************************************************)
(* What the mailbox reads in a mail (source/email.rs): the route that its  *)
(* subject names, the token and the agent in the body of an admin mail;    *)
(* and the subject that the answer gets (sink/email_reply.rs).             *)
(*                                                                         *)
(* A subject is a sequence of symbols, as coarse as the parsers allow: the *)
(* characters that they look for, a lower and an upper case letter for the *)
(* others, and the words HUBMQ_BOT_TOKEN and Re (in any case) as a whole.  *)
(* A line of a body is a key, or "none", with the words after the colon.   *)
(***************************************************************************)
EXTENDS Naturals, Sequences

Letters == {"a", "A"}
Symbols == Letters \cup {"[", "]", ":", " ", "Re", "HUBMQ_BOT_TOKEN"}
Words == {"token1", "token2", "word"}
Tokens == Words \ {"word"}
Lines == [key : {"token", "agent", "none"}, words : UNION {[1..n -> Words] : n \in 0..2}]

SymbolsOf(s) == {s[i] : i \in 1..Len(s)}
From(s, i) == SubSeq(s, i, Len(s))

\* The positions of x in s, and the first of them.
At(x, s) == {i \in 1..Len(s) : s[i] = x}
First(x, s) == CHOOSE i \in At(x, s) : \A j \in At(x, s) : i <= j

\* str::trim.
Trim(s) ==
  LET ink == {i \in 1..Len(s) : s[i] # " "} IN
  IF ink = {} THEN <<>>
  ELSE SubSeq(s, CHOOSE i \in ink : \A j \in ink : i <= j,
                 CHOOSE i \in ink : \A j \in ink : i >= j)

-----------------------------------------------------------------------------
(* parse_subject. *)

\* A route: where the mail goes, whom it names, and what the subject adds.
Admin(name) == [to |-> "admin", name |-> name, body |-> <<>>]
UserMessage(agent, body) == [to |-> "agent", name |-> agent, body |-> body]
Unknown == [to |-> "nobody", name |-> <<>>, body |-> <<>>]

\* The three extractors return the set of what they find.
ExtractAdminSubject(s) ==
  LET name == Trim(From(s, 2)) IN
  {Admin(name) : x \in {i \in At("HUBMQ_BOT_TOKEN", s) :
                          i = 1 /\ name # <<>> /\ SymbolsOf(name) \subseteq {"a"}}}

ExtractBracketSubject(s) ==
  LET close == First("]", s)
      agent == Trim(SubSeq(s, 2, close - 1)) IN
  IF Len(s) = 0 \/ s[1] # "[" \/ At("]", s) = {} \/ agent = <<>> THEN {}
  ELSE {UserMessage(agent, Trim(From(s, close + 1)))}

ExtractColonSubject(s) ==
  LET colon == First(":", s)
      agent == Trim(SubSeq(s, 1, colon - 1))
      body == Trim(From(s, colon + 1)) IN
  IF At(":", s) = {} \/ agent = <<>> \/ At(" ", agent) # {} \/ body = <<>> THEN {}
  ELSE {UserMessage(agent, body)}

ParseSubject(subject) ==
  LET s == Trim(subject)
      admin == ExtractAdminSubject(s)
      bracket == ExtractBracketSubject(s)
      found == IF admin # {} THEN admin
               ELSE IF bracket # {} THEN bracket
               ELSE ExtractColonSubject(s) IN
  IF found = {} THEN Unknown ELSE CHOOSE route \in found : TRUE

-----------------------------------------------------------------------------
(* The body of an admin mail, and what becomes of a mail. *)

\* extract_admin_field: the values of key, the first that is not empty first.
AdminField(lines, key) ==
  SelectSeq(lines, LAMBDA line : line.key = key /\ line.words # <<>>)

AllWords(lines) ==
  LET upTo[i \in 0..Len(lines)] ==
        IF i = 0 THEN <<>> ELSE upTo[i - 1] \o lines[i].words
  IN upTo[Len(lines)]

\* extract_token_from_body: the set of the token it finds.
TokenFrom(lines) ==
  LET field == AdminField(lines, "token")
      bare == SelectSeq(AllWords(lines), LAMBDA w : w \in Tokens) IN
  IF field # <<>> /\ Head(field).words \in {<<w>> : w \in Tokens} THEN {Head(field).words[1]}
  ELSE IF bare # <<>> THEN {Head(bare)} ELSE {}

BlankLine == [key |-> "none", words |-> <<>>]

\* process_email and both handlers: which form of question is an allowed mail?
FormOf(subject, lines) ==
  LET route == ParseSubject(subject) IN
  CASE route.to = "nobody" -> "unknown"
    [] route.to = "admin" -> IF TokenFrom(lines) = {} THEN "broken" ELSE "admin"
    [] route.to = "agent" ->
         IF route.body = <<>> /\ \A i \in 1..Len(lines) : lines[i] = BlankLine
         THEN "empty" ELSE "text"

\* EmailReplySink::build_reply_subject.
BuildReplySubject(subject) ==
  LET s == Trim(subject) IN
  IF Len(s) >= 2 /\ s[1] = "Re" /\ s[2] = ":" THEN s ELSE <<"Re", ":", " ">> \o s

-----------------------------------------------------------------------------
(* References, over every subject of up to MaxLength symbols. *)

MaxLength == 5
Subjects == UNION {[1..n -> Symbols] : n \in 0..MaxLength}
Bodies == UNION {[1..n -> Lines] : n \in 0..2}

\* What a subject can be split into.
Splits(s) == {<<SubSeq(s, 1, i), From(s, i + 1)>> : i \in 0..Len(s)}
IsName(name) == name # <<>> /\ SymbolsOf(name) \subseteq {"a"}

\* The three forms, as the documentation of parse_subject lists them: a
\* subject is taken for the first of them that it has.
IsAdmin(s, name) == IsName(name) /\ \E split \in Splits(s) :
  split[1] = <<"HUBMQ_BOT_TOKEN">> /\ Trim(split[2]) = name
IsBracket(s, agent, body) == agent # <<>> /\ \E split \in Splits(s) : \E inner \in Splits(split[1]) :
  /\ inner[1] = <<"[">> /\ Len(inner[2]) >= 1 /\ At("]", inner[2]) = {Len(inner[2])}
  /\ Trim(SubSeq(inner[2], 1, Len(inner[2]) - 1)) = agent /\ Trim(split[2]) = body
IsColon(s, agent, body) ==
  /\ agent # <<>> /\ At(" ", agent) = {} /\ body # <<>>
  /\ \E split \in Splits(s) :
       /\ At(":", split[1]) = {Len(split[1])} /\ split[1] # <<>>
       /\ Trim(SubSeq(split[1], 1, Len(split[1]) - 1)) = agent /\ Trim(split[2]) = body

\* parse_subject finds the first form that the trimmed subject has, and nothing
\* when it has none (email.rs:64-70).
ASSUME ParseIsFirstForm ==
  \A subject \in Subjects :
    LET s == Trim(subject)
        route == ParseSubject(subject)
        admin == \E split \in Splits(s) : IsAdmin(s, Trim(split[2]))
        bracket == \E split \in Splits(s) : \E inner \in Splits(split[1]) :
                     IsBracket(s, Trim(SubSeq(inner[2], 1, Len(inner[2]) - 1)), Trim(split[2]))
    IN CASE route.to = "admin" -> IsAdmin(s, route.name)
         [] route.to = "agent" ->
              ~admin /\ IF bracket THEN IsBracket(s, route.name, route.body)
                        ELSE IsColon(s, route.name, route.body)
         [] route.to = "nobody" ->
              /\ ~admin /\ ~bracket
              /\ \A split \in Splits(s) :
                   split[1] # <<>> =>
                     ~IsColon(s, Trim(SubSeq(split[1], 1, Len(split[1]) - 1)), Trim(split[2]))

\* A token is found whenever some line has one, and a line "token:" that holds
\* nothing else comes before the words of other lines (email.rs:151-169).
ASSUME TokenIsFound ==
  \A lines \in Bodies :
    LET there == UNION {SymbolsOf(lines[i].words) : i \in 1..Len(lines)} \cap Tokens IN
    /\ TokenFrom(lines) \subseteq there /\ (TokenFrom(lines) = {} <=> there = {})
    /\ \A t \in Tokens :
         lines # <<>> /\ lines[Len(lines)] = [key |-> "token", words |-> <<t>>] =>
           TokenFrom(lines) = {t} \/ \E i \in 1..(Len(lines) - 1) :
                                        lines[i].key = "token" /\ lines[i].words # <<>>

\* The reply to a reply keeps its subject; and a follow-up, written under the
\* subject of an answer, is never addressed to the agent that answered: its
\* colon makes it a question to an agent of the name "Re" (email_reply.rs:75-82,
\* email.rs:126-138).
ASSUME RepliesAndFollowUps ==
  \A subject \in Subjects :
    LET reply == BuildReplySubject(subject) IN
    ParseSubject(subject).to = "agent" =>
      BuildReplySubject(reply) = reply /\ ParseSubject(reply).name = <<"Re">>
=============================================================================
