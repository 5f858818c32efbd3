----------------------------- MODULE MCDispatcher -----------------------------
(***************************************************************************)
(* Small instances of Dispatcher.                                          *)
(***************************************************************************)
EXTENDS Dispatcher

OneStream == {"AGENTS"}
TwoStreams == {"AGENTS", "CRON"}
NoBots == {}
TwoBots == {"default", "claude"}

HeaderOf(stream, severity, source, bot) ==
  [stream |-> stream, parses |-> TRUE, severity |-> severity, source |-> source,
   bot |-> bot, addressed |-> TRUE]
NotAMessage(stream) == [HeaderOf(stream, "P3", "telegram", "none") EXCEPT !.parses = FALSE]

\* Every kind of header that takes another path through route_and_deliver.
MixedTraffic ==
  {HeaderOf("AGENTS", "P1", "telegram", "claude"),
   HeaderOf("AGENTS", "P1", "email", "none"),
   HeaderOf("AGENTS", "P2", "telegram", "none"),
   HeaderOf("AGENTS", "P0", "telegram", "claude"),
   [HeaderOf("AGENTS", "P1", "email", "none") EXCEPT !.addressed = FALSE],
   NotAMessage("AGENTS")}

QuietTraffic == {HeaderOf("AGENTS", "P1", "telegram", "none"), NotAMessage("AGENTS")}

\* ntfy, which may hang, on one stream, and nothing to send on the other.
StreamTraffic == {HeaderOf("AGENTS", "P1", "telegram", "none"),
                  NotAMessage("CRON")}

UrgentTraffic == {HeaderOf("AGENTS", "P0", "telegram", "claude")}
=============================================================================
