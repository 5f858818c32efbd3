--------------------------- MODULE SeverityRouting ---------------------------
(***************************************************************************)
(* Severities and the delivery channels they select                        *)
(* (crates/hubmq-core/src/message.rs, filter/severity.rs).                 *)
(*                                                                         *)
(* A DeliveryChannels value, four booleans in the code, is the set of the  *)
(* channels that are true.  An instant of the day is a natural number      *)
(* below the length of the day (minutes in the code).                      *)
(***************************************************************************)
EXTENDS Naturals

Severities == {"P0", "P1", "P2", "P3"}

\* Severity::from_wazuh_level.
FromWazuhLevel(level) ==
  IF level >= 12 THEN "P0"
  ELSE IF level \in 8..11 THEN "P1"
  ELSE IF level \in 5..7 THEN "P2"
  ELSE "P3"

\* The sinks a message is sent to, and the flag that keeps it in the log.
SinkChannels == {"email", "ntfy", "telegram"}
Channels == SinkChannels \cup {"log_only"}

\* The four constructors of DeliveryChannels; note that all() sets log_only.
AllChannels   == Channels
NtfyTelegram  == {"ntfy", "telegram"}
EmailTelegram == {"email", "telegram"}
LogOnly       == {"log_only"}

\* Mutant: without the branch for an interval across midnight.
SameDayOnly(start, end, t) == t >= start /\ t < end

\* SeverityRouter::is_quiet_hours for the quiet interval [start, end).
IsQuietHours(start, end, t) ==
  IF start <= end
  THEN t >= start /\ t < end
  ELSE t >= start \/ t < end

\* SeverityRouter::route.
Route(start, end, sev, t) ==
  CASE sev = "P0" -> AllChannels
    [] sev = "P1" -> NtfyTelegram
    [] sev = "P2" -> IF IsQuietHours(start, end, t) THEN LogOnly ELSE EmailTelegram
    [] sev = "P3" -> LogOnly

-----------------------------------------------------------------------------
\* Reference: t lies in the interval that starts at start and runs clockwise
\* to end on a day of length day.
InClockwiseInterval(day, start, end, t) ==
  (t + day - start) % day < (end + day - start) % day
=============================================================================
