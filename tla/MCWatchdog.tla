------------------------------ MODULE MCWatchdog ------------------------------
(***************************************************************************)
(* Watchdog with the periods that are deployed: the timers' and those that *)
(* the script names in seconds.                                            *)
(***************************************************************************)
EXTENDS Watchdog

CheckPeriod == 30 * 60
InTicks(seconds) == seconds \div CheckPeriod

Hourly == InTicks(60 * 60)
TwoHours == InTicks(7200)
SixHours == InTicks(6 * 60 * 60)
OneHour == InTicks(3600)
=============================================================================
