---------------------------- MODULE MCBufloDefense ----------------------------
(* Small instances of BufloDefense.  The runs differ in what the owner of  *)
(* the client is assumed to respect and in which time limits may pass.     *)
EXTENDS BufloDefense

AllRules       == Rule
NotWaiting     == Rule \ {"waits_for_done"}
StopsPending   == Rule \ {"stop_when_active"}
StopsTwice     == Rule \ {"stop_once"}
PumpsPending   == Rule \ {"one_pump_pending"}
=============================================================================
