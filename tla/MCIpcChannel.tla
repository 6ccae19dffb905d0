----------------------------- MODULE MCIpcChannel -----------------------------
(* Three calls, of which the first two have a time limit.                  *)
EXTENDS IpcChannel

TimedIds == {1, 3}
===============================================================================
