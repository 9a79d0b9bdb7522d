------------------------------- MODULE MCRun -------------------------------
(* Small instances of Run: ask is the bot that writes behind its gate,      *)
(* fetch the one that may be retried or tolerated, ann who presses Stop.    *)
(* Which of them is gated or runs in a container differs from run to run.   *)
EXTENDS Run
CONSTANTS ask, fetch, ann
=============================================================================
