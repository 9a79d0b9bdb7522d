---------------------------- MODULE MCSchedule -----------------------------
(* One swarm file and three minutes around midnight.                        *)
EXTENDS Scheduler
CONSTANT brief

(* The last minute of Saturday 31 May and the first two of Sunday 1 June; a *)
(* trigger on the first of a month or a Sunday at midnight, one with a step *)
(* of zero.                                                                 *)
Minute(m, h, dom, month, dow) == [minute |-> m, hour |-> h, dom |-> dom, month |-> month, dow |-> dow]
Only(n) == {[lo |-> n, hi |-> n, step |-> 1]}
EveryMinute(step) == {[lo |-> 0, hi |-> 59, step |-> step]}
FirstOrSunday == Minute(EveryMinute(1), Only(0), Only(1), Star, Only(7))
Unparsable == Minute(EveryMinute(0), Star, Star, Star, Star)
MCExprs == {FirstOrSunday, Unparsable}
MCCalendar == <<Minute(59, 23, 31, 5, 6), Minute(0, 0, 1, 6, 0), Minute(1, 0, 1, 6, 0)>>
=============================================================================
