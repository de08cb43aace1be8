------------------------------ MODULE MCScheduler ------------------------------
(* Instances of Scheduler: an idle process, two processes at one level, and    *)
(* one above them.                                                             *)
EXTENDS Scheduler

CONSTANTS idle, a, b, w, timer, external, ts, cs, mutex

MCProcs == {idle, a, b, w}
MCPriority == [p \in MCProcs |-> IF p = idle THEN 1 ELSE IF p = w THEN 3 ELSE 2]
MCEventOrder == <<timer, external>>
MCSemaOf == [e \in {timer, external} |-> IF e = timer THEN ts ELSE cs]
===============================================================================
