---------------------------- MODULE MCJobPoller ----------------------------
EXTENDS JobPoller
CONSTANTS o1, t1, t2
MCOthers  == {o1}
MCTasks   == {t1, t2}
MCRecords == [a \in {"apply", "revert", o1} |->
                IF a = "apply" THEN {t1, t2} ELSE {t1}]
MCSkews   == {0, 1}
\* Nothing is explored once both writes are over.  Clocks that disagree are
\* explored where stamps are read, and without failed calls.
StillOn == /\ \E w \in Ours : result[w] = "none"
           /\ skew # 0 => kind = "association" /\ faults = 0
=============================================================================
