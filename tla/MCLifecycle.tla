---------------------------- MODULE MCLifecycle -----------------------------
(* A small deployment of Lifecycle for TLC.                                *)
EXTENDS Lifecycle, TLC

CONSTANTS p1, p2, p3, f1

OneModule == [p \in Pid |-> "m"]
NoIfaces  == [m \in ModuleName |-> {}]
NoCalls   == [a \in Call |-> NULL]
NoOffers  == [f \in Fab |-> {}]

(* A log that is not looked at.                                            *)
NoLife == {<< >>}

(* All lives of up to four rolls.                                          *)
SomeLives == UNION {[1 .. n -> [fails : 0 .. 2, reopened : BOOLEAN]] : n \in 0 .. 4}

(* What procman has sent to the fabric decides nothing here: the fabric    *)
(* loop may send anything at any time, and only FabricReads and MaxMem     *)
(* look at it.                                                             *)
WithoutToFabric ==
    <<up, toProcman, spawned, running, procmanVars, beaconVars, lifeVars, log>>

=============================================================================
