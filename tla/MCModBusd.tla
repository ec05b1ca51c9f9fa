----------------------------- MODULE MCModBusd ------------------------------
(* Small deployments of ModBusd for TLC.                                   *)
EXTENDS ModBusd, TLC

CONSTANTS p1, p2, p3, a1, a2, a3, f1

(* One module with one function, and local callers.                        *)
OneModule == [p \in Pid |-> "m"]
OneFunction == [m \in ModuleName |-> {<<"m:f", 1>>}]
AskForIt  == [a \in Call |-> <<"m:f", 1>>]
AllLocal  == [a \in Call |-> NULL]
NoOffers  == [f \in Fab |-> {}]

(* Calls are interchangeable, and so are the instances of the module.      *)
LocalSymmetry == Permutations(Call) \cup Permutations(Initial)

(* A foreign fabric that offers a function of its own, which a2 asks for,  *)
(* and the local one; a3 comes from the fabric.                            *)
MixedTarget  == [a \in Call |-> IF a = a2 THEN <<"r:g", 1>> ELSE <<"m:f", 1>>]
MixedOrigin  == [a \in Call |-> IF a = a3 THEN f1 ELSE NULL]
MixedOffers  == [f \in Fab |-> {<<"r:g", 1>>, <<"m:f", 1>>}]

(* Besides it p2, whose module provides a version that there is not.       *)
TwoModules   == [p \in Pid |-> IF p = p2 THEN "z" ELSE "m"]
VersionZero  == [m \in ModuleName |-> IF m = "z" THEN {<<"z:h", 0>>} ELSE {<<"m:f", 1>>}]

(* A fabric that offers what is also provided here.                        *)
SameOffers   == [f \in Fab |-> {<<"m:f", 1>>}]

(* One of the calls is malformed (version 0).                              *)
OneMalformed == [a \in Call |-> IF a = a2 THEN <<"m:f", 0>> ELSE <<"m:f", 1>>]

=============================================================================
