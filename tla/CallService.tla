---------------------------- MODULE CallService -----------------------------
(***************************************************************************)
(* What the daemon promises to callers, without modules, queues, pipes or  *)
(* fabrics: a call that arrives is accepted or refused; an accepted call   *)
(* is answered; a call that was answered is never heard of again.  Only a  *)
(* caller on another machine that is no longer known may lose its answer,  *)
(* and only the end of the daemon stops the service.                       *)
(***************************************************************************)
CONSTANTS
    Call,    \* action ids
    Local    \* those of callers on this machine

VARIABLES
    status,  \* status[a]: what has become of call a
    serving  \* the daemon lives

serviceVars == <<status, serving>>

Init ==
    /\ status = [a \in Call |-> "new"]
    /\ serving = TRUE

Move(a, from, to) ==
    /\ serving
    /\ status[a] = from
    /\ status' = [status EXCEPT ![a] = to]

Accept(a) == Move(a, "new", "open") /\ UNCHANGED serving

Refuse(a) == Move(a, "new", "answered") /\ UNCHANGED serving

(* The answer frees a module, and placing the next call on it is part of   *)
(* the same step; the daemon may come down there.                          *)
Answer(a) == Move(a, "open", "answered") /\ serving' \in BOOLEAN

(* A caller that is gone.                                                  *)
Lose(a) ==
    /\ a \in Call \ Local
    /\ Move(a, "new", "lost") \/ Move(a, "open", "lost")
    /\ serving' \in BOOLEAN

(* The daemon comes down, over a call that has just arrived or otherwise.  *)
Fail ==
    /\ serving
    /\ serving' = FALSE
    /\ UNCHANGED status \/ \E a \in Call : Move(a, "new", "lost")

Next ==
    \/ \E a \in Call : Accept(a) \/ Refuse(a) \/ Answer(a) \/ Lose(a)
    \/ Fail

Spec == Init /\ [][Next]_serviceVars

=============================================================================
