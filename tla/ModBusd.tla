------------------------------ MODULE ModBusd -------------------------------
(***************************************************************************)
(* The daemon: the fabric loop and the process manager thread, joined by   *)
(* their pipes, over module processes that may die at any time.            *)
(***************************************************************************)
EXTENDS Fabric, Procman

vars == <<sharedVars, fabricVars, procmanVars>>

Init == SharedInit /\ FabricInit /\ ProcmanInit

FabricStep  == FabricNext /\ UNCHANGED procmanVars
ProcmanStep == ProcmanNext /\ UNCHANGED fabricVars
ProcessStep == \E p \in Pid : ProcessDies(p) /\ UNCHANGED <<fabricVars, procmanVars>>

Next == FabricStep \/ ProcmanStep \/ ProcessStep

Spec == Init /\ [][Next]_vars

(* Both loops keep running: the reactors serve their pipes, and the queue  *)
(* timer finds every call whose time is up.                                *)
Fairness ==
    /\ WF_vars(s_main_event /\ UNCHANGED fabricVars)
    /\ WF_vars((IntroduceAnswered \/ s_procman_event) /\ UNCHANGED procmanVars)
    /\ \A a \in Call : WF_vars(QueueTimeout(a) /\ UNCHANGED procmanVars)
    /\ \A a \in Call : WF_vars(ProcessTimeout(a) /\ UNCHANGED procmanVars)
    /\ \A p \in Pid : WF_vars(NotRunning(p) /\ UNCHANGED fabricVars)

FairSpec == Spec /\ Fairness

-----------------------------------------------------------------------------
(* Every variable of the daemon keeps its type, through every handler of   *)
(* modbusd.c and procman.c.                                                *)
TypeOK == SharedTypeOK /\ FabricTypeOK /\ ProcmanTypeOK

(* message_t.routed_via points at the identity string of a module_t: while *)
(* a call is queued that module is still registered (the pointer does not  *)
(* dangle when process_queue_item looks it up) and is BUSY with it.        *)
NoDanglingRoute ==
    \A a \in queue : routed_via[a] \in Pid =>
        routed_via[a] \in modules /\ state[routed_via[a]] = "BUSY"

(* placeCall gives a module one call at a time.                            *)
OneCallPerModule ==
    \A a, b \in queue : routed_via[a] \in Pid /\ routed_via[a] = routed_via[b] => a = b

(* A BUSY module that is not about to be restarted works for a queued      *)
(* call; otherwise no answer would ever make it IDLE again.                *)
BusyHasCall ==
    \A p \in modules : state[p] = "BUSY" /\ ~ need_restart[p] =>
        \E a \in queue : routed_via[a] = p

(* placeCall dereferences what zhash_lookup returns for the identities of  *)
(* id_local_list: they are registered modules.  An interface of the table  *)
(* has somebody behind it.                                                 *)
TableSound ==
    \A i \in Iface :
        /\ Items(id_local_list[i]) \subseteq modules
        /\ i \in ifaces <=> (id_local_list[i] # << >> \/ id_global_list[i] # << >>)

(* A local caller gets one reply, when its call leaves the queue, and none *)
(* before, as long as the daemon lives.                                    *)
ReplyAccounting ==
    up => \A a \in Call : IsLocal(a) =>
        replies[a] = IF in_timestamp[a] # 0 /\ a \notin queue THEN 1 ELSE 0

(* No caller, local or fabric, is replied to twice: not by a late answer,  *)
(* nor by a timeout that races one.                                        *)
AtMostOneReply == \A a \in Call : replies[a] <= 1

(* processCall: "global messages should be routed immediatly, else         *)
(* exception".  A fabric's call never waits in the queue and is never      *)
(* passed on to another fabric, so calls cannot circle between fabrics.    *)
ForeignCallsStay == \A a \in queue : ~ IsLocal(a) => routed_via[a] \in Pid

(* Procman never runs more processes of a module than are configured: a    *)
(* restart replaces a process and does not add one.                        *)
NoExtraInstance ==
    \A m \in ModuleName :
        Cardinality({p \in running \ External : Module[p] = m})
            <= Cardinality({p \in Initial : Module[p] = m})

(* README: "server guarantee the reply (with error, timeout or success)".  *)
EveryCallAnswered == \A a \in Call : in_timestamp[a] # 0 ~> replies[a] = 1

(* processIntroduce stops the whole loop until procman's pipe delivers: it *)
(* always does, so the two threads never wait for each other.              *)
IntroduceReturns == introducing # NULL ~> introducing = NULL

-----------------------------------------------------------------------------
(* What a caller sees of its call: it waits while the call is queued, and  *)
(* has been answered when it was sent one reply.                           *)
CallStatus(a) ==
    CASE in_timestamp[a] = 0 -> "new"
      [] in_timestamp[a] # 0 /\ a \in queue -> "open"
      [] in_timestamp[a] # 0 /\ a \notin queue /\ replies[a] = 1 -> "answered"
      [] OTHER -> "lost"

Service == INSTANCE CallService WITH
    Local   <- {a \in Call : IsLocal(a)},
    status  <- [a \in Call |-> CallStatus(a)],
    serving <- up

(* The daemon implements CallService: whatever timeouts, deaths, restarts, *)
(* fabrics and late answers do to its queue, every call is accepted or     *)
(* refused, an accepted one is answered once and nothing is sent after     *)
(* that, and only a fabric that was dropped can lose an answer.            *)
ImplementsCallService == Service!Spec

-----------------------------------------------------------------------------
(* The inductive strengthening of NoDanglingRoute and OneCallPerModule.    *)
Pending(pipe, msg) == \E k \in 1 .. Len(pipe) : pipe[k] = msg

(* p is on its way out: procman has been told to restart it, or has done   *)
(* so and told the fabric.                                                 *)
Going(p) == Pending(toProcman, <<"restart", p>>) \/ Pending(toFabric, <<"remove", p>>)

(* A queued call is routed to a module that is BUSY and is not on its way  *)
(* out.                                                                    *)
RouteHeld ==
    \A a \in queue : routed_via[a] \in Pid =>
        /\ routed_via[a] \in modules
        /\ state[routed_via[a]] = "BUSY"
        /\ ~ Going(routed_via[a])

(* A module works for the call that is routed to it and no other queued    *)
(* call.                                                                   *)
WorkRouted == \A p \in Pid : \A a \in work[p] : a \in queue => routed_via[a] = p

(* A module on its way out had been introduced and is not IDLE, so that no *)
(* call is given to it.                                                    *)
GoingNotIdle ==
    \A p \in Pid : Going(p) =>
        /\ p \in introduced
        /\ p # introducing
        /\ p \in modules => state[p] # "IDLE"

(* An incarnation introduces itself once.                                  *)
IntroducedOnce ==
    /\ modules \subseteq introduced
    /\ introducing # NULL => introducing \in introduced \ modules

(* A call is known only after it has arrived.                              *)
ArrivedFirst ==
    \A a \in Call : in_timestamp[a] = 0 =>
        a \notin queue /\ \A p \in Pid : a \notin work[p]

RouteInv ==
    /\ RouteHeld
    /\ OneCallPerModule
    /\ WorkRouted
    /\ GoingNotIdle
    /\ IntroducedOnce
    /\ ArrivedFirst

(* A call that was sent to a fabric has arrived, and while it is queued it *)
(* is routed to that fabric, so that an answer of the fabric ends no call  *)
(* that a module works for.                                                *)
RemoteRouted ==
    \A f \in Fab : \A a \in remote[f] :
        in_timestamp[a] # 0 /\ (a \in queue => routed_via[a] = f)

(* An identity is listed once per interface, so that zlist_remove, which   *)
(* unlinks one node, strikes it.                                           *)
ListedOnce ==
    \A i \in Iface :
        /\ \A j, k \in 1 .. Len(id_local_list[i]) :
             id_local_list[i][j] = id_local_list[i][k] => j = k
        /\ \A j, k \in 1 .. Len(id_global_list[i]) :
             id_global_list[i][j] = id_global_list[i][k] => j = k

(* The inductive strengthening of NoExtraInstance.  startall is the first  *)
(* message, and nothing has been forked before it is read.                 *)
StartedOnce ==
    \A k \in 1 .. Len(toProcman) :
        toProcman[k] = <<"startall", NULL>> => k = 1 /\ has_mod = {}

(* A process that procman forked and that runs is one procman knows.       *)
ForkedKnown == running \subseteq External \cup has_mod

Instances(S, m) == {p \in S : Module[p] = m}

(* Procman knows no more processes of a module than are configured.        *)
KnownInstances ==
    /\ IsFiniteSet(has_mod)
    /\ \A m \in ModuleName :
         Cardinality(Instances(has_mod, m)) <= Cardinality(Instances(Initial, m))

InstanceInv == StartedOnce /\ ForkedKnown /\ KnownInstances

-----------------------------------------------------------------------------
(* README: "if server didn't found module locally, it try to find module   *)
(* on other machines".  An interface that is provided locally and by       *)
(* another machine can be searched without losing the daemon.              *)
LocalThenGlobal == \A i \in ifaces : ~ PlacementCrashes(i)

(* processException, "need to replace call": after MODULES_BUSY the call   *)
(* is sent out again, or is free to be.                                    *)
BusyCallReplaced ==
    [][\A f \in Fab, a \in queue :
          RemoteBusy(f, a) => routed_via'[a] = NULL \/ \E g \in Fab : a \in remote'[g]]_vars

(* README: "it easy to add/remove servers if needed".  When a server has   *)
(* been removed from fab_list no interface lists it any more, so that      *)
(* placeCall finds only fabrics it can send to.                            *)
GlobalsKnown == \A i \in Iface : Items(id_global_list[i]) \subseteq fab_list

(* README: modules "stay monitored by server".  A process that dies before *)
(* it has introduced itself is taken off procman's list, to be replaced.   *)
EarlyDeathNoticed ==
    \A p \in Pid :
        p \in procs \ (running \cup introduced) ~> p \notin procs \/ p \in introduced

(* README: modules "stay monitored by server".  A registered module whose  *)
(* process has died does not stay registered.                              *)
DeadModuleLeaves == \A p \in Pid : p \in modules \ running ~> p \notin modules

=============================================================================
