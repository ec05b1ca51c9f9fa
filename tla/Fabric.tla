------------------------------- MODULE Fabric -------------------------------
(***************************************************************************)
(* The fabric loop of modbusd.c: the table of modules and interfaces, the  *)
(* queue of calls, and the handlers that the zloop reactor runs one at a   *)
(* time.  An action is one run of a handler; the only handler that waits   *)
(* for the other thread, processIntroduce, is two actions.                 *)
(*                                                                         *)
(* Time is not counted: a timeout may expire at any moment.                *)
(***************************************************************************)
EXTENDS Deployment, Interfaces

VARIABLES
    modules,         \* proxy->modules: registered identities
    state,           \* module_t.state (GUEST where there is no module)
    need_restart,    \* module_t.need_restart
    ifaces,          \* proxy->ifaces
    id_local_list,   \* iface_t.id_local_list
    id_global_list,  \* iface_t.id_global_list
    queue,           \* proxy->queue: the calls it holds
    iface,           \* message_t.iface of a queued call
    routed_via,      \* message_t.routed_via of a queued call
    in_timestamp,    \* message_t.in_timestamp: rank of arrival, 0 before it
    replies,         \* replies the caller of a was sent
    work,            \* work[p]: calls delivered to p that p has not answered
    remote,          \* remote[f]: calls sent to fabric f that f has not answered
    fab_list,        \* proxy->fab_list
    alive,           \* those whose fabric_t.alive is set
    asked,           \* fabrics that owe the answer to an IfaceList request
    introduced,      \* incarnations whose introduce has been read
    introducing      \* the one processIntroduce is waiting for procman about

moduleVars == <<modules, state, need_restart>>
tableVars  == <<ifaces, id_local_list, id_global_list>>
callVars   == <<queue, iface, routed_via, in_timestamp, replies>>
peerVars   == <<remote, fab_list, alive, asked>>
introVars  == <<introduced, introducing>>
fabricVars == <<moduleVars, tableVars, callVars, work, peerVars, introVars>>

ModuleState == {"GUEST", "IDLE", "BUSY", "RESTARTING"}

FabricTypeOK ==
    /\ modules \subseteq Pid
    /\ state \in [Pid -> ModuleState]
    /\ need_restart \in [Pid -> BOOLEAN]
    /\ ifaces \subseteq Iface
    /\ id_local_list \in [Iface -> Seq(Pid)]
    /\ id_global_list \in [Iface -> Seq(Fab)]
    /\ queue \subseteq Call
    /\ iface \in [Call -> Iface \cup {NULL, Detached}]
    /\ routed_via \in [Call -> Pid \cup Fab \cup {NULL}]
    /\ in_timestamp \in [Call -> Nat]
    /\ replies \in [Call -> Nat]
    /\ work \in [Pid -> SUBSET Call]
    /\ remote \in [Fab -> SUBSET Call]
    /\ fab_list \subseteq Fab
    /\ alive \subseteq Fab
    /\ asked \subseteq Fab
    /\ introduced \subseteq Pid
    /\ introducing \in Pid \cup {NULL}

FabricInit ==
    /\ modules = {}
    /\ state = [p \in Pid |-> "GUEST"]
    /\ need_restart = [p \in Pid |-> FALSE]
    /\ ifaces = {}
    /\ id_local_list = [i \in Iface |-> << >>]
    /\ id_global_list = [i \in Iface |-> << >>]
    /\ queue = {}
    /\ iface = [a \in Call |-> NULL]
    /\ routed_via = [a \in Call |-> NULL]
    /\ in_timestamp = [a \in Call |-> 0]
    /\ replies = [a \in Call |-> 0]
    /\ work = [p \in Pid |-> {}]
    /\ remote = [f \in Fab |-> {}]
    /\ fab_list = {}
    /\ alive = {}
    /\ asked = {}
    /\ introduced = {}
    /\ introducing = NULL

-----------------------------------------------------------------------------
(* The reactor is between two handlers.                                    *)
Reacting == up /\ introducing = NULL

IsLocal(a) == Origin[a] = NULL

(* send_message to the caller of a: a fabric that is no longer in fab_list *)
(* is not sent anything.                                                   *)
Replied(a) ==
    IF IsLocal(a) \/ Origin[a] \in fab_list
    THEN [replies EXCEPT ![a] = @ + 1]
    ELSE replies

(* s_global_event: any message of f marks it alive, if f is still listed.  *)
Heard(f) == IF f \in fab_list THEN alive \cup {f} ELSE alive

(* zhash_delete on the queue frees the message.                            *)
Dequeue(a) ==
    /\ queue' = queue \ {a}
    /\ UNCHANGED in_timestamp

Forget(field, a) == [field EXCEPT ![a] = NULL]

(* zhash_lookup(proxy->modules, id) where id points at the identity of p.  *)
(* When p has been deleted the pointer dangles and the lookup may find     *)
(* nothing or any module.                                                  *)
LookupModule(p) == IF p \in modules THEN {p} ELSE modules \cup {NULL}

(* iface_remove(ifaces, id) for the identity of a module: it leaves every  *)
(* list of modules, an interface left with two empty lists leaves the      *)
(* table.  It is not freed: a queued call keeps pointing at it, and        *)
(* nothing will ever be appended to it.                                    *)
RemoveIdentity(p, onQueue) ==
    LET local == StruckFrom(id_local_list, p)
        empty == Empty(ifaces, local, id_global_list)
    IN  /\ id_local_list' = local
        /\ ifaces' = ifaces \ empty
        /\ iface' = [a \in Call |-> IF onQueue[a] \in empty THEN Detached ELSE onQueue[a]]
        /\ UNCHANGED id_global_list

(* zhash_delete on the modules frees the module.                           *)
DeleteModule(p) ==
    /\ modules' = modules \ {p}
    /\ state' = [state EXCEPT ![p] = "GUEST"]
    /\ need_restart' = [need_restart EXCEPT ![p] = FALSE]

-----------------------------------------------------------------------------
(* placeCall, the local half.  The loop over id_local_list takes its next  *)
(* identity from id_global_list, so it looks at the first local identity   *)
(* only, and when the interface has a global identity as well it looks     *)
(* that one up among the modules and dereferences NULL.  (zlist_next on a  *)
(* list whose cursor is off the end starts at its head; processIntroduce   *)
(* relies on that too.  Every handler that touches id_global_list leaves   *)
(* the cursor there, since it ends with iface_print or a full walk.)       *)
FirstLocal(i) == id_local_list[i][1]

HasLocals(i) == i \in Iface /\ id_local_list[i] # << >>

PlacementCrashes(i) ==
    HasLocals(i) /\ (id_global_list[i] # << >> \/ FirstLocal(i) \notin modules)

(* A CALL that is sent to a dead process is dropped by the ROUTER socket.  *)
Delivered(p, calls) == IF p \in running THEN calls ELSE {}

(* placeCall, the global half: globals is a copy of id_global_list with    *)
(* its cursor on the head, zlist_next takes the second item and, past the  *)
(* end, zlist_first the first.                                             *)
NextGlobal(i) ==
    LET globals == id_global_list[i]
    IN  IF Len(globals) > 1 THEN globals[2] ELSE globals[1]

(* zhash_foreach(proxy->queue, placeCall): visits the queue Q in hash      *)
(* order, that is in any order.  A module that is IDLE (in S) and first in *)
(* its list takes one waiting call; calls whose module is taken keep       *)
(* waiting.  No waiting call can go to a fabric: one that had globals to   *)
(* copy was sent to them, or crashed, when it arrived.                     *)
PlaceWaiting(Q, S, W) ==
    LET waiting == {a \in Q : routed_via[a] = NULL /\ HasLocals(iface[a])}
        ready   == {a \in waiting : S[FirstLocal(iface[a])] = "IDLE"}
        R       == [a \in Call |-> IF a \in Q THEN routed_via[a] ELSE NULL]
    IN  \/ /\ \E a \in waiting : PlacementCrashes(iface[a])
           /\ up' = FALSE
           /\ state' = S
           /\ work' = W
           /\ routed_via' = R
        \/ /\ \A a \in waiting : ~ PlacementCrashes(iface[a])
           /\ \E placed \in SUBSET ready :
                /\ \A a, b \in placed : FirstLocal(iface[a]) = FirstLocal(iface[b]) => a = b
                /\ \A a \in ready : \E b \in placed : FirstLocal(iface[a]) = FirstLocal(iface[b])
                /\ routed_via' = [a \in Call |-> IF a \in placed THEN FirstLocal(iface[a])
                                                 ELSE R[a]]
                /\ state' = [p \in Pid |-> IF \E a \in placed : FirstLocal(iface[a]) = p
                                           THEN "BUSY" ELSE S[p]]
                /\ work' = [p \in Pid |-> W[p] \cup
                              Delivered(p, {a \in placed : FirstLocal(iface[a]) = p})]
           /\ UNCHANGED up

-----------------------------------------------------------------------------
(* processCall: a CALL arrives, from a local caller or from a fabric.      *)
Arrives(a) ==
    /\ Reacting
    /\ in_timestamp[a] = 0
    /\ in_timestamp' = [in_timestamp EXCEPT ![a] =
                          Cardinality({b \in Call : in_timestamp[b] # 0}) + 1]
    /\ alive' = IF IsLocal(a) THEN alive ELSE Heard(Origin[a])
    /\ UNCHANGED <<modules, need_restart, tableVars, fab_list, asked, introVars,
                   toProcman, toFabric, spawned, running>>

Candidates(a) == IF Target[a][2] = 0 THEN {} ELSE Matches(ifaces, Target[a])

(* The interface check_interface returns, once it is known to return one.  *)
Chosen(a) == Least(Candidates(a))

Enqueue(a, via) ==
    /\ queue' = queue \cup {a}
    /\ iface' = [iface EXCEPT ![a] = Chosen(a)]
    /\ routed_via' = [routed_via EXCEPT ![a] = via]
    /\ UNCHANGED replies

(* Mutant: the state of the module is not looked at.                       *)
IdleMutant(p) == p \in modules

Idle(p) == p \in modules /\ state[p] = "IDLE"

(* Wrong structure, no interface, or a fabric's call no module is free     *)
(* for: an exception goes back at once.                                    *)
CallRefused(a) ==
    /\ Arrives(a)
    /\ Candidates(a) # {} =>
         /\ ~ IsLocal(a)
         /\ ~ PlacementCrashes(Chosen(a))
         /\ HasLocals(Chosen(a)) => ~ Idle(FirstLocal(Chosen(a)))
    /\ replies' = Replied(a)
    /\ UNCHANGED <<up, state, queue, iface, routed_via, work, remote>>

CallCrashes(a) ==
    /\ Arrives(a)
    /\ Candidates(a) # {}
    /\ PlacementCrashes(Chosen(a))
    /\ up' = FALSE
    /\ UNCHANGED <<state, queue, iface, routed_via, replies, work, remote>>

CallRoutedLocally(a) ==
    /\ Arrives(a)
    /\ Candidates(a) # {}
    /\ HasLocals(Chosen(a)) /\ ~ PlacementCrashes(Chosen(a))
    /\ LET p == FirstLocal(Chosen(a))
       IN  /\ Idle(p)
           /\ Enqueue(a, p)
           /\ state' = [state EXCEPT ![p] = "BUSY"]
           /\ work' = [work EXCEPT ![p] = @ \cup Delivered(p, {a})]
    /\ UNCHANGED <<up, remote>>

CallRoutedGlobally(a) ==
    /\ Arrives(a)
    /\ Candidates(a) # {}
    /\ IsLocal(a) /\ ~ HasLocals(Chosen(a)) /\ id_global_list[Chosen(a)] # << >>
    /\ LET f == NextGlobal(Chosen(a))
       IN  /\ Enqueue(a, f)
           /\ remote' = IF f \in fab_list THEN [remote EXCEPT ![f] = @ \cup {a}] ELSE remote
    /\ UNCHANGED <<up, state, work>>

(* Mutant: a fabric's call is queued like a local one.                     *)
CallWaitsMutant(a) ==
    /\ Arrives(a)
    /\ Candidates(a) # {}
    /\ HasLocals(Chosen(a)) /\ ~ PlacementCrashes(Chosen(a))
    /\ ~ Idle(FirstLocal(Chosen(a)))
    /\ Enqueue(a, NULL)
    /\ UNCHANGED <<up, state, work, remote>>

(* The first local module is not IDLE: the call waits in the queue.        *)
CallWaits(a) ==
    /\ Arrives(a)
    /\ Candidates(a) # {}
    /\ IsLocal(a) /\ HasLocals(Chosen(a)) /\ ~ PlacementCrashes(Chosen(a))
    /\ ~ Idle(FirstLocal(Chosen(a)))
    /\ Enqueue(a, NULL)
    /\ UNCHANGED <<up, state, work, remote>>

processCall(a) ==
    \/ CallRefused(a)
    \/ CallCrashes(a)
    \/ CallRoutedLocally(a)
    \/ CallRoutedGlobally(a)
    \/ CallWaits(a)

-----------------------------------------------------------------------------
(* processResult and processException for an answer of module p.           *)

(* Mutant: the answer is passed on although the call is no longer queued.  *)
AnswerLateMutant(p, a) ==
    /\ Reacting
    /\ a \in work[p] \ queue
    /\ work' = [work EXCEPT ![p] = @ \ {a}]
    /\ replies' = Replied(a)
    /\ UNCHANGED <<sharedVars, moduleVars, tableVars, queue, iface, routed_via, in_timestamp,
                   peerVars, introVars>>

(* What is no answer to a queued call "assume it is a IfaceList": a result *)
(* with a field that message_getIfaceList finds is taken for the list of a *)
(* fabric, and when the sender is none the log line dereferences NULL.     *)
Unexpected(sender, isFabric) ==
    up' \in IF sender \in ListLike /\ ~ isFabric THEN BOOLEAN ELSE {up}

(* The call is no longer queued: the answer is logged and dropped.         *)
AnswerLate(p, a) ==
    /\ Reacting
    /\ a \in work[p] \ queue
    /\ work' = [work EXCEPT ![p] = @ \ {a}]
    /\ Unexpected(Module[p], FALSE)
    /\ UNCHANGED <<toProcman, toFabric, spawned, running, moduleVars, tableVars, callVars,
                   peerVars, introVars>>

(* The answer goes to the caller and the call leaves the queue; the module *)
(* is restarted if that was scheduled, else it is IDLE and waiting calls   *)
(* are placed.  Of a sender that is no registered module, the exception    *)
(* handler keeps a local caller's call queued and the result handler does  *)
(* not.                                                                    *)
Answer(p, a, kind) ==
    LET known == p \in modules
        done  == known \/ kind = "result" \/ ~ IsLocal(a)
        W     == [work EXCEPT ![p] = @ \ {a}]
    IN  /\ Reacting
        /\ a \in work[p] \cap queue
        /\ queue' = IF done THEN queue \ {a} ELSE queue
        /\ iface' = IF done THEN Forget(iface, a) ELSE iface
        /\ replies' = IF done THEN Replied(a) ELSE replies
        /\ IF known /\ ~ need_restart[p]
           THEN /\ PlaceWaiting(queue \ {a}, [state EXCEPT ![p] = "IDLE"], W)
                /\ UNCHANGED toProcman
           ELSE /\ toProcman' = IF known THEN Append(toProcman, <<"restart", p>>) ELSE toProcman
                /\ routed_via' = IF done THEN Forget(routed_via, a) ELSE routed_via
                /\ work' = W
                /\ UNCHANGED <<up, state>>
        /\ UNCHANGED <<in_timestamp, modules, need_restart, tableVars, peerVars, introVars,
                       toFabric, spawned, running>>

processResult(p, a) == Answer(p, a, "result")

processException(p, a) == Answer(p, a, "exception")

-----------------------------------------------------------------------------
(* Mutant: an answer is passed on without a look at the queue.             *)
RemoteAnswerMutant(f, a) ==
    /\ Reacting
    /\ a \in remote[f]
    /\ remote' = [remote EXCEPT ![f] = @ \ {a}]
    /\ alive' = Heard(f)
    /\ queue' = queue \ {a}
    /\ iface' = Forget(iface, a)
    /\ routed_via' = Forget(routed_via, a)
    /\ replies' = Replied(a)
    /\ UNCHANGED <<sharedVars, moduleVars, tableVars, in_timestamp, work, fab_list, asked,
                   introVars>>

(* processResult and processException for an answer of fabric f: a result, *)
(* or an exception other than MODULES_BUSY, ends the call.  (What a result *)
(* of f that is taken for a list has in it names no interfaces.)           *)
RemoteAnswer(f, a) ==
    /\ Reacting
    /\ a \in remote[f]
    /\ remote' = [remote EXCEPT ![f] = @ \ {a}]
    /\ alive' = Heard(f)
    /\ IF a \in queue
       THEN /\ queue' = queue \ {a}
            /\ iface' = Forget(iface, a)
            /\ routed_via' = Forget(routed_via, a)
            /\ replies' = Replied(a)
            /\ UNCHANGED up
       ELSE /\ Unexpected(f, f \in fab_list)
            /\ UNCHANGED <<queue, iface, routed_via, replies>>
    /\ UNCHANGED <<toProcman, toFabric, spawned, running, moduleVars, tableVars, in_timestamp,
                   work, fab_list, asked, introVars>>

(* MODULES_BUSY: processException clears routed_via and out_timestamp of   *)
(* the exception message itself; placeCall then finds the stored call      *)
(* still routed to f and returns.                                          *)
RemoteBusy(f, a) ==
    /\ Reacting
    /\ a \in remote[f]
    /\ remote' = [remote EXCEPT ![f] = @ \ {a}]
    /\ alive' = Heard(f)
    /\ UNCHANGED <<sharedVars, moduleVars, tableVars, callVars, work, fab_list, asked, introVars>>

(* processResult, the IfaceList branch.  An answer of a fabric that has    *)
(* been dropped in the meantime dereferences NULL in its log line.         *)
IfaceListResult(f, list) ==
    /\ Reacting
    /\ f \in asked
    /\ asked' = asked \ {f}
    /\ alive' = Heard(f)
    /\ IF f \in fab_list
       THEN LET homes == Homes(ifaces, list)
            IN  /\ ifaces' = ifaces \cup homes
                /\ id_global_list' = FiledIn(id_global_list, homes, f)
                /\ UNCHANGED up
       ELSE up' = FALSE /\ UNCHANGED <<ifaces, id_global_list>>
    /\ UNCHANGED <<toProcman, toFabric, spawned, running, moduleVars, id_local_list, callVars,
                   work, remote, fab_list, introVars>>

(* processReq_IfaceList: f is sent our list, which changes nothing here.   *)
processReq_IfaceList(f) ==
    /\ Reacting
    /\ alive' = Heard(f)
    /\ UNCHANGED <<sharedVars, moduleVars, tableVars, callVars, work, remote, fab_list, asked,
                   introVars>>

(* s_beacon_event: a fabric that is not listed is connected and listed.    *)
(* When its endpoint cannot be connected, zhash_delete frees the fabric    *)
(* and fab_destroy frees it again, which the C library may end the process *)
(* for.                                                                    *)
s_beacon_event(f) ==
    /\ Reacting
    /\ f \notin fab_list
    /\ \/ /\ fab_list' = fab_list \cup {f}
          /\ alive' = alive \cup {f}
          /\ UNCHANGED up
       \/ /\ up' \in BOOLEAN
          /\ UNCHANGED <<fab_list, alive>>
    /\ UNCHANGED <<toProcman, toFabric, spawned, running, moduleVars, tableVars, callVars, work,
                   remote, asked, introVars>>

(* getIfaceList_event_item: a fabric heard of since the last poll is asked *)
(* again, a silent one is dropped.  id_global_list holds copies of the     *)
(* identities (zlist_autofree) and zlist_remove compares pointers, so that *)
(* iface_remove(ifaces, fab->identity) finds nothing to remove: what the   *)
(* fabric offered stays in the table.                                      *)
getIfaceList_event(f) ==
    /\ Reacting
    /\ f \in fab_list
    /\ alive' = alive \ {f}
    /\ IF f \in alive
       THEN asked' = asked \cup {f} /\ UNCHANGED fab_list
       ELSE fab_list' = fab_list \ {f} /\ UNCHANGED asked
    /\ UNCHANGED <<sharedVars, moduleVars, tableVars, callVars, work, remote, introVars>>

-----------------------------------------------------------------------------
(* Mutant: the in timeout does not ask whether a module has the call.      *)
QueueTimeoutMutant(a) ==
    /\ Reacting
    /\ a \in queue
    /\ Dequeue(a)
    /\ iface' = Forget(iface, a)
    /\ routed_via' = Forget(routed_via, a)
    /\ replies' = Replied(a)
    /\ UNCHANGED <<sharedVars, moduleVars, tableVars, work, peerVars, introVars>>

(* Mutant: there is an out timeout and no in timeout.                      *)
NoInTimeoutMutant(a) == routed_via[a] \in Fab /\ QueueTimeoutMutant(a)

(* Mutant: the call is dropped without an answer.                          *)
QueueTimeoutSilentMutant(a) ==
    /\ Reacting
    /\ a \in queue
    /\ routed_via[a] \notin Pid
    /\ Dequeue(a)
    /\ iface' = Forget(iface, a)
    /\ routed_via' = Forget(routed_via, a)
    /\ UNCHANGED <<sharedVars, replies, moduleVars, tableVars, work, peerVars, introVars>>

(* process_queue_item: the in timeout, for a call no module has been given *)
(* (process_timestamp = 0), and the out timeout, for one sent to a fabric. *)
QueueTimeout(a) ==
    /\ Reacting
    /\ a \in queue
    /\ routed_via[a] \notin Pid
    /\ Dequeue(a)
    /\ iface' = Forget(iface, a)
    /\ routed_via' = Forget(routed_via, a)
    /\ replies' = Replied(a)
    /\ UNCHANGED <<sharedVars, moduleVars, tableVars, work, peerVars, introVars>>

(* process_queue_item: the process timeout.  The module is assumed to be   *)
(* stuck: procman is told to restart it and it is forgotten, except in     *)
(* debug mode.                                                             *)
ProcessTimeout(a) ==
    /\ Reacting
    /\ a \in queue
    /\ routed_via[a] \in Pid
    /\ Dequeue(a)
    /\ routed_via' = Forget(routed_via, a)
    /\ replies' = Replied(a)
    /\ \E p \in LookupModule(routed_via[a]) :
         IF p # NULL /\ ~ debug
         THEN /\ toProcman' = Append(toProcman, <<"restart", p>>)
              /\ RemoveIdentity(p, Forget(iface, a))
              /\ DeleteModule(p)
         ELSE /\ iface' = Forget(iface, a)
              /\ UNCHANGED <<toProcman, tableVars, moduleVars>>
    /\ UNCHANGED <<up, toFabric, spawned, running, work, peerVars, introVars>>

-----------------------------------------------------------------------------
(* processIntroduce, up to its first zstr_recv: procman is asked about the *)
(* pid and the whole loop waits for its pipe.                              *)
IntroduceAsk(p) ==
    /\ Reacting
    /\ p \in spawned \ introduced
    /\ introduced' = introduced \cup {p}
    /\ introducing' = p
    /\ toProcman' = Append(toProcman, <<"check_pid", p>>)
    /\ UNCHANGED <<up, toFabric, spawned, running, moduleVars, tableVars, callVars, work, peerVars>>

Register(p) ==
    LET homes == Homes(ifaces, Provides[Module[p]])
    IN  /\ ifaces' = ifaces \cup homes
        /\ id_local_list' = FiledIn(id_local_list, homes, p)
        /\ toProcman' = Append(toProcman, <<"register", p>>)
        /\ modules' = modules \cup {p}
        /\ state' = [state EXCEPT ![p] = "IDLE"]
        /\ need_restart' = [need_restart EXCEPT ![p] = FALSE]
        /\ UNCHANGED id_global_list

(* iface_new makes no interface of version 0: where none with the name is  *)
(* there, processIntroduce goes on with NULL.                              *)
RegisterCrashes(p) == \E i \in Provides[Module[p]] : Home(ifaces, i)[2] = 0

(* processIntroduce, the rest: whatever message is first in the pipe is    *)
(* taken for the answer.                                                   *)
IntroduceAnswered ==
    LET p       == introducing
        answer  == Head(toFabric)[2]
        ignored == (answer = "no" /\ ~ debug) \/ Provides[Module[p]] = {}
    IN  /\ up
        /\ p # NULL
        /\ toFabric # << >>
        /\ toFabric' = Tail(toFabric)
        /\ introducing' = NULL
        /\ up' = (ignored \/ ~ RegisterCrashes(p))
        /\ IF ignored \/ RegisterCrashes(p)
           THEN UNCHANGED <<toProcman, moduleVars, tableVars>>
           ELSE Register(p)
        /\ UNCHANGED <<spawned, running, callVars, work, peerVars, introduced>>

-----------------------------------------------------------------------------
(* s_procman_event with procman_checkpid.                                  *)
ProcmanSays(cmd, p) ==
    /\ Reacting
    /\ toFabric # << >>
    /\ Head(toFabric) = <<cmd, p>>
    /\ toFabric' = Tail(toFabric)
    /\ UNCHANGED <<up, spawned, running, queue, routed_via, in_timestamp, replies, work, peerVars,
                   introVars>>

(* Mutant: the module is deleted and its identity stays listed.            *)
ProcmanRemoveMutant(p) ==
    /\ ProcmanSays("remove", p)
    /\ IF p \in modules THEN DeleteModule(p) ELSE UNCHANGED moduleVars
    /\ UNCHANGED <<toProcman, tableVars, iface>>

ProcmanRemove(p) ==
    /\ ProcmanSays("remove", p)
    /\ IF p \in modules
       THEN RemoveIdentity(p, iface) /\ DeleteModule(p)
       ELSE UNCHANGED <<tableVars, iface, moduleVars>>
    /\ UNCHANGED toProcman

(* Mutant: a BUSY module is restarted at once too.                         *)
ProcmanRestartMutant(p) ==
    /\ ProcmanSays("restart", p)
    /\ IF p \in modules
       THEN /\ state' = [state EXCEPT ![p] = "RESTARTING"]
            /\ toProcman' = Append(toProcman, <<"restart", p>>)
       ELSE UNCHANGED <<state, toProcman>>
    /\ UNCHANGED <<modules, need_restart, tableVars, iface>>

(* An IDLE module is restarted at once, another one after its answer.      *)
ProcmanRestart(p) ==
    /\ ProcmanSays("restart", p)
    /\ IF p \in modules /\ state[p] = "IDLE"
       THEN /\ state' = [state EXCEPT ![p] = "RESTARTING"]
            /\ toProcman' = Append(toProcman, <<"restart", p>>)
            /\ UNCHANGED need_restart
       ELSE /\ need_restart' = IF p \in modules THEN [need_restart EXCEPT ![p] = TRUE]
                               ELSE need_restart
            /\ UNCHANGED <<state, toProcman>>
    /\ UNCHANGED <<modules, tableVars, iface>>

(* An answer to check_pid that processIntroduce did not read: its second   *)
(* frame is no number and the message is dropped.                          *)
ProcmanStray(answer) ==
    /\ ProcmanSays("check_pid", answer)
    /\ UNCHANGED <<toProcman, moduleVars, tableVars, iface>>

s_procman_event ==
    \/ \E p \in Pid : ProcmanRemove(p) \/ ProcmanRestart(p)
    \/ \E answer \in {"yes", "no"} : ProcmanStray(answer)

-----------------------------------------------------------------------------
FabricNext ==
    \/ \E a \in Call : processCall(a) \/ QueueTimeout(a) \/ ProcessTimeout(a)
    \/ \E p \in Pid, a \in Call :
         AnswerLate(p, a) \/ processResult(p, a) \/ processException(p, a)
    \/ \E f \in Fab, a \in Call : RemoteAnswer(f, a) \/ RemoteBusy(f, a)
    \/ \E f \in Fab :
         \/ \E list \in SUBSET Offers[f] : IfaceListResult(f, list)
         \/ processReq_IfaceList(f)
         \/ s_beacon_event(f)
         \/ getIfaceList_event(f)
    \/ \E p \in Pid : IntroduceAsk(p)
    \/ IntroduceAnswered
    \/ s_procman_event

=============================================================================
