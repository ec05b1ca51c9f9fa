--------------------------- MODULE ModBusdProofs ----------------------------
(***************************************************************************)
(* Proofs about the daemon for every deployment: any number of processes,  *)
(* modules, calls and fabrics.                                             *)
(***************************************************************************)
EXTENDS ModBusd, InterfacesProofs, FiniteSetTheorems

USE ConfigAssumption, IdentityAssumption

(* The messages the two threads exchange.                                  *)
LEMMA MessageTypes ==
    /\ \A p \in Pid : /\ <<"check_pid", p>> \in ProcmanMsg
                      /\ <<"register", p>> \in ProcmanMsg
                      /\ <<"restart", p>> \in ProcmanMsg
                      /\ <<"restart", p>> \in FabricMsg
                      /\ <<"remove", p>> \in FabricMsg
    /\ <<"startall", NULL>> \in ProcmanMsg
    /\ <<"check_pid", "yes">> \in FabricMsg
    /\ <<"check_pid", "no">> \in FabricMsg
BY DEF ProcmanMsg, FabricMsg

(* Whatever the table lists and whatever is filed in it, the homes are     *)
(* interfaces.                                                             *)
LEMMA HomesInIface ==
    ASSUME NEW table \in SUBSET Iface, NEW list \in SUBSET Iface
    PROVE  Homes(table, list) \in SUBSET Iface
<1>1. 1 .. MaxVersion \in SUBSET Nat
  OBVIOUS
<1> QED BY <1>1, HomesFacts DEF Iface

(* A module whose registration does not crash is filed under interfaces.   *)
LEMMA ProvidedHomes ==
    ASSUME NEW p \in Pid, ifaces \in SUBSET Iface, ~ RegisterCrashes(p)
    PROVE  Homes(ifaces, Provides[Module[p]]) \in SUBSET Iface
<1>1. 0 .. MaxVersion \in SUBSET Nat /\ 1 .. MaxVersion \subseteq 0 .. MaxVersion
  OBVIOUS
<1>2. /\ Provides[Module[p]] \in SUBSET (Name \X (0 .. MaxVersion))
      /\ ifaces \in SUBSET (Name \X (0 .. MaxVersion))
  BY <1>1 DEF Iface
<1>3. Homes(ifaces, Provides[Module[p]]) \in SUBSET (Name \X (0 .. MaxVersion))
  BY <1>1, <1>2, HomesFacts
<1>4. \A h \in Homes(ifaces, Provides[Module[p]]) : h[2] # 0
  BY DEF Homes, RegisterCrashes
<1> DEFINE H == Homes(ifaces, Provides[Module[p]])
<1> HIDE DEF H
<1>5. H \in SUBSET (Name \X (0 .. MaxVersion)) /\ \A h \in H : h[2] # 0
  BY <1>3, <1>4 DEF H
<1>6. \A h \in Name \X (0 .. MaxVersion) : h[2] # 0 => h \in Name \X (1 .. MaxVersion)
  OBVIOUS
<1>7. H \in SUBSET Iface
  BY <1>5, <1>6 DEF Iface
<1> QED BY <1>7 DEF H

(* The interface check_interface returns is one of the table.              *)
LEMMA ChosenFacts ==
    ASSUME FabricTypeOK, NEW a \in Call, Candidates(a) # {}
    PROVE  Chosen(a) \in ifaces /\ Chosen(a) \in Iface
<1>1. Candidates(a) \in SUBSET ifaces /\ ifaces \in SUBSET Iface
  BY DEF Candidates, Matches, FabricTypeOK
<1>2. Candidates(a) \in SUBSET (Name \X Nat)
  BY <1>1 DEF Iface
<1> QED BY <1>1, <1>2, LeastFacts DEF Chosen

(* Lists keep their type when an identity is filed or struck.              *)
LEMMA ListsType ==
    ASSUME NEW S, NEW lists \in [Iface -> Seq(S)]
    PROVE  /\ \A id : StruckFrom(lists, id) \in [Iface -> Seq(S)]
           /\ \A id \in S : \A homes : FiledIn(lists, homes, id) \in [Iface -> Seq(S)]
<1>1. \A id : StruckFrom(lists, id) \in [Iface -> Seq(S)]
  BY ListRemoveFacts DEF StruckFrom
<1>2. \A id \in S : \A homes : FiledIn(lists, homes, id) \in [Iface -> Seq(S)]
  BY ListAddFacts DEF FiledIn
<1> QED BY <1>1, <1>2

(* The first local identity of an interface that has one is a process.     *)
LEMMA FirstLocalType ==
    ASSUME FabricTypeOK, NEW i, HasLocals(i)
    PROVE  i \in Iface /\ FirstLocal(i) \in Pid
<1>1. i \in Iface /\ id_local_list[i] \in Seq(Pid) /\ id_local_list[i] # << >>
  BY DEF HasLocals, FabricTypeOK
<1>2. Len(id_local_list[i]) \in Nat \ {0}
  BY <1>1, EmptySeq
<1> QED BY <1>1, <1>2, ElementOfSeq DEF FirstLocal

(* The fabric a call is sent to is one of the interface's fabrics.         *)
LEMMA NextGlobalType ==
    ASSUME FabricTypeOK, NEW i \in Iface, id_global_list[i] # << >>
    PROVE  NextGlobal(i) \in Fab
<1>1. id_global_list[i] \in Seq(Fab)
  BY DEF FabricTypeOK
<1>2. Len(id_global_list[i]) \in Nat \ {0}
  BY <1>1, EmptySeq
<1> QED BY <1>1, <1>2, ElementOfSeq DEF NextGlobal

-----------------------------------------------------------------------------
(* The daemon starts in a state of the right type.                         *)
LEMMA InitType == Init => TypeOK
<1>1. Init => SharedTypeOK
  BY MessageTypes DEF Init, SharedInit, SharedTypeOK
<1>2. Init => FabricTypeOK
  BY DEF Init, FabricInit, FabricTypeOK, ModuleState
<1>3. Init => ProcmanTypeOK
  BY DEF Init, ProcmanInit, ProcmanTypeOK
<1> QED BY <1>1, <1>2, <1>3 DEF TypeOK

(* The two ends of a pipe.                                                 *)
LEMMA PipeType ==
    ASSUME NEW S, NEW pipe \in Seq(S)
    PROVE  /\ \A m \in S : Append(pipe, m) \in Seq(S)
           /\ pipe # << >> => Head(pipe) \in S /\ Tail(pipe) \in Seq(S)
BY AppendProperties, HeadTailProperties

(* Every command and every check of procman keeps the types.               *)
LEMMA ProcmanStepType ==
    ASSUME TypeOK, ProcmanStep
    PROVE  TypeOK'
<1> USE DEF TypeOK, SharedTypeOK, ProcmanTypeOK
<1>0. FabricTypeOK' /\ UNCHANGED up
  BY DEF ProcmanStep, fabricVars, moduleVars, tableVars, callVars, peerVars, introVars,
     FabricTypeOK, ProcmanNext, s_main_event, checkpid_event, StartAll, StartModules,
     CheckPid, RegisterPid, Restart, StartTimeout, NotRunning, MaxMem, Command, Watched
<1>1. CASE StartAll
  BY <1>0, <1>1, PipeType DEF StartAll, StartModules, Command
<1>2. ASSUME NEW p \in Pid, CheckPid(p) PROVE TypeOK'
  <2>1. <<"check_pid", IF p \in procs THEN "yes" ELSE "no">> \in FabricMsg
    BY MessageTypes
  <2> QED BY <1>0, <1>2, <2>1, PipeType DEF CheckPid, Command
<1>3. ASSUME NEW p \in Pid, RegisterPid(p) PROVE TypeOK'
  BY <1>0, <1>3, PipeType DEF RegisterPid, Command
<1>4. ASSUME NEW p \in Pid, Restart(p) PROVE TypeOK'
  <2>1. ASSUME NEW fresh \in SUBSET Pid, Fork(p, fresh)
        PROVE  ProcmanTypeOK' /\ spawned' \subseteq Pid /\ running' \subseteq Pid
    BY <2>1 DEF Fork
  <2>2. \A q \in Spare(p) : {q} \in SUBSET Pid
    BY DEF Spare
  <2>3. toProcman' \in Seq(ProcmanMsg) /\ Append(toFabric, <<"remove", p>>) \in Seq(FabricMsg)
    BY <1>4, PipeType, MessageTypes DEF Restart, Command
  <2>4. CASE p \in procs
    BY <1>0, <1>4, <2>1, <2>2, <2>3, <2>4 DEF Restart
  <2>5. CASE p \notin procs
    BY <1>0, <1>4, <2>3, <2>5 DEF Restart, procmanVars
  <2> QED BY <2>4, <2>5
<1>5. ASSUME NEW p \in Pid, StartTimeout(p) PROVE TypeOK'
  BY <1>0, <1>5 DEF StartTimeout, Watched, ForgetProc
<1>6. ASSUME NEW p \in Pid, NotRunning(p) \/ MaxMem(p) PROVE TypeOK'
  <2>0. toFabric' = Append(toFabric, <<"restart", p>>) /\ <<"restart", p>> \in FabricMsg
    BY <1>6, MessageTypes DEF NotRunning, MaxMem
  <2>1. toFabric' \in Seq(FabricMsg)
    BY <2>0, PipeType
  <2>2. UNCHANGED <<toProcman, spawned, running, procs, has_mod, started>>
    BY <1>6 DEF NotRunning, MaxMem, Watched, procmanVars
  <2>3. on_restart' \subseteq procs
    BY <1>6 DEF NotRunning, MaxMem, Watched, procmanVars
  <2> QED BY <1>0, <2>1, <2>2, <2>3
<1> QED
  BY <1>1, <1>2, <1>3, <1>4, <1>5, <1>6 DEF ProcmanStep, ProcmanNext, s_main_event, checkpid_event

(* Most handlers leave the pipes and the processes alone, or add one       *)
(* message for procman.                                                    *)
LEMMA CallType ==
    ASSUME TypeOK, NEW a \in Call, processCall(a)
    PROVE  SharedTypeOK' /\ FabricTypeOK'
<1> USE DEF TypeOK, SharedTypeOK, FabricTypeOK
<1>1. /\ Arrives(a)
      /\ UNCHANGED <<modules, need_restart, tableVars, fab_list, asked, introVars,
                     toProcman, toFabric, spawned, running>>
  BY DEF processCall, CallRefused, CallCrashes, CallRoutedLocally, CallRoutedGlobally, CallWaits,
     Arrives
<1>2. Cardinality({b \in Call : in_timestamp[b] # 0}) \in Nat
  BY FS_Subset, FS_CardinalityType
<1>3. in_timestamp' \in [Call -> Nat] /\ alive' \subseteq Fab
  BY <1>1, <1>2 DEF Arrives, Heard, IsLocal
<1>4. Replied(a) \in [Call -> Nat]
  BY DEF Replied
<1>5. ASSUME Candidates(a) # {}, NEW via \in Pid \cup Fab \cup {NULL}, Enqueue(a, via)
      PROVE  /\ queue' \subseteq Call
             /\ iface' \in [Call -> Iface \cup {NULL, Detached}]
             /\ routed_via' \in [Call -> Pid \cup Fab \cup {NULL}]
             /\ replies' \in [Call -> Nat]
  BY <1>5, ChosenFacts DEF Enqueue
<1>6. /\ SharedTypeOK'
      /\ modules' \subseteq Pid /\ need_restart' \in [Pid -> BOOLEAN]
      /\ ifaces' \subseteq Iface /\ id_local_list' \in [Iface -> Seq(Pid)]
      /\ id_global_list' \in [Iface -> Seq(Fab)] /\ fab_list' \subseteq Fab /\ asked' \subseteq Fab
      /\ introduced' \subseteq Pid /\ introducing' \in Pid \cup {NULL}
  <2>1. up' \in BOOLEAN
    BY DEF processCall, CallRefused, CallCrashes, CallRoutedLocally, CallRoutedGlobally, CallWaits
  <2> QED BY <1>1, <2>1 DEF tableVars, introVars
<1>7. CASE CallRefused(a)
  BY <1>3, <1>4, <1>6, <1>7 DEF CallRefused
<1>8. CASE CallCrashes(a)
  BY <1>3, <1>6, <1>8 DEF CallCrashes
<1>9. CASE CallRoutedLocally(a)
  <2> DEFINE p == FirstLocal(Chosen(a))
  <2>1. p \in Pid /\ Enqueue(a, p)
    BY <1>9, FirstLocalType DEF CallRoutedLocally
  <2>2. state' = [state EXCEPT ![p] = "BUSY"] /\ UNCHANGED remote
    BY <1>9 DEF CallRoutedLocally
  <2>3. work' = [work EXCEPT ![p] = @ \cup Delivered(p, {a})]
    BY <1>9 DEF CallRoutedLocally
  <2>4. Candidates(a) # {}
    BY <1>9 DEF CallRoutedLocally
  <2> HIDE DEF p
  <2>5. state' \in [Pid -> ModuleState]
    BY <2>1, <2>2 DEF ModuleState
  <2>6. work' \in [Pid -> SUBSET Call]
    BY <2>1, <2>3 DEF Delivered
  <2> QED BY <1>3, <1>5, <1>6, <2>1, <2>2, <2>4, <2>5, <2>6
<1>10. CASE CallRoutedGlobally(a)
  <2> DEFINE f == NextGlobal(Chosen(a))
  <2>1. Candidates(a) # {} /\ f \in Fab /\ Enqueue(a, f) /\ UNCHANGED <<state, work>>
    BY <1>10, ChosenFacts, NextGlobalType DEF CallRoutedGlobally
  <2>2. remote' = IF f \in fab_list THEN [remote EXCEPT ![f] = @ \cup {a}] ELSE remote
    BY <1>10 DEF CallRoutedGlobally
  <2> HIDE DEF f
  <2>3. remote' \in [Fab -> SUBSET Call]
    BY <2>1, <2>2
  <2> QED BY <1>3, <1>5, <1>6, <2>1, <2>3
<1>11. CASE CallWaits(a)
  <2>1. Candidates(a) # {} /\ Enqueue(a, NULL) /\ UNCHANGED <<state, work, remote>>
    BY <1>11 DEF CallWaits
  <2> QED BY <1>3, <1>5, <1>6, <2>1
<1> QED BY <1>7, <1>8, <1>9, <1>10, <1>11 DEF processCall

(* zhash_foreach(queue, placeCall).                                        *)
LEMMA PlaceWaitingType ==
    ASSUME FabricTypeOK, up \in BOOLEAN,
           NEW Q, NEW S \in [Pid -> ModuleState], NEW W \in [Pid -> SUBSET Call],
           Q \subseteq Call, PlaceWaiting(Q, S, W)
    PROVE  /\ up' \in BOOLEAN
           /\ state' \in [Pid -> ModuleState]
           /\ work' \in [Pid -> SUBSET Call]
           /\ routed_via' \in [Call -> Pid \cup Fab \cup {NULL}]
<1> DEFINE waiting == {a \in Q : routed_via[a] = NULL /\ HasLocals(iface[a])}
           ready   == {a \in waiting : S[FirstLocal(iface[a])] = "IDLE"}
           R       == [a \in Call |-> IF a \in Q THEN routed_via[a] ELSE NULL]
<1>1. R \in [Call -> Pid \cup Fab \cup {NULL}]
  BY DEF FabricTypeOK
<1>2. \A a \in ready : FirstLocal(iface[a]) \in Pid
  BY FirstLocalType
<1>3. CASE up' = FALSE /\ state' = S /\ work' = W /\ routed_via' = R
  BY <1>1, <1>3
<1>4. ASSUME NEW placed \in SUBSET ready,
             routed_via' = [a \in Call |-> IF a \in placed THEN FirstLocal(iface[a]) ELSE R[a]],
             state' = [p \in Pid |-> IF \E a \in placed : FirstLocal(iface[a]) = p
                                     THEN "BUSY" ELSE S[p]],
             work' = [p \in Pid |-> W[p] \cup
                        Delivered(p, {a \in placed : FirstLocal(iface[a]) = p})],
             UNCHANGED up
      PROVE  /\ up' \in BOOLEAN
             /\ state' \in [Pid -> ModuleState]
             /\ work' \in [Pid -> SUBSET Call]
             /\ routed_via' \in [Call -> Pid \cup Fab \cup {NULL}]
  <2>1. state' \in [Pid -> ModuleState]
    BY <1>4 DEF ModuleState
  <2>2. work' \in [Pid -> SUBSET Call]
    BY <1>4 DEF Delivered
  <2>3. routed_via' \in [Call -> Pid \cup Fab \cup {NULL}]
    <3> HIDE DEF R, ready
    <3> QED BY <1>1, <1>2, <1>4
  <2> QED BY <1>4, <2>1, <2>2, <2>3
<1> QED BY <1>3, <1>4, Zenon DEF PlaceWaiting

(* What the answer of a module does (AnswerLate, processResult and         *)
(* processException) keeps the types of the fabric loop's variables.       *)
LEMMA AnswerType ==
    ASSUME TypeOK, NEW p \in Pid, NEW a \in Call,
           AnswerLate(p, a) \/ \E kind \in {"result", "exception"} : Answer(p, a, kind)
    PROVE  SharedTypeOK' /\ FabricTypeOK'
<1> USE DEF TypeOK
<1>1. CASE AnswerLate(p, a)
  BY <1>1 DEF AnswerLate, Unexpected, SharedTypeOK, FabricTypeOK, moduleVars, tableVars, callVars,
     peerVars, introVars
<1>2. ASSUME NEW kind \in {"result", "exception"}, Answer(p, a, kind)
      PROVE  SharedTypeOK' /\ FabricTypeOK'
  <2> DEFINE W == [work EXCEPT ![p] = @ \ {a}]
             S == [state EXCEPT ![p] = "IDLE"]
  <2>1. W \in [Pid -> SUBSET Call] /\ S \in [Pid -> ModuleState] /\ queue \ {a} \subseteq Call
    BY DEF FabricTypeOK, ModuleState
  <2>2. /\ queue' \subseteq Call
        /\ iface' \in [Call -> Iface \cup {NULL, Detached}]
        /\ replies' \in [Call -> Nat]
    BY <1>2 DEF Answer, Forget, Replied, FabricTypeOK
  <2>3. /\ up' \in BOOLEAN
        /\ state' \in [Pid -> ModuleState]
        /\ work' \in [Pid -> SUBSET Call]
        /\ routed_via' \in [Call -> Pid \cup Fab \cup {NULL}]
        /\ toProcman' \in Seq(ProcmanMsg)
    <3>1. CASE p \in modules /\ ~ need_restart[p]
      <4>1. PlaceWaiting(queue \ {a}, S, W) /\ UNCHANGED toProcman
        BY <1>2, <3>1 DEF Answer
      <4>2. /\ up' \in BOOLEAN
            /\ state' \in [Pid -> ModuleState]
            /\ work' \in [Pid -> SUBSET Call]
            /\ routed_via' \in [Call -> Pid \cup Fab \cup {NULL}]
        <5>1. FabricTypeOK /\ up \in BOOLEAN
          BY DEF SharedTypeOK
        <5> HIDE DEF W, S, TypeOK
        <5> QED BY <4>1, <5>1, <2>1, PlaceWaitingType
      <4> QED BY <4>1, <4>2 DEF SharedTypeOK
    <3>2. CASE ~ (p \in modules /\ ~ need_restart[p])
      <4>1. /\ toProcman' \in {toProcman, Append(toProcman, <<"restart", p>>)}
            /\ routed_via' \in {routed_via, Forget(routed_via, a)}
            /\ work' = W /\ UNCHANGED <<up, state>>
        BY <1>2, <3>2 DEF Answer
      <4>2. Append(toProcman, <<"restart", p>>) \in Seq(ProcmanMsg)
        BY PipeType, MessageTypes DEF SharedTypeOK
      <4>3. Forget(routed_via, a) \in [Call -> Pid \cup Fab \cup {NULL}]
        BY DEF FabricTypeOK, Forget
      <4> HIDE DEF W, S
      <4> QED BY <4>1, <4>2, <4>3, <2>1 DEF SharedTypeOK, FabricTypeOK
    <3> QED BY <3>1, <3>2
  <2>4. UNCHANGED <<in_timestamp, modules, need_restart, tableVars, peerVars, introVars,
                    toFabric, spawned, running>>
    BY <1>2 DEF Answer
  <2> QED BY <2>2, <2>3, <2>4 DEF SharedTypeOK, FabricTypeOK, tableVars, peerVars, introVars
<1> QED BY <1>1, <1>2

(* What a foreign fabric sends, the beacon and the poll of the fabrics.    *)
LEMMA PeerType ==
    ASSUME TypeOK, NEW f \in Fab,
           \/ \E a \in Call : RemoteAnswer(f, a) \/ RemoteBusy(f, a)
           \/ \E list \in SUBSET Offers[f] : IfaceListResult(f, list)
           \/ processReq_IfaceList(f)
           \/ s_beacon_event(f)
           \/ getIfaceList_event(f)
    PROVE  SharedTypeOK' /\ FabricTypeOK'
<1> USE DEF TypeOK, SharedTypeOK, FabricTypeOK
<1>0. Heard(f) \subseteq Fab
  BY DEF Heard
<1>1. ASSUME NEW a \in Call, RemoteAnswer(f, a) PROVE SharedTypeOK' /\ FabricTypeOK'
  <2>1. /\ queue' \subseteq Call
        /\ iface' \in [Call -> Iface \cup {NULL, Detached}]
        /\ routed_via' \in [Call -> Pid \cup Fab \cup {NULL}]
        /\ replies' \in [Call -> Nat]
    <3>1. /\ Forget(iface, a) \in [Call -> Iface \cup {NULL, Detached}]
          /\ Forget(routed_via, a) \in [Call -> Pid \cup Fab \cup {NULL}]
          /\ Replied(a) \in [Call -> Nat]
      BY DEF Forget, Replied
    <3>2. CASE a \in queue
      BY <1>1, <3>1, <3>2 DEF RemoteAnswer
    <3>3. CASE a \notin queue
      BY <1>1, <3>3 DEF RemoteAnswer
    <3> QED BY <3>2, <3>3
  <2>2. up' \in BOOLEAN
    BY <1>1 DEF RemoteAnswer, Unexpected
  <2> QED BY <1>0, <1>1, <2>1, <2>2 DEF RemoteAnswer, moduleVars, tableVars, introVars
<1>2. ASSUME NEW a \in Call, RemoteBusy(f, a) PROVE SharedTypeOK' /\ FabricTypeOK'
  BY <1>0, <1>2 DEF RemoteBusy, sharedVars, moduleVars, tableVars, callVars, introVars
<1>3. ASSUME NEW list \in SUBSET Offers[f], IfaceListResult(f, list)
      PROVE  SharedTypeOK' /\ FabricTypeOK'
  <2> DEFINE homes == Homes(ifaces, list)
  <2>1. list \in SUBSET Iface
    OBVIOUS
  <2>2. homes \in SUBSET Iface /\ FiledIn(id_global_list, homes, f) \in [Iface -> Seq(Fab)]
    BY <2>1, HomesInIface, ListsType
  <2> HIDE DEF homes
  <2>3. /\ up' \in BOOLEAN /\ ifaces' \subseteq Iface
        /\ id_global_list' \in [Iface -> Seq(Fab)]
    <3>1. CASE f \in fab_list
      <4>1. ifaces' = ifaces \cup homes /\ id_global_list' = FiledIn(id_global_list, homes, f)
        BY <1>3, <3>1 DEF IfaceListResult, homes
      <4> QED BY <1>3, <2>2, <3>1, <4>1 DEF IfaceListResult
    <3>2. CASE f \notin fab_list
      BY <1>3, <3>2 DEF IfaceListResult
    <3> QED BY <3>1, <3>2
  <2> QED BY <1>0, <1>3, <2>3 DEF IfaceListResult, moduleVars, callVars, introVars
<1>4. CASE processReq_IfaceList(f) \/ s_beacon_event(f)
  BY <1>0, <1>4 DEF processReq_IfaceList, s_beacon_event, sharedVars, moduleVars, tableVars,
     callVars, introVars
<1>5. CASE getIfaceList_event(f)
  BY <1>5 DEF getIfaceList_event, sharedVars, moduleVars, tableVars, callVars, introVars
<1> QED BY <1>1, <1>2, <1>3, <1>4, <1>5

(* A module that is deleted and whose identity is struck from the table.   *)
LEMMA RemovalType ==
    ASSUME FabricTypeOK, NEW p \in Pid, NEW onQueue \in [Call -> Iface \cup {NULL, Detached}],
           RemoveIdentity(p, onQueue), DeleteModule(p)
    PROVE  /\ modules' \subseteq Pid
           /\ state' \in [Pid -> ModuleState]
           /\ need_restart' \in [Pid -> BOOLEAN]
           /\ ifaces' \subseteq Iface
           /\ id_local_list' \in [Iface -> Seq(Pid)]
           /\ id_global_list' \in [Iface -> Seq(Fab)]
           /\ iface' \in [Call -> Iface \cup {NULL, Detached}]
<1> DEFINE local == StruckFrom(id_local_list, p)
           empty == Empty(ifaces, local, id_global_list)
<1>1. local \in [Iface -> Seq(Pid)]
  BY ListsType DEF FabricTypeOK
<1>2. /\ id_local_list' = local /\ ifaces' = ifaces \ empty /\ UNCHANGED id_global_list
      /\ iface' = [a \in Call |-> IF onQueue[a] \in empty THEN Detached ELSE onQueue[a]]
  BY DEF RemoveIdentity
<1> HIDE DEF local, empty
<1>3. iface' \in [Call -> Iface \cup {NULL, Detached}]
  BY <1>2
<1>4. /\ modules' \subseteq Pid /\ state' \in [Pid -> ModuleState]
      /\ need_restart' \in [Pid -> BOOLEAN]
  BY DEF DeleteModule, FabricTypeOK, ModuleState
<1> QED BY <1>1, <1>2, <1>3, <1>4 DEF FabricTypeOK

(* The two timeouts of process_queue_item keep the types of the fabric     *)
(* loop's variables.                                                       *)
LEMMA TimeoutType ==
    ASSUME TypeOK, NEW a \in Call, QueueTimeout(a) \/ ProcessTimeout(a)
    PROVE  SharedTypeOK' /\ FabricTypeOK'
<1> USE DEF TypeOK
<1>1. Replied(a) \in [Call -> Nat] /\ Forget(routed_via, a) \in [Call -> Pid \cup Fab \cup {NULL}]
  BY DEF Replied, Forget, FabricTypeOK
<1>2. Forget(iface, a) \in [Call -> Iface \cup {NULL, Detached}]
  BY DEF Forget, FabricTypeOK
<1>3. CASE QueueTimeout(a)
  BY <1>1, <1>2, <1>3 DEF QueueTimeout, Dequeue, SharedTypeOK, FabricTypeOK, sharedVars, moduleVars,
     tableVars, peerVars, introVars
<1>4. CASE ProcessTimeout(a)
  <2>1. PICK p \in LookupModule(routed_via[a]) :
          IF p # NULL /\ ~ debug
          THEN /\ toProcman' = Append(toProcman, <<"restart", p>>)
               /\ RemoveIdentity(p, Forget(iface, a))
               /\ DeleteModule(p)
          ELSE /\ iface' = Forget(iface, a)
               /\ UNCHANGED <<toProcman, tableVars, moduleVars>>
    BY <1>4 DEF ProcessTimeout
  <2>2. p \in Pid \cup {NULL}
    BY <2>1, <1>4 DEF LookupModule, FabricTypeOK, ProcessTimeout
  <2>3. /\ toProcman' \in Seq(ProcmanMsg)
        /\ modules' \subseteq Pid
        /\ state' \in [Pid -> ModuleState]
        /\ need_restart' \in [Pid -> BOOLEAN]
        /\ ifaces' \subseteq Iface
        /\ id_local_list' \in [Iface -> Seq(Pid)]
        /\ id_global_list' \in [Iface -> Seq(Fab)]
        /\ iface' \in [Call -> Iface \cup {NULL, Detached}]
    <3>1. CASE p # NULL /\ ~ debug
      <4>1. p \in Pid /\ Append(toProcman, <<"restart", p>>) \in Seq(ProcmanMsg)
        BY <2>2, <3>1, PipeType, MessageTypes DEF SharedTypeOK
      <4> QED BY <1>2, <2>1, <3>1, <4>1, RemovalType
    <3>2. CASE ~ (p # NULL /\ ~ debug)
      BY <1>2, <2>1, <3>2 DEF SharedTypeOK, FabricTypeOK, tableVars, moduleVars
    <3> QED BY <3>1, <3>2
  <2>4. /\ queue' = queue \ {a} /\ UNCHANGED in_timestamp
        /\ routed_via' = Forget(routed_via, a) /\ replies' = Replied(a)
        /\ UNCHANGED <<up, toFabric, spawned, running, work, peerVars, introVars>>
    BY <1>4 DEF ProcessTimeout, Dequeue
  <2> QED BY <1>1, <2>3, <2>4 DEF SharedTypeOK, FabricTypeOK, peerVars, introVars
<1> QED BY <1>3, <1>4

(* Introductions and procman's events.                                     *)
LEMMA IntroduceType ==
    ASSUME TypeOK, (\E p \in Pid : IntroduceAsk(p)) \/ IntroduceAnswered \/ s_procman_event
    PROVE  SharedTypeOK' /\ FabricTypeOK'
<1> USE DEF TypeOK
<1>1. ASSUME NEW p \in Pid, IntroduceAsk(p) PROVE SharedTypeOK' /\ FabricTypeOK'
  <2>1. toProcman' \in Seq(ProcmanMsg)
    BY <1>1, PipeType, MessageTypes DEF IntroduceAsk, SharedTypeOK
  <2> QED BY <1>1, <2>1 DEF IntroduceAsk, SharedTypeOK, FabricTypeOK, moduleVars, tableVars, callVars,
          peerVars
<1>2. CASE IntroduceAnswered
  <2>1. introducing \in Pid /\ toFabric' \in Seq(FabricMsg) /\ introducing' = NULL
    BY <1>2, PipeType DEF IntroduceAnswered, SharedTypeOK, FabricTypeOK
  <2>2. up' \in BOOLEAN /\ UNCHANGED <<spawned, running, callVars, work, peerVars, introduced>>
    BY <1>2 DEF IntroduceAnswered
  <2>3. /\ toProcman' \in Seq(ProcmanMsg)
        /\ modules' \subseteq Pid
        /\ state' \in [Pid -> ModuleState]
        /\ need_restart' \in [Pid -> BOOLEAN]
        /\ ifaces' \subseteq Iface
        /\ id_local_list' \in [Iface -> Seq(Pid)]
        /\ id_global_list' \in [Iface -> Seq(Fab)]
    <3>1. CASE Register(introducing) /\ ~ RegisterCrashes(introducing)
      <4> DEFINE p == introducing
                 homes == Homes(ifaces, Provides[Module[p]])
      <4>1. homes \in SUBSET Iface
        BY <2>1, <3>1, ProvidedHomes DEF FabricTypeOK
      <4>2. FiledIn(id_local_list, homes, p) \in [Iface -> Seq(Pid)]
        BY <2>1, ListsType DEF FabricTypeOK
      <4>3. Append(toProcman, <<"register", p>>) \in Seq(ProcmanMsg)
        BY <2>1, PipeType, MessageTypes DEF SharedTypeOK
      <4>4. /\ ifaces' = ifaces \cup homes /\ id_local_list' = FiledIn(id_local_list, homes, p)
            /\ toProcman' = Append(toProcman, <<"register", p>>) /\ UNCHANGED id_global_list
        BY <3>1 DEF Register
      <4> HIDE DEF homes
      <4>5. /\ modules' \subseteq Pid /\ state' \in [Pid -> ModuleState]
            /\ need_restart' \in [Pid -> BOOLEAN]
        BY <2>1, <3>1 DEF Register, FabricTypeOK, ModuleState
      <4> QED BY <4>1, <4>2, <4>3, <4>4, <4>5 DEF FabricTypeOK
    <3>2. CASE UNCHANGED <<toProcman, moduleVars, tableVars>>
      BY <3>2 DEF SharedTypeOK, FabricTypeOK, moduleVars, tableVars
    <3> QED BY <1>2, <3>1, <3>2 DEF IntroduceAnswered
  <2> QED BY <2>1, <2>2, <2>3 DEF SharedTypeOK, FabricTypeOK, callVars, peerVars
<1>3. ASSUME NEW cmd, NEW p, ProcmanSays(cmd, p)
      PROVE  /\ toFabric' \in Seq(FabricMsg)
             /\ UNCHANGED <<up, spawned, running, queue, routed_via, in_timestamp, replies, work,
                            peerVars, introVars>>
  BY <1>3, PipeType DEF ProcmanSays, SharedTypeOK
<1>4. ASSUME NEW p \in Pid, ProcmanRemove(p) PROVE SharedTypeOK' /\ FabricTypeOK'
  <2>1. UNCHANGED toProcman /\ ProcmanSays("remove", p)
    BY <1>4 DEF ProcmanRemove
  <2>2. CASE RemoveIdentity(p, iface) /\ DeleteModule(p)
    <3>1. iface \in [Call -> Iface \cup {NULL, Detached}] /\ FabricTypeOK
      BY DEF FabricTypeOK
    <3> QED BY <1>3, <2>1, <2>2, <3>1, RemovalType DEF SharedTypeOK, FabricTypeOK, peerVars, introVars
  <2>3. CASE UNCHANGED <<tableVars, iface, moduleVars>>
    BY <1>3, <2>1, <2>3 DEF SharedTypeOK, FabricTypeOK, peerVars, introVars, tableVars, moduleVars
  <2> QED BY <1>4, <2>2, <2>3 DEF ProcmanRemove
<1>5. ASSUME NEW p \in Pid, ProcmanRestart(p) PROVE SharedTypeOK' /\ FabricTypeOK'
  <2>1. UNCHANGED <<modules, tableVars, iface>> /\ ProcmanSays("restart", p)
    BY <1>5 DEF ProcmanRestart
  <2>2. toProcman' \in Seq(ProcmanMsg)
    <3>1. Append(toProcman, <<"restart", p>>) \in Seq(ProcmanMsg)
      BY PipeType, MessageTypes DEF SharedTypeOK
    <3> QED BY <1>5, <3>1 DEF ProcmanRestart, SharedTypeOK
  <2>3. state' \in [Pid -> ModuleState] /\ need_restart' \in [Pid -> BOOLEAN]
    <3>1. CASE p \in modules /\ state[p] = "IDLE"
      <4>1. state' = [state EXCEPT ![p] = "RESTARTING"] /\ UNCHANGED need_restart
        BY <1>5, <3>1 DEF ProcmanRestart
      <4> QED BY <4>1 DEF FabricTypeOK, ModuleState
    <3>2. CASE ~ (p \in modules /\ state[p] = "IDLE")
      <4>1. UNCHANGED state
        BY <1>5, <3>2 DEF ProcmanRestart
      <4>2. need_restart' \in {need_restart, [need_restart EXCEPT ![p] = TRUE]}
        BY <1>5, <3>2 DEF ProcmanRestart
      <4> QED BY <4>1, <4>2 DEF FabricTypeOK
    <3> QED BY <3>1, <3>2
  <2> QED BY <1>3, <2>1, <2>2, <2>3 DEF SharedTypeOK, FabricTypeOK, peerVars, introVars, tableVars
<1>6. ASSUME NEW answer \in {"yes", "no"}, ProcmanStray(answer) PROVE SharedTypeOK' /\ FabricTypeOK'
  <2>1. UNCHANGED <<toProcman, moduleVars, tableVars, iface>> /\ ProcmanSays("check_pid", answer)
    BY <1>6 DEF ProcmanStray
  <2> QED BY <1>3, <2>1 DEF SharedTypeOK, FabricTypeOK, peerVars, introVars, tableVars, moduleVars
<1> QED BY <1>1, <1>2, <1>4, <1>5, <1>6 DEF s_procman_event

(* Type correctness: every handler of the two threads keeps TypeOK.        *)
THEOREM TypeCorrect == Spec => []TypeOK
<1>1. TypeOK /\ [Next]_vars => TypeOK'
  <2> SUFFICES ASSUME TypeOK, [Next]_vars PROVE TypeOK'
    OBVIOUS
  <2>1. CASE FabricStep
    <3>1. ProcmanTypeOK'
      BY <2>1 DEF FabricStep, TypeOK, ProcmanTypeOK, procmanVars
    <3>2. SharedTypeOK' /\ FabricTypeOK'
      BY <2>1, CallType, AnswerType, PeerType, TimeoutType, IntroduceType
      DEF FabricStep, FabricNext, processResult, processException
    <3> QED BY <3>1, <3>2 DEF TypeOK
  <2>2. CASE ProcmanStep
    BY <2>2, ProcmanStepType
  <2>3. CASE ProcessStep
    BY <2>3 DEF ProcessStep, ProcessDies, TypeOK, SharedTypeOK, FabricTypeOK, ProcmanTypeOK,
       fabricVars, moduleVars, tableVars, callVars, peerVars, introVars, procmanVars
  <2>4. CASE UNCHANGED vars
    BY <2>4 DEF vars, sharedVars, TypeOK, SharedTypeOK, FabricTypeOK, ProcmanTypeOK,
       fabricVars, moduleVars, tableVars, callVars, peerVars, introVars, procmanVars
  <2> QED BY <2>1, <2>2, <2>3, <2>4 DEF Next
<1> QED BY <1>1, InitType, PTL DEF Spec

=============================================================================
