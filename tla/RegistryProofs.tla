--------------------------- MODULE RegistryProofs ---------------------------
(***************************************************************************)
(* What the daemon keeps about modules and processes agrees in every       *)
(* deployment: the local identities in the interface lists are those of    *)
(* registered modules, and procman runs no more processes than are         *)
(* configured.  The proof sorts the handlers by what they do to the table. *)
(***************************************************************************)
EXTENDS ModBusdProofs

(* Nothing moves in the table.                                             *)
Still == UNCHANGED <<modules, tableVars>>

(* Register: module p and its interfaces.                                  *)
Joins(p) ==
    \E homes \in SUBSET Iface :
        /\ modules' = modules \cup {p}
        /\ ifaces' = ifaces \cup homes
        /\ id_local_list' = FiledIn(id_local_list, homes, p)
        /\ UNCHANGED id_global_list

(* A module is deleted and its identity struck.                            *)
Leaves(p) ==
    /\ modules' = modules \ {p}
    /\ id_local_list' = StruckFrom(id_local_list, p)
    /\ ifaces' = ifaces \ Empty(ifaces, id_local_list', id_global_list)
    /\ UNCHANGED id_global_list

(* The interface list of a fabric.                                         *)
Lists(f) ==
    \E homes \in SUBSET Iface :
        /\ ifaces' = ifaces \cup homes
        /\ id_global_list' = FiledIn(id_global_list, homes, f)
        /\ UNCHANGED <<modules, id_local_list>>

-----------------------------------------------------------------------------
(* Calls and answers leave the table alone.                                *)
LEMMA CallLeavesTable ==
    ASSUME NEW a \in Call,
           \/ processCall(a) \/ QueueTimeout(a)
           \/ \E p \in Pid : AnswerLate(p, a) \/ processResult(p, a) \/ processException(p, a)
           \/ \E f \in Fab : RemoteAnswer(f, a) \/ RemoteBusy(f, a)
    PROVE  Still
<1> USE DEF Still, moduleVars, peerVars
<1>1. CASE processCall(a)
  BY <1>1 DEF processCall, CallRefused, CallCrashes, CallRoutedLocally, CallRoutedGlobally,
     CallWaits, Arrives
<1>2. CASE QueueTimeout(a)
  BY <1>2 DEF QueueTimeout
<1>3. ASSUME NEW p \in Pid, AnswerLate(p, a) \/ processResult(p, a) \/ processException(p, a)
      PROVE  Still
  BY <1>3 DEF AnswerLate, processResult, processException, Answer
<1>4. ASSUME NEW f \in Fab, RemoteAnswer(f, a) \/ RemoteBusy(f, a) PROVE Still
  BY <1>4 DEF RemoteAnswer, RemoteBusy
<1> QED BY <1>1, <1>2, <1>3, <1>4

(* A module is never deleted without its identity being struck.            *)
LEMMA RemovalLeaves ==
    ASSUME NEW p, NEW onQueue, RemoveIdentity(p, onQueue), DeleteModule(p)
    PROVE  Leaves(p)
BY DEF RemoveIdentity, DeleteModule, Leaves

(* What a step of the daemon does to the table.                            *)
LEMMA TableEffect ==
    ASSUME TypeOK, [Next]_vars
    PROVE  \/ Still
           \/ \E p \in Pid : Joins(p) \/ Leaves(p)
           \/ \E f \in Fab : Lists(f)
<1>1. ASSUME NEW a \in Call, ProcessTimeout(a)
      PROVE  Still \/ \E p \in Pid : Leaves(p)
  <2>1. PICK p \in LookupModule(routed_via[a]) :
          IF p # NULL /\ ~ debug
          THEN RemoveIdentity(p, Forget(iface, a)) /\ DeleteModule(p)
          ELSE UNCHANGED <<tableVars, moduleVars>>
    BY <1>1 DEF ProcessTimeout
  <2>2. p \in Pid \cup {NULL}
    BY <1>1, <2>1 DEF ProcessTimeout, LookupModule, TypeOK, FabricTypeOK
  <2>3. CASE p # NULL /\ ~ debug
    BY <2>1, <2>2, <2>3, RemovalLeaves
  <2>4. CASE ~ (p # NULL /\ ~ debug)
    BY <2>1, <2>2, <2>4 DEF Still, moduleVars
  <2> QED BY <2>3, <2>4
<1>2. ASSUME NEW f \in Fab, NEW list \in SUBSET Offers[f], IfaceListResult(f, list)
      PROVE  Still \/ Lists(f)
  <2>0. list \in SUBSET Iface /\ ifaces \in SUBSET Iface
    BY ConfigAssumption DEF TypeOK, FabricTypeOK
  <2>1. Homes(ifaces, list) \in SUBSET Iface
    BY <2>0, HomesInIface
  <2>2. CASE f \in fab_list
    <3> DEFINE homes == Homes(ifaces, list)
    <3>1. /\ ifaces' = ifaces \cup homes
          /\ id_global_list' = FiledIn(id_global_list, homes, f)
          /\ UNCHANGED <<modules, id_local_list>>
      BY <1>2, <2>2 DEF IfaceListResult, moduleVars
    <3> HIDE DEF homes
    <3> QED BY <2>1, <3>1 DEF Lists, homes
  <2>3. CASE f \notin fab_list
    BY <1>2, <2>3 DEF IfaceListResult, Still, moduleVars, tableVars
  <2> QED BY <2>2, <2>3
<1>3. ASSUME NEW f \in Fab,
             processReq_IfaceList(f) \/ s_beacon_event(f) \/ getIfaceList_event(f)
      PROVE  Still
  BY <1>3 DEF processReq_IfaceList, s_beacon_event, getIfaceList_event, Still, moduleVars
<1>4. ASSUME NEW p \in Pid, IntroduceAsk(p) PROVE Still
  BY <1>4 DEF IntroduceAsk, Still, moduleVars, peerVars
<1>5. CASE IntroduceAnswered
  <2>1. introducing \in Pid /\ ifaces \in SUBSET Iface
    BY <1>5 DEF IntroduceAnswered, TypeOK, FabricTypeOK
  <2>2. CASE Register(introducing) /\ ~ RegisterCrashes(introducing)
    <3> DEFINE homes == Homes(ifaces, Provides[Module[introducing]])
    <3>1. homes \in SUBSET Iface
      BY <2>1, <2>2, ProvidedHomes
    <3>2. /\ modules' = modules \cup {introducing}
          /\ ifaces' = ifaces \cup homes
          /\ id_local_list' = FiledIn(id_local_list, homes, introducing)
          /\ UNCHANGED id_global_list
      BY <2>2 DEF Register
    <3> HIDE DEF homes
    <3> QED BY <2>1, <3>1, <3>2 DEF Joins
  <2>3. CASE UNCHANGED <<moduleVars, tableVars>>
    BY <2>3 DEF Still, moduleVars
  <2> QED BY <1>5, <2>2, <2>3 DEF IntroduceAnswered
<1>6. ASSUME NEW p \in Pid, ProcmanRemove(p) PROVE Still \/ Leaves(p)
  BY <1>6, RemovalLeaves DEF ProcmanRemove, Still, moduleVars
<1>7. ASSUME NEW x, ProcmanRestart(x) \/ ProcmanStray(x) PROVE Still
  BY <1>7 DEF ProcmanRestart, ProcmanStray, moduleVars, Still
<1>8. CASE ProcmanStep \/ ProcessStep \/ UNCHANGED vars
  BY <1>8 DEF ProcmanStep, ProcessStep, vars, fabricVars, moduleVars, Still
<1> QED
  BY <1>1, <1>2, <1>3, <1>4, <1>5, <1>6, <1>7, <1>8, CallLeavesTable
  DEF Next, FabricStep, FabricNext, s_procman_event

-----------------------------------------------------------------------------
(* iface_append_local and iface_append_global over the whole table.        *)
LEMMA FiledFacts ==
    ASSUME NEW S, NEW lists \in [Iface -> Seq(S)], NEW id \in S, NEW homes \in SUBSET Iface,
           NEW i \in Iface
    PROVE  /\ i \in homes => /\ Items(FiledIn(lists, homes, id)[i]) = Items(lists[i]) \cup {id}
                             /\ FiledIn(lists, homes, id)[i] # << >>
           /\ i \notin homes => FiledIn(lists, homes, id)[i] = lists[i]
           /\ NoRepeat(lists[i]) => NoRepeat(FiledIn(lists, homes, id)[i])
<1>1. lists[i] \in Seq(S)
  OBVIOUS
<1>2. FiledIn(lists, homes, id)[i] = IF i \in homes THEN ListAdd(lists[i], id) ELSE lists[i]
  BY DEF FiledIn
<1>3. /\ ListAdd(lists[i], id) # << >>
      /\ Items(ListAdd(lists[i], id)) = Items(lists[i]) \cup {id}
      /\ NoRepeat(lists[i]) => NoRepeat(ListAdd(lists[i], id))
  BY <1>1, ListAddFacts
<1> QED BY <1>2, <1>3

(* iface_remove over the whole table.                                      *)
LEMMA StruckFacts ==
    ASSUME NEW S, NEW lists \in [Iface -> Seq(S)], NEW id, NEW i \in Iface, NoRepeat(lists[i])
    PROVE  /\ Items(StruckFrom(lists, id)[i]) = Items(lists[i]) \ {id}
           /\ NoRepeat(StruckFrom(lists, id)[i])
           /\ lists[i] = << >> => StruckFrom(lists, id)[i] = << >>
<1>1. lists[i] \in Seq(S) /\ StruckFrom(lists, id)[i] = ListRemove(lists[i], id)
  BY DEF StruckFrom
<1>2. lists[i] = << >> => ListRemove(lists[i], id) = lists[i]
  BY DEF ListRemove, Items
<1> QED BY <1>1, <1>2, ListRemoveFacts

(* The table and the lists that stand behind it.                           *)
TableInv == TableSound /\ ListedOnce

(* TableInv, with NoRepeat for what ListedOnce says of each list.          *)
LEMMA TableInvNoRepeat ==
    TableInv <=>
      \A i \in Iface :
        /\ Items(id_local_list[i]) \subseteq modules
        /\ i \in ifaces <=> (id_local_list[i] # << >> \/ id_global_list[i] # << >>)
        /\ NoRepeat(id_local_list[i]) /\ NoRepeat(id_global_list[i])
BY DEF TableInv, TableSound, ListedOnce, NoRepeat

(* Every step keeps TableInv: what joins a list joins the registry, what   *)
(* leaves the registry leaves all lists, and the interfaces that are left  *)
(* with nobody leave the table.                                            *)
LEMMA TableInvStep ==
    ASSUME TypeOK, TableInv, [Next]_vars
    PROVE  TableInv'
<1>0. /\ id_local_list \in [Iface -> Seq(Pid)] /\ id_global_list \in [Iface -> Seq(Fab)]
      /\ ifaces \subseteq Iface
      /\ \A i \in Iface :
           /\ Items(id_local_list[i]) \subseteq modules
           /\ i \in ifaces <=> (id_local_list[i] # << >> \/ id_global_list[i] # << >>)
           /\ NoRepeat(id_local_list[i]) /\ NoRepeat(id_global_list[i])
  BY TableInvNoRepeat DEF TypeOK, FabricTypeOK
<1>1. CASE Still
  BY <1>1 DEF Still, tableVars, TableInv, TableSound, ListedOnce
<1>2. ASSUME NEW p \in Pid, Joins(p) PROVE TableInv'
  <2>1. PICK homes \in SUBSET Iface :
          /\ modules' = modules \cup {p}
          /\ ifaces' = ifaces \cup homes
          /\ id_local_list' = FiledIn(id_local_list, homes, p)
          /\ UNCHANGED id_global_list
    BY <1>2 DEF Joins
  <2>2. ASSUME NEW i \in Iface
        PROVE  /\ i \in homes => /\ Items(id_local_list'[i]) = Items(id_local_list[i]) \cup {p}
                                 /\ id_local_list'[i] # << >>
               /\ i \notin homes => id_local_list'[i] = id_local_list[i]
               /\ NoRepeat(id_local_list'[i])
    <3>1. /\ i \in homes => /\ Items(FiledIn(id_local_list, homes, p)[i]) = Items(id_local_list[i]) \cup {p}
                            /\ FiledIn(id_local_list, homes, p)[i] # << >>
          /\ i \notin homes => FiledIn(id_local_list, homes, p)[i] = id_local_list[i]
          /\ NoRepeat(id_local_list[i]) => NoRepeat(FiledIn(id_local_list, homes, p)[i])
      BY <1>0, FiledFacts
    <3> QED BY <1>0, <2>1, <3>1
  <2>3. \A i \in Iface :
          /\ Items(id_local_list'[i]) \subseteq modules'
          /\ i \in ifaces' <=> (id_local_list'[i] # << >> \/ id_global_list'[i] # << >>)
          /\ NoRepeat(id_local_list'[i]) /\ NoRepeat(id_global_list'[i])
    BY <1>0, <2>1, <2>2
  <2> QED BY <2>3 DEF TableInv, TableSound, ListedOnce, NoRepeat
<1>3. ASSUME NEW p \in Pid, Leaves(p) PROVE TableInv'
  <2>1. /\ modules' = modules \ {p}
        /\ id_local_list' = StruckFrom(id_local_list, p)
        /\ \A i \in Iface : i \in ifaces' <=>
             i \in ifaces /\ ~ (id_local_list'[i] = << >> /\ id_global_list[i] = << >>)
        /\ UNCHANGED id_global_list
    BY <1>0, <1>3 DEF Leaves, Empty
  <2>2. ASSUME NEW i \in Iface
        PROVE  /\ Items(id_local_list'[i]) = Items(id_local_list[i]) \ {p}
               /\ NoRepeat(id_local_list'[i])
               /\ id_local_list[i] = << >> => id_local_list'[i] = << >>
    <3>1. /\ Items(StruckFrom(id_local_list, p)[i]) = Items(id_local_list[i]) \ {p}
          /\ NoRepeat(StruckFrom(id_local_list, p)[i])
          /\ id_local_list[i] = << >> => StruckFrom(id_local_list, p)[i] = << >>
      BY <1>0, StruckFacts
    <3> QED BY <1>0, <2>1, <3>1
  <2>3. \A i \in Iface :
          /\ Items(id_local_list'[i]) \subseteq modules'
          /\ i \in ifaces' <=> (id_local_list'[i] # << >> \/ id_global_list'[i] # << >>)
          /\ NoRepeat(id_local_list'[i]) /\ NoRepeat(id_global_list'[i])
    BY <1>0, <2>1, <2>2
  <2> QED BY <2>3 DEF TableInv, TableSound, ListedOnce, NoRepeat
<1>4. ASSUME NEW f \in Fab, Lists(f) PROVE TableInv'
  <2>1. PICK homes \in SUBSET Iface :
          /\ ifaces' = ifaces \cup homes
          /\ id_global_list' = FiledIn(id_global_list, homes, f)
          /\ UNCHANGED <<modules, id_local_list>>
    BY <1>4 DEF Lists
  <2>2. ASSUME NEW i \in Iface
        PROVE  /\ i \in homes => id_global_list'[i] # << >>
               /\ i \notin homes => id_global_list'[i] = id_global_list[i]
               /\ NoRepeat(id_global_list'[i])
    <3>1. /\ i \in homes => /\ Items(FiledIn(id_global_list, homes, f)[i]) = Items(id_global_list[i]) \cup {f}
                            /\ FiledIn(id_global_list, homes, f)[i] # << >>
          /\ i \notin homes => FiledIn(id_global_list, homes, f)[i] = id_global_list[i]
          /\ NoRepeat(id_global_list[i]) => NoRepeat(FiledIn(id_global_list, homes, f)[i])
      BY <1>0, FiledFacts
    <3> QED BY <1>0, <2>1, <3>1
  <2>3. \A i \in Iface :
          /\ Items(id_local_list'[i]) \subseteq modules'
          /\ i \in ifaces' <=> (id_local_list'[i] # << >> \/ id_global_list'[i] # << >>)
          /\ NoRepeat(id_local_list'[i]) /\ NoRepeat(id_global_list'[i])
    BY <1>0, <2>1, <2>2
  <2> QED BY <2>3 DEF TableInv, TableSound, ListedOnce, NoRepeat
<1> QED BY <1>1, <1>2, <1>3, <1>4, TableEffect

(* The table is empty when the daemon starts.                              *)
LEMMA TableInvInit == Init => TableInv
BY DEF Init, FabricInit, TableInv, TableSound, ListedOnce, Items

(* In every deployment the identities of id_local_list are registered      *)
(* modules, so that placeCall never dereferences the NULL of a lookup for  *)
(* one, and an interface is in the table exactly while somebody has it.    *)
THEOREM TableAlwaysSound == Spec => []TableSound
<1>1. TypeOK /\ TableInv /\ [Next]_vars => TableInv'
  BY TableInvStep
<1>2. TableInv => TableSound
  BY DEF TableInv
<1> QED BY <1>1, <1>2, TableInvInit, TypeCorrect, PTL DEF Spec

-----------------------------------------------------------------------------
(* What the fabric tells procman names a process.                          *)
AboutProcess == {"check_pid", "register", "restart"} \X Pid

(* The fabric loop forks and kills nothing, and sends at most one message. *)
LEMMA FabricSends ==
    ASSUME TypeOK, FabricStep
    PROVE  /\ UNCHANGED <<running, has_mod>>
           /\ \/ UNCHANGED toProcman
              \/ \E m \in AboutProcess : toProcman' = Append(toProcman, m)
<1>0. UNCHANGED has_mod
  BY DEF FabricStep, procmanVars
<1>1. \A p \in Pid : /\ <<"check_pid", p>> \in AboutProcess
                     /\ <<"register", p>> \in AboutProcess
                     /\ <<"restart", p>> \in AboutProcess
  BY DEF AboutProcess
<1>2. ASSUME NEW a \in Call, processCall(a) PROVE UNCHANGED <<running, toProcman>>
  BY <1>2 DEF processCall, CallRefused, CallCrashes, CallRoutedLocally, CallRoutedGlobally,
     CallWaits, Arrives
<1>3. ASSUME NEW a \in Call, ProcessTimeout(a)
      PROVE  /\ UNCHANGED running
             /\ UNCHANGED toProcman \/ \E m \in AboutProcess : toProcman' = Append(toProcman, m)
  <2>1. PICK p \in LookupModule(routed_via[a]) :
          IF p # NULL /\ ~ debug THEN toProcman' = Append(toProcman, <<"restart", p>>)
          ELSE UNCHANGED toProcman
    BY <1>3 DEF ProcessTimeout
  <2>2. UNCHANGED running /\ p \in Pid \cup {NULL}
    BY <1>3, <2>1 DEF ProcessTimeout, LookupModule, TypeOK, FabricTypeOK
  <2> QED BY <1>1, <2>1, <2>2
<1>4. ASSUME NEW p \in Pid, NEW a \in Call, NEW kind, AnswerLate(p, a) \/ Answer(p, a, kind)
      PROVE  /\ UNCHANGED running
             /\ UNCHANGED toProcman \/ \E m \in AboutProcess : toProcman' = Append(toProcman, m)
  <2>1. CASE AnswerLate(p, a)
    BY <2>1 DEF AnswerLate
  <2>2. CASE Answer(p, a, kind)
    <3>1. UNCHANGED toProcman \/ toProcman' = Append(toProcman, <<"restart", p>>)
      BY <2>2 DEF Answer
    <3>2. UNCHANGED running
      BY <2>2 DEF Answer
    <3> QED BY <1>1, <3>1, <3>2
  <2> QED BY <1>4, <2>1, <2>2
<1>5. ASSUME \/ \E a \in Call : QueueTimeout(a)
             \/ \E f \in Fab, a \in Call : RemoteAnswer(f, a) \/ RemoteBusy(f, a)
             \/ \E f \in Fab :
                  \/ \E list \in SUBSET Offers[f] : IfaceListResult(f, list)
                  \/ processReq_IfaceList(f) \/ s_beacon_event(f) \/ getIfaceList_event(f)
      PROVE  UNCHANGED <<running, toProcman>>
  BY <1>5 DEF QueueTimeout, RemoteAnswer, RemoteBusy, IfaceListResult, processReq_IfaceList,
     s_beacon_event, getIfaceList_event, sharedVars
<1>6. ASSUME (\E p \in Pid : IntroduceAsk(p)) \/ IntroduceAnswered
      PROVE  /\ UNCHANGED running
             /\ UNCHANGED toProcman \/ \E m \in AboutProcess : toProcman' = Append(toProcman, m)
  <2>1. ASSUME NEW p \in Pid, IntroduceAsk(p)
        PROVE  UNCHANGED running /\ toProcman' = Append(toProcman, <<"check_pid", p>>)
    BY <2>1 DEF IntroduceAsk
  <2>2. CASE IntroduceAnswered
    <3>1. /\ UNCHANGED running /\ introducing \in Pid
          /\ UNCHANGED toProcman \/ toProcman' = Append(toProcman, <<"register", introducing>>)
      BY <2>2 DEF IntroduceAnswered, Register, TypeOK, FabricTypeOK
    <3> QED BY <1>1, <3>1
  <2> QED BY <1>1, <1>6, <2>1, <2>2
<1>7. ASSUME s_procman_event
      PROVE  /\ UNCHANGED running
             /\ UNCHANGED toProcman \/ \E m \in AboutProcess : toProcman' = Append(toProcman, m)
  <2>1. ASSUME NEW p \in Pid, ProcmanRestart(p)
        PROVE  UNCHANGED running /\ (UNCHANGED toProcman
                                     \/ toProcman' = Append(toProcman, <<"restart", p>>))
    BY <2>1 DEF ProcmanRestart, ProcmanSays
  <2>2. ASSUME NEW x, ProcmanRemove(x) \/ ProcmanStray(x) PROVE UNCHANGED <<running, toProcman>>
    BY <2>2 DEF ProcmanRemove, ProcmanStray, ProcmanSays
  <2> QED BY <1>1, <1>7, <2>1, <2>2 DEF s_procman_event
<1> QED
  BY <1>0, <1>2, <1>3, <1>4, <1>5, <1>6, <1>7
  DEF FabricStep, FabricNext, processResult, processException

(* startall stays the first message and is read once.                      *)
LEMMA StartedOnceFacts ==
    ASSUME toProcman \in Seq(ProcmanMsg), StartedOnce
    PROVE  /\ \A m \in AboutProcess :
                toProcman' = Append(toProcman, m) /\ has_mod' = has_mod => StartedOnce'
           /\ toProcman # << >> /\ toProcman' = Tail(toProcman) => StartedOnce'
           /\ toProcman # << >> /\ Head(toProcman) = <<"startall", NULL>> => has_mod = {}
<1>0. Len(toProcman) \in Nat
  BY LenProperties
<1>1. ASSUME NEW m \in AboutProcess, toProcman' = Append(toProcman, m), has_mod' = has_mod
      PROVE  StartedOnce'
  <2>1. m \in ProcmanMsg /\ m # <<"startall", NULL>>
    BY DEF AboutProcess, ProcmanMsg
  <2>2. /\ Len(toProcman') = Len(toProcman) + 1 /\ toProcman'[Len(toProcman) + 1] = m
        /\ \A k \in 1 .. Len(toProcman) : toProcman'[k] = toProcman[k]
    BY <1>1, <2>1, AppendProperties
  <2>3. \A k \in 1 .. Len(toProcman') : k \in 1 .. Len(toProcman) \/ k = Len(toProcman) + 1
    BY <1>0, <2>2
  <2> QED BY <1>1, <2>1, <2>2, <2>3 DEF StartedOnce
<1>2. ASSUME toProcman # << >>, toProcman' = Tail(toProcman) PROVE StartedOnce'
  <2>1. /\ Len(toProcman') = Len(toProcman) - 1
        /\ \A k \in 1 .. Len(toProcman') : toProcman'[k] = toProcman[k + 1]
    BY <1>2, HeadTailProperties
  <2>2. \A k \in 1 .. Len(toProcman') : k + 1 \in 1 .. Len(toProcman) /\ k + 1 # 1
    BY <1>0, <2>1
  <2> QED BY <2>1, <2>2 DEF StartedOnce
<1>3. ASSUME toProcman # << >>, Head(toProcman) = <<"startall", NULL>> PROVE has_mod = {}
  <2>1. Head(toProcman) = toProcman[1] /\ 1 \in 1 .. Len(toProcman)
    BY <1>0, <1>3, EmptySeq
  <2> QED BY <1>3, <2>1 DEF StartedOnce
<1> QED BY <1>1, <1>2, <1>3

(* Processes of a module are counted by a number.                          *)
LEMMA InstancesCounted ==
    /\ \A S : IsFiniteSet(S) => \A m : Cardinality(Instances(S, m)) \in Nat
    /\ \A m : Cardinality(Instances(Initial, m)) \in Nat
BY ConfigAssumption, FS_Subset, FS_CardinalityType DEF Instances

(* A process that takes the place of another of its module does not make   *)
(* the module's processes more.                                            *)
LEMMA ReplacedInstance ==
    ASSUME NEW S \in SUBSET Pid, IsFiniteSet(S), NEW p \in S, NEW q \in Pid,
           Module[q] = Module[p], NEW m
    PROVE  /\ IsFiniteSet((S \ {p}) \cup {q})
           /\ Cardinality(Instances((S \ {p}) \cup {q}, m)) <= Cardinality(Instances(S, m))
<1> DEFINE I == Instances(S, m)
<1>1. IsFiniteSet(I) /\ IsFiniteSet(S \ {p})
  BY FS_Subset DEF Instances
<1>2. IsFiniteSet((S \ {p}) \cup {q})
  BY <1>1, FS_AddElement
<1>3. CASE Module[p] = m
  <2>1. p \in I /\ Instances((S \ {p}) \cup {q}, m) = (I \ {p}) \cup {q}
    BY <1>3 DEF Instances
  <2> HIDE DEF I
  <2>2. IsFiniteSet(I \ {p}) /\ Cardinality(I \ {p}) = Cardinality(I) - 1
    BY <1>1, <2>1, FS_RemoveElement
  <2>3. /\ Cardinality((I \ {p}) \cup {q}) = Cardinality(I \ {p})
           \/ Cardinality((I \ {p}) \cup {q}) = Cardinality(I \ {p}) + 1
    BY <2>2, FS_AddElement
  <2>4. Cardinality(I) \in Nat
    BY <1>1, FS_CardinalityType
  <2>5. Cardinality((I \ {p}) \cup {q}) <= Cardinality(I)
    BY <2>2, <2>3, <2>4
  <2> QED BY <1>2, <2>1, <2>5 DEF I
<1>4. CASE Module[p] # m
  <2>1. Instances((S \ {p}) \cup {q}, m) = I
    BY <1>4 DEF Instances
  <2>2. Cardinality(I) \in Nat
    BY <1>1, FS_CardinalityType
  <2> QED BY <1>2, <2>1, <2>2
<1> QED BY <1>3, <1>4

(* Procman knows fewer processes when it forgets one.                      *)
LEMMA FewerInstances ==
    ASSUME NEW S, NEW T \in SUBSET S, IsFiniteSet(S), NEW m
    PROVE  /\ IsFiniteSet(T)
           /\ Cardinality(Instances(T, m)) <= Cardinality(Instances(S, m))
<1>1. IsFiniteSet(T) /\ IsFiniteSet(Instances(S, m))
  BY FS_Subset DEF Instances
<1>2. Instances(T, m) \subseteq Instances(S, m)
  BY DEF Instances
<1> QED BY <1>1, <1>2, FS_Subset

(* procman forks once per configured module, and later only to replace.    *)
LEMMA ProcmanInstances ==
    ASSUME TypeOK, InstanceInv, ProcmanStep
    PROVE  InstanceInv'
<1>0. /\ toProcman \in Seq(ProcmanMsg) /\ has_mod \subseteq procs /\ procs \subseteq Pid
      /\ StartedOnce /\ ForkedKnown /\ IsFiniteSet(has_mod)
      /\ \A m \in ModuleName :
           Cardinality(Instances(has_mod, m)) <= Cardinality(Instances(Initial, m))
  BY DEF TypeOK, SharedTypeOK, ProcmanTypeOK, InstanceInv, KnownInstances
<1>1. ASSUME NEW cmd, NEW p, Command(cmd, p) PROVE StartedOnce'
  BY <1>0, <1>1, StartedOnceFacts DEF Command
<1>2. ASSUME UNCHANGED has_mod, running' \subseteq running PROVE ForkedKnown' /\ KnownInstances'
  BY <1>0, <1>2 DEF ForkedKnown, KnownInstances, Instances
<1>3. CASE StartAll
  <2>1. has_mod' = Initial /\ running' = running \cup Initial /\ has_mod = {}
    BY <1>0, <1>3, StartedOnceFacts DEF StartAll, StartModules, Command
  <2>2. ForkedKnown'
    BY <1>0, <2>1 DEF ForkedKnown
  <2>3. KnownInstances'
    <3>1. IsFiniteSet(Initial)
      BY ConfigAssumption
    <3> QED BY <2>1, <3>1, InstancesCounted DEF KnownInstances, Instances
  <2> QED BY <1>1, <1>3, <2>2, <2>3 DEF StartAll, InstanceInv
<1>4. ASSUME NEW p \in Pid, CheckPid(p) \/ RegisterPid(p) PROVE InstanceInv'
  <2>1. UNCHANGED <<has_mod, running>> /\ StartedOnce'
    BY <1>1, <1>4 DEF CheckPid, RegisterPid
  <2> QED BY <1>2, <2>1 DEF InstanceInv
<1>5. ASSUME NEW p \in Pid, Restart(p) PROVE InstanceInv'
  <2>1. StartedOnce'
    BY <1>1, <1>5 DEF Restart
  <2>2. CASE p \notin procs
    BY <1>2, <1>5, <2>1, <2>2 DEF Restart, procmanVars, InstanceInv
  <2>3. CASE p \in procs /\ Fork(p, {})
    <3>1. has_mod' = has_mod \ {p} /\ running' = running \ {p}
      BY <2>3 DEF Fork
    <3>2. KnownInstances'
      <4>1. ASSUME NEW m \in ModuleName
            PROVE  Cardinality(Instances(has_mod \ {p}, m)) <= Cardinality(Instances(Initial, m))
        <5>1. /\ IsFiniteSet(has_mod \ {p})
              /\ Cardinality(Instances(has_mod \ {p}, m)) <= Cardinality(Instances(has_mod, m))
          BY <1>0, FewerInstances
        <5> QED BY <1>0, <5>1, InstancesCounted
      <4>2. IsFiniteSet(has_mod \ {p})
        BY <1>0, FS_Subset
      <4> QED BY <3>1, <4>1, <4>2 DEF KnownInstances, Instances
    <3> QED BY <1>0, <2>1, <3>1, <3>2 DEF ForkedKnown, InstanceInv
  <2>4. ASSUME NEW q \in Spare(p), Fork(p, {q}) PROVE InstanceInv'
    <3>1. p \in has_mod /\ q \in Pid /\ Module[q] = Module[p]
      BY DEF Spare
    <3>2. has_mod' = (has_mod \ {p}) \cup {q} /\ running' = (running \ {p}) \cup {q}
      BY <2>4 DEF Fork
    <3>3. KnownInstances'
      <4>1. IsFiniteSet((has_mod \ {p}) \cup {q})
        BY <1>0, <3>1, ReplacedInstance
      <4>2. ASSUME NEW m \in ModuleName
            PROVE  Cardinality(Instances((has_mod \ {p}) \cup {q}, m))
                     <= Cardinality(Instances(Initial, m))
        <5>1. Cardinality(Instances((has_mod \ {p}) \cup {q}, m))
                <= Cardinality(Instances(has_mod, m))
          BY <1>0, <3>1, ReplacedInstance
        <5> QED BY <1>0, <3>1, <4>1, <5>1, InstancesCounted
      <4> QED BY <3>2, <4>1, <4>2 DEF KnownInstances, Instances
    <3> QED BY <1>0, <2>1, <3>2, <3>3 DEF ForkedKnown, InstanceInv
  <2> QED BY <1>5, <2>2, <2>3, <2>4 DEF Restart
<1>6. ASSUME NEW p \in Pid, StartTimeout(p) PROVE InstanceInv'
  <2>1. has_mod' = has_mod \ {p} /\ running' = running \ {p} /\ UNCHANGED toProcman
    BY <1>6 DEF StartTimeout, ForgetProc, Watched
  <2>2. StartedOnce' /\ ForkedKnown'
    BY <1>0, <2>1 DEF StartedOnce, ForkedKnown
  <2>3. ASSUME NEW m \in ModuleName
        PROVE  Cardinality(Instances(has_mod \ {p}, m)) <= Cardinality(Instances(Initial, m))
    <3>1. /\ IsFiniteSet(has_mod \ {p})
          /\ Cardinality(Instances(has_mod \ {p}, m)) <= Cardinality(Instances(has_mod, m))
      BY <1>0, FewerInstances
    <3> QED BY <1>0, <3>1, InstancesCounted
  <2>4. IsFiniteSet(has_mod \ {p})
    BY <1>0, FS_Subset
  <2> QED BY <2>1, <2>2, <2>3, <2>4 DEF KnownInstances, Instances, InstanceInv
<1>7. ASSUME NEW p \in Pid, NotRunning(p) \/ MaxMem(p) PROVE InstanceInv'
  <2>1. UNCHANGED <<has_mod, running, toProcman>>
    BY <1>7 DEF NotRunning, MaxMem, Watched, procmanVars
  <2> QED BY <1>0, <1>2, <2>1 DEF StartedOnce, InstanceInv
<1> QED
  BY <1>3, <1>4, <1>5, <1>6, <1>7 DEF ProcmanStep, ProcmanNext, s_main_event, checkpid_event

(* Every step of the daemon and of the processes keeps InstanceInv.        *)
LEMMA InstanceInvStep ==
    ASSUME TypeOK, InstanceInv, [Next]_vars
    PROVE  InstanceInv'
<1>0. toProcman \in Seq(ProcmanMsg) /\ StartedOnce /\ ForkedKnown
  BY DEF TypeOK, SharedTypeOK, InstanceInv
<1>1. ASSUME UNCHANGED has_mod, running' \subseteq running, StartedOnce' PROVE InstanceInv'
  BY <1>1 DEF InstanceInv, ForkedKnown, KnownInstances, Instances
<1>2. CASE FabricStep
  <2>1. StartedOnce'
    BY <1>0, <1>2, FabricSends, StartedOnceFacts DEF StartedOnce
  <2> QED BY <1>1, <1>2, <2>1, FabricSends
<1>3. CASE ProcessStep
  BY <1>0, <1>1, <1>3 DEF ProcessStep, ProcessDies, procmanVars, StartedOnce
<1>4. CASE UNCHANGED vars
  BY <1>0, <1>1, <1>4 DEF vars, sharedVars, procmanVars, StartedOnce
<1> QED BY <1>2, <1>3, <1>4, ProcmanInstances DEF Next

(* However often modules die, are killed for their memory or for a call    *)
(* that took too long, and are forked anew, procman never runs more        *)
(* processes of a module than start_count: the restart kills before it     *)
(* forks, and a process it has forgotten is not restarted.                 *)
THEOREM InstancesLimited == Spec => []NoExtraInstance
<1>1. Init => InstanceInv
  <2> SUFFICES ASSUME Init PROVE InstanceInv
    OBVIOUS
  <2>1. StartedOnce /\ ForkedKnown
    BY DEF Init, SharedInit, ProcmanInit, StartedOnce, ForkedKnown
  <2>2. KnownInstances
    <3>1. has_mod = {} /\ \A m : Instances(has_mod, m) = {}
      BY DEF Init, ProcmanInit, Instances
    <3>2. IsFiniteSet({}) /\ Cardinality({}) = 0
      BY FS_EmptySet
    <3> QED BY <3>1, <3>2, InstancesCounted DEF KnownInstances
  <2> QED BY <2>1, <2>2 DEF InstanceInv
<1>2. TypeOK /\ InstanceInv /\ [Next]_vars => InstanceInv'
  BY InstanceInvStep
<1>3. InstanceInv => NoExtraInstance
  <2> SUFFICES ASSUME InstanceInv, NEW m \in ModuleName
               PROVE  Cardinality(Instances(running \ External, m))
                        <= Cardinality(Instances(Initial, m))
    BY DEF NoExtraInstance, Instances
  <2>1. running \ External \subseteq has_mod /\ IsFiniteSet(has_mod)
    BY DEF InstanceInv, ForkedKnown, KnownInstances
  <2>2. /\ Cardinality(Instances(running \ External, m)) <= Cardinality(Instances(has_mod, m))
        /\ IsFiniteSet(running \ External)
    BY <2>1, FewerInstances
  <2>3. Cardinality(Instances(has_mod, m)) <= Cardinality(Instances(Initial, m))
    BY DEF InstanceInv, KnownInstances
  <2> QED BY <2>1, <2>2, <2>3, InstancesCounted
<1> QED BY <1>1, <1>2, <1>3, TypeCorrect, PTL DEF Spec

=============================================================================
