--------------------------- MODULE RoutingProofs ----------------------------
(***************************************************************************)
(* The routing of calls to modules is safe in every deployment: the module *)
(* a queued call points at is registered and BUSY with that call alone,    *)
(* whatever the timeouts, deaths and restarts of processes.  The argument  *)
(* is the inductive invariant RouteInv of module ModBusd: a module on its  *)
(* way out (Going) is never given a call, because it is not IDLE, and is   *)
(* only sent on its way when it has none.  With it goes HeldInv: a BUSY    *)
(* module works for a queued call, and a queued call is with the module or *)
(* the fabric that works for it.                                           *)
(***************************************************************************)
EXTENDS ModBusdProofs

(* Reading and writing a pipe.                                             *)
LEMMA PendingFacts ==
    ASSUME NEW S, NEW pipe \in Seq(S)
    PROVE  /\ \A m \in S : \A x : Pending(Append(pipe, m), x) => Pending(pipe, x) \/ x = m
           /\ pipe # << >> => Pending(pipe, Head(pipe))
           /\ pipe # << >> => \A x : Pending(Tail(pipe), x) => Pending(pipe, x)
<1>1. ASSUME NEW m \in S, NEW x, Pending(Append(pipe, m), x)
      PROVE  Pending(pipe, x) \/ x = m
  <2>1. PICK k \in 1 .. Len(Append(pipe, m)) : Append(pipe, m)[k] = x
    BY <1>1 DEF Pending
  <2>2. Len(Append(pipe, m)) = Len(pipe) + 1 /\ Len(pipe) \in Nat
    BY AppendProperties, LenProperties
  <2>3. CASE k \in 1 .. Len(pipe)
    BY <2>1, <2>3, AppendProperties DEF Pending
  <2>4. CASE k = Len(pipe) + 1
    BY <2>1, <2>4, AppendProperties
  <2> QED BY <2>1, <2>2, <2>3, <2>4
<1>2. ASSUME pipe # << >> PROVE Pending(pipe, Head(pipe))
  <2>1. Len(pipe) \in Nat \ {0}
    BY <1>2, EmptySeq
  <2> QED BY <2>1 DEF Pending
<1>3. ASSUME pipe # << >>, NEW x, Pending(Tail(pipe), x) PROVE Pending(pipe, x)
  <2>1. PICK k \in 1 .. Len(Tail(pipe)) : Tail(pipe)[k] = x
    BY <1>3 DEF Pending
  <2>2. Len(Tail(pipe)) = Len(pipe) - 1 /\ Len(pipe) \in Nat
    BY <1>3, HeadTailProperties, LenProperties
  <2>3. pipe[k + 1] = x
    BY <1>3, <2>1, HeadTailProperties
  <2>4. k + 1 \in 1 .. Len(pipe)
    BY <2>1, <2>2
  <2> QED BY <2>3, <2>4 DEF Pending
<1> QED BY <1>1, <1>2, <1>3

(* Nobody is sent on its way while the pipes are left alone.               *)
LEMMA QuietPipes ==
    ASSUME UNCHANGED <<toProcman, toFabric>>
    PROVE  \A p \in Pid : Going(p)' => Going(p)
BY DEF Going, Pending

(* "restart p" sends p on its way and nobody else, any other message sends *)
(* nobody.                                                                 *)
LEMMA OnlyRestart ==
    ASSUME toProcman \in Seq(ProcmanMsg), NEW p \in Pid,
           toProcman' = Append(toProcman, <<"restart", p>>), UNCHANGED toFabric
    PROVE  \A q \in Pid : Going(q)' => Going(q) \/ q = p
<1>1. <<"restart", p>> \in ProcmanMsg /\ \A q : <<"restart", q>> = <<"restart", p>> => q = p
  BY MessageTypes
<1>2. \A x : Pending(toProcman', x) => Pending(toProcman, x) \/ x = <<"restart", p>>
  BY <1>1, PendingFacts
<1>3. \A x : Pending(toFabric', x) => Pending(toFabric, x)
  BY DEF Pending
<1> QED BY <1>1, <1>2, <1>3 DEF Going

(* See OnlyRestart.                                                        *)
LEMMA OtherMessage ==
    ASSUME toProcman \in Seq(ProcmanMsg), NEW m \in ProcmanMsg, \A q : m # <<"restart", q>>,
           toProcman' = Append(toProcman, m), UNCHANGED toFabric
    PROVE  \A q \in Pid : Going(q)' => Going(q)
<1>1. \A x : Pending(toProcman', x) => Pending(toProcman, x) \/ x = m
  BY PendingFacts
<1>2. \A x : Pending(toFabric', x) => Pending(toFabric, x)
  BY DEF Pending
<1> QED BY <1>1, <1>2 DEF Going

(* Steps that only take calls out of the queue, or work away from modules. *)
LEMMA ShrinkInv ==
    ASSUME RouteInv,
           queue' \subseteq queue,
           \A b \in queue' : routed_via'[b] = routed_via[b],
           \A p \in Pid : work'[p] \subseteq work[p],
           \A b \in Call : in_timestamp'[b] = 0 => in_timestamp[b] = 0,
           UNCHANGED <<modules, state, introduced, introducing>>,
           \A p \in Pid : Going(p)' => Going(p)
    PROVE  RouteInv'
<1> USE DEF RouteInv
<1>1. RouteHeld'
  BY DEF RouteHeld
<1>2. OneCallPerModule'
  BY DEF OneCallPerModule
<1>3. WorkRouted'
  BY DEF WorkRouted
<1>4. GoingNotIdle'
  BY DEF GoingNotIdle
<1>5. IntroducedOnce'
  BY DEF IntroducedOnce
<1>6. ArrivedFirst'
  BY DEF ArrivedFirst
<1> QED BY <1>1, <1>2, <1>3, <1>4, <1>5, <1>6

(* Nothing procman does sends a module on its way: a restart it carries    *)
(* out had been asked for.                                                 *)
LEMMA ProcmanStepInv ==
    ASSUME TypeOK, RouteInv, ProcmanStep
    PROVE  RouteInv'
<1>1. UNCHANGED <<queue, routed_via, work, in_timestamp, modules, state, introduced, introducing>>
  BY DEF ProcmanStep, fabricVars, moduleVars, callVars, introVars
<1>2. toProcman \in Seq(ProcmanMsg) /\ toFabric \in Seq(FabricMsg)
  BY DEF TypeOK, SharedTypeOK
<1>3. ASSUME NEW cmd, NEW p, Command(cmd, p)
      PROVE  /\ Pending(toProcman, <<cmd, p>>)
             /\ \A x : Pending(toProcman', x) => Pending(toProcman, x)
  BY <1>2, <1>3, PendingFacts DEF Command
<1>4. ASSUME NEW m \in FabricMsg, toFabric' = Append(toFabric, m)
      PROVE  \A x : Pending(toFabric', x) => Pending(toFabric, x) \/ x = m
  BY <1>2, <1>4, PendingFacts
<1>5. \A p \in Pid : Going(p)' => Going(p)
  <2>1. CASE StartAll
    BY <1>3, <2>1 DEF StartAll, StartModules, Going, Pending
  <2>2. ASSUME NEW q \in Pid, CheckPid(q) PROVE \A p \in Pid : Going(p)' => Going(p)
    <3> DEFINE m == <<"check_pid", IF q \in procs THEN "yes" ELSE "no">>
    <3>1. m \in FabricMsg /\ \A p \in Pid : m # <<"remove", p>>
      BY MessageTypes
    <3>2. toFabric' = Append(toFabric, m) /\ Command("check_pid", q)
      BY <2>2 DEF CheckPid
    <3> HIDE DEF m
    <3> QED BY <1>3, <1>4, <3>1, <3>2 DEF Going
  <2>3. ASSUME NEW q \in Pid, RegisterPid(q) PROVE \A p \in Pid : Going(p)' => Going(p)
    BY <1>3, <2>3 DEF RegisterPid, Going, Pending
  <2>4. ASSUME NEW q \in Pid, Restart(q) PROVE \A p \in Pid : Going(p)' => Going(p)
    <3>1. Command("restart", q)
      BY <2>4 DEF Restart
    <3>2. CASE q \in procs
      <4>1. toFabric' = Append(toFabric, <<"remove", q>>) /\ <<"remove", q>> \in FabricMsg
        BY <2>4, <3>2, MessageTypes DEF Restart
      <4>2. \A p : <<"remove", p>> = <<"remove", q>> => p = q
        OBVIOUS
      <4> QED BY <1>3, <1>4, <3>1, <4>1, <4>2 DEF Going
    <3>3. CASE q \notin procs
      BY <1>3, <2>4, <3>1, <3>3 DEF Restart, Going, Pending
    <3> QED BY <3>2, <3>3
  <2>5. ASSUME NEW q \in Pid, StartTimeout(q) PROVE \A p \in Pid : Going(p)' => Going(p)
    BY <2>5, QuietPipes DEF StartTimeout, Watched
  <2>6. ASSUME NEW q \in Pid, NotRunning(q) \/ MaxMem(q) PROVE \A p \in Pid : Going(p)' => Going(p)
    <3>1. /\ toFabric' = Append(toFabric, <<"restart", q>>) /\ <<"restart", q>> \in FabricMsg
          /\ UNCHANGED toProcman
      BY <2>6, MessageTypes DEF NotRunning, MaxMem, Watched
    <3>2. \A p : <<"remove", p>> # <<"restart", q>>
      OBVIOUS
    <3>3. \A x : Pending(toProcman', x) => Pending(toProcman, x)
      BY <3>1 DEF Pending
    <3> QED BY <1>4, <3>1, <3>2, <3>3 DEF Going
  <2> QED BY <2>1, <2>2, <2>3, <2>4, <2>5, <2>6 DEF ProcmanStep, ProcmanNext, s_main_event, checkpid_event
<1> QED BY <1>1, <1>5, ShrinkInv

-----------------------------------------------------------------------------
(* The handlers that route nothing: answers that come late or from a       *)
(* fabric, the traffic with other fabrics, and calls that time out before  *)
(* a module has them.                                                      *)
LEMMA QuietHandlersInv ==
    ASSUME TypeOK, RouteInv,
           \/ \E a \in Call : CallRefused(a) \/ CallCrashes(a) \/ QueueTimeout(a)
           \/ \E p \in Pid, a \in Call : AnswerLate(p, a)
           \/ \E f \in Fab, a \in Call : RemoteAnswer(f, a) \/ RemoteBusy(f, a)
           \/ \E f \in Fab :
                \/ \E list \in SUBSET Offers[f] : IfaceListResult(f, list)
                \/ processReq_IfaceList(f) \/ s_beacon_event(f) \/ getIfaceList_event(f)
    PROVE  RouteInv'
<1> USE DEF TypeOK, FabricTypeOK, callVars, moduleVars, introVars, sharedVars
<1>1. ASSUME NEW a \in Call, CallRefused(a) \/ CallCrashes(a) PROVE RouteInv'
  <2>1. UNCHANGED <<queue, routed_via, work, modules, state, introVars, toProcman, toFabric>>
    BY <1>1 DEF CallRefused, CallCrashes, Arrives
  <2>2. in_timestamp' = [in_timestamp EXCEPT ![a] =
                           Cardinality({b \in Call : in_timestamp[b] # 0}) + 1]
        /\ in_timestamp[a] = 0
    BY <1>1 DEF CallRefused, CallCrashes, Arrives
  <2>3. \A b \in Call : in_timestamp'[b] = 0 => in_timestamp[b] = 0
    BY <2>2
  <2> QED BY <2>1, <2>3, QuietPipes, ShrinkInv
<1>2. ASSUME NEW a \in Call, QueueTimeout(a) PROVE RouteInv'
  <2>1. /\ queue' = queue \ {a} /\ routed_via' = Forget(routed_via, a)
        /\ UNCHANGED <<work, modules, state, introVars, in_timestamp, toProcman, toFabric>>
    BY <1>2 DEF QueueTimeout, Dequeue
  <2>2. \A b \in queue' : routed_via'[b] = routed_via[b]
    BY <2>1 DEF Forget
  <2> QED BY <2>1, <2>2, QuietPipes, ShrinkInv
<1>3. ASSUME NEW p \in Pid, NEW a \in Call, AnswerLate(p, a) PROVE RouteInv'
  <2>1. /\ work' = [work EXCEPT ![p] = @ \ {a}]
        /\ UNCHANGED <<queue, routed_via, modules, state, introVars, in_timestamp, toProcman, toFabric>>
    BY <1>3 DEF AnswerLate
  <2>2. \A q \in Pid : work'[q] \subseteq work[q]
    BY <2>1
  <2> QED BY <2>1, <2>2, QuietPipes, ShrinkInv
<1>4. ASSUME NEW f \in Fab, NEW a \in Call, RemoteAnswer(f, a) PROVE RouteInv'
  <2>1. UNCHANGED <<work, modules, state, introVars, in_timestamp, toProcman, toFabric>>
    BY <1>4 DEF RemoteAnswer
  <2>2. \/ queue' = queue \ {a} /\ routed_via' = Forget(routed_via, a)
        \/ UNCHANGED <<queue, routed_via>>
    BY <1>4 DEF RemoteAnswer
  <2>3. queue' \subseteq queue /\ \A b \in queue' : routed_via'[b] = routed_via[b]
    BY <2>2 DEF Forget
  <2> QED BY <2>1, <2>3, QuietPipes, ShrinkInv
<1>5. ASSUME UNCHANGED <<queue, routed_via, work, modules, state, introVars, in_timestamp,
                         toProcman, toFabric>>
      PROVE  RouteInv'
  BY <1>5, QuietPipes, ShrinkInv
<1>6. ASSUME NEW f \in Fab, NEW a \in Call, RemoteBusy(f, a) PROVE RouteInv'
  BY <1>5, <1>6 DEF RemoteBusy
<1>7. ASSUME NEW f \in Fab,
             \/ \E list \in SUBSET Offers[f] : IfaceListResult(f, list)
             \/ processReq_IfaceList(f) \/ s_beacon_event(f) \/ getIfaceList_event(f)
      PROVE  RouteInv'
  <2>1. UNCHANGED <<queue, routed_via, work, modules, state, introVars, in_timestamp,
                    toProcman, toFabric>>
    BY <1>7 DEF IfaceListResult, processReq_IfaceList, s_beacon_event, getIfaceList_event
  <2> QED BY <1>5, <2>1
<1> QED BY <1>1, <1>2, <1>3, <1>4, <1>6, <1>7

(* The rank a call is given on arrival is a number.                        *)
LEMMA ArrivedCount == Cardinality({b \in Call : in_timestamp[b] # 0}) \in Nat
BY FS_Subset, FS_CardinalityType, ConfigAssumption

(* A call that arrives is given to an IDLE module, sent to a fabric, or    *)
(* waits; no module has it yet.                                            *)
LEMMA CallInv ==
    ASSUME TypeOK, RouteInv, NEW a \in Call,
           CallRoutedLocally(a) \/ CallRoutedGlobally(a) \/ CallWaits(a)
    PROVE  RouteInv'
<1> USE DEF TypeOK, FabricTypeOK, RouteInv
<1>1. Arrives(a) /\ Candidates(a) # {} /\ FabricTypeOK
  BY DEF CallRoutedLocally, CallRoutedGlobally, CallWaits
<1>2. /\ queue' = queue \cup {a}
      /\ UNCHANGED <<modules, introduced, introducing, toProcman, toFabric>>
  BY <1>1 DEF CallRoutedLocally, CallRoutedGlobally, CallWaits, Enqueue, Arrives, introVars
<1>3. /\ a \notin queue
      /\ \A p \in Pid : a \notin work[p]
      /\ \A b \in Call : in_timestamp'[b] = 0 => in_timestamp[b] = 0 /\ b # a
  <2>1. /\ in_timestamp[a] = 0
        /\ in_timestamp' = [in_timestamp EXCEPT ![a] =
                              Cardinality({b \in Call : in_timestamp[b] # 0}) + 1]
    BY <1>1 DEF Arrives
  <2>2. Cardinality({b \in Call : in_timestamp[b] # 0}) \in Nat
    BY ArrivedCount
  <2>3. in_timestamp'[a] # 0 /\ \A b \in Call \ {a} : in_timestamp'[b] = in_timestamp[b]
    BY <2>1, <2>2
  <2> QED BY <2>1, <2>3 DEF ArrivedFirst
<1>4. \A p \in Pid : Going(p)' => Going(p)
  BY <1>2, QuietPipes
<1>5. IntroducedOnce'
  BY <1>2 DEF IntroducedOnce
<1>6. CASE CallRoutedGlobally(a) \/ CallWaits(a)
  <2>1. PICK via \in Fab \cup {NULL} : routed_via' = [routed_via EXCEPT ![a] = via]
    BY <1>1, <1>6, ChosenFacts, NextGlobalType DEF CallRoutedGlobally, CallWaits, Enqueue
  <2>2. routed_via'[a] \notin Pid /\ \A b \in queue : routed_via'[b] = routed_via[b]
    <3>0. Pid \cap Fab = {} /\ NULL \notin Pid
      BY IdentityAssumption
    <3>1. via \notin Pid /\ routed_via'[a] = via
      BY <2>1, <3>0
    <3>2. \A b \in queue : routed_via'[b] = routed_via[b]
      BY <1>3, <2>1
    <3> QED BY <3>1, <3>2
  <2>3. UNCHANGED <<state, work>>
    BY <1>6 DEF CallRoutedGlobally, CallWaits
  <2>4. RouteHeld'
    BY <1>2, <1>4, <2>2, <2>3 DEF RouteHeld
  <2>5. OneCallPerModule'
    BY <1>2, <2>2 DEF OneCallPerModule
  <2>6. WorkRouted' /\ ArrivedFirst'
    BY <1>2, <1>3, <2>2, <2>3 DEF WorkRouted, ArrivedFirst
  <2>7. GoingNotIdle'
    BY <1>2, <1>4, <2>3 DEF GoingNotIdle
  <2> QED BY <1>5, <2>4, <2>5, <2>6, <2>7
<1>7. CASE CallRoutedLocally(a)
  <2> DEFINE p == FirstLocal(Chosen(a))
  <2>1. /\ p \in Pid /\ p \in modules /\ state[p] = "IDLE"
        /\ routed_via' = [routed_via EXCEPT ![a] = p]
        /\ state' = [state EXCEPT ![p] = "BUSY"]
        /\ work' = [work EXCEPT ![p] = @ \cup Delivered(p, {a})]
    BY <1>1, <1>7, FirstLocalType DEF CallRoutedLocally, Enqueue, Idle
  <2> HIDE DEF p
  <2>2. routed_via'[a] = p /\ \A b \in queue : routed_via'[b] = routed_via[b]
    BY <1>3, <2>1
  <2>3. state'[p] = "BUSY" /\ \A q \in Pid \ {p} : state'[q] = state[q]
    BY <2>1
  <2>4. \A q \in Pid : work'[q] \subseteq work[q] \cup {a} /\ (q # p => work'[q] = work[q])
    BY <2>1 DEF Delivered
  <2>5. ~ Going(p)
    BY <2>1 DEF GoingNotIdle
  <2>6. \A b \in queue : routed_via[b] # p
    BY <2>1 DEF RouteHeld
  <2>7. RouteHeld'
    BY <1>2, <1>4, <2>1, <2>2, <2>3, <2>5 DEF RouteHeld
  <2>8. OneCallPerModule'
    BY <1>2, <2>2, <2>6 DEF OneCallPerModule
  <2>9. WorkRouted' /\ ArrivedFirst'
    BY <1>2, <1>3, <2>2, <2>4 DEF WorkRouted, ArrivedFirst
  <2>10. GoingNotIdle'
    BY <1>2, <1>4, <2>3, <2>5 DEF GoingNotIdle
  <2> QED BY <1>5, <2>7, <2>8, <2>9, <2>10
<1> QED BY <1>6, <1>7

(* zhash_foreach(queue, placeCall) once module p has answered call a: p is *)
(* not on its way out, and the calls that are placed go to modules that    *)
(* are IDLE, one each.                                                     *)
LEMMA PlaceWaitingInv ==
    ASSUME TypeOK, RouteInv, NEW p \in Pid, NEW a \in work[p] \cap queue,
           PlaceWaiting(queue \ {a}, [state EXCEPT ![p] = "IDLE"], [work EXCEPT ![p] = @ \ {a}]),
           queue' = queue \ {a},
           UNCHANGED <<modules, introduced, introducing, in_timestamp, toProcman, toFabric>>
    PROVE  RouteInv'
<1> DEFINE S == [state EXCEPT ![p] = "IDLE"]
           W == [work EXCEPT ![p] = @ \ {a}]
           R == [b \in Call |-> IF b \in queue \ {a} THEN routed_via[b] ELSE NULL]
           waiting == {b \in queue \ {a} : routed_via[b] = NULL /\ HasLocals(iface[b])}
           ready == {b \in waiting : S[FirstLocal(iface[b])] = "IDLE"}
<1>0. /\ FabricTypeOK /\ queue \subseteq Call /\ NULL \notin Pid
      /\ RouteHeld /\ OneCallPerModule /\ WorkRouted /\ GoingNotIdle /\ IntroducedOnce /\ ArrivedFirst
  BY IdentityAssumption DEF TypeOK, FabricTypeOK, RouteInv
<1>1. routed_via[a] = p /\ p \in modules /\ ~ Going(p)
  BY <1>0 DEF WorkRouted, RouteHeld
<1>2. \A q \in Pid : Going(q)' => Going(q)
  BY QuietPipes
<1>3. S[p] = "IDLE" /\ \A q \in Pid \ {p} : S[q] = state[q]
  BY <1>0 DEF FabricTypeOK
<1>4. \A q \in Pid : W[q] \subseteq work[q]
  BY <1>0 DEF FabricTypeOK
<1>5. \A b \in queue \ {a} : R[b] = routed_via[b]
  BY <1>0
<1>6. \A b \in queue \ {a} : routed_via[b] \in Pid =>
        routed_via[b] # p /\ S[routed_via[b]] = "BUSY" /\ routed_via[b] \in modules /\ ~ Going(routed_via[b])
  BY <1>0, <1>1, <1>3 DEF RouteHeld, OneCallPerModule
<1>7. \A q \in modules : S[q] = "IDLE" => ~ Going(q)
  BY <1>0, <1>1, <1>3 DEF GoingNotIdle, FabricTypeOK
<1>8. IntroducedOnce'
  BY <1>0 DEF IntroducedOnce
<1>9. CASE state' = S /\ work' = W /\ routed_via' = R
  <2> HIDE DEF S, W, R
  <2>1. RouteHeld'
    BY <1>2, <1>5, <1>6, <1>9 DEF RouteHeld
  <2>2. OneCallPerModule'
    BY <1>0, <1>5, <1>9 DEF OneCallPerModule
  <2>3. WorkRouted' /\ ArrivedFirst'
    BY <1>0, <1>4, <1>5, <1>9 DEF WorkRouted, ArrivedFirst
  <2>4. GoingNotIdle'
    BY <1>0, <1>2, <1>7, <1>9 DEF GoingNotIdle
  <2> QED BY <1>8, <2>1, <2>2, <2>3, <2>4 DEF RouteInv
<1>10. ASSUME NEW placed \in SUBSET ready,
              \A b \in waiting : ~ PlacementCrashes(iface[b]),
              \A b, c \in placed : FirstLocal(iface[b]) = FirstLocal(iface[c]) => b = c,
              routed_via' = [b \in Call |-> IF b \in placed THEN FirstLocal(iface[b]) ELSE R[b]],
              state' = [q \in Pid |-> IF \E b \in placed : FirstLocal(iface[b]) = q
                                      THEN "BUSY" ELSE S[q]],
              work' = [q \in Pid |-> W[q] \cup
                         Delivered(q, {b \in placed : FirstLocal(iface[b]) = q})]
       PROVE  RouteInv'
  <2>1. \A b \in placed :
          /\ b \in queue \ {a} /\ routed_via[b] = NULL
          /\ FirstLocal(iface[b]) \in Pid \cap modules
          /\ S[FirstLocal(iface[b])] = "IDLE"
    <3>1. \A b \in placed : /\ b \in queue \ {a} /\ routed_via[b] = NULL /\ HasLocals(iface[b])
                            /\ S[FirstLocal(iface[b])] = "IDLE" /\ b \in waiting
      OBVIOUS
    <3>2. \A b \in placed : FirstLocal(iface[b]) \in modules
      BY <1>10, <3>1 DEF PlacementCrashes
    <3> QED BY <1>0, <3>1, <3>2, FirstLocalType
  <2> HIDE DEF S, W, R, waiting, ready
  <2>2. \A b \in placed : routed_via'[b] = FirstLocal(iface[b]) /\ state'[FirstLocal(iface[b])] = "BUSY"
    BY <1>0, <1>10, <2>1
  <2>3. \A b \in queue' \ placed : routed_via'[b] = routed_via[b]
    BY <1>0, <1>5, <1>10
  <2>4. \A q \in Pid : S[q] = "BUSY" => state'[q] = "BUSY"
    BY <1>10
  <2>5. \A q \in Pid : state'[q] = "IDLE" => S[q] = "IDLE"
    BY <1>10
  <2>6. \A q \in Pid : \A b \in work'[q] : b \in work[q] \/ (b \in placed /\ FirstLocal(iface[b]) = q)
    <3> SUFFICES ASSUME NEW q \in Pid, NEW b \in work'[q]
                 PROVE  b \in work[q] \/ (b \in placed /\ FirstLocal(iface[b]) = q)
      OBVIOUS
    <3> DEFINE sent == {c \in placed : FirstLocal(iface[c]) = q}
    <3>1. b \in W[q] \cup Delivered(q, sent)
      BY <1>10
    <3>2. Delivered(q, sent) \subseteq sent
      BY DEF Delivered
    <3>3. b \in sent => b \in placed /\ FirstLocal(iface[b]) = q
      OBVIOUS
    <3> HIDE DEF sent
    <3> QED BY <1>4, <3>1, <3>2, <3>3
  <2>7. RouteHeld'
    <3>1. ASSUME NEW q \in Pid, NEW b \in placed, routed_via'[b] = q PROVE ~ Going(q)'
      BY <1>2, <1>7, <2>1, <2>2, <3>1
    <3>2. ASSUME NEW b \in placed
          PROVE  routed_via'[b] \in modules' /\ state'[routed_via'[b]] = "BUSY"
      BY <2>1, <2>2
    <3>3. ASSUME NEW q \in Pid, NEW b \in queue' \ placed, routed_via'[b] = q
          PROVE  q \in modules' /\ state'[q] = "BUSY" /\ ~ Going(q)'
      <4>1. routed_via[b] = q /\ b \in queue \ {a}
        BY <2>3, <3>3
      <4> QED BY <1>2, <1>6, <2>4, <4>1
    <3>4. ASSUME NEW q \in Pid, NEW b \in queue', routed_via'[b] = q
          PROVE  q \in modules' /\ state'[q] = "BUSY" /\ ~ Going(q)'
      BY <3>1, <3>2, <3>3, <3>4
    <3> QED BY <3>4 DEF RouteHeld
  <2>8. OneCallPerModule'
    <3>1. ASSUME NEW b \in placed, NEW c \in queue' \ placed, routed_via'[c] \in Pid
          PROVE  routed_via'[b] # routed_via'[c]
      BY <1>6, <2>1, <2>2, <2>3, <3>1
    <3>2. ASSUME NEW b \in queue' \ placed, NEW c \in queue' \ placed, routed_via'[b] \in Pid,
                 routed_via'[b] = routed_via'[c]
          PROVE  b = c
      BY <1>0, <2>3, <3>2 DEF OneCallPerModule
    <3>3. ASSUME NEW b \in placed, NEW c \in placed, routed_via'[b] = routed_via'[c] PROVE b = c
      BY <1>10, <2>2, <3>3
    <3> QED BY <3>1, <3>2, <3>3 DEF OneCallPerModule
  <2>9. WorkRouted' /\ ArrivedFirst'
    <3>1. ASSUME NEW q \in Pid, NEW b \in work'[q], b \in queue' PROVE routed_via'[b] = q
      BY <1>0, <2>1, <2>2, <2>3, <2>6, <3>1 DEF WorkRouted
    <3>2. ASSUME NEW b \in Call, in_timestamp'[b] = 0
          PROVE  b \notin queue' /\ \A q \in Pid : b \notin work'[q]
      BY <1>0, <2>1, <2>6, <3>2 DEF ArrivedFirst
    <3> QED BY <3>1, <3>2 DEF WorkRouted, ArrivedFirst
  <2>10. GoingNotIdle'
    BY <1>0, <1>2, <1>7, <2>5 DEF GoingNotIdle
  <2> QED BY <1>8, <2>7, <2>8, <2>9, <2>10 DEF RouteInv
<1> QED BY <1>9, <1>10 DEF PlaceWaiting

(* An answer comes from the module its call is routed to.  A module that   *)
(* is to be restarted has no other call when procman is told.              *)
LEMMA AnswerInv ==
    ASSUME TypeOK, RouteInv, NEW p \in Pid, NEW a \in Call, NEW kind, Answer(p, a, kind)
    PROVE  RouteInv'
<1>0. /\ FabricTypeOK /\ toProcman \in Seq(ProcmanMsg) /\ a \in work[p] \cap queue
      /\ RouteHeld /\ OneCallPerModule /\ WorkRouted /\ GoingNotIdle /\ IntroducedOnce /\ ArrivedFirst
  BY DEF TypeOK, SharedTypeOK, RouteInv, Answer
<1>1. /\ routed_via[a] = p /\ p \in modules /\ state[p] = "BUSY" /\ p \in introduced
  BY <1>0 DEF WorkRouted, RouteHeld, IntroducedOnce
<1>2. /\ queue' = queue \ {a} /\ introducing = NULL
      /\ UNCHANGED <<modules, introduced, introducing, in_timestamp, toFabric>>
  BY <1>1 DEF Answer, Reacting, introVars
<1>3. CASE ~ need_restart[p]
  <2>1. /\ PlaceWaiting(queue \ {a}, [state EXCEPT ![p] = "IDLE"], [work EXCEPT ![p] = @ \ {a}])
        /\ UNCHANGED toProcman
    BY <1>1, <1>3 DEF Answer
  <2> QED BY <1>0, <1>2, <2>1, PlaceWaitingInv
<1>4. CASE need_restart[p]
  <2>1. /\ toProcman' = Append(toProcman, <<"restart", p>>)
        /\ routed_via' = Forget(routed_via, a)
        /\ work' = [work EXCEPT ![p] = @ \ {a}]
        /\ UNCHANGED state
    BY <1>1, <1>4 DEF Answer
  <2>2. /\ \A b \in queue' : routed_via'[b] = routed_via[b] /\ routed_via[b] # p
        /\ \A q \in Pid : work'[q] \subseteq work[q]
    BY <1>0, <1>1, <1>2, <2>1 DEF FabricTypeOK, Forget, OneCallPerModule
  <2>3. \A q \in Pid : Going(q)' => Going(q) \/ q = p
    BY <1>0, <1>2, <2>1, OnlyRestart
  <2>4. RouteHeld'
    BY <1>0, <1>2, <2>1, <2>2, <2>3 DEF RouteHeld
  <2>5. OneCallPerModule'
    BY <1>0, <1>2, <2>2 DEF OneCallPerModule
  <2>6. WorkRouted' /\ ArrivedFirst'
    BY <1>0, <1>2, <2>2 DEF WorkRouted, ArrivedFirst
  <2>7. GoingNotIdle'
    <3>1. p # introducing
      BY <1>2, IdentityAssumption
    <3> QED BY <1>0, <1>1, <1>2, <2>1, <2>3, <3>1 DEF GoingNotIdle
  <2>8. IntroducedOnce'
    BY <1>0, <1>2 DEF IntroducedOnce
  <2> QED BY <2>4, <2>5, <2>6, <2>7, <2>8 DEF RouteInv
<1> QED BY <1>3, <1>4

(* The process timeout takes the call and its module away together.        *)
LEMMA ProcessTimeoutInv ==
    ASSUME TypeOK, RouteInv, NEW a \in Call, ProcessTimeout(a)
    PROVE  RouteInv'
<1> DEFINE p == routed_via[a]
<1>0. /\ FabricTypeOK /\ toProcman \in Seq(ProcmanMsg) /\ a \in queue /\ p \in Pid
      /\ RouteHeld /\ OneCallPerModule /\ WorkRouted /\ GoingNotIdle /\ IntroducedOnce /\ ArrivedFirst
  BY DEF TypeOK, SharedTypeOK, RouteInv, ProcessTimeout
<1>1. p \in modules /\ p \in introduced /\ LookupModule(p) = {p} /\ p # NULL
  BY <1>0, IdentityAssumption DEF RouteHeld, IntroducedOnce, LookupModule
<1>2. /\ queue' = queue \ {a} /\ introducing = NULL
      /\ routed_via' = Forget(routed_via, a)
      /\ UNCHANGED <<introduced, introducing, in_timestamp, toFabric, work>>
  BY DEF ProcessTimeout, Dequeue, Reacting, introVars
<1>3. \A b \in queue' : routed_via'[b] = routed_via[b] /\ routed_via[b] # p
  BY <1>0, <1>2 DEF FabricTypeOK, Forget, OneCallPerModule
<1>4. CASE debug
  <2>1. UNCHANGED <<toProcman, modules, state>>
    BY <1>1, <1>4 DEF ProcessTimeout, moduleVars
  <2> QED BY <1>0, <1>2, <1>3, <2>1, QuietPipes, ShrinkInv
<1>5. CASE ~ debug
  <2>1. toProcman' = Append(toProcman, <<"restart", p>>) /\ DeleteModule(p)
    BY <1>1, <1>5 DEF ProcessTimeout
  <2>2. \A q \in Pid : Going(q)' => Going(q) \/ q = p
    BY <1>0, <1>2, <2>1, OnlyRestart
  <2>3. modules' = modules \ {p} /\ \A q \in Pid \ {p} : state'[q] = state[q]
    BY <1>0, <2>1 DEF DeleteModule, FabricTypeOK
  <2> HIDE DEF p
  <2>4. RouteHeld'
    BY <1>0, <1>2, <1>3, <2>2, <2>3 DEF RouteHeld
  <2>5. OneCallPerModule'
    BY <1>0, <1>2, <1>3 DEF OneCallPerModule
  <2>6. WorkRouted' /\ ArrivedFirst'
    BY <1>0, <1>2, <1>3 DEF WorkRouted, ArrivedFirst
  <2>7. GoingNotIdle'
    BY <1>0, <1>1, <1>2, <2>2, <2>3 DEF GoingNotIdle
  <2>8. IntroducedOnce'
    BY <1>0, <1>2, <2>3 DEF IntroducedOnce
  <2> QED BY <2>4, <2>5, <2>6, <2>7, <2>8 DEF RouteInv
<1> QED BY <1>4, <1>5

(* Introductions: a module that registers had not been introduced before,  *)
(* so nobody has been told to restart it.                                  *)
LEMMA IntroduceInv ==
    ASSUME TypeOK, RouteInv, (\E p \in Pid : IntroduceAsk(p)) \/ IntroduceAnswered
    PROVE  RouteInv'
<1>0. /\ FabricTypeOK /\ toProcman \in Seq(ProcmanMsg) /\ toFabric \in Seq(FabricMsg)
      /\ RouteHeld /\ OneCallPerModule /\ WorkRouted /\ GoingNotIdle /\ IntroducedOnce /\ ArrivedFirst
  BY DEF TypeOK, SharedTypeOK, RouteInv
<1>1. ASSUME NEW p \in Pid, IntroduceAsk(p) PROVE RouteInv'
  <2>1. /\ p \notin introduced /\ introduced' = introduced \cup {p} /\ introducing' = p
        /\ introducing = NULL
        /\ toProcman' = Append(toProcman, <<"check_pid", p>>)
        /\ UNCHANGED <<toFabric, modules, state, queue, routed_via, in_timestamp, work>>
    BY <1>1 DEF IntroduceAsk, Reacting, moduleVars, callVars
  <2>2. <<"check_pid", p>> \in ProcmanMsg /\ \A q : <<"check_pid", p>> # <<"restart", q>>
    BY MessageTypes
  <2>3. \A q \in Pid : Going(q)' => Going(q)
    BY <1>0, <2>1, <2>2, OtherMessage
  <2>4. GoingNotIdle'
    BY <1>0, <2>1, <2>3 DEF GoingNotIdle
  <2>5. IntroducedOnce'
    BY <1>0, <2>1 DEF IntroducedOnce
  <2>6. RouteHeld' /\ OneCallPerModule' /\ WorkRouted' /\ ArrivedFirst'
    BY <1>0, <2>1, <2>3 DEF RouteHeld, OneCallPerModule, WorkRouted, ArrivedFirst
  <2> QED BY <2>4, <2>5, <2>6 DEF RouteInv
<1>2. CASE IntroduceAnswered
  <2> DEFINE p == introducing
  <2>1. /\ p \in Pid /\ introducing' = NULL /\ toFabric # << >> /\ toFabric' = Tail(toFabric)
        /\ UNCHANGED <<introduced, queue, routed_via, in_timestamp, work>>
    BY <1>0, <1>2 DEF IntroduceAnswered, callVars, FabricTypeOK
  <2>2. p \in introduced \ modules /\ ~ Going(p)
    BY <1>0, <2>1, IdentityAssumption DEF IntroducedOnce, GoingNotIdle
  <2>3. \A x : Pending(toFabric', x) => Pending(toFabric, x)
    BY <1>0, <2>1, PendingFacts
  <2>4. /\ modules' \subseteq modules \cup {p} /\ modules \subseteq modules'
        /\ \A q \in Pid \ {p} : state'[q] = state[q]
        /\ \A q : Pending(toProcman', <<"restart", q>>) => Pending(toProcman, <<"restart", q>>)
    <3>1. CASE UNCHANGED <<toProcman, moduleVars>>
      BY <3>1 DEF moduleVars, Pending
    <3>2. CASE Register(p)
      <4>1. /\ toProcman' = Append(toProcman, <<"register", p>>)
            /\ modules' = modules \cup {p} /\ state' = [state EXCEPT ![p] = "IDLE"]
        BY <3>2 DEF Register
      <4>2. <<"register", p>> \in ProcmanMsg /\ \A q : <<"restart", q>> # <<"register", p>>
        BY <2>1, MessageTypes
      <4>3. \A q \in Pid \ {p} : state'[q] = state[q]
        BY <1>0, <4>1 DEF FabricTypeOK
      <4> QED BY <1>0, <4>1, <4>2, <4>3, PendingFacts
    <3> QED BY <1>2, <3>1, <3>2 DEF IntroduceAnswered
  <2>5. \A q \in Pid : Going(q)' => Going(q)
    BY <2>3, <2>4 DEF Going
  <2> HIDE DEF p
  <2>6. RouteHeld'
    BY <1>0, <2>1, <2>2, <2>4, <2>5 DEF RouteHeld
  <2>7. GoingNotIdle'
    <3>1. \A q \in Pid : Going(q)' => q # p /\ q \in introduced /\ (q \in modules => state[q] # "IDLE")
      BY <1>0, <2>2, <2>5 DEF GoingNotIdle
    <3> QED BY <2>1, <2>4, <3>1, IdentityAssumption DEF GoingNotIdle
  <2>8. IntroducedOnce'
    BY <1>0, <2>1, <2>2, <2>4 DEF IntroducedOnce
  <2>9. OneCallPerModule' /\ WorkRouted' /\ ArrivedFirst'
    BY <1>0, <2>1 DEF OneCallPerModule, WorkRouted, ArrivedFirst
  <2> QED BY <2>6, <2>7, <2>8, <2>9 DEF RouteInv
<1> QED BY <1>1, <1>2

(* Procman's events: a module is removed, or sent on its way, while no     *)
(* queued call is routed to it.                                            *)
LEMMA ProcmanEventInv ==
    ASSUME TypeOK, RouteInv, s_procman_event
    PROVE  RouteInv'
<1>0. /\ FabricTypeOK /\ toProcman \in Seq(ProcmanMsg) /\ toFabric \in Seq(FabricMsg)
      /\ RouteHeld /\ OneCallPerModule /\ WorkRouted /\ GoingNotIdle /\ IntroducedOnce /\ ArrivedFirst
  BY DEF TypeOK, SharedTypeOK, RouteInv
<1>1. ASSUME NEW cmd, NEW p, ProcmanSays(cmd, p)
      PROVE  /\ introducing = NULL
             /\ Pending(toFabric, <<cmd, p>>)
             /\ \A x : Pending(toFabric', x) => Pending(toFabric, x)
             /\ UNCHANGED <<queue, routed_via, in_timestamp, work, introduced, introducing>>
  BY <1>0, <1>1, PendingFacts DEF ProcmanSays, Reacting, introVars
<1>2. ASSUME UNCHANGED <<toProcman, modules, state>>, NEW cmd, NEW p, ProcmanSays(cmd, p)
      PROVE  RouteInv'
  <2>1. \A q \in Pid : Going(q)' => Going(q)
    BY <1>1, <1>2 DEF Going, Pending
  <2> QED BY <1>0, <1>1, <1>2, <2>1, ShrinkInv
<1>3. ASSUME NEW p \in Pid, ProcmanRemove(p) PROVE RouteInv'
  <2>1. ProcmanSays("remove", p) /\ UNCHANGED toProcman
    BY <1>3 DEF ProcmanRemove
  <2>2. CASE p \notin modules
    BY <1>2, <1>3, <2>1, <2>2 DEF ProcmanRemove, moduleVars
  <2>3. CASE p \in modules
    <3>1. modules' = modules \ {p} /\ \A q \in Pid \ {p} : state'[q] = state[q]
      BY <1>0, <1>3, <2>3 DEF ProcmanRemove, DeleteModule, FabricTypeOK
    <3>2. Going(p) /\ \A q \in Pid : Going(q)' => Going(q)
      BY <1>1, <2>1 DEF Going, Pending
    <3>3. UNCHANGED <<queue, routed_via, in_timestamp, work, introduced, introducing>>
      BY <1>1, <2>1
    <3>4. RouteHeld'
      BY <1>0, <3>1, <3>2, <3>3 DEF RouteHeld
    <3>5. GoingNotIdle' /\ IntroducedOnce'
      BY <1>0, <3>1, <3>2, <3>3 DEF GoingNotIdle, IntroducedOnce
    <3>6. OneCallPerModule' /\ WorkRouted' /\ ArrivedFirst'
      BY <1>0, <3>3 DEF OneCallPerModule, WorkRouted, ArrivedFirst
    <3> QED BY <3>4, <3>5, <3>6 DEF RouteInv
  <2> QED BY <2>2, <2>3
<1>4. ASSUME NEW p \in Pid, ProcmanRestart(p) PROVE RouteInv'
  <2>1. ProcmanSays("restart", p) /\ UNCHANGED modules
    BY <1>4 DEF ProcmanRestart
  <2>2. CASE ~ (p \in modules /\ state[p] = "IDLE")
    BY <1>2, <1>4, <2>1, <2>2 DEF ProcmanRestart
  <2>3. CASE p \in modules /\ state[p] = "IDLE"
    <3>1. toProcman' = Append(toProcman, <<"restart", p>>) /\ state' = [state EXCEPT ![p] = "RESTARTING"]
      BY <1>4, <2>3 DEF ProcmanRestart
    <3>2. state'[p] = "RESTARTING" /\ \A q \in Pid \ {p} : state'[q] = state[q]
      BY <1>0, <3>1 DEF FabricTypeOK
    <3>3. \A q \in Pid : Going(q)' => Going(q) \/ q = p
      <4>1. <<"restart", p>> \in ProcmanMsg /\ \A q : <<"restart", q>> = <<"restart", p>> => q = p
        BY MessageTypes
      <4>2. \A x : Pending(toProcman', x) => Pending(toProcman, x) \/ x = <<"restart", p>>
        BY <1>0, <3>1, <4>1, PendingFacts
      <4> QED BY <1>1, <2>1, <4>1, <4>2 DEF Going
    <3>4. /\ introducing = NULL /\ p \in introduced
          /\ UNCHANGED <<queue, routed_via, in_timestamp, work, introduced, introducing>>
      BY <1>0, <1>1, <2>1, <2>3 DEF IntroducedOnce
    <3>5. RouteHeld'
      BY <1>0, <2>1, <2>3, <3>2, <3>3, <3>4 DEF RouteHeld
    <3>6. GoingNotIdle'
      BY <1>0, <2>1, <3>2, <3>3, <3>4, IdentityAssumption DEF GoingNotIdle
    <3>7. OneCallPerModule' /\ WorkRouted' /\ ArrivedFirst' /\ IntroducedOnce'
      BY <1>0, <2>1, <3>4 DEF OneCallPerModule, WorkRouted, ArrivedFirst, IntroducedOnce
    <3> QED BY <3>5, <3>6, <3>7 DEF RouteInv
  <2> QED BY <2>2, <2>3
<1>5. ASSUME NEW answer, ProcmanStray(answer) PROVE RouteInv'
  BY <1>2, <1>5 DEF ProcmanStray, moduleVars
<1> QED BY <1>3, <1>4, <1>5 DEF s_procman_event

-----------------------------------------------------------------------------
(* Every step of the daemon, and of the processes around it, keeps the     *)
(* routing invariant.                                                      *)
LEMMA RouteInvStep ==
    ASSUME TypeOK, RouteInv, [Next]_vars
    PROVE  RouteInv'
<1>1. CASE FabricStep
  <2>1. ASSUME NEW a \in Call, processCall(a) PROVE RouteInv'
    BY <2>1, CallInv, QuietHandlersInv DEF processCall
  <2>2. ASSUME NEW p \in Pid, NEW a \in Call, processResult(p, a) \/ processException(p, a)
        PROVE  RouteInv'
    BY <2>2, AnswerInv DEF processResult, processException
  <2> QED BY <1>1, <2>1, <2>2, QuietHandlersInv, ProcessTimeoutInv, IntroduceInv, ProcmanEventInv
          DEF FabricStep, FabricNext
<1>2. CASE ProcmanStep
  BY <1>2, ProcmanStepInv
<1>3. CASE ProcessStep
  <2>1. UNCHANGED <<queue, routed_via, work, in_timestamp, modules, state, introduced, introducing,
                    toProcman, toFabric>>
    BY <1>3 DEF ProcessStep, ProcessDies, fabricVars, callVars, moduleVars, introVars
  <2> QED BY <2>1, QuietPipes, ShrinkInv
<1>4. CASE UNCHANGED vars
  <2>1. UNCHANGED <<queue, routed_via, work, in_timestamp, modules, state, introduced, introducing,
                    toProcman, toFabric>>
    BY <1>4 DEF vars, sharedVars, fabricVars, callVars, moduleVars, introVars
  <2> QED BY <2>1, QuietPipes, ShrinkInv
<1> QED BY <1>1, <1>2, <1>3, <1>4 DEF Next

(* Nothing is queued, routed or on its way when the daemon starts.         *)
LEMMA RouteInvInit == Init => RouteInv
<1> SUFFICES ASSUME Init PROVE RouteInv
  OBVIOUS
<1>1. /\ queue = {} /\ work = [p \in Pid |-> {}] /\ modules = {} /\ introduced = {}
      /\ introducing = NULL /\ toFabric = << >> /\ toProcman = << <<"startall", NULL>> >>
  BY DEF Init, SharedInit, FabricInit
<1>2. \A p \in Pid : ~ Going(p)
  <2>1. \A p : <<"startall", NULL>> # <<"restart", p>>
    OBVIOUS
  <2>2. \A x : Pending(toProcman, x) => x = <<"startall", NULL>>
    BY <1>1 DEF Pending
  <2>3. \A x : ~ Pending(toFabric, x)
    BY <1>1 DEF Pending
  <2> QED BY <2>1, <2>2, <2>3 DEF Going
<1> QED BY <1>1, <1>2 DEF RouteInv, RouteHeld, OneCallPerModule, WorkRouted, GoingNotIdle,
        IntroducedOnce, ArrivedFirst

(* The routing invariant holds in every deployment.                        *)
THEOREM RouteInvariant == Spec => []RouteInv
<1>1. TypeOK /\ RouteInv /\ [Next]_vars => RouteInv'
  BY RouteInvStep
<1> QED BY <1>1, RouteInvInit, TypeCorrect, PTL DEF Spec

(* In every deployment the module that message_t.routed_via of a queued    *)
(* call points at is registered and BUSY: process_queue_item never looks a *)
(* deleted module up, however timeouts, deaths and restarts interleave.    *)
THEOREM RouteSafety == Spec => []NoDanglingRoute
<1>1. RouteInv => NoDanglingRoute
  BY DEF RouteInv, RouteHeld, NoDanglingRoute
<1> QED BY <1>1, RouteInvariant, PTL

(* In every deployment placeCall gives a module one call at a time.        *)
THEOREM ModuleExclusion == Spec => []OneCallPerModule
<1>1. RouteInv => OneCallPerModule
  BY DEF RouteInv
<1> QED BY <1>1, RouteInvariant, PTL

-----------------------------------------------------------------------------
(* Who works for what: BUSY modules for queued calls (in debug mode a call *)
(* that timed out leaves its module BUSY), modules for fabrics' calls, and *)
(* fabrics for the calls that were sent to them.                           *)
HeldInv == (debug \/ BusyHasCall) /\ ForeignCallsStay /\ RemoteRouted

(* A module that waits for an answer.                                      *)
Waits(p) == p \in modules /\ state[p] = "BUSY" /\ ~ need_restart[p]

(* Steps that only take calls out of the queue, or away from fabrics: no   *)
(* module that goes on waiting loses its call.                             *)
LEMMA ShrinkHeld ==
    ASSUME HeldInv,
           queue' \subseteq queue,
           \A b \in queue' : routed_via'[b] = routed_via[b],
           \A f \in Fab : remote'[f] \subseteq remote[f],
           UNCHANGED in_timestamp,
           \A p \in Pid : Waits(p)' =>
              Waits(p) /\ (debug \/ \A b \in queue \ queue' : routed_via[b] # p),
           modules' \subseteq Pid
    PROVE  HeldInv'
<1>1. debug \/ BusyHasCall'
  BY DEF HeldInv, BusyHasCall, Waits
<1>2. ForeignCallsStay'
  BY DEF HeldInv, ForeignCallsStay, IsLocal
<1>3. RemoteRouted'
  BY DEF HeldInv, RemoteRouted
<1> QED BY <1>1, <1>2, <1>3 DEF HeldInv

(* The handlers that give no call to a module and none to a fabric.        *)
LEMMA QuietHandlersHeld ==
    ASSUME TypeOK, TypeOK', RouteInv, HeldInv,
           \/ \E a \in Call : QueueTimeout(a)
           \/ \E p \in Pid, a \in Call : AnswerLate(p, a)
           \/ \E f \in Fab, a \in Call : RemoteAnswer(f, a) \/ RemoteBusy(f, a)
           \/ \E f \in Fab :
                \/ \E list \in SUBSET Offers[f] : IfaceListResult(f, list)
                \/ processReq_IfaceList(f) \/ s_beacon_event(f) \/ getIfaceList_event(f)
    PROVE  HeldInv'
<1>0. FabricTypeOK /\ modules' \subseteq Pid /\ Pid \cap Fab = {}
  BY IdentityAssumption DEF TypeOK, FabricTypeOK
<1>1. UNCHANGED <<modules, state, need_restart, in_timestamp>>
  BY DEF QueueTimeout, AnswerLate, RemoteAnswer, RemoteBusy, IfaceListResult, Dequeue,
     processReq_IfaceList, s_beacon_event, getIfaceList_event, moduleVars, callVars
<1>2. \A p \in Pid : Waits(p)' => Waits(p)
  BY <1>1 DEF Waits
<1>3. ASSUME UNCHANGED <<queue, routed_via>>, \A f \in Fab : remote'[f] \subseteq remote[f]
      PROVE  HeldInv'
  BY <1>0, <1>1, <1>2, <1>3, ShrinkHeld
<1>4. ASSUME NEW a \in Call, queue' = queue \ {a}, routed_via' = Forget(routed_via, a),
             routed_via[a] \notin Pid, \A f \in Fab : remote'[f] \subseteq remote[f]
      PROVE  HeldInv'
  <2>1. \A b \in queue' : routed_via'[b] = routed_via[b]
    BY <1>4 DEF Forget
  <2>2. \A p \in Pid : \A b \in queue \ queue' : routed_via[b] # p
    BY <1>4
  <2> QED BY <1>0, <1>1, <1>2, <1>4, <2>1, <2>2, ShrinkHeld
<1>5. ASSUME NEW a \in Call, QueueTimeout(a) PROVE HeldInv'
  BY <1>4, <1>5 DEF QueueTimeout, Dequeue, peerVars
<1>6. ASSUME NEW f \in Fab, NEW a \in Call, RemoteAnswer(f, a) PROVE HeldInv'
  <2>1. a \in remote[f] /\ \A g \in Fab : remote'[g] \subseteq remote[g]
    BY <1>0, <1>6 DEF RemoteAnswer, FabricTypeOK
  <2>2. CASE a \in queue
    <3>1. routed_via[a] = f
      BY <2>1, <2>2 DEF HeldInv, RemoteRouted
    <3> QED BY <1>0, <1>4, <1>6, <2>1, <2>2, <3>1 DEF RemoteAnswer
  <2>3. CASE a \notin queue
    BY <1>3, <1>6, <2>1, <2>3 DEF RemoteAnswer
  <2> QED BY <2>2, <2>3
<1>7. ASSUME NEW f \in Fab, NEW a \in Call, RemoteBusy(f, a) PROVE HeldInv'
  <2>1. \A g \in Fab : remote'[g] \subseteq remote[g]
    BY <1>0, <1>7 DEF RemoteBusy, FabricTypeOK
  <2> QED BY <1>3, <1>7, <2>1 DEF RemoteBusy, callVars
<1>8. ASSUME NEW p \in Pid, NEW a \in Call, AnswerLate(p, a) PROVE HeldInv'
  BY <1>3, <1>8 DEF AnswerLate, callVars, peerVars
<1>9. ASSUME NEW f \in Fab,
             \/ \E list \in SUBSET Offers[f] : IfaceListResult(f, list)
             \/ processReq_IfaceList(f) \/ s_beacon_event(f) \/ getIfaceList_event(f)
      PROVE  HeldInv'
  <2>1. UNCHANGED <<queue, routed_via, remote>>
    BY <1>9 DEF IfaceListResult, processReq_IfaceList, s_beacon_event, getIfaceList_event, callVars
  <2> QED BY <1>3, <2>1
<1> QED BY <1>5, <1>6, <1>7, <1>8, <1>9

(* A call that arrives: only a local caller's waits or is passed on to a   *)
(* fabric.                                                                 *)
LEMMA CallHeld ==
    ASSUME TypeOK, RouteInv, HeldInv, NEW a \in Call, processCall(a)
    PROVE  HeldInv'
<1>0. FabricTypeOK /\ Pid \cap Fab = {} /\ NULL \notin Pid /\ ArrivedFirst
      /\ (debug \/ BusyHasCall) /\ ForeignCallsStay /\ RemoteRouted
  BY IdentityAssumption DEF TypeOK, RouteInv, HeldInv
<1>1. /\ in_timestamp[a] = 0 /\ UNCHANGED <<modules, need_restart>>
      /\ in_timestamp' = [in_timestamp EXCEPT ![a] =
                            Cardinality({b \in Call : in_timestamp[b] # 0}) + 1]
  BY DEF processCall, CallRefused, CallCrashes, CallRoutedLocally, CallRoutedGlobally, CallWaits,
     Arrives
<1>2. a \notin queue /\ \A f \in Fab : a \notin remote[f]
  BY <1>0, <1>1 DEF ArrivedFirst, RemoteRouted
<1>3. \A b \in Call : in_timestamp[b] # 0 => in_timestamp'[b] # 0
  BY <1>0, <1>1 DEF FabricTypeOK
<1>4. in_timestamp'[a] # 0
  BY <1>0, <1>1, ArrivedCount DEF FabricTypeOK
<1>5. ASSUME UNCHANGED <<queue, routed_via, state, remote>> PROVE HeldInv'
  <2>1. debug \/ BusyHasCall'
    BY <1>0, <1>1, <1>5 DEF BusyHasCall
  <2>2. ForeignCallsStay' /\ RemoteRouted'
    BY <1>0, <1>3, <1>5 DEF ForeignCallsStay, RemoteRouted, IsLocal, FabricTypeOK
  <2> QED BY <2>1, <2>2 DEF HeldInv
<1>6. CASE CallRefused(a) \/ CallCrashes(a)
  BY <1>5, <1>6 DEF CallRefused, CallCrashes
<1>7. ASSUME NEW via, via \in Pid \/ IsLocal(a), queue' = queue \cup {a},
             routed_via' = [routed_via EXCEPT ![a] = via],
             \A p \in Pid : state'[p] = state[p] \/ p = via,
             \A f \in Fab : remote'[f] \subseteq remote[f] \/ (f = via /\ remote'[f] = remote[f] \cup {a})
      PROVE  HeldInv'
  <2>1. routed_via'[a] = via /\ \A b \in queue : routed_via'[b] = routed_via[b]
    BY <1>0, <1>2, <1>7 DEF FabricTypeOK
  <2>2. debug \/ BusyHasCall'
    <3> SUFFICES ASSUME ~ debug, NEW p \in modules', state'[p] = "BUSY", ~ need_restart'[p]
                 PROVE  \E b \in queue' : routed_via'[b] = p
      BY DEF BusyHasCall
    <3>1. CASE p = via
      BY <1>7, <2>1, <3>1
    <3>2. CASE p # via
      <4>1. p \in modules /\ p \in Pid /\ state[p] = "BUSY" /\ ~ need_restart[p]
        BY <1>0, <1>1, <1>7, <3>2 DEF FabricTypeOK
      <4> QED BY <1>0, <1>7, <2>1, <4>1 DEF BusyHasCall
    <3> QED BY <3>1, <3>2
  <2>3. ForeignCallsStay'
    BY <1>0, <1>7, <2>1 DEF ForeignCallsStay, IsLocal
  <2>4. RemoteRouted'
    <3> SUFFICES ASSUME NEW f \in Fab, NEW b \in remote'[f]
                 PROVE  in_timestamp'[b] # 0 /\ (b \in queue' => routed_via'[b] = f)
      BY DEF RemoteRouted
    <3>1. CASE b = a
      BY <1>2, <1>4, <1>7, <2>1, <3>1
    <3>2. CASE b # a
      <4>1. b \in remote[f]
        BY <1>7, <3>2
      <4>2. b \in Call
        BY <1>0, <4>1 DEF FabricTypeOK
      <4> QED BY <1>0, <1>3, <1>7, <2>1, <3>2, <4>1, <4>2 DEF RemoteRouted
    <3> QED BY <3>1, <3>2
  <2> QED BY <2>2, <2>3, <2>4 DEF HeldInv
<1>8. CASE CallRoutedLocally(a)
  <2> DEFINE p == FirstLocal(Chosen(a))
  <2>1. /\ p \in Pid /\ queue' = queue \cup {a} /\ routed_via' = [routed_via EXCEPT ![a] = p]
        /\ state' = [state EXCEPT ![p] = "BUSY"] /\ UNCHANGED remote
    BY <1>0, <1>8, FirstLocalType DEF CallRoutedLocally, Enqueue
  <2>2. \A q \in Pid : state'[q] = state[q] \/ q = p
    BY <1>0, <2>1 DEF FabricTypeOK
  <2> HIDE DEF p
  <2> QED BY <1>7, <2>1, <2>2
<1>9. CASE CallRoutedGlobally(a)
  <2> DEFINE f == NextGlobal(Chosen(a))
  <2>1. /\ IsLocal(a) /\ queue' = queue \cup {a} /\ routed_via' = [routed_via EXCEPT ![a] = f]
        /\ remote' = (IF f \in fab_list THEN [remote EXCEPT ![f] = @ \cup {a}] ELSE remote)
        /\ UNCHANGED state
    BY <1>9 DEF CallRoutedGlobally, Enqueue
  <2> HIDE DEF f
  <2>2. \A g \in Fab : remote'[g] \subseteq remote[g] \/ (g = f /\ remote'[g] = remote[g] \cup {a})
    BY <1>0, <2>1 DEF FabricTypeOK
  <2>3. \A q \in Pid : state'[q] = state[q] \/ q = f
    BY <2>1
  <2>4. /\ f \in Pid \/ IsLocal(a)
        /\ queue' = queue \cup {a}
        /\ routed_via' = [routed_via EXCEPT ![a] = f]
    BY <2>1
  <2> QED BY <1>7, <2>2, <2>3, <2>4
<1>10. CASE CallWaits(a)
  <2>1. /\ IsLocal(a) /\ queue' = queue \cup {a} /\ routed_via' = [routed_via EXCEPT ![a] = NULL]
        /\ UNCHANGED <<state, remote>>
    BY <1>10 DEF CallWaits, Enqueue
  <2> QED BY <1>7, <2>1
<1> QED BY <1>6, <1>8, <1>9, <1>10 DEF processCall

(* The answering module has no other call; the calls that are placed are   *)
(* local, and each goes to a module that becomes BUSY with it.             *)
LEMMA PlaceWaitingHeld ==
    ASSUME TypeOK, RouteInv, HeldInv, NEW p \in Pid, NEW a \in work[p] \cap queue,
           PlaceWaiting(queue \ {a}, [state EXCEPT ![p] = "IDLE"], [work EXCEPT ![p] = @ \ {a}]),
           queue' = queue \ {a},
           UNCHANGED <<modules, need_restart, in_timestamp, remote>>
    PROVE  HeldInv'
<1> DEFINE S == [state EXCEPT ![p] = "IDLE"]
           R == [b \in Call |-> IF b \in queue \ {a} THEN routed_via[b] ELSE NULL]
           waiting == {b \in queue \ {a} : routed_via[b] = NULL /\ HasLocals(iface[b])}
           ready == {b \in waiting : S[FirstLocal(iface[b])] = "IDLE"}
<1>0. /\ FabricTypeOK /\ queue \subseteq Call /\ NULL \notin Pid \cup Fab
      /\ WorkRouted /\ (debug \/ BusyHasCall) /\ ForeignCallsStay /\ RemoteRouted
  BY IdentityAssumption DEF TypeOK, FabricTypeOK, RouteInv, HeldInv
<1>1. routed_via[a] = p
  BY <1>0 DEF WorkRouted
<1>2. S[p] = "IDLE" /\ \A q \in Pid \ {p} : S[q] = state[q]
  BY <1>0 DEF FabricTypeOK
<1>3. \A b \in queue' : b \in queue /\ b # a /\ R[b] = routed_via[b]
  BY <1>0
<1>4. \A q \in modules : S[q] = "BUSY" /\ ~ need_restart[q] /\ ~ debug =>
        \E b \in queue' : routed_via[b] = q
  BY <1>0, <1>1, <1>2 DEF BusyHasCall, FabricTypeOK
<1>5. CASE state' = S /\ routed_via' = R
  <2> HIDE DEF S, R
  <2>1. debug \/ BusyHasCall'
    BY <1>3, <1>4, <1>5 DEF BusyHasCall
  <2>2. ForeignCallsStay' /\ RemoteRouted'
    BY <1>0, <1>3, <1>5 DEF ForeignCallsStay, RemoteRouted, IsLocal
  <2> QED BY <2>1, <2>2 DEF HeldInv
<1>6. ASSUME NEW placed \in SUBSET ready,
             routed_via' = [b \in Call |-> IF b \in placed THEN FirstLocal(iface[b]) ELSE R[b]],
             state' = [q \in Pid |-> IF \E b \in placed : FirstLocal(iface[b]) = q
                                     THEN "BUSY" ELSE S[q]]
      PROVE  HeldInv'
  <2>1. \A b \in placed : b \in queue' /\ routed_via[b] = NULL /\ FirstLocal(iface[b]) \in Pid
    BY <1>0, FirstLocalType
  <2> HIDE DEF S, R, waiting, ready
  <2>2. \A b \in placed : routed_via'[b] = FirstLocal(iface[b])
    BY <1>0, <1>3, <1>6, <2>1
  <2>3. \A b \in queue' \ placed : routed_via'[b] = routed_via[b]
    BY <1>0, <1>3, <1>6
  <2>4. debug \/ BusyHasCall'
    <3> SUFFICES ASSUME ~ debug, NEW q \in modules', state'[q] = "BUSY", ~ need_restart'[q]
                 PROVE  \E b \in queue' : routed_via'[b] = q
      BY DEF BusyHasCall
    <3>1. q \in Pid /\ q \in modules /\ ~ need_restart[q]
      BY <1>0 DEF FabricTypeOK
    <3>2. CASE \E b \in placed : FirstLocal(iface[b]) = q
      BY <2>1, <2>2, <3>2
    <3>3. CASE ~ \E b \in placed : FirstLocal(iface[b]) = q
      <4>1. S[q] = "BUSY"
        BY <1>6, <3>1, <3>3
      <4>2. PICK b \in queue' : routed_via[b] = q
        BY <1>4, <3>1, <4>1
      <4>3. b \notin placed
        BY <1>0, <2>1, <3>1, <4>2
      <4> QED BY <2>3, <4>2, <4>3
    <3> QED BY <3>2, <3>3
  <2>5. ForeignCallsStay'
    <3> SUFFICES ASSUME NEW b \in queue', ~ IsLocal(b) PROVE routed_via'[b] \in Pid
      BY DEF ForeignCallsStay, IsLocal
    <3>1. CASE b \in placed
      BY <2>1, <2>2, <3>1
    <3>2. CASE b \notin placed
      BY <1>0, <1>3, <2>3, <3>2 DEF ForeignCallsStay
    <3> QED BY <3>1, <3>2
  <2>6. RemoteRouted'
    <3> SUFFICES ASSUME NEW f \in Fab, NEW b \in remote[f]
                 PROVE  in_timestamp[b] # 0 /\ (b \in queue' => routed_via'[b] = f)
      BY DEF RemoteRouted
    <3>1. in_timestamp[b] # 0 /\ (b \in queue => routed_via[b] = f)
      BY <1>0 DEF RemoteRouted
    <3>2. b \in queue' => b \notin placed
      BY <1>0, <1>3, <2>1, <3>1
    <3> QED BY <1>3, <2>3, <3>1, <3>2
  <2> QED BY <2>4, <2>5, <2>6 DEF HeldInv
<1> QED BY <1>5, <1>6 DEF PlaceWaiting

(* A module that is to be restarted is not one that waits.                 *)
LEMMA AnswerHeld ==
    ASSUME TypeOK, TypeOK', RouteInv, HeldInv, NEW p \in Pid, NEW a \in Call, NEW kind,
           Answer(p, a, kind)
    PROVE  HeldInv'
<1>0. /\ FabricTypeOK /\ a \in work[p] \cap queue /\ RouteHeld /\ WorkRouted /\ modules' \subseteq Pid
  BY DEF TypeOK, FabricTypeOK, RouteInv, Answer
<1>1. routed_via[a] = p /\ p \in modules
  BY <1>0 DEF WorkRouted, RouteHeld
<1>2. /\ queue' = queue \ {a}
      /\ UNCHANGED <<modules, need_restart, in_timestamp, remote>>
  BY <1>1 DEF Answer, peerVars
<1>3. CASE ~ need_restart[p]
  <2>1. PlaceWaiting(queue \ {a}, [state EXCEPT ![p] = "IDLE"], [work EXCEPT ![p] = @ \ {a}])
    BY <1>1, <1>3 DEF Answer
  <2> QED BY <1>0, <1>2, <2>1, PlaceWaitingHeld
<1>4. CASE need_restart[p]
  <2>1. routed_via' = Forget(routed_via, a) /\ UNCHANGED state
    BY <1>1, <1>4 DEF Answer
  <2>2. \A b \in queue' : routed_via'[b] = routed_via[b]
    BY <1>2, <2>1 DEF Forget
  <2>3. \A q \in Pid : Waits(q)' => Waits(q) /\ \A b \in queue \ queue' : routed_via[b] # q
    BY <1>1, <1>2, <1>4, <2>1 DEF Waits
  <2> QED BY <1>0, <1>2, <2>2, <2>3, ShrinkHeld
<1> QED BY <1>3, <1>4

(* The process timeout takes the module away with its call.                *)
LEMMA ProcessTimeoutHeld ==
    ASSUME TypeOK, TypeOK', RouteInv, HeldInv, NEW a \in Call, ProcessTimeout(a)
    PROVE  HeldInv'
<1> DEFINE p == routed_via[a]
<1>0. /\ FabricTypeOK /\ a \in queue /\ p \in Pid /\ RouteHeld /\ modules' \subseteq Pid
  BY DEF TypeOK, FabricTypeOK, RouteInv, ProcessTimeout
<1>1. p \in modules /\ LookupModule(p) = {p} /\ p # NULL
  BY <1>0, IdentityAssumption DEF RouteHeld, LookupModule
<1>2. /\ queue' = queue \ {a} /\ routed_via' = Forget(routed_via, a)
      /\ UNCHANGED <<in_timestamp, remote>>
  BY DEF ProcessTimeout, Dequeue, peerVars
<1>3. \A b \in queue' : routed_via'[b] = routed_via[b]
  BY <1>2 DEF Forget
<1>4. CASE debug
  <2>1. UNCHANGED <<modules, state, need_restart>>
    BY <1>1, <1>4 DEF ProcessTimeout, moduleVars
  <2>2. \A q \in Pid : Waits(q)' => Waits(q)
    BY <2>1 DEF Waits
  <2> QED BY <1>0, <1>2, <1>3, <1>4, <2>2, ShrinkHeld
<1>5. CASE ~ debug
  <2>1. DeleteModule(p)
    BY <1>1, <1>5 DEF ProcessTimeout
  <2>2. \A q \in Pid : Waits(q)' => Waits(q) /\ \A b \in queue \ queue' : routed_via[b] # q
    BY <1>0, <1>2, <2>1 DEF Waits, DeleteModule, FabricTypeOK
  <2> QED BY <1>0, <1>2, <1>3, <2>2, ShrinkHeld
<1> QED BY <1>4, <1>5

(* Introductions, and procman's events: modules become IDLE, are marked    *)
(* for a restart, or go; none begins to wait.                              *)
LEMMA RegistryHeld ==
    ASSUME TypeOK, TypeOK', HeldInv,
           (\E p \in Pid : IntroduceAsk(p)) \/ IntroduceAnswered \/ s_procman_event
    PROVE  HeldInv'
<1>0. FabricTypeOK /\ modules' \subseteq Pid
  BY DEF TypeOK, FabricTypeOK
<1>1. ASSUME UNCHANGED <<queue, routed_via, remote, in_timestamp>>,
             \A p \in Pid : Waits(p)' => Waits(p)
      PROVE  HeldInv'
  BY <1>0, <1>1, ShrinkHeld
<1>2. ASSUME NEW p \in Pid, IntroduceAsk(p) PROVE HeldInv'
  <2>1. UNCHANGED <<queue, routed_via, remote, in_timestamp, modules, state, need_restart>>
    BY <1>2 DEF IntroduceAsk, moduleVars, callVars, peerVars
  <2> QED BY <1>1, <2>1 DEF Waits
<1>3. CASE IntroduceAnswered
  <2>1. UNCHANGED <<queue, routed_via, remote, in_timestamp>> /\ introducing \in Pid
    BY <1>0, <1>3 DEF IntroduceAnswered, callVars, peerVars, FabricTypeOK
  <2>2. CASE Register(introducing)
    <3>1. /\ modules' = modules \cup {introducing}
          /\ state' = [state EXCEPT ![introducing] = "IDLE"]
          /\ need_restart' = [need_restart EXCEPT ![introducing] = FALSE]
      BY <2>2 DEF Register
    <3>2. \A p \in Pid : Waits(p)' => Waits(p)
      BY <1>0, <2>1, <3>1 DEF Waits, FabricTypeOK
    <3> QED BY <1>1, <2>1, <3>2
  <2>3. CASE UNCHANGED moduleVars
    BY <1>1, <2>1, <2>3 DEF Waits, moduleVars
  <2> QED BY <1>3, <2>2, <2>3 DEF IntroduceAnswered
<1>4. ASSUME NEW cmd, NEW p, ProcmanSays(cmd, p)
      PROVE  UNCHANGED <<queue, routed_via, remote, in_timestamp>>
  BY <1>4 DEF ProcmanSays, peerVars
<1>5. ASSUME NEW p \in Pid, ProcmanRemove(p) PROVE HeldInv'
  <2>1. \A q \in Pid : Waits(q)' => Waits(q)
    BY <1>0, <1>5 DEF ProcmanRemove, DeleteModule, Waits, moduleVars, FabricTypeOK
  <2> QED BY <1>1, <1>4, <1>5, <2>1 DEF ProcmanRemove
<1>6. ASSUME NEW p \in Pid, ProcmanRestart(p) PROVE HeldInv'
  <2>1. \A q \in Pid : Waits(q)' => Waits(q)
    BY <1>0, <1>6 DEF ProcmanRestart, Waits, FabricTypeOK
  <2> QED BY <1>1, <1>4, <1>6, <2>1 DEF ProcmanRestart
<1>7. ASSUME NEW answer, ProcmanStray(answer) PROVE HeldInv'
  BY <1>1, <1>4, <1>7 DEF ProcmanStray, moduleVars, Waits
<1> QED BY <1>2, <1>3, <1>5, <1>6, <1>7 DEF s_procman_event

(* Every step of the daemon and of the processes keeps HeldInv.            *)
LEMMA HeldInvStep ==
    ASSUME TypeOK, TypeOK', RouteInv, HeldInv, [Next]_vars
    PROVE  HeldInv'
<1>1. CASE FabricStep
  <2>1. ASSUME NEW p \in Pid, NEW a \in Call, processResult(p, a) \/ processException(p, a)
        PROVE  HeldInv'
    BY <2>1, AnswerHeld DEF processResult, processException
  <2> QED BY <1>1, <2>1, CallHeld, QuietHandlersHeld, ProcessTimeoutHeld, RegistryHeld
          DEF FabricStep, FabricNext
<1>2. CASE ProcmanStep \/ ProcessStep \/ UNCHANGED vars
  <2>1. UNCHANGED <<queue, routed_via, in_timestamp, remote, modules, state, need_restart>>
    BY <1>2 DEF ProcmanStep, ProcessStep, vars, fabricVars, callVars, moduleVars, peerVars
  <2>2. \A p \in Pid : Waits(p)' => Waits(p)
    BY <2>1 DEF Waits
  <2>3. modules' \subseteq Pid
    BY DEF TypeOK, FabricTypeOK
  <2> QED BY <2>1, <2>2, <2>3, ShrinkHeld
<1> QED BY <1>1, <1>2 DEF Next

(* HeldInv holds in every deployment.                                      *)
THEOREM HeldInvariant == Spec => []HeldInv
<1>1. Init => HeldInv
  BY DEF Init, FabricInit, HeldInv, BusyHasCall, ForeignCallsStay, RemoteRouted
<1>2. TypeOK /\ TypeOK' /\ RouteInv /\ HeldInv /\ [Next]_vars => HeldInv'
  BY HeldInvStep
<1> QED BY <1>1, <1>2, RouteInvariant, TypeCorrect, PTL DEF Spec

(* Outside debug mode, a module that is BUSY and not about to be restarted *)
(* has a queued call, whose answer or process timeout ends its being BUSY: *)
(* no order of answers, timeouts and deaths leaves a module waiting for    *)
(* nothing.                                                                *)
THEOREM BusyModulesWork == debug = FALSE => (Spec => []BusyHasCall)
<1> SUFFICES ASSUME debug = FALSE PROVE Spec => []BusyHasCall
  OBVIOUS
<1>1. HeldInv => BusyHasCall
  BY DEF HeldInv
<1> QED BY <1>1, HeldInvariant, PTL

(* In every deployment a fabric's call is with a local module as long as   *)
(* it is queued: processCall refuses what it cannot place at once, so that *)
(* a call never travels from fabric to fabric.                             *)
THEOREM ForeignCallsPlaced == Spec => []ForeignCallsStay
<1>1. HeldInv => ForeignCallsStay
  BY DEF HeldInv
<1> QED BY <1>1, HeldInvariant, PTL

=============================================================================
