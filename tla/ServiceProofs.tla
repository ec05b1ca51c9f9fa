---------------------------- MODULE ServiceProofs ---------------------------
(***************************************************************************)
(* The daemon implements CallService: for any number of modules, calls and *)
(* fabrics a call is accepted or refused once, an accepted one is answered *)
(* at most once, and only a caller on a machine that was dropped loses its *)
(* answer.  The proof sorts the handlers by what they do to the calls:     *)
(* nothing, take one in, or end one.                                       *)
(***************************************************************************)
EXTENDS ModBusdProofs

(* A call that has not arrived is not queued, one that has not left the    *)
(* queue has not been replied to, and none was replied to twice.           *)
ReplyInv ==
    \A a \in Call :
        /\ in_timestamp[a] = 0 => a \notin queue
        /\ in_timestamp[a] = 0 \/ a \in queue => replies[a] = 0
        /\ replies[a] <= 1

-----------------------------------------------------------------------------
(* The calls are left alone.                                               *)
Silent ==
    /\ UNCHANGED <<queue, in_timestamp, replies>>
    /\ up' = up \/ (up /\ up' = FALSE)

(* processCall takes a in.                                                 *)
Arrival(a) ==
    /\ up
    /\ in_timestamp[a] = 0
    /\ \E n \in Nat \ {0} : in_timestamp' = [in_timestamp EXCEPT ![a] = n]
    /\ \/ UNCHANGED <<up, queue>> /\ replies' = Replied(a)
       \/ up' = FALSE /\ UNCHANGED <<queue, replies>>
       \/ queue' = queue \cup {a} /\ UNCHANGED <<up, replies>>

(* A result, an exception or a timeout ends a.                             *)
Departure(a) ==
    /\ up
    /\ a \in queue
    /\ queue' = queue \ {a}
    /\ UNCHANGED in_timestamp
    /\ replies' = Replied(a)
    /\ up' \in BOOLEAN

-----------------------------------------------------------------------------
(* The five ends of processCall are arrivals.                              *)
LEMMA CallEffect ==
    ASSUME TypeOK, NEW a \in Call, processCall(a)
    PROVE  Arrival(a)
<1>1. Arrives(a)
  BY DEF processCall, CallRefused, CallCrashes, CallRoutedLocally, CallRoutedGlobally, CallWaits
<1>2. Cardinality({b \in Call : in_timestamp[b] # 0}) + 1 \in Nat \ {0}
  <2>1. IsFiniteSet({b \in Call : in_timestamp[b] # 0})
    BY FS_Subset, ConfigAssumption
  <2>2. Cardinality({b \in Call : in_timestamp[b] # 0}) \in Nat
    BY <2>1, FS_CardinalityType
  <2> QED BY <2>2
<1>3. /\ up /\ in_timestamp[a] = 0
      /\ \E n \in Nat \ {0} : in_timestamp' = [in_timestamp EXCEPT ![a] = n]
  BY <1>1, <1>2 DEF Arrives, Reacting
<1>4. CASE CallRefused(a)
  BY <1>3, <1>4 DEF CallRefused, Arrival
<1>5. CASE CallCrashes(a)
  BY <1>3, <1>5 DEF CallCrashes, Arrival
<1>6. CASE CallRoutedLocally(a) \/ CallRoutedGlobally(a) \/ CallWaits(a)
  BY <1>3, <1>6 DEF CallRoutedLocally, CallRoutedGlobally, CallWaits, Enqueue, Arrival
<1> QED BY <1>4, <1>5, <1>6 DEF processCall

(* What answers no queued call may bring the daemon down, and does no more.*)
LEMMA UnexpectedEffect ==
    ASSUME TypeOK, Reacting, NEW sender, NEW isFabric, Unexpected(sender, isFabric),
           UNCHANGED <<queue, in_timestamp, replies>>
    PROVE  Silent
<1>1. up = TRUE
  BY DEF Reacting, TypeOK, SharedTypeOK
<1>2. up' \in BOOLEAN
  BY <1>1 DEF Unexpected
<1> QED BY <1>1, <1>2 DEF Silent

(* An answer of a module, however late, and placing the waiting calls.     *)
LEMMA AnswerEffect ==
    ASSUME TypeOK, NEW p \in Pid, NEW a \in Call,
           AnswerLate(p, a) \/ \E kind \in {"result", "exception"} : Answer(p, a, kind)
    PROVE  Silent \/ Departure(a)
<1>1. CASE AnswerLate(p, a)
  <2>1. Reacting /\ Unexpected(Module[p], FALSE) /\ UNCHANGED <<queue, in_timestamp, replies>>
    BY <1>1 DEF AnswerLate, callVars
  <2> QED BY <2>1, UnexpectedEffect
<1>2. ASSUME NEW kind \in {"result", "exception"}, Answer(p, a, kind)
      PROVE  Silent \/ Departure(a)
  <2> DEFINE known == p \in modules
             done  == known \/ kind = "result" \/ ~ IsLocal(a)
  <2>1. /\ up /\ a \in queue /\ UNCHANGED in_timestamp
        /\ queue' = IF done THEN queue \ {a} ELSE queue
        /\ replies' = IF done THEN Replied(a) ELSE replies
    BY <1>2 DEF Answer, Reacting
  <2>2. up' \in BOOLEAN /\ (~ done => UNCHANGED up)
    <3>1. CASE known /\ ~ need_restart[p]
      <4>1. PlaceWaiting(queue \ {a}, [state EXCEPT ![p] = "IDLE"], [work EXCEPT ![p] = @ \ {a}])
        BY <1>2, <3>1 DEF Answer
      <4>2. up' \in {up, FALSE}
        BY <4>1 DEF PlaceWaiting
      <4> QED BY <2>1, <3>1, <4>2 DEF TypeOK, SharedTypeOK
    <3>2. CASE ~ (known /\ ~ need_restart[p])
      BY <1>2, <3>2 DEF Answer, TypeOK, SharedTypeOK
    <3> QED BY <3>1, <3>2
  <2> HIDE DEF done
  <2> QED BY <2>1, <2>2 DEF Silent, Departure
<1> QED BY <1>1, <1>2

(* Foreign fabrics and the timeouts end calls, the rest of the fabric loop *)
(* does not touch them.                                                    *)
LEMMA OtherEffect ==
    ASSUME TypeOK, FabricNext,
           \A a \in Call : ~ processCall(a),
           \A p \in Pid : \A a \in Call :
              ~ (AnswerLate(p, a) \/ processResult(p, a) \/ processException(p, a))
    PROVE  Silent \/ \E a \in Call : Departure(a)
<1>1. ASSUME NEW a \in Call, QueueTimeout(a) \/ ProcessTimeout(a) PROVE Departure(a)
  BY <1>1 DEF QueueTimeout, ProcessTimeout, Dequeue, Reacting, Departure, sharedVars, TypeOK,
     SharedTypeOK
<1>2. ASSUME NEW f \in Fab, NEW a \in Call, RemoteAnswer(f, a) \/ RemoteBusy(f, a)
      PROVE  Silent \/ Departure(a)
  <2>1. CASE RemoteAnswer(f, a) /\ a \in queue
    BY <2>1 DEF RemoteAnswer, Reacting, Departure, TypeOK, SharedTypeOK
  <2>2. CASE RemoteAnswer(f, a) /\ a \notin queue
    <3>1. /\ Reacting /\ Unexpected(f, f \in fab_list)
          /\ UNCHANGED <<queue, in_timestamp, replies>>
      BY <2>2 DEF RemoteAnswer
    <3> QED BY <3>1, UnexpectedEffect
  <2>3. CASE RemoteBusy(f, a)
    BY <2>3 DEF RemoteBusy, Silent, sharedVars, callVars
  <2> QED BY <1>2, <2>1, <2>2, <2>3
<1>3. ASSUME NEW f \in Fab,
             \/ \E list \in SUBSET Offers[f] : IfaceListResult(f, list)
             \/ processReq_IfaceList(f) \/ s_beacon_event(f) \/ getIfaceList_event(f)
      PROVE  Silent
  <2>1. ASSUME NEW list \in SUBSET Offers[f], IfaceListResult(f, list) PROVE Silent
    BY <2>1 DEF IfaceListResult, Reacting, Silent, callVars
  <2>2. CASE processReq_IfaceList(f) \/ getIfaceList_event(f)
    BY <2>2 DEF processReq_IfaceList, getIfaceList_event, Silent, sharedVars, callVars
  <2>3. CASE s_beacon_event(f)
    <3>1. up = TRUE /\ up' \in BOOLEAN /\ UNCHANGED <<queue, in_timestamp, replies>>
      BY <2>3 DEF s_beacon_event, Reacting, callVars, TypeOK, SharedTypeOK
    <3> QED BY <3>1 DEF Silent
  <2> QED BY <1>3, <2>1, <2>2, <2>3
<1>4. CASE (\E p \in Pid : IntroduceAsk(p)) \/ IntroduceAnswered
  <2>1. CASE \E p \in Pid : IntroduceAsk(p)
    BY <2>1 DEF IntroduceAsk, Silent, callVars
  <2>2. CASE IntroduceAnswered
    <3>1. up = TRUE /\ up' \in BOOLEAN /\ UNCHANGED <<queue, in_timestamp, replies>>
      BY <2>2 DEF IntroduceAnswered, callVars, TypeOK, SharedTypeOK
    <3> QED BY <3>1 DEF Silent
  <2> QED BY <1>4, <2>1, <2>2
<1>5. CASE s_procman_event
  BY <1>5 DEF s_procman_event, ProcmanRemove, ProcmanRestart, ProcmanStray, ProcmanSays, Silent
<1> QED BY <1>1, <1>2, <1>3, <1>4, <1>5 DEF FabricNext

(* What a step of the daemon does to the calls.                            *)
LEMMA StepEffect ==
    ASSUME TypeOK, [Next]_vars
    PROVE  Silent \/ \E a \in Call : Arrival(a) \/ Departure(a)
<1>1. CASE FabricStep
  BY <1>1, CallEffect, AnswerEffect, OtherEffect
  DEF FabricStep, processResult, processException
<1>2. CASE ProcmanStep
  <2>1. UNCHANGED <<queue, in_timestamp, replies>>
    BY <1>2 DEF ProcmanStep, fabricVars, callVars
  <2>2. UNCHANGED up
    BY <1>2 DEF ProcmanStep, ProcmanNext, s_main_event, checkpid_event, StartAll, StartModules,
       CheckPid, RegisterPid, Restart, StartTimeout, NotRunning, MaxMem, Command, Watched
  <2> QED BY <2>1, <2>2 DEF Silent
<1>3. CASE ProcessStep
  BY <1>3 DEF ProcessStep, ProcessDies, fabricVars, callVars, Silent
<1>4. CASE UNCHANGED vars
  BY <1>4 DEF vars, sharedVars, fabricVars, callVars, Silent
<1> QED BY <1>1, <1>2, <1>3, <1>4 DEF Next

-----------------------------------------------------------------------------
(* A reply is at most one more for the caller of a.                        *)
LEMMA RepliedFacts ==
    ASSUME TypeOK, ReplyInv, NEW a \in Call, replies[a] = 0, replies' = Replied(a)
    PROVE  /\ replies'[a] \in {0, 1}
           /\ IsLocal(a) => replies'[a] = 1
           /\ \A b \in Call \ {a} : replies'[b] = replies[b]
BY DEF TypeOK, FabricTypeOK, Replied

(* Every step keeps ReplyInv.                                              *)
LEMMA ReplyInvStep ==
    ASSUME TypeOK, ReplyInv, [Next]_vars
    PROVE  ReplyInv'
<1>1. CASE Silent
  BY <1>1 DEF Silent, ReplyInv
<1>2. ASSUME NEW a \in Call, Arrival(a) PROVE ReplyInv'
  <2>1. in_timestamp[a] = 0 /\ replies[a] = 0 /\ a \notin queue
    BY <1>2 DEF Arrival, ReplyInv
  <2>2. in_timestamp'[a] # 0 /\ \A b \in Call \ {a} : in_timestamp'[b] = in_timestamp[b]
    BY <1>2 DEF Arrival, TypeOK, FabricTypeOK
  <2>3. CASE replies' = Replied(a) /\ UNCHANGED queue
    BY <2>1, <2>2, <2>3, RepliedFacts DEF ReplyInv
  <2>4. CASE UNCHANGED replies /\ (queue' = queue \/ queue' = queue \cup {a})
    BY <2>1, <2>2, <2>4 DEF ReplyInv
  <2> QED BY <1>2, <2>3, <2>4 DEF Arrival
<1>3. ASSUME NEW a \in Call, Departure(a) PROVE ReplyInv'
  <2>1. in_timestamp[a] # 0 /\ replies[a] = 0
    BY <1>3 DEF Departure, ReplyInv
  <2>2. replies'[a] \in {0, 1} /\ \A b \in Call \ {a} : replies'[b] = replies[b]
    BY <1>3, <2>1, RepliedFacts DEF Departure
  <2> QED BY <1>3, <2>1, <2>2 DEF Departure, ReplyInv
<1> QED BY <1>1, <1>2, <1>3, StepEffect

(* The daemon starts with calls that have not arrived.                     *)
LEMMA ReplyInvInit == Init => ReplyInv
BY DEF Init, FabricInit, ReplyInv

(* No caller is replied to twice: not by a late answer of a module or a    *)
(* fabric, nor by a timeout of process_queue_item that races one.          *)
THEOREM ReplyOnce == Spec => []AtMostOneReply
<1>1. TypeOK /\ ReplyInv /\ [Next]_vars => ReplyInv'
  BY ReplyInvStep
<1>2. ReplyInv => AtMostOneReply
  BY DEF ReplyInv, AtMostOneReply
<1> QED BY <1>1, <1>2, ReplyInvInit, TypeCorrect, PTL DEF Spec

(* What ReplyAccounting needs besides itself is that a call which has not  *)
(* arrived is not queued.                                                  *)
LEMMA AccountingStep ==
    ASSUME TypeOK, ReplyInv, ReplyAccounting, [Next]_vars
    PROVE  ReplyAccounting'
<1>1. CASE Silent
  BY <1>1 DEF Silent, ReplyAccounting
<1>2. ASSUME NEW a \in Call, Arrival(a) PROVE ReplyAccounting'
  <2>1. in_timestamp[a] = 0 /\ replies[a] = 0 /\ a \notin queue /\ up
    BY <1>2 DEF Arrival, ReplyInv
  <2>2. in_timestamp'[a] # 0 /\ \A b \in Call \ {a} : in_timestamp'[b] = in_timestamp[b]
    BY <1>2 DEF Arrival, TypeOK, FabricTypeOK
  <2>3. CASE UNCHANGED <<up, queue>> /\ replies' = Replied(a)
    <3>1. /\ IsLocal(a) => replies'[a] = 1
          /\ \A b \in Call \ {a} : replies'[b] = replies[b]
      BY <2>1, <2>3, RepliedFacts
    <3> QED BY <2>1, <2>2, <2>3, <3>1 DEF ReplyAccounting
  <2>4. CASE up' = FALSE
    BY <2>4 DEF ReplyAccounting
  <2>5. CASE queue' = queue \cup {a} /\ UNCHANGED <<up, replies>>
    BY <2>1, <2>2, <2>5 DEF ReplyAccounting
  <2> QED BY <1>2, <2>3, <2>4, <2>5 DEF Arrival
<1>3. ASSUME NEW a \in Call, Departure(a) PROVE ReplyAccounting'
  <2>1. in_timestamp[a] # 0 /\ replies[a] = 0 /\ up
    BY <1>3 DEF Departure, ReplyInv
  <2>2. /\ IsLocal(a) => replies'[a] = 1
        /\ \A b \in Call \ {a} : replies'[b] = replies[b]
    BY <1>3, <2>1, RepliedFacts DEF Departure
  <2> QED BY <1>3, <2>1, <2>2 DEF Departure, ReplyAccounting
<1> QED BY <1>1, <1>2, <1>3, StepEffect

(* While the daemon lives, a local caller has exactly one reply once its   *)
(* call has left proxy->queue, and none before: no handler drops a local   *)
(* call without send_message and none sends to the caller of one it keeps. *)
THEOREM LocalCallsAccounted == Spec => []ReplyAccounting
<1>1. TypeOK /\ ReplyInv /\ [Next]_vars => ReplyInv'
  BY ReplyInvStep
<1>2. TypeOK /\ ReplyInv /\ ReplyAccounting /\ [Next]_vars => ReplyAccounting'
  BY AccountingStep
<1>3. Init => ReplyAccounting
  BY DEF Init, FabricInit, ReplyAccounting
<1> QED BY <1>1, <1>2, <1>3, ReplyInvInit, TypeCorrect, PTL DEF Spec

-----------------------------------------------------------------------------
(* The status of call a moves from one value to another, and no other      *)
(* call's does.                                                            *)
LEMMA MoveFacts ==
    ASSUME NEW a \in Call, NEW from, NEW to, up,
           CallStatus(a) = from, CallStatus(a)' = to,
           \A b \in Call \ {a} : CallStatus(b)' = CallStatus(b)
    PROVE  Service!Move(a, from, to)
<1> DEFINE st == [b \in Call |-> CallStatus(b)]
<1>1. st' = [st EXCEPT ![a] = to]
  OBVIOUS
<1>2. st[a] = from
  OBVIOUS
<1> QED BY <1>1, <1>2 DEF Service!Move

(* A step that leaves the calls alone is a stutter or the end of the       *)
(* daemon.                                                                 *)
LEMMA SilentRefines ==
    ASSUME Silent
    PROVE  [Service!Next]_(Service!serviceVars)
<1>1. \A a \in Call : CallStatus(a)' = CallStatus(a)
  BY DEF Silent, CallStatus
<1> DEFINE st == [b \in Call |-> CallStatus(b)]
<1>2. st' = st
  BY <1>1
<1>3. CASE up' = up
  BY <1>2, <1>3 DEF Service!serviceVars
<1>4. CASE up /\ up' = FALSE
  BY <1>2, <1>4 DEF Service!Next, Service!Fail
<1> QED BY <1>3, <1>4 DEF Silent

(* An arrival is an acceptance, a refusal, or, when the daemon comes down  *)
(* or the caller is gone, a loss.                                          *)
LEMMA ArrivalRefines ==
    ASSUME TypeOK, ReplyInv, NEW a \in Call, Arrival(a)
    PROVE  Service!Next
<1>1. up /\ in_timestamp[a] = 0 /\ replies[a] = 0 /\ a \notin queue /\ CallStatus(a) = "new"
  BY DEF Arrival, ReplyInv, CallStatus
<1>2. in_timestamp'[a] # 0 /\ \A b \in Call \ {a} : in_timestamp'[b] = in_timestamp[b]
  BY DEF Arrival, TypeOK, FabricTypeOK
<1>3. CASE UNCHANGED <<up, queue>> /\ replies' = Replied(a)
  <2>1. /\ replies'[a] \in {0, 1}
        /\ IsLocal(a) => replies'[a] = 1
        /\ \A b \in Call \ {a} : replies'[b] = replies[b]
    BY <1>1, <1>3, RepliedFacts
  <2>2. \A b \in Call \ {a} : CallStatus(b)' = CallStatus(b)
    BY <1>2, <1>3, <2>1 DEF CallStatus
  <2>3. CASE replies'[a] = 1
    <3>1. CallStatus(a)' = "answered"
      BY <1>1, <1>2, <1>3, <2>3 DEF CallStatus
    <3> QED BY <1>1, <1>3, <2>2, <3>1, MoveFacts DEF Service!Next, Service!Refuse
  <2>4. CASE replies'[a] = 0
    <3>1. CallStatus(a)' = "lost" /\ ~ IsLocal(a)
      BY <1>1, <1>2, <1>3, <2>1, <2>4 DEF CallStatus
    <3>2. up' \in BOOLEAN
      BY <1>3 DEF TypeOK, SharedTypeOK
    <3>3. Service!Move(a, "new", "lost")
      BY <1>1, <2>2, <3>1, MoveFacts
    <3>4. Service!Lose(a)
      BY <3>1, <3>2, <3>3 DEF Service!Lose
    <3> QED BY <3>4 DEF Service!Next
  <2> QED BY <2>1, <2>3, <2>4
<1>4. CASE up' = FALSE /\ UNCHANGED <<queue, replies>>
  <2>1. \A b \in Call \ {a} : CallStatus(b)' = CallStatus(b)
    BY <1>2, <1>4 DEF CallStatus
  <2>2. CallStatus(a)' = "lost"
    BY <1>1, <1>2, <1>4 DEF CallStatus
  <2>3. Service!Move(a, "new", "lost")
    BY <1>1, <2>1, <2>2, MoveFacts
  <2> QED BY <1>1, <1>4, <2>3 DEF Service!Next, Service!Fail
<1>5. CASE queue' = queue \cup {a} /\ UNCHANGED <<up, replies>>
  <2>1. \A b \in Call \ {a} : CallStatus(b)' = CallStatus(b)
    BY <1>2, <1>5 DEF CallStatus
  <2>2. CallStatus(a)' = "open"
    BY <1>1, <1>2, <1>5 DEF CallStatus
  <2>3. Service!Move(a, "new", "open")
    BY <1>1, <2>1, <2>2, MoveFacts
  <2> QED BY <1>5, <2>3 DEF Service!Next, Service!Accept
<1> QED BY <1>3, <1>4, <1>5 DEF Arrival

(* The end of a call is its answer, or the loss of it by a caller that is  *)
(* gone.                                                                   *)
LEMMA DepartureRefines ==
    ASSUME TypeOK, ReplyInv, NEW a \in Call, Departure(a)
    PROVE  Service!Next
<1>1. up /\ in_timestamp[a] # 0 /\ replies[a] = 0 /\ CallStatus(a) = "open"
  BY DEF Departure, ReplyInv, CallStatus
<1>2. queue' = queue \ {a} /\ UNCHANGED in_timestamp /\ up' \in BOOLEAN
  BY DEF Departure
<1>3. /\ replies'[a] \in {0, 1}
      /\ IsLocal(a) => replies'[a] = 1
      /\ \A b \in Call \ {a} : replies'[b] = replies[b]
  BY <1>1, RepliedFacts DEF Departure
<1>4. \A b \in Call \ {a} : CallStatus(b)' = CallStatus(b)
  BY <1>2, <1>3 DEF CallStatus
<1>5. CASE replies'[a] = 1
  <2>1. CallStatus(a)' = "answered"
    BY <1>1, <1>2, <1>5 DEF CallStatus
  <2>2. Service!Move(a, "open", "answered")
    BY <1>1, <1>4, <2>1, MoveFacts
  <2> QED BY <1>2, <2>2 DEF Service!Next, Service!Answer
<1>6. CASE replies'[a] = 0
  <2>1. CallStatus(a)' = "lost" /\ ~ IsLocal(a)
    BY <1>1, <1>2, <1>3, <1>6 DEF CallStatus
  <2>2. Service!Move(a, "open", "lost")
    BY <1>1, <1>4, <2>1, MoveFacts
  <2>3. Service!Lose(a)
    BY <1>2, <2>1, <2>2 DEF Service!Lose
  <2> QED BY <2>3 DEF Service!Next
<1> QED BY <1>3, <1>5, <1>6

(* The daemon of modbusd.c and procman.c implements CallService.           *)
THEOREM ServiceImplemented == Spec => ImplementsCallService
<1>1. Init => Service!Init
  <2> SUFFICES ASSUME Init PROVE Service!Init
    OBVIOUS
  <2>1. up = TRUE /\ \A a \in Call : CallStatus(a) = "new"
    BY DEF Init, SharedInit, FabricInit, CallStatus
  <2> QED BY <2>1 DEF Service!Init
<1>2. TypeOK /\ ReplyInv /\ [Next]_vars => [Service!Next]_(Service!serviceVars)
  BY StepEffect, SilentRefines, ArrivalRefines, DepartureRefines
<1>3. TypeOK /\ ReplyInv /\ [Next]_vars => ReplyInv'
  BY ReplyInvStep
<1> QED
  BY <1>1, <1>2, <1>3, ReplyInvInit, TypeCorrect, PTL DEF Spec, ImplementsCallService, Service!Spec

=============================================================================
