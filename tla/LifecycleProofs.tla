--------------------------- MODULE LifecycleProofs --------------------------
(***************************************************************************)
(* What holds of the daemon from start to stop, whatever signals come and  *)
(* whenever, for any number of processes and any waits: its pid file, its  *)
(* beacon, and the end of the processes it has started.  The argument is   *)
(* the invariant LifeInv of module Lifecycle, which follows killall        *)
(* through procman's pipe and counts the time that passes meanwhile.       *)
(***************************************************************************)
EXTENDS Lifecycle, InterfacesProofs, SequenceTheorems, TLAPS

(* The messages procman is sent.                                           *)
LEMMA MsgTypes ==
    /\ \A p \in Pid \cup {NULL} : /\ <<"check_pid", p>> \in LifeMsg
                                  /\ <<"register", p>> \in LifeMsg
                                  /\ <<"restart", p>> \in LifeMsg
    /\ <<"startall", NULL>> \in LifeMsg
    /\ <<"stop_all", NULL>> \in LifeMsg
    /\ <<"killall", NULL>> \in LifeMsg
BY DEF LifeMsg

(* The pipe when a message has been sent.                                  *)
LEMMA SentFacts ==
    ASSUME toProcman \in Seq(LifeMsg), NEW m \in LifeMsg, toProcman' = Append(toProcman, m)
    PROVE  /\ toProcman' \in Seq(LifeMsg) /\ toProcman' # << >>
           /\ Len(toProcman) \in Nat /\ Len(toProcman') = Len(toProcman) + 1
           /\ \A k \in 1 .. Len(toProcman) : toProcman'[k] = toProcman[k]
           /\ toProcman'[Len(toProcman) + 1] = m
           /\ Head(toProcman') = IF toProcman = << >> THEN m ELSE Head(toProcman)
<1>1. /\ toProcman' \in Seq(LifeMsg) /\ Len(toProcman) \in Nat
      /\ Len(toProcman') = Len(toProcman) + 1
      /\ \A k \in 1 .. Len(toProcman) : toProcman'[k] = toProcman[k]
      /\ toProcman'[Len(toProcman) + 1] = m
  BY AppendProperties, LenProperties
<1>2. toProcman' # << >>
  BY <1>1, EmptySeq
<1>3. Head(toProcman') = IF toProcman = << >> THEN m ELSE Head(toProcman)
  BY HeadTailAppend
<1> QED BY <1>1, <1>2, <1>3

(* The first d messages have been read.                                    *)
Shifted(d) ==
    /\ d \in Nat /\ d > 0
    /\ toProcman' \in Seq(LifeMsg)
    /\ Len(toProcman') \in Nat
    /\ Len(toProcman') = Len(toProcman) - d
    /\ \A k \in 1 .. Len(toProcman') :
         k + d \in 1 .. Len(toProcman) /\ toProcman'[k] = toProcman[k + d]

(* The pipe when a message, or two at once, have been read.                *)
LEMMA ReadFacts ==
    ASSUME toProcman \in Seq(LifeMsg), toProcman # << >>
    PROVE  /\ 1 \in 1 .. Len(toProcman) /\ Head(toProcman) = toProcman[1]
           /\ toProcman' = Tail(toProcman) => Shifted(1)
           /\ Len(toProcman) >= 2 /\ toProcman' = Tail(Tail(toProcman)) => Shifted(2)
<1>0. Len(toProcman) \in Nat \ {0}
  BY EmptySeq
<1> DEFINE T == Tail(toProcman)
<1>1. /\ T \in Seq(LifeMsg) /\ Len(T) = Len(toProcman) - 1
      /\ \A k \in 1 .. Len(T) : T[k] = toProcman[k + 1]
  BY HeadTailProperties
<1>2. ASSUME toProcman' = T PROVE Shifted(1)
  <2> HIDE DEF T
  <2> QED BY <1>0, <1>1, <1>2 DEF Shifted
<1>3. ASSUME Len(toProcman) >= 2, toProcman' = Tail(T) PROVE Shifted(2)
  <2> HIDE DEF T
  <2>1. T # << >>
    BY <1>0, <1>1, <1>3, EmptySeq
  <2>2. /\ Tail(T) \in Seq(LifeMsg) /\ Len(Tail(T)) = Len(T) - 1
        /\ \A k \in 1 .. Len(Tail(T)) : Tail(T)[k] = T[k + 1]
    BY <1>1, <2>1, HeadTailProperties
  <2>3. \A k \in 1 .. Len(Tail(T)) : k + 1 \in 1 .. Len(T) /\ T[k + 1] = toProcman[k + 2]
    BY <1>0, <1>1, <2>2
  <2>4. Len(Tail(T)) = Len(toProcman) - 2 /\ Len(Tail(T)) \in Nat
    BY <1>0, <1>1, <1>3, <2>2
  <2>5. \A k \in 1 .. Len(Tail(T)) : k + 2 \in 1 .. Len(toProcman) /\ Tail(T)[k] = toProcman[k + 2]
    BY <1>0, <2>2, <2>3, <2>4
  <2> QED BY <1>3, <2>2, <2>4, <2>5 DEF Shifted
<1>4. Head(toProcman) = toProcman[1]
  OBVIOUS
<1> QED BY <1>0, <1>2, <1>3, <1>4

-----------------------------------------------------------------------------
(* Reading keeps what is known of the messages that are left.              *)
LEMMA OrderKept ==
    ASSUME KillallOrder, Len(toProcman) \in Nat, NEW d, Shifted(d) \/ UNCHANGED toProcman,
           Stopping => Stopping', killed' = killed, awake => awake'
    PROVE  KillallOrder'
<1>1. ASSUME UNCHANGED toProcman PROVE KillallOrder'
  BY <1>1 DEF KillallOrder, FinalFrom
<1>2. ASSUME Shifted(d) PROVE KillallOrder'
  <2>1. ASSUME NEW k \in 1 .. Len(toProcman'), toProcman'[k] = <<"killall", NULL>>
        PROVE  Stopping' /\ FinalFrom(k)'
    <3>1. k + d \in 1 .. Len(toProcman) /\ toProcman[k + d] = <<"killall", NULL>>
      BY <1>2, <2>1 DEF Shifted
    <3>2. Stopping /\ FinalFrom(k + d)
      BY <3>1 DEF KillallOrder
    <3>3. ASSUME NEW j \in k .. Len(toProcman')
          PROVE  toProcman'[j] \in {<<"stop_all", NULL>>, <<"killall", NULL>>}
      <4>1. j \in 1 .. Len(toProcman') /\ j + d \in (k + d) .. Len(toProcman)
        BY <1>2 DEF Shifted
      <4> QED BY <1>2, <3>2, <4>1 DEF Shifted, FinalFrom
    <3> QED BY <3>2, <3>3 DEF FinalFrom
  <2>2. ASSUME killed PROVE Stopping' /\ awake' /\ FinalFrom(1)'
    <3>1. Stopping /\ awake /\ FinalFrom(1)
      BY <2>2 DEF KillallOrder
    <3>2. ASSUME NEW j \in 1 .. Len(toProcman')
          PROVE  toProcman'[j] \in {<<"stop_all", NULL>>, <<"killall", NULL>>}
      <4>1. j + d \in 1 .. Len(toProcman) /\ toProcman'[j] = toProcman[j + d]
        BY <1>2 DEF Shifted
      <4> QED BY <3>1, <4>1 DEF FinalFrom
    <3> QED BY <3>1, <3>2 DEF FinalFrom
  <2> QED BY <2>1, <2>2 DEF KillallOrder
<1> QED BY <1>1, <1>2

(* Sending before the end keeps it, and so does the end.                   *)
LEMMA OrderSent ==
    ASSUME LifeTypeOK, KillallOrder, NEW m \in LifeMsg, toProcman' = Append(toProcman, m),
           UNCHANGED <<killed, awake>>,
           \/ ~ Stopping /\ m # <<"killall", NULL>>
           \/ Stopping' /\ m \in {<<"stop_all", NULL>>, <<"killall", NULL>>}
    PROVE  KillallOrder'
<1>1. /\ Len(toProcman) \in Nat /\ Len(toProcman') = Len(toProcman) + 1
      /\ \A k \in 1 .. Len(toProcman) : toProcman'[k] = toProcman[k]
      /\ toProcman'[Len(toProcman) + 1] = m
  BY SentFacts DEF LifeTypeOK
<1>0. \A k \in 1 .. Len(toProcman') : k \in 1 .. Len(toProcman) \/ k = Len(toProcman) + 1
  BY <1>1
<1>2. CASE ~ Stopping /\ m # <<"killall", NULL>>
  <2>1. ~ killed /\ \A k \in 1 .. Len(toProcman) : toProcman[k] # <<"killall", NULL>>
    BY <1>2 DEF KillallOrder
  <2>2. \A k \in 1 .. Len(toProcman') : toProcman'[k] # <<"killall", NULL>>
    BY <1>0, <1>1, <1>2, <2>1
  <2> QED BY <2>1, <2>2 DEF KillallOrder
<1>3. CASE Stopping' /\ m \in {<<"stop_all", NULL>>, <<"killall", NULL>>}
  <2>1. \A j \in 1 .. Len(toProcman') :
          (\A i \in j .. Len(toProcman) : toProcman[i] \in {<<"stop_all", NULL>>, <<"killall", NULL>>})
            => \A i \in j .. Len(toProcman') : toProcman'[i] \in {<<"stop_all", NULL>>, <<"killall", NULL>>}
    BY <1>0, <1>1, <1>3
  <2>3. FinalFrom(1) => FinalFrom(1)'
    BY <1>1, <2>1 DEF FinalFrom
  <2>4. ASSUME NEW k \in 1 .. Len(toProcman'), toProcman'[k] = <<"killall", NULL>>
        PROVE  FinalFrom(k)'
    <3>1. \A i \in k .. Len(toProcman) : toProcman[i] \in {<<"stop_all", NULL>>, <<"killall", NULL>>}
      <4>1. CASE k \in 1 .. Len(toProcman)
        BY <1>1, <2>4, <4>1 DEF KillallOrder, FinalFrom
      <4>2. CASE k = Len(toProcman) + 1
        BY <1>1, <4>2
      <4> QED BY <1>0, <4>1, <4>2
    <3> QED BY <2>1, <3>1 DEF FinalFrom
  <2> QED BY <1>3, <2>3, <2>4 DEF KillallOrder
<1> QED BY <1>2, <1>3

-----------------------------------------------------------------------------
(* A message is read as itself.                                            *)
LEMMA CommandRead ==
    ASSUME LifeTypeOK, NEW cmd, NEW p, Command(cmd, p)
    PROVE  /\ 1 \in 1 .. Len(toProcman) /\ Head(toProcman) = <<cmd, p>>
           /\ toProcman[1] = <<cmd, p>> /\ Shifted(1) /\ UNCHANGED up
BY ReadFacts DEF LifeTypeOK, Command

(* A daemon that does not run has an empty pipe and has killed nobody.     *)
LEMMA BootOrder ==
    ASSUME KillallOrder, ~ Stopping, UNCHANGED <<toProcman, killed, awake>>
    PROVE  KillallOrder'
BY DEF KillallOrder

(* Only stopping follows stopping, or the end.                             *)
LEMMA StoppingStays ==
    ASSUME PidFileHeld, Next \/ UNCHANGED vars, Stopping
    PROVE  phase' = "down" \/ Stopping'
<1> USE DEF Stopping
<1>1. pid_file
  BY DEF PidFileHeld
<1>2. CASE Start \/ execute
  BY <1>2 DEF Start, execute, ForkThreads, BindGlobal, BindLocal
<1>3. CASE Signal \/ SignalInside \/ SendKillall \/ Exit \/ Dies \/ RemovePidFile \/ ScriptStop
  BY <1>3 DEF Signal, SignalInside, Finalize, SendKillall, Exit, Dies, Gone, RemovePidFile, ScriptStop
<1>4. CASE ScriptStart
  BY <1>1, <1>4 DEF ScriptStart, createPidFile
<1>5. CASE procman_thread \/ FabricReads \/ ProcessStep \/ Tick \/ BeaconStep \/ UNCHANGED vars
  BY <1>5 DEF procman_thread, FabricReads, ProcessStep, Tick, BeaconStep, vars, lifeVars
<1>6. ASSUME NEW cmd, NEW p, FabricSends(cmd, p) PROVE Stopping'
  BY <1>6 DEF FabricSends, lifeVars
<1> QED BY <1>2, <1>3, <1>4, <1>5, <1>6 DEF Next

-----------------------------------------------------------------------------
(* The pid file is removed by the daemon that ends or after its end, and a *)
(* daemon that starts creates it.                                          *)
LEMMA PidFileStep ==
    ASSUME PidFileHeld, [Next]_vars
    PROVE  PidFileHeld'
<1> USE DEF PidFileHeld
<1>1. CASE Start \/ execute
  BY <1>1 DEF Start, createPidFile, execute, ForkThreads, BindGlobal, BindLocal
<1>2. CASE Signal \/ SignalInside \/ SendKillall \/ ScriptStop
  BY <1>2 DEF Signal, SignalInside, ScriptStop, SendKillall, KillallDue, Stopping
<1>3. CASE Exit \/ Dies \/ RemovePidFile
  BY <1>3 DEF Exit, Dies, Gone, RemovePidFile
<1>4. CASE ScriptStart
  BY <1>4 DEF ScriptStart, createPidFile
<1>5. CASE procman_thread \/ FabricReads \/ ProcessStep \/ Tick \/ BeaconStep \/ UNCHANGED vars
  BY <1>5 DEF procman_thread, FabricReads, ProcessStep, Tick, BeaconStep, vars, lifeVars
<1>6. ASSUME NEW cmd, NEW p, FabricSends(cmd, p) PROVE PidFileHeld'
  BY <1>6 DEF FabricSends, lifeVars
<1> QED BY <1>1, <1>2, <1>3, <1>4, <1>5, <1>6 DEF Next

(* A pid file is held by every daemon that is past createPidFile, until    *)
(* the process has ended: O_EXCL then keeps a second one from starting,    *)
(* also while finalize waits and when signals interrupt it.                *)
THEOREM PidFileAlwaysHeld == Spec => []PidFileHeld
<1>1. Init => PidFileHeld
  BY DEF Init, PidFileHeld
<1> QED BY <1>1, PidFileStep, PTL DEF Spec

-----------------------------------------------------------------------------
(* What main and the beacon thread say to each other is said in turn.      *)
BeaconInv ==
    /\ phase \in Phase
    /\ toBeacon \in Seq({"endpoint", "start"})
    /\ PidFileHeld
    /\ BeaconInStep
    /\ AnnouncedWhenReady

(* Every step of main, of the beacon thread and of a signal keeps that.    *)
LEMMA BeaconInvStep ==
    ASSUME BeaconInv, [Next]_vars
    PROVE  BeaconInv'
<1>0. phase \in Phase /\ toBeacon \in Seq({"endpoint", "start"}) /\ PidFileHeld' /\ BeaconInStep /\ AnnouncedWhenReady
      /\ PidFileHeld
  BY PidFileStep DEF BeaconInv
<1>1. ASSUME UNCHANGED <<phase, beaconVars>> PROVE BeaconInv'
  BY <1>0, <1>1 DEF BeaconInv, BeaconInStep, AnnouncedWhenReady, beaconVars, Phase
<1>2. ASSUME phase = "down", phase' = "starting", UNCHANGED beaconVars PROVE BeaconInv'
  BY <1>0, <1>2 DEF BeaconInv, BeaconInStep, AnnouncedWhenReady, beaconVars, Phase
<1>3. ASSUME Stopping', UNCHANGED beaconVars PROVE BeaconInv'
  BY <1>0, <1>3 DEF BeaconInv, BeaconInStep, AnnouncedWhenReady, beaconVars, Phase, Stopping
<1>4. ASSUME createPidFile PROVE BeaconInv'
  BY <1>0, <1>2, <1>4 DEF createPidFile, PidFileHeld
<1>5. CASE ForkThreads
  BY <1>0, <1>5 DEF ForkThreads, BeaconInv, BeaconInStep, AnnouncedWhenReady, Phase
<1>6. CASE BindGlobal
  <2>1. toBeacon = << >> /\ toBeacon' = << "endpoint" >>
    BY <1>0, <1>6 DEF BindGlobal, BeaconInStep
  <2>2. << "endpoint" >> \in Seq({"endpoint", "start"}) /\ Len(<< "endpoint" >>) = 1
    OBVIOUS
  <2> QED BY <1>0, <1>6, <2>1, <2>2 DEF BindGlobal, BeaconInv, BeaconInStep, AnnouncedWhenReady, Phase
<1>7. CASE BindLocal
  <2>1. toBeacon' \in Seq({"endpoint", "start"})
    BY <1>0, <1>7, AppendProperties DEF BindLocal
  <2> QED BY <1>0, <1>7, <2>1 DEF BindLocal, BeaconInv, BeaconInStep, AnnouncedWhenReady, Phase
<1>8. CASE Signal \/ SignalInside \/ SendKillall \/ ScriptStop
  BY <1>3, <1>8 DEF Signal, SignalInside, Finalize, ScriptStop, SendKillall, Stopping
<1>9. ASSUME Gone PROVE BeaconInv'
  BY <1>0, <1>9 DEF Gone, BeaconInv, BeaconInStep, AnnouncedWhenReady, Phase
<1>10. CASE BeaconStep
  <2>1. UNCHANGED phase
    BY <1>10 DEF BeaconStep, lifeVars
  <2>2. CASE SendIP
    BY <1>0, <2>1, <2>2 DEF SendIP, BeaconInv, BeaconInStep, AnnouncedWhenReady, Phase
  <2>3. ASSUME NEW from \in {"ip", "named"}, NEW to, Awaits(from, to),
               from = "ip" => to = "named", from = "named" => to = "published"
        PROVE  BeaconInv'
    <3>1. /\ Tail(toBeacon) \in Seq({"endpoint", "start"}) /\ Len(Tail(toBeacon)) = Len(toBeacon) - 1
          /\ Len(toBeacon) \in Nat \ {0}
      BY <1>0, <2>3, HeadTailProperties, EmptySeq DEF Awaits
    <3> DEFINE t == Tail(toBeacon)
    <3>2. Len(t) = 0 => t = << >>
      <4> HIDE DEF t
      <4>1. t \in Seq({"endpoint", "start"})
        BY <3>1 DEF t
      <4> QED BY <4>1, EmptySeq
    <3>3. Len(toBeacon) = 1 => Tail(toBeacon) = << >>
      BY <3>1, <3>2
    <3>4. phase \in {"bound", "running", "stopping", "killing"}
      BY <1>0, <2>3 DEF Awaits, BeaconInStep, Phase
    <3>5. phase = "bound" => from = "ip" /\ toBeacon' = << >>
      BY <1>0, <2>3, <3>1, <3>3 DEF Awaits, BeaconInStep
    <3>6. BeaconInStep'
      BY <2>1, <2>3, <3>4, <3>5 DEF Awaits, BeaconInStep
    <3> QED BY <1>0, <2>1, <2>3, <3>1, <3>4, <3>5, <3>6 DEF Awaits, BeaconInv, AnnouncedWhenReady
  <2> QED BY <1>10, <2>2, <2>3 DEF BeaconStep, beacon_thread
<1>11. CASE RemovePidFile \/ procman_thread \/ FabricReads \/ ProcessStep \/ Tick \/ UNCHANGED vars
  BY <1>1, <1>11
  DEF RemovePidFile, procman_thread, FabricReads, ProcessStep, Tick, vars, lifeVars
<1>12. ASSUME NEW cmd, NEW p, FabricSends(cmd, p) PROVE BeaconInv'
  BY <1>1, <1>12 DEF FabricSends, lifeVars
<1>13. CASE ScriptStart
  BY <1>1, <1>4, <1>13 DEF ScriptStart
<1> QED
  BY <1>4, <1>5, <1>6, <1>7, <1>8, <1>9, <1>10, <1>11, <1>12, <1>13
  DEF Next, Start, execute, Exit, Dies
(* The network hears of the daemon when both its sockets are bound: the    *)
(* beacon thread reads two messages, and the second is sent behind the     *)
(* second socket.                                                          *)
THEOREM AnnouncedReady == Spec => []AnnouncedWhenReady
<1>1. Init => BeaconInv
  BY EmptySeq DEF Init, BeaconInit, BeaconInv, Phase, PidFileHeld, BeaconInStep, AnnouncedWhenReady
<1>2. BeaconInv => AnnouncedWhenReady
  BY DEF BeaconInv
<1> QED BY <1>1, <1>2, BeaconInvStep, PTL DEF Spec

-----------------------------------------------------------------------------
(* What procman reads, and the time that takes: the first message, killall,*)
(* a restart, a register that was cut short, anything else, or nothing.    *)
Begins   == ~ awake /\ awake' /\ Shifted(1) /\ UNCHANGED <<killed, torn, clock, late>>
Kills    == /\ toProcman[1] = <<"killall", NULL>> /\ Shifted(1)
            /\ awake /\ killed' /\ UNCHANGED <<awake, torn, clock, late>>
Restarts == /\ toProcman[1][1] = "restart" /\ Shifted(1)
            /\ awake /\ UNCHANGED <<awake, killed, torn>>
            /\ \/ NoTime
               \/ Stopping /\ clock' = clock + RestartTime /\ late' = late + RestartTime
Cuts     == /\ toProcman[1] = <<"register", NULL>> /\ Shifted(2)
            /\ awake /\ torn' = (torn \/ toProcman[2] = <<"killall", NULL>>)
            /\ UNCHANGED <<awake, killed, clock, late>>
Answers  == /\ toProcman[1][1] \in {"stop_all", "check_pid", "register"} /\ Shifted(1)
            /\ awake /\ UNCHANGED <<awake, killed, torn, clock, late>>
Idles    == UNCHANGED <<toProcman, awake, killed, torn, clock, late>>

(* Procman's steps are of these six kinds.                                 *)
LEMMA ProcmanReads ==
    ASSUME LifeTypeOK, procman_thread
    PROVE  /\ UNCHANGED <<phase, pid_file, signals, beaconVars>>
           /\ Begins \/ Kills \/ Restarts \/ Cuts \/ Answers \/ Idles
<1>1. UNCHANGED <<phase, pid_file, signals, beaconVars>>
  BY DEF procman_thread
<1>2. CASE FirstMessage
  BY <1>1, <1>2, ReadFacts DEF FirstMessage, NoTime, LifeTypeOK, Begins
<1>3. CASE awake /\ StopAll
  BY <1>1, <1>3, CommandRead DEF StopAll, NoTime, Answers
<1>4. CASE awake /\ KillAll
  BY <1>1, <1>4, CommandRead DEF KillAll, NoTime, Kills
<1>5. ASSUME awake, NEW p \in Pid, SleepingRestart(p) PROVE Restarts
  <2>1. Command("restart", p) /\ UNCHANGED flags
    BY <1>5 DEF SleepingRestart, Restart
  <2>2. \/ NoTime
        \/ Stopping /\ clock' = clock + RestartTime /\ late' = late + RestartTime
    BY <1>5 DEF SleepingRestart, NoTime
  <2> QED BY <1>5, <2>1, <2>2, CommandRead DEF flags, Restarts
<1>6. ASSUME awake, NEW p, CheckPid(p) /\ NoTime /\ UNCHANGED flags PROVE Answers
  BY <1>6, CommandRead DEF CheckPid, NoTime, flags, Answers
<1>7. ASSUME awake, NEW p, RegisterPid(p) /\ NoTime /\ UNCHANGED flags PROVE Answers
  BY <1>7, CommandRead DEF RegisterPid, NoTime, flags, Answers
<1>8. CASE awake /\ toProcman # << >> /\ RegisterCut
  BY <1>1, <1>8, ReadFacts DEF RegisterCut, NoTime, LifeTypeOK, Cuts
<1>9. CASE Checks
  BY <1>1, <1>9 DEF Checks, checkpid_event, StartTimeout, NotRunning, MaxMem, Watched, NoTime, flags, Idles
<1> QED
  BY <1>1, <1>2, <1>3, <1>4, <1>5, <1>6, <1>7, <1>8, <1>9 DEF procman_thread, Asked

(* Nobody has a pid the model does not follow.                             *)
LEMMA SpawnedStep ==
    ASSUME spawned \subseteq Pid, [Next]_vars
    PROVE  spawned' \subseteq Pid
<1>1. CASE Start \/ execute \/ ScriptStart
  BY <1>1 DEF Start, execute, ForkThreads, BindGlobal, BindLocal, ScriptStart, createPidFile,
              threadVars, sharedVars
<1>2. CASE Signal \/ SignalInside \/ ScriptStop \/ SendKillall
  BY <1>2 DEF Signal, SignalInside, ScriptStop, Finalize, SendKillall, threadVars
<1>3. CASE Exit \/ Dies \/ RemovePidFile
  BY <1>3 DEF Exit, Dies, Gone, RemovePidFile, threadVars
<1>4. CASE procman_thread
  <2>1. CASE FirstMessage
    BY <2>1, ConfigAssumption DEF FirstMessage, StartModules
  <2>2. ASSUME NEW p \in Pid, SleepingRestart(p) PROVE spawned' \subseteq Pid
    BY <2>2 DEF SleepingRestart, Restart, Fork, Spare
  <2>3. CASE StopAll \/ KillAll \/ RegisterCut
    BY <2>3 DEF StopAll, KillAll, RegisterCut
  <2>4. ASSUME NEW p, CheckPid(p) \/ RegisterPid(p) PROVE spawned' \subseteq Pid
    BY <2>4 DEF CheckPid, RegisterPid
  <2>5. CASE Checks
    BY <2>5 DEF Checks, checkpid_event, StartTimeout, NotRunning, MaxMem
  <2> QED BY <1>4, <2>1, <2>2, <2>3, <2>4, <2>5 DEF procman_thread, Asked
<1>5. CASE FabricReads \/ ProcessStep \/ Tick \/ BeaconStep \/ UNCHANGED vars
  BY <1>5 DEF FabricReads, ProcessStep, ProcessDies, Tick, BeaconStep, vars, sharedVars
<1>6. ASSUME NEW cmd, NEW p, FabricSends(cmd, p) PROVE spawned' \subseteq Pid
  BY <1>6 DEF FabricSends
<1> QED BY <1>1, <1>2, <1>3, <1>4, <1>5, <1>6 DEF Next

(* The pipe holds what procman understands, and the clocks are clocks.     *)
LEMMA LifeTypeStep ==
    ASSUME LifeTypeOK, BeaconInv, [Next]_vars
    PROVE  LifeTypeOK'
<1>0. /\ phase' \in Phase /\ toBeacon' \in Seq({"endpoint", "start"}) /\ spawned' \subseteq Pid
      /\ toProcman \in Seq(LifeMsg) /\ clock \in Nat /\ late \in Nat /\ late <= clock
  BY BeaconInvStep, SpawnedStep DEF BeaconInv, LifeTypeOK
<1>1. ASSUME NEW m \in LifeMsg, toProcman' = Append(toProcman, m), UNCHANGED <<clock, late>>
      PROVE  LifeTypeOK'
  BY <1>0, <1>1, SentFacts DEF LifeTypeOK
<1>2. ASSUME NEW m \in LifeMsg, Finalize(m) PROVE LifeTypeOK'
  BY <1>0, <1>2, SentFacts DEF Finalize, LifeTypeOK
<1>3. ASSUME UNCHANGED <<toProcman, clock, late>> PROVE LifeTypeOK'
  BY <1>0, <1>3 DEF LifeTypeOK
<1>4. CASE Start \/ ScriptStart
  BY <1>3, <1>4 DEF Start, ScriptStart, createPidFile, sharedVars
<1>5. CASE execute
  BY <1>1, <1>3, <1>5, MsgTypes DEF execute, ForkThreads, BindGlobal, BindLocal
<1>6. CASE Signal \/ ScriptStop
  BY <1>2, <1>6, MsgTypes DEF Signal, ScriptStop
<1>7. CASE SignalInside
  <2>1. PICK p \in spawned : \E msg \in {<<"check_pid", NULL>>, <<"register", NULL>>, <<"register", p>>} :
                                Finalize(msg)
    BY <1>7 DEF SignalInside
  <2>2. /\ <<"check_pid", NULL>> \in LifeMsg /\ <<"register", NULL>> \in LifeMsg
        /\ <<"register", p>> \in LifeMsg
    BY <2>1 DEF LifeMsg, LifeTypeOK
  <2> QED BY <1>2, <2>1, <2>2
<1>8. CASE SendKillall
  BY <1>1, <1>8, MsgTypes DEF SendKillall
<1>9. CASE Exit \/ Dies
  BY <1>0, <1>9, EmptySeq DEF Exit, Dies, Gone, LifeTypeOK
<1>10. CASE procman_thread
  <2>1. toProcman' \in Seq(LifeMsg)
    BY <1>0, <1>10, ProcmanReads DEF Begins, Kills, Restarts, Cuts, Answers, Idles, Shifted
  <2>2. \/ UNCHANGED <<clock, late>>
        \/ clock' = clock + RestartTime /\ late' = late + RestartTime
    BY <1>10, ProcmanReads DEF Begins, Kills, Restarts, Cuts, Answers, Idles, NoTime
  <2> QED BY <1>0, <2>1, <2>2, TimeAssumption DEF LifeTypeOK
<1>11. CASE RemovePidFile \/ FabricReads \/ ProcessStep \/ BeaconStep \/ UNCHANGED vars
  BY <1>3, <1>11 DEF RemovePidFile, FabricReads, ProcessStep, ProcessDies, BeaconStep,
                     vars, sharedVars, lifeVars
<1>12. CASE Tick
  BY <1>0, <1>12 DEF Tick, sharedVars, LifeTypeOK
<1>13. ASSUME NEW cmd \in {"check_pid", "register", "restart"}, NEW p \in Pid, FabricSends(cmd, p)
       PROVE  LifeTypeOK'
  <2>1. <<cmd, p>> \in LifeMsg
    BY DEF LifeMsg
  <2> QED BY <1>1, <1>13, <2>1 DEF FabricSends, lifeVars
<1> QED
  BY <1>4, <1>5, <1>6, <1>7, <1>8, <1>9, <1>10, <1>11, <1>12, <1>13 DEF Next

-----------------------------------------------------------------------------
(* Nothing that could start a process is ever sent, or read, behind        *)
(* killall.                                                                *)
LEMMA KillallOrderStep ==
    ASSUME LifeTypeOK, PidFileHeld, KillallOrder, [Next]_vars
    PROVE  KillallOrder'
<1>0. toProcman \in Seq(LifeMsg) /\ Len(toProcman) \in Nat
  BY LenProperties DEF LifeTypeOK
<1>1. ASSUME createPidFile PROVE KillallOrder'
  BY <1>1, BootOrder DEF createPidFile, threadVars, flags, PidFileHeld, Stopping
<1>2. CASE ForkThreads \/ BindGlobal
  BY <1>2, BootOrder DEF ForkThreads, BindGlobal, threadVars, flags, Stopping
<1>3. CASE BindLocal
  BY <1>3, OrderSent, MsgTypes DEF BindLocal, threadVars, flags, Stopping
<1>4. CASE Signal \/ ScriptStop
  BY <1>4, OrderSent, MsgTypes DEF Signal, ScriptStop, Finalize, threadVars, flags, Stopping
<1>5. CASE SignalInside
  <2>1. PICK p \in spawned : \E msg \in {<<"check_pid", NULL>>, <<"register", NULL>>, <<"register", p>>} :
                                Finalize(msg)
    BY <1>5 DEF SignalInside
  <2>2. PICK msg \in LifeMsg : Finalize(msg) /\ msg # <<"killall", NULL>>
    BY <2>1 DEF LifeMsg, LifeTypeOK
  <2> QED BY <1>5, <2>2, OrderSent DEF SignalInside, Finalize, threadVars, flags, Stopping
<1>6. CASE SendKillall
  BY <1>6, OrderSent, MsgTypes DEF SendKillall, threadVars, flags, Stopping
<1>7. CASE Exit \/ Dies
  <2>1. toProcman' = << >> /\ killed' = FALSE
    BY <1>7 DEF Exit, Dies, Gone
  <2> QED BY <2>1, EmptySeq DEF KillallOrder
<1>8. CASE procman_thread
  <2>1. UNCHANGED Stopping
    BY <1>8 DEF procman_thread, Stopping
  <2>2. CASE Begins \/ Restarts \/ Cuts \/ Answers \/ Idles
    BY <1>0, <2>1, <2>2, OrderKept DEF Begins, Restarts, Cuts, Answers, Idles
  <2>3. CASE Kills
    <3>1. 1 \in 1 .. Len(toProcman) /\ Stopping /\ FinalFrom(1)
      <4>1. toProcman # << >>
        BY <1>0, <2>3, EmptySeq DEF Kills, Shifted
      <4> QED BY <1>0, <2>3, <4>1, ReadFacts DEF Kills, KillallOrder
    <3>2. \A k \in 1 .. Len(toProcman') : /\ k + 1 \in 1 .. Len(toProcman)
                                          /\ toProcman'[k] = toProcman[k + 1]
      BY <2>3 DEF Kills, Shifted
    <3>3. \A k \in 1 .. Len(toProcman') : toProcman'[k] \in {<<"stop_all", NULL>>, <<"killall", NULL>>}
      BY <3>1, <3>2 DEF FinalFrom
    <3>4. \A k \in 1 .. Len(toProcman') : FinalFrom(k)'
      BY <2>3, <3>3 DEF FinalFrom, Kills, Shifted
    <3>5. FinalFrom(1)'
      BY <3>3 DEF FinalFrom
    <3> QED BY <2>1, <2>3, <3>1, <3>4, <3>5 DEF KillallOrder, Kills
  <2> QED BY <1>8, <2>2, <2>3, ProcmanReads
<1>9. CASE RemovePidFile \/ FabricReads \/ ProcessStep \/ BeaconStep \/ Tick \/ UNCHANGED vars
  BY <1>9 DEF KillallOrder, FinalFrom, Stopping, RemovePidFile, FabricReads, ProcessStep, ProcessDies,
              BeaconStep, Tick, vars, sharedVars, lifeVars, threadVars, flags
<1>10. ASSUME NEW cmd \in {"check_pid", "register", "restart"}, NEW p \in Pid, FabricSends(cmd, p)
       PROVE  KillallOrder'
  <2>1. <<cmd, p>> \in LifeMsg /\ <<cmd, p>> # <<"killall", NULL>>
    BY DEF LifeMsg
  <2> QED BY <1>10, <2>1, OrderSent DEF FabricSends, lifeVars, Stopping
<1> QED
  BY <1>1, <1>2, <1>3, <1>4, <1>5, <1>6, <1>7, <1>8, <1>9, <1>10
  DEF Next, Start, ScriptStart, execute, sharedVars, flags, KillallOrder, FinalFrom, Stopping

-----------------------------------------------------------------------------
(* What becomes of the processes.                                          *)
KnownInv == LifeTypeOK /\ PidFileHeld /\ KillallOrder /\ ForkedKnown /\ KillallIsLast

(* Procman forks a process as one it knows, ends it before it forgets it,  *)
(* and forks nothing any more behind killall.                              *)
LEMMA KnownStep ==
    ASSUME KnownInv, [Next]_vars
    PROVE  ForkedKnown' /\ KillallIsLast'
<1>0. LifeTypeOK /\ KillallOrder /\ ForkedKnown /\ KillallIsLast
  BY DEF KnownInv
<1>1. ASSUME running' \subseteq running, UNCHANGED <<has_mod, killed>>
      PROVE  ForkedKnown' /\ KillallIsLast'
  BY <1>0, <1>1 DEF ForkedKnown, KillallIsLast
<1>2. CASE Start \/ execute \/ ScriptStart
  BY <1>1, <1>2 DEF Start, execute, ForkThreads, BindGlobal, BindLocal, ScriptStart, createPidFile,
                    threadVars, sharedVars, procmanVars, flags
<1>3. CASE Signal \/ SignalInside \/ ScriptStop \/ SendKillall \/ RemovePidFile
  BY <1>1, <1>3 DEF Signal, SignalInside, ScriptStop, Finalize, SendKillall, RemovePidFile,
                    threadVars, procmanVars, flags
<1>4. CASE Exit \/ Dies
  BY <1>4 DEF Exit, Dies, Gone, ForkedKnown, KillallIsLast
<1>5. CASE FirstMessage
  <2>1. ~ killed'
    BY <1>0, <1>5 DEF FirstMessage, KillallOrder
  <2> QED BY <1>0, <1>5, <2>1 DEF FirstMessage, StartModules, ForkedKnown, KillallIsLast
<1>6. CASE StopAll \/ RegisterCut
  BY <1>1, <1>6 DEF StopAll, RegisterCut, procmanVars
<1>7. CASE KillAll
  BY <1>0, <1>7 DEF KillAll, procmanVars, ForkedKnown, KillallIsLast
<1>8. ASSUME NEW p \in Pid, SleepingRestart(p) PROVE ForkedKnown' /\ KillallIsLast'
  <2>1. /\ Command("restart", p) /\ UNCHANGED killed
        /\ \/ UNCHANGED <<running, procmanVars>>
           \/ \E fresh \in SUBSET Pid : Fork(p, fresh)
    BY <1>8 DEF SleepingRestart, Restart, Spare, flags
  <2>2. ~ killed
    <3>1. 1 \in 1 .. Len(toProcman) /\ toProcman[1] = <<"restart", p>>
      BY <1>0, <2>1, CommandRead
    <3> QED BY <1>0, <3>1 DEF KillallOrder, FinalFrom
  <2>3. ForkedKnown'
    BY <1>0, <2>1 DEF Fork, procmanVars, ForkedKnown
  <2> QED BY <2>1, <2>2, <2>3 DEF KillallIsLast
<1>9. ASSUME NEW p, CheckPid(p) /\ UNCHANGED flags PROVE ForkedKnown' /\ KillallIsLast'
  BY <1>1, <1>9 DEF CheckPid, flags
<1>10. ASSUME NEW p, RegisterPid(p) /\ UNCHANGED flags PROVE ForkedKnown' /\ KillallIsLast'
  BY <1>1, <1>10 DEF RegisterPid, flags
<1>11. CASE Checks
  <2>1. ASSUME NEW p \in Pid, StartTimeout(p) PROVE ForkedKnown' /\ KillallIsLast'
    BY <1>0, <1>11, <2>1 DEF Checks, flags, StartTimeout, ForgetProc, ForkedKnown, KillallIsLast
  <2>2. ASSUME NEW p \in Pid, NotRunning(p) \/ MaxMem(p) PROVE ForkedKnown' /\ KillallIsLast'
    BY <1>1, <1>11, <2>2 DEF Checks, flags, NotRunning, MaxMem, procmanVars
  <2> QED BY <1>11, <2>1, <2>2 DEF Checks, checkpid_event
<1>12. CASE FabricReads \/ Tick \/ BeaconStep \/ UNCHANGED vars
  BY <1>1, <1>12 DEF FabricReads, Tick, BeaconStep, vars, sharedVars, procmanVars, lifeVars, flags
<1>13. CASE ProcessStep
  BY <1>1, <1>13 DEF ProcessStep, ProcessDies, procmanVars, lifeVars
<1>14. ASSUME NEW cmd, NEW p, FabricSends(cmd, p) PROVE ForkedKnown' /\ KillallIsLast'
  BY <1>1, <1>14 DEF FabricSends, procmanVars, lifeVars
<1> QED
  BY <1>2, <1>3, <1>4, <1>5, <1>6, <1>7, <1>8, <1>9, <1>10, <1>11, <1>12, <1>13, <1>14
  DEF Next, procman_thread, Asked

(* The invariant at the start.                                             *)
LEMMA InitLife == Init => LifeInv
<1> SUFFICES ASSUME Init PROVE LifeInv
  OBVIOUS
<1>1. toProcman = << >> /\ toProcman \in Seq(LifeMsg) /\ Len(toProcman) = 0
  BY EmptySeq DEF Init
<1>2. toBeacon = << >> /\ toBeacon \in Seq({"endpoint", "start"})
  BY EmptySeq DEF Init, BeaconInit
<1>3. LifeTypeOK /\ PidFileHeld /\ BeaconInStep /\ AnnouncedWhenReady
  BY <1>1, <1>2, ConfigAssumption
  DEF Init, BeaconInit, LifeTypeOK, Phase, PidFileHeld, BeaconInStep, AnnouncedWhenReady
<1>4. KillallOrder /\ ForkedKnown /\ KillallIsLast /\ FirstRead
  BY <1>1 DEF Init, KillallOrder, ForkedKnown, KillallIsLast, FirstRead
<1>5. KillallComes /\ RestartsFirst /\ WaitInTime
  BY DEF Init, KillallComes, RestartsFirst, WaitInTime, Stopping
<1> QED BY <1>3, <1>4, <1>5 DEF LifeInv

(* Once procman has handled killall no module process is left, and none    *)
(* comes back until the daemon is gone.                                    *)
THEOREM KillallEndsAll == Spec => []KillallIsLast
<1> DEFINE Inv == BeaconInv /\ KnownInv
<1>1. Init => Inv
  BY InitLife DEF LifeInv, LifeTypeOK, BeaconInv, KnownInv
<1>2. Inv /\ [Next]_vars => Inv'
  BY BeaconInvStep, LifeTypeStep, PidFileStep, KillallOrderStep, KnownStep DEF KnownInv
<1>3. Inv => KillallIsLast
  BY DEF KnownInv
<1> QED BY <1>1, <1>2, <1>3, PTL DEF Spec

-----------------------------------------------------------------------------
(* What has been sent and the time that has passed.                        *)
TimeInv == FirstRead /\ KillallComes /\ RestartsFirst /\ WaitInTime

(* The first message cannot be killall: finalize has sent stop_all before  *)
(* it, if execute had not come to startall.                                *)
LEMMA FirstReadStep ==
    ASSUME LifeTypeOK, PidFileHeld, FirstRead, [Next]_vars
    PROVE  FirstRead'
<1>0. toProcman \in Seq(LifeMsg) /\ phase \in Phase
  BY DEF LifeTypeOK
<1>1. ASSUME awake' PROVE FirstRead'
  BY <1>1 DEF FirstRead
<1>2. ASSUME NEW m \in LifeMsg, toProcman' = Append(toProcman, m), UNCHANGED awake,
             m \in {<<"startall", NULL>>, <<"stop_all", NULL>>}
             \/ phase \notin {"down", "starting", "forked", "bound"}
      PROVE  FirstRead'
  BY <1>0, <1>2, SentFacts DEF FirstRead
<1>3. ASSUME UNCHANGED <<toProcman, awake>>,
             phase' \in {"down", "starting", "forked", "bound"}
             \/ phase \notin {"down", "starting", "forked", "bound"}
      PROVE  FirstRead'
  BY <1>3 DEF FirstRead
<1>4. ASSUME createPidFile PROVE FirstRead'
  BY <1>3, <1>4 DEF createPidFile, threadVars, flags
<1>5. CASE ForkThreads \/ BindGlobal
  BY <1>3, <1>5 DEF ForkThreads, BindGlobal, threadVars, flags
<1>6. CASE BindLocal
  BY <1>2, <1>6, MsgTypes DEF BindLocal, threadVars, flags
<1>7. CASE Signal \/ ScriptStop
  BY <1>2, <1>7, MsgTypes DEF Signal, ScriptStop, Finalize, threadVars, flags
<1>8. CASE SignalInside
  <2>1. PICK p \in spawned : \E msg \in {<<"check_pid", NULL>>, <<"register", NULL>>, <<"register", p>>} :
                                Finalize(msg)
    BY <1>8 DEF SignalInside
  <2>2. PICK msg \in LifeMsg : Finalize(msg)
    BY <2>1 DEF LifeMsg, LifeTypeOK
  <2> QED BY <1>2, <1>8, <2>2 DEF SignalInside, Finalize, threadVars, flags
<1>9. CASE SendKillall
  BY <1>2, <1>9, MsgTypes DEF SendKillall, KillallDue, threadVars, flags
<1>10. CASE Exit \/ Dies
  BY <1>10 DEF Exit, Dies, Gone, FirstRead
<1>11. CASE procman_thread
  <2>1. UNCHANGED phase
    BY <1>11 DEF procman_thread
  <2>2. awake' \/ UNCHANGED <<toProcman, awake>>
    BY <1>11, ProcmanReads DEF Begins, Kills, Restarts, Cuts, Answers, Idles
  <2> QED BY <1>1, <2>1, <2>2 DEF FirstRead
<1>12. CASE RemovePidFile \/ FabricReads \/ ProcessStep \/ BeaconStep \/ Tick \/ UNCHANGED vars
  BY <1>12 DEF FirstRead, RemovePidFile, FabricReads, ProcessStep, ProcessDies, BeaconStep, Tick,
               vars, sharedVars, lifeVars, threadVars, flags
<1>13. ASSUME NEW cmd \in {"check_pid", "register", "restart"}, NEW p \in Pid, FabricSends(cmd, p)
       PROVE  FirstRead'
  <2>1. <<cmd, p>> \in LifeMsg
    BY DEF LifeMsg
  <2> QED BY <1>2, <1>13, <2>1 DEF FabricSends, lifeVars
<1> QED
  BY <1>4, <1>5, <1>6, <1>7, <1>8, <1>9, <1>10, <1>11, <1>12, <1>13
  DEF Next, Start, ScriptStart, execute, sharedVars, flags, FirstRead

(* A message that is not among those read is still there.                  *)
LEMMA StaysInPipe ==
    ASSUME NEW d, Shifted(d), Len(toProcman) \in Nat, NEW k \in 1 .. Len(toProcman), k > d
    PROVE  \E j \in 1 .. Len(toProcman') : toProcman'[j] = toProcman[k]
<1>1. k - d \in 1 .. Len(toProcman') /\ (k - d) + d = k
  BY DEF Shifted
<1>2. toProcman'[k - d] = toProcman[k]
  BY <1>1 DEF Shifted
<1> QED BY <1>1, <1>2

(* Once sent, killall is on its way until procman reads it.                *)
LEMMA KillallComesStep ==
    ASSUME LifeTypeOK, PidFileHeld, FirstRead, KillallComes, [Next]_vars
    PROVE  KillallComes'
<1>0. toProcman \in Seq(LifeMsg) /\ Len(toProcman) \in Nat /\ phase \in Phase
  BY LenProperties DEF LifeTypeOK
<1>1. ASSUME phase' # "killing" PROVE KillallComes'
  BY <1>1 DEF KillallComes
<1>2. CASE Start \/ execute \/ ScriptStart
  BY <1>1, <1>2 DEF Start, execute, ForkThreads, BindGlobal, BindLocal, ScriptStart, createPidFile,
                    KillallComes, sharedVars, flags
<1>3. CASE Signal \/ SignalInside \/ ScriptStop \/ Exit \/ Dies \/ RemovePidFile
  BY <1>1, <1>3 DEF Signal, SignalInside, ScriptStop, Finalize, Exit, Dies, Gone, RemovePidFile
<1>4. CASE SendKillall
  <2>1. Len(toProcman) + 1 \in 1 .. Len(toProcman')
        /\ toProcman'[Len(toProcman) + 1] = <<"killall", NULL>>
    BY <1>0, <1>4, MsgTypes, SentFacts DEF SendKillall
  <2> QED BY <2>1 DEF KillallComes
<1>5. CASE procman_thread
  <2>0. UNCHANGED phase /\ (Begins \/ Kills \/ Restarts \/ Cuts \/ Answers \/ Idles)
    BY <1>5, ProcmanReads
  <2>1. ASSUME phase = "killing", ~ torn', ~ killed'
        PROVE  \E j \in 1 .. Len(toProcman') : toProcman'[j] = <<"killall", NULL>>
    <3>0. Cuts => ~ torn /\ toProcman[2] # <<"killall", NULL>>
      BY <2>1, Zenon DEF Cuts
    <3>1. ~ torn /\ ~ killed
      <4>1. CASE Cuts
        BY <2>1, <3>0, <4>1, Zenon DEF Cuts
      <4>2. CASE Kills
        BY <2>1, <4>2, Zenon DEF Kills
      <4>3. CASE Begins \/ Restarts \/ Answers \/ Idles
        <5>1. torn' = torn /\ killed' = killed
          BY <4>3 DEF Begins, Restarts, Answers, Idles
        <5> QED BY <2>1, <5>1, Zenon
      <4> QED BY <2>0, <4>1, <4>2, <4>3
    <3>2. PICK k \in 1 .. Len(toProcman) : toProcman[k] = <<"killall", NULL>>
      BY <2>1, <3>1 DEF KillallComes
    <3>3. CASE Idles
      BY <3>2, <3>3 DEF Idles
    <3>4. CASE Begins
      <4>1. toProcman # << >> /\ Head(toProcman) = toProcman[1]
        BY <1>0, <3>4, EmptySeq, ReadFacts DEF Begins, Shifted
      <4>2. toProcman[1] \in {<<"startall", NULL>>, <<"stop_all", NULL>>}
        BY <3>4, <4>1 DEF Begins, FirstRead
      <4>3. k > 1
        BY <3>2, <4>2
      <4> QED BY <1>0, <3>2, <3>4, <4>3, StaysInPipe DEF Begins
    <3>5. CASE Restarts \/ Answers
      <4>1. k > 1
        BY <3>2, <3>5 DEF Restarts, Answers
      <4> QED BY <1>0, <3>2, <3>5, <4>1, StaysInPipe DEF Restarts, Answers
    <3>6. CASE Cuts
      <4>1. k # 1 /\ k # 2
        <5>1. toProcman[1] # <<"killall", NULL>>
          BY <3>6 DEF Cuts
        <5> QED BY <3>0, <3>2, <3>6, <5>1
      <4>2. Shifted(2) /\ Len(toProcman) \in Nat /\ k > 2
        BY <1>0, <3>6, <4>1 DEF Cuts, Shifted
      <4> QED BY <3>2, <4>2, StaysInPipe
    <3> QED BY <2>0, <2>1, <3>3, <3>4, <3>5, <3>6 DEF Kills
  <2> QED BY <2>0, <2>1 DEF KillallComes
<1>6. CASE FabricReads \/ ProcessStep \/ BeaconStep \/ Tick \/ UNCHANGED vars
  BY <1>6 DEF KillallComes, FabricReads, ProcessStep, ProcessDies, BeaconStep, Tick,
              vars, sharedVars, lifeVars, flags
<1>7. ASSUME NEW cmd, NEW p, FabricSends(cmd, p) PROVE KillallComes'
  BY <1>1, <1>7 DEF FabricSends, lifeVars
<1> QED BY <1>2, <1>3, <1>4, <1>5, <1>6, <1>7 DEF Next

(* Seconds that no restart takes pass when no restart is pending, and once *)
(* they do none is sent any more.                                          *)
LEMMA RestartsFirstStep ==
    ASSUME LifeTypeOK, PidFileHeld, RestartsFirst, [Next]_vars
    PROVE  RestartsFirst'
<1>0. toProcman \in Seq(LifeMsg) /\ Len(toProcman) \in Nat /\ clock \in Nat /\ late \in Nat
  BY LenProperties DEF LifeTypeOK
<1>1. ASSUME ~ Stopping' PROVE RestartsFirst'
  BY <1>1 DEF RestartsFirst
<1>2. ASSUME UNCHANGED <<phase, toProcman, clock, late>> PROVE RestartsFirst'
  BY <1>2 DEF RestartsFirst, Stopping
<1>3. CASE Start \/ execute \/ ScriptStart
  BY <1>1, <1>2, <1>3 DEF Start, execute, ForkThreads, BindGlobal, BindLocal, ScriptStart, createPidFile,
                    Stopping, sharedVars
<1>4. CASE Signal \/ SignalInside \/ ScriptStop \/ Exit \/ Dies
  BY <1>4 DEF Signal, SignalInside, ScriptStop, Finalize, Exit, Dies, Gone, RestartsFirst
<1>5. CASE SendKillall
  <2>1. Stopping /\ UNCHANGED <<clock, late>>
    BY <1>5 DEF SendKillall, KillallDue, Stopping
  <2>2. /\ Len(toProcman') = Len(toProcman) + 1
        /\ \A k \in 1 .. Len(toProcman) : toProcman'[k] = toProcman[k]
        /\ toProcman'[Len(toProcman) + 1] = <<"killall", NULL>>
    BY <1>0, <1>5, MsgTypes, SentFacts DEF SendKillall
  <2>3. \A k \in 1 .. Len(toProcman') : k \in 1 .. Len(toProcman) \/ k = Len(toProcman) + 1
    BY <1>0, <2>2
  <2> QED BY <2>1, <2>2, <2>3 DEF RestartsFirst
<1>6. CASE procman_thread
  <2>1. UNCHANGED Stopping /\ (Begins \/ Kills \/ Restarts \/ Cuts \/ Answers \/ Idles)
    BY <1>6, ProcmanReads DEF Stopping
  <2>2. late' < clock' => late < clock
    BY <1>0, <2>1, TimeAssumption DEF Begins, Kills, Restarts, Cuts, Answers, Idles, NoTime
  <2>3. UNCHANGED toProcman \/ Shifted(1) \/ Shifted(2)
    BY <2>1 DEF Begins, Kills, Restarts, Cuts, Answers, Idles
  <2> QED BY <2>1, <2>2, <2>3 DEF RestartsFirst, Shifted
<1>7. CASE Tick
  <2>1. \A k \in 1 .. Len(toProcman) : toProcman[k][1] # "restart"
    <3>1. CASE toProcman = << >>
      BY <3>1
    <3>2. CASE Blocked
      BY <3>2 DEF Blocked
    <3> QED BY <1>7, <3>1, <3>2 DEF Tick
  <2> QED BY <1>7, <2>1 DEF Tick, sharedVars, RestartsFirst
<1>8. CASE RemovePidFile \/ FabricReads \/ ProcessStep \/ BeaconStep \/ UNCHANGED vars
  BY <1>2, <1>8 DEF RemovePidFile, FabricReads, ProcessStep, ProcessDies, BeaconStep, vars, sharedVars, lifeVars
<1>9. ASSUME NEW cmd, NEW p, FabricSends(cmd, p) PROVE RestartsFirst'
  BY <1>1, <1>9 DEF FabricSends, lifeVars, Stopping
<1> QED BY <1>3, <1>4, <1>5, <1>6, <1>7, <1>8, <1>9 DEF Next

(* The second wait begins when the first is over, and no second of it      *)
(* passes while procman has a killall to read.                             *)
LEMMA WaitInTimeStep ==
    ASSUME LifeTypeOK, PidFileHeld, KillallComes, RestartsFirst, WaitInTime, [Next]_vars
    PROVE  WaitInTime'
<1>0. toProcman \in Seq(LifeMsg) /\ Len(toProcman) \in Nat /\ clock \in Nat /\ late \in Nat
  BY LenProperties DEF LifeTypeOK
<1>1. ASSUME ~ Stopping' PROVE WaitInTime'
  BY <1>1 DEF WaitInTime, Stopping
<1>2. ASSUME UNCHANGED <<phase, clock, late, killed, torn>> PROVE WaitInTime'
  BY <1>2 DEF WaitInTime
<1>3. CASE Start \/ execute \/ ScriptStart
  BY <1>1, <1>2, <1>3 DEF Start, execute, ForkThreads, BindGlobal, BindLocal, ScriptStart, createPidFile,
                    Stopping, flags
<1>4. CASE Signal \/ SignalInside \/ ScriptStop \/ Exit \/ Dies
  BY <1>4 DEF Signal, SignalInside, ScriptStop, Finalize, Exit, Dies, Gone, WaitInTime
<1>5. CASE SendKillall
  BY <1>5 DEF SendKillall, KillallDue, WaitInTime
<1>6. CASE procman_thread
  <2>1. UNCHANGED phase /\ (Begins \/ Kills \/ Restarts \/ Cuts \/ Answers \/ Idles)
    BY <1>6, ProcmanReads
  <2>2. CASE Begins \/ Answers \/ Idles
    BY <1>2, <2>1, <2>2 DEF Begins, Answers, Idles
  <2>3. CASE Kills
    BY <2>1, <2>3 DEF Kills, WaitInTime
  <2>4. CASE Cuts
    <3>1. ~ torn' => ~ torn
      BY <2>4, Zenon DEF Cuts
    <3> QED BY <2>1, <2>4, <3>1 DEF Cuts, WaitInTime
  <2>5. CASE Restarts
    <3>1. CASE NoTime
      BY <1>2, <2>1, <2>5, <3>1 DEF Restarts, NoTime
    <3>2. CASE Stopping /\ clock' = clock + RestartTime /\ late' = late + RestartTime
      <4>1. 1 \in 1 .. Len(toProcman)
        BY <1>0, <2>5 DEF Restarts, Shifted
      <4>2. ~ (late < clock)
        BY <2>5, <3>2, <4>1 DEF Restarts, RestartsFirst
      <4> QED BY <1>0, <3>2, <4>2, TimeAssumption DEF WaitInTime
    <3> QED BY <2>5, <3>1, <3>2 DEF Restarts
  <2> QED BY <2>1, <2>2, <2>3, <2>4, <2>5
<1>7. CASE Tick
  <2>1. UNCHANGED <<phase, late, killed, torn>> /\ clock' = clock + 1 /\ Stopping
    BY <1>7 DEF Tick, flags
  <2>2. phase = "stopping" => clock < StopWait
    BY <1>0, <1>7, TimeAssumption DEF Tick, KillallDue
  <2>3. ~ (phase = "killing" /\ ~ killed /\ ~ torn)
    <3>1. \A k \in 1 .. Len(toProcman) : toProcman[k] # <<"killall", NULL>>
      <4>1. CASE toProcman = << >>
        BY <4>1
      <4>2. CASE Blocked
        BY <4>2 DEF Blocked
      <4> QED BY <1>7, <4>1, <4>2 DEF Tick
    <3> QED BY <3>1 DEF KillallComes
  <2> QED BY <1>0, <2>1, <2>2, <2>3, TimeAssumption DEF WaitInTime
<1>8. CASE RemovePidFile \/ FabricReads \/ ProcessStep \/ BeaconStep \/ UNCHANGED vars
  BY <1>2, <1>8 DEF RemovePidFile, FabricReads, ProcessStep, BeaconStep, vars, lifeVars, threadVars, flags
<1>9. ASSUME NEW cmd, NEW p, FabricSends(cmd, p) PROVE WaitInTime'
  BY <1>2, <1>9 DEF FabricSends, lifeVars
<1> QED BY <1>3, <1>4, <1>5, <1>6, <1>7, <1>8, <1>9 DEF Next

-----------------------------------------------------------------------------
(* The whole invariant is inductive.                                       *)
LEMMA LifeInvStep ==
    ASSUME LifeInv, [Next]_vars
    PROVE  LifeInv'
<1>1. BeaconInv /\ KnownInv /\ TimeInv
  BY DEF LifeInv, LifeTypeOK, BeaconInv, KnownInv, TimeInv
<1>2. BeaconInv' /\ LifeTypeOK' /\ KillallOrder' /\ ForkedKnown' /\ KillallIsLast'
  BY <1>1, BeaconInvStep, LifeTypeStep, KillallOrderStep, KnownStep DEF KnownInv
<1>3. FirstRead' /\ KillallComes' /\ RestartsFirst' /\ WaitInTime'
  BY <1>1, FirstReadStep, KillallComesStep, RestartsFirstStep, WaitInTimeStep DEF KnownInv, TimeInv
<1> QED BY <1>2, <1>3 DEF LifeInv, BeaconInv

(* What LifeInv says is so at all times, whatever signals come and when.   *)
THEOREM LifeInvariant == Spec => []LifeInv
BY InitLife, LifeInvStep, PTL DEF Spec

(* When finalize has waited, the processes are gone: a killall that was    *)
(* not torn is handled within the second wait unless the seconds of both   *)
(* waits went to restarts that were pending.                               *)
THEOREM AllKilled == Spec => []AllKilledAtExit
<1>1. ASSUME LifeInv PROVE AllKilledAtExit
  <2>1. ASSUME ExitDue, ~ (running \subseteq External), ~ torn, ~ (late >= StopWait + KillWait)
        PROVE  FALSE
    <3>1. ~ killed
      BY <1>1, <2>1 DEF LifeInv, KillallIsLast
    <3>2. phase = "killing" /\ clock >= StopWait + KillWait
      BY <2>1 DEF ExitDue
    <3>3. late < clock
      BY <1>1, <2>1, <3>2, TimeAssumption DEF LifeInv, LifeTypeOK
    <3>4. clock <= StopWait
      BY <1>1, <2>1, <3>1, <3>2, <3>3 DEF LifeInv, WaitInTime
    <3> QED BY <1>1, <3>2, <3>4, TimeAssumption DEF LifeInv, LifeTypeOK
  <2> QED BY <2>1 DEF AllKilledAtExit
<1> QED BY <1>1, LifeInvariant, PTL

-----------------------------------------------------------------------------
(* What every roll keeps.                                                  *)
RollType ==
    [f_log : BOOLEAN, file_count : 0 .. MaxFiles, rolls : Nat, file : [0 .. MaxFiles - 1 -> Nat]]

(* The file numbers that have been given away are the lowest, and with     *)
(* them InOrder says that a higher number has been given later.            *)
RollInv(l) ==
    /\ l \in RollType
    /\ InOrder(l)
    /\ \A k \in 0 .. MaxFiles - 1 : l.file[k] <= l.rolls
    /\ \A k \in 0 .. MaxFiles - 1 : k >= l.file_count => l.file[k] = 0

(* A log that has just been opened has no rolled files.                    *)
LEMMA OpenedInv == RollInv(Opened)
BY MaxFilesAssumption DEF RollInv, RollType, Opened, InOrder

(* A roll takes a name behind all names of this life, or ends the log.     *)
LEMMA RollKeeps ==
    ASSUME NEW l, RollInv(l), NEW event \in RollEvent
    PROVE  RollInv(Roll(l, event))
<1> DEFINE n == l.file_count + event.fails
           r == Roll(l, event)
<1>0. /\ l \in RollType /\ l.file_count \in 0 .. MaxFiles /\ event.fails \in Nat /\ MaxFiles \in Nat
      /\ l.rolls \in Nat /\ l.file \in [0 .. MaxFiles - 1 -> Nat] /\ n \in Nat
      /\ l.f_log \in BOOLEAN /\ event.reopened \in BOOLEAN
  BY MaxFilesAssumption DEF RollInv, RollType, RollEvent
<1>1. CASE ~ l.f_log
  BY <1>1 DEF Roll
<1>2. CASE l.f_log /\ n >= MaxFiles
  <2>1. r = [l EXCEPT !.f_log = FALSE, !.file_count = MaxFiles]
    BY <1>2 DEF Roll
  <2>2. r \in RollType /\ r.file = l.file /\ r.rolls = l.rolls /\ r.file_count = MaxFiles
    <3> HIDE DEF r
    <3>1. MaxFiles \in 0 .. MaxFiles
      BY <1>0
    <3>2. r.file = l.file /\ r.rolls = l.rolls /\ r.file_count = MaxFiles
      BY <1>0, <2>1 DEF RollType
    <3>3. r \in RollType
      BY <1>0, <2>1, <3>1 DEF RollType
    <3> QED BY <3>2, <3>3
  <2> HIDE DEF r
  <2>3. InOrder(r)
    BY <2>2 DEF RollInv, InOrder
  <2>4. \A k \in 0 .. MaxFiles - 1 : ~ (k >= MaxFiles)
    BY <1>0
  <2> QED BY <2>2, <2>3, <2>4 DEF RollInv, r
<1>3. CASE l.f_log /\ ~ (n >= MaxFiles)
  <2>1. r = [f_log |-> event.reopened, file_count |-> n + 1,
             rolls |-> l.rolls + 1, file |-> [l.file EXCEPT ![n] = l.rolls + 1]]
    BY <1>3 DEF Roll
  <2>2. n \in 0 .. MaxFiles - 1 /\ n >= l.file_count
    BY <1>0, <1>3
  <2>3. /\ r \in RollType /\ r.file_count = n + 1 /\ r.rolls = l.rolls + 1
        /\ r.file \in [0 .. MaxFiles - 1 -> Nat]
        /\ r.file[n] = l.rolls + 1
        /\ \A k \in 0 .. MaxFiles - 1 : k # n => r.file[k] = l.file[k]
    <3> DEFINE file == [l.file EXCEPT ![n] = l.rolls + 1]
    <3> HIDE DEF r, n
    <3>1. /\ file \in [0 .. MaxFiles - 1 -> Nat] /\ file[n] = l.rolls + 1
          /\ \A k \in 0 .. MaxFiles - 1 : k # n => file[k] = l.file[k]
      BY <1>0, <2>2
    <3>2. r = [f_log |-> event.reopened, file_count |-> n + 1, rolls |-> l.rolls + 1, file |-> file]
      BY <2>1
    <3> HIDE DEF file
    <3>3. n + 1 \in 0 .. MaxFiles /\ l.rolls + 1 \in Nat
      BY <1>0, <2>2
    <3>4. r \in RollType
      BY <1>0, <3>1, <3>2, <3>3 DEF RollType
    <3>5. r.file_count = n + 1 /\ r.rolls = l.rolls + 1 /\ r.file = file
      BY <3>2
    <3> QED BY <3>1, <3>4, <3>5
  <2> HIDE DEF r, n
  <2>4. /\ \A k \in 0 .. MaxFiles - 1 : l.file[k] <= l.rolls /\ l.file[k] \in Nat
        /\ \A k \in 0 .. MaxFiles - 1 : k >= l.file_count => l.file[k] = 0
        /\ \A j, k \in 0 .. MaxFiles - 1 :
             j < k /\ l.file[j] # 0 /\ l.file[k] # 0 => l.file[j] < l.file[k]
        /\ \A i \in 1 .. l.rolls : \E k \in 0 .. MaxFiles - 1 : l.file[k] = i
    BY <1>0 DEF RollInv, InOrder
  <2>5. \A j, k \in 0 .. MaxFiles - 1 :
          j < k /\ r.file[j] # 0 /\ r.file[k] # 0 => r.file[j] < r.file[k]
    <3>1. ASSUME NEW j \in 0 .. MaxFiles - 1, NEW k \in 0 .. MaxFiles - 1,
                 j < k, r.file[j] # 0, r.file[k] # 0
          PROVE  r.file[j] < r.file[k]
      <4>1. CASE k = n
        <5>1. j # n
          BY <3>1, <4>1
        <5>2. r.file[j] = l.file[j] /\ l.file[j] <= l.rolls /\ l.file[j] \in Nat
          BY <2>3, <2>4, <5>1
        <5> QED BY <1>0, <2>3, <4>1, <5>2
      <4>2. CASE k # n
        <5>1. r.file[k] = l.file[k] /\ ~ (k >= l.file_count)
          BY <2>3, <2>4, <3>1, <4>2
        <5>2. j # n
          BY <1>0, <2>2, <3>1, <5>1
        <5> QED BY <2>3, <2>4, <3>1, <4>2, <5>1, <5>2
      <4> QED BY <4>1, <4>2
    <3> QED BY <3>1
  <2>6. \A i \in 1 .. r.rolls : \E k \in 0 .. MaxFiles - 1 : r.file[k] = i
    <3>1. ASSUME NEW i \in 1 .. r.rolls PROVE \E k \in 0 .. MaxFiles - 1 : r.file[k] = i
      <4>1. CASE i = l.rolls + 1
        BY <2>2, <2>3, <4>1
      <4>2. CASE i \in 1 .. l.rolls
        <5>1. PICK k \in 0 .. MaxFiles - 1 : l.file[k] = i
          BY <2>4, <4>2
        <5>2. k # n
          <6>1. l.file[n] = 0
            BY <2>2, <2>4
          <6> QED BY <4>2, <5>1, <6>1
        <5>3. r.file[k] = i
          BY <2>3, <5>1, <5>2
        <5> QED BY <5>3
      <4>3. i \in 1 .. l.rolls \/ i = l.rolls + 1
        BY <1>0, <2>3, <3>1
      <4> QED BY <4>1, <4>2, <4>3
    <3> QED BY <3>1
  <2>7. InOrder(r)
    <3>1. DOMAIN r.file = 0 .. MaxFiles - 1
      BY <2>3
    <3> QED BY <2>5, <2>6, <3>1 DEF InOrder
  <2>8. /\ \A k \in 0 .. MaxFiles - 1 : r.file[k] <= r.rolls
        /\ \A k \in 0 .. MaxFiles - 1 : k >= r.file_count => r.file[k] = 0
    <3>1. ASSUME NEW k \in 0 .. MaxFiles - 1
          PROVE  r.file[k] <= r.rolls /\ (k >= r.file_count => r.file[k] = 0)
      <4>1. CASE k = n
        BY <1>0, <2>2, <2>3, <4>1
      <4>2. CASE k # n
        <5>1. r.file[k] = l.file[k] /\ l.file[k] <= l.rolls /\ l.file[k] \in Nat
              /\ (k >= l.file_count => l.file[k] = 0)
          BY <2>3, <2>4, <4>2
        <5>2. k >= n + 1 => k >= l.file_count
          BY <1>0, <2>2
        <5> QED BY <1>0, <2>3, <5>1, <5>2
      <4> QED BY <4>1, <4>2
    <3> QED BY <3>1
  <2> QED BY <2>3, <2>7, <2>8 DEF RollInv, r
<1> QED BY <1>1, <1>2, <1>3

(* Every life leaves its rolled files in order.                            *)
LEMMA LoggedInOrder ==
    ASSUME NEW life \in Seq(RollEvent)
    PROVE  InOrder(Logged(life))
<1> DEFINE N == Len(life)
           after[n \in 0 .. N] == IF n = 0 THEN Opened ELSE Roll(after[n - 1], life[n])
           T == {n \in 0 .. N : RollInv(after[n])}
<1>0. N \in Nat
  BY LenProperties
<1>1. Logged(life) = after[N]
  BY DEF Logged
<1>2. after = [n \in 0 .. N |-> IF n = 0 THEN Opened ELSE Roll(after[n - 1], life[n])]
  <2> DEFINE V == {l \in RollType : RollInv(l)}
             F == [n \in 1 .. N |-> [l \in V |-> Roll(l, life[n])]]
  <2>1. Opened \in V
    BY OpenedInv DEF RollInv
  <2>2. \A n \in 1 .. N : life[n] \in RollEvent
    BY ElementOfSeq
  <2>3. \A n \in 1 .. N : \A l \in V : Roll(l, life[n]) \in V
    BY <2>2, RollKeeps DEF RollInv
  <2> HIDE DEF N, V
  <2>4. PICK g \in [0 .. N -> V] : g[0] = Opened /\ \A n \in 1 .. N : g[n] = F[n][g[n - 1]]
    <3>1. F \in [1 .. N -> [V -> V]]
      BY <2>3
    <3>2. \E g : Recursion(g, N, V, Opened, F)
      <4> HIDE DEF F
      <4> QED BY <1>0, <2>1, <3>1, RecursionExists
    <3> QED BY <3>2 DEF Recursion
  <2>5. \A n \in 0 .. N : g[n] = IF n = 0 THEN Opened ELSE Roll(g[n - 1], life[n])
    <3>1. ASSUME NEW n \in 1 .. N PROVE g[n] = Roll(g[n - 1], life[n])
      <4>1. n - 1 \in 0 .. N /\ g[n - 1] \in V
        BY <1>0, <2>4
      <4> QED BY <2>4, <4>1
    <3> QED BY <1>0, <2>4, <3>1
  <2>6. g = [n \in 0 .. N |-> IF n = 0 THEN Opened ELSE Roll(g[n - 1], life[n])]
    BY <2>4, <2>5
  <2> QED BY <2>6 DEF N
<1> HIDE DEF after, N
<1>3. after[0] = Opened /\ \A n \in 1 .. N : after[n] = Roll(after[n - 1], life[n])
  <2>1. \A n \in 0 .. N : after[n] = IF n = 0 THEN Opened ELSE Roll(after[n - 1], life[n])
    BY <1>2
  <2> QED BY <1>0, <2>1
<1>4. 0 \in T
  BY <1>0, <1>3, OpenedInv
<1>5. ASSUME NEW n \in 0 .. N - 1, n \in T PROVE n + 1 \in T
  <2>1. n + 1 \in 1 .. N /\ (n + 1) - 1 = n
    BY <1>0
  <2>2. life[n + 1] \in RollEvent
    BY <2>1, ElementOfSeq DEF N
  <2>3. after[n + 1] = Roll(after[n], life[n + 1])
    BY <1>3, <2>1
  <2>4. RollInv(Roll(after[n], life[n + 1]))
    BY <1>5, <2>2, RollKeeps
  <2> QED BY <1>0, <2>1, <2>3, <2>4
<1>6. N \in T
  <2>1. \A n \in 0 .. N : n \in T
    <3> HIDE DEF T
    <3> QED BY <1>0, <1>4, <1>5, NatSteps
  <2> QED BY <1>0, <2>1
<1> QED BY <1>1, <1>6 DEF RollInv

-----------------------------------------------------------------------------
(* What main finds when it starts: a log that has been opened only, or one *)
(* that the life before has left.                                          *)
InputInv == log \in {Opened} \cup LeftBehind

(* Start finds a log; what it forks forgets it.                            *)
LEMMA InputStep ==
    ASSUME InputInv, [Next]_vars
    PROVE  InputInv'
<1>1. ASSUME log' = Opened PROVE InputInv'
  BY <1>1 DEF InputInv
<1>2. ASSUME UNCHANGED log PROVE InputInv'
  BY <1>2 DEF InputInv
<1>3. ASSUME createPidFile PROVE InputInv'
  BY <1>3 DEF createPidFile, InputInv
<1>4. CASE execute
  BY <1>1, <1>2, <1>4 DEF execute, ForkThreads, BindGlobal, BindLocal
<1>5. CASE Signal \/ SignalInside \/ ScriptStop \/ SendKillall \/ RemovePidFile
  BY <1>2, <1>5 DEF Signal, SignalInside, ScriptStop, Finalize, SendKillall, RemovePidFile
<1>6. CASE Exit \/ Dies
  BY <1>1, <1>6 DEF Exit, Dies, Gone
<1>7. CASE procman_thread \/ FabricReads \/ ProcessStep \/ Tick \/ BeaconStep \/ UNCHANGED vars
  BY <1>2, <1>7 DEF procman_thread, FabricReads, ProcessStep, Tick, BeaconStep, vars
<1>8. ASSUME NEW cmd, NEW p, FabricSends(cmd, p) PROVE InputInv'
  BY <1>2, <1>8 DEF FabricSends
<1>9. CASE Start \/ ScriptStart
  BY <1>2, <1>3, <1>9 DEF Start, ScriptStart
<1> QED BY <1>4, <1>5, <1>6, <1>7, <1>8, <1>9 DEF Next

(* So there is always a log to speak of.                                   *)
LEMMA InputHeld == Spec => []InputInv
<1>1. Init => InputInv
  BY DEF Init, InputInv
<1> QED BY <1>1, InputStep, PTL DEF Spec

(* After any life of the daemon, of any number of rolls, failed renames    *)
(* and logs that could not be opened again, no rolled file is lost and     *)
(* their numbers tell their order.                                         *)
THEOREM LogsInOrder == Spec => []RollOrder
<1>1. InputInv => RollOrder
  <2>1. InOrder(Opened)
    BY OpenedInv DEF RollInv
  <2>2. \A life \in LogLife : InOrder(Logged(life))
    BY LoggedInOrder, LogLifeAssumption
  <2> QED BY <2>1, <2>2 DEF InputInv, LeftBehind, RollOrder
<1> QED BY <1>1, InputHeld, PTL

=============================================================================
