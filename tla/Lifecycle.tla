----------------------------- MODULE Lifecycle ------------------------------
(***************************************************************************)
(* The life of the daemon from main to exit, and the next one: pid file,   *)
(* threads, sockets, signals, and finalize with its two waits of two       *)
(* seconds, against a process manager that sleeps a second in every        *)
(* restart.  The fabric loop is here by what it sends to procman: any      *)
(* command about any process, while it runs.                               *)
(*                                                                         *)
(* Time is counted in seconds while the daemon is being stopped.  It       *)
(* passes in restarts, and when procman has nothing to read: what else     *)
(* procman does is taken to take no time.                                  *)
(***************************************************************************)
EXTENDS Procman, Beacon, Logger

CONSTANTS
    StopWait,     \* finalize: seconds between stop_all and killall
    KillWait,     \* finalize: seconds between killall and exit
    RestartTime,  \* seconds a restart takes (sleep(1) in s_main_event)
    ScriptWait,   \* modbus.sh: seconds between kill and start
    MaxSignals    \* bound on the signals one daemon is sent

ASSUME TimeAssumption ==
    /\ StopWait \in Nat /\ KillWait \in Nat \ {0} /\ RestartTime \in Nat
    /\ ScriptWait \in Nat /\ MaxSignals \in Nat

VARIABLES
    phase,     \* how far main, execute and finalize have come
    pid_file,  \* the pid file exists
    awake,     \* procman has read its first message
    stop_all,  \* procman.c: stop_all
    killed,    \* procman has handled killall
    clock,     \* seconds since the last signal
    late,      \* those of them spent in restarts
    signals,   \* signals this daemon was sent
    torn,      \* killall was read as part of another message
    script     \* modbus.sh restart has stopped the daemon and sleeps

lifeVars == <<phase, pid_file, awake, stop_all, killed, torn, clock, late, signals, script>>
vars == <<sharedVars, procmanVars, beaconVars, lifeVars, log>>

(* What belongs to threads and processes, as against main.                 *)
flags      == <<awake, stop_all, killed, torn>>
threadVars == <<toFabric, spawned, running, procmanVars, flags>>

Stopping == phase \in {"stopping", "killing"}

KillallDue == phase = "stopping" /\ clock >= StopWait
ExitDue    == phase = "killing" /\ clock >= StopWait + KillWait

Init ==
    /\ phase = "down" /\ pid_file = FALSE /\ up = FALSE
    /\ toProcman = << >> /\ toFabric = << >>
    /\ spawned = External /\ running = External
    /\ awake = FALSE /\ stop_all = FALSE /\ killed = FALSE /\ torn = FALSE
    /\ clock = 0 /\ late = 0 /\ signals = 0 /\ script = FALSE
    /\ ProcmanInit /\ BeaconInit
    /\ log = Opened

-----------------------------------------------------------------------------
(* main and execute.                                                       *)

(* createPidFile: O_EXCL is what keeps a second daemon from starting.      *)
createPidFile ==
    /\ ~ pid_file
    /\ pid_file' = TRUE
    /\ phase' = "starting"
    /\ up' = TRUE
    /\ log' \in LeftBehind
    /\ UNCHANGED <<threadVars, toProcman, beaconVars, clock, late, signals>>

Start == phase = "down" /\ createPidFile /\ UNCHANGED script

(* logger_init, the signal handlers, procman's thread, and in global mode  *)
(* the beacon's.  The log is opened.                                       *)
ForkThreads ==
    /\ phase = "starting"
    /\ phase' = "forked"
    /\ beacon' \in {"new", "off"}
    /\ log' = Opened
    /\ UNCHANGED <<threadVars, up, toProcman, toBeacon, pid_file, clock, late, signals, script>>

(* Mutant: the beacon is told to start along with the endpoint.            *)
BindGlobalMutant ==
    /\ phase = "forked"
    /\ beacon = "ip"
    /\ phase' = "bound"
    /\ toBeacon' = toBeacon \o <<"endpoint", "start">>
    /\ UNCHANGED <<threadVars, log, up, toProcman, beacon, pid_file, clock, late,
                    signals, script>>

(* The address has come; the global socket is bound and its endpoint sent. *)
BindGlobal ==
    /\ phase = "forked"
    /\ beacon = "ip"
    /\ phase' = "bound"
    /\ toBeacon' = Append(toBeacon, "endpoint")
    /\ UNCHANGED <<threadVars, log, up, toProcman, beacon, pid_file, clock, late,
                    signals, script>>

(* The local socket is bound, and the threads there are are told to start. *)
BindLocal ==
    /\ \/ phase = "bound" /\ toBeacon' = Append(toBeacon, "start")
       \/ phase = "forked" /\ beacon = "off" /\ UNCHANGED toBeacon
    /\ phase' = "running"
    /\ toProcman' = Append(toProcman, <<"startall", NULL>>)
    /\ UNCHANGED <<threadVars, log, up, beacon, pid_file, clock, late, signals, script>>

execute == ForkThreads \/ BindGlobal \/ BindLocal

-----------------------------------------------------------------------------
(* s_signal_handler and finalize.                                          *)

(* What finalize begins with, and what procman is sent for its stop_all.   *)
Finalize(msg) ==
    /\ signals < MaxSignals
    /\ signals' = signals + 1
    /\ phase' = "stopping"
    /\ toProcman' = Append(toProcman, msg)
    /\ clock' = 0 /\ late' = 0
    /\ UNCHANGED <<threadVars, log, up, beaconVars>>

(* Mutant: the pid file is removed first.                                  *)
SignalMutant ==
    /\ phase \in {"forked", "bound", "running"} \/ Stopping
    /\ Finalize(<<"stop_all", NULL>>)
    /\ pid_file' = FALSE

(* A signal of another kind interrupts the finalize of the first, which    *)
(* never goes on.                                                          *)
Signal ==
    /\ phase \in {"forked", "bound", "running"} \/ Stopping
    /\ Finalize(<<"stop_all", NULL>>)
    /\ UNCHANGED pid_file

(* processIntroduce sends check_pid as two messages and register as three. *)
(* A signal in between makes "stop_all" the pid (NULL here), or the name   *)
(* that procman reads next.                                                *)
SignalInside ==
    /\ phase = "running"
    /\ \E p \in spawned :
         \E msg \in {<<"check_pid", NULL>>, <<"register", NULL>>, <<"register", p>>} : Finalize(msg)
    /\ UNCHANGED pid_file

SendKillall ==
    /\ KillallDue
    /\ phase' = "killing"
    /\ toProcman' = Append(toProcman, <<"killall", NULL>>)
    /\ UNCHANGED <<threadVars, log, up, beaconVars, pid_file, clock, late, signals, script>>

(* The process is gone and its threads with it.  Module processes that are *)
(* left run on; the model does not follow them any further.                *)
Gone ==
    /\ phase' = "down"
    /\ up' = FALSE
    /\ toProcman' = << >> /\ toFabric' = << >>
    /\ spawned' = spawned \cap External /\ running' = running \cap External
    /\ procs' = {} /\ has_mod' = {} /\ started' = {} /\ on_restart' = {}
    /\ awake' = FALSE /\ stop_all' = FALSE /\ killed' = FALSE /\ torn' = FALSE
    /\ beacon' = "off" /\ toBeacon' = << >>
    /\ log' = Opened
    /\ clock' = 0 /\ late' = 0 /\ signals' = 0
    /\ UNCHANGED script

(* The rest of finalize.  A signal after zctx_interrupted has been set     *)
(* ends the process at once, and the pid file stays.                       *)
Exit ==
    /\ ExitDue
    /\ pid_file' = FALSE \/ (signals < MaxSignals /\ UNCHANGED pid_file)
    /\ Gone

(* A NULL dereference, a socket that cannot be bound (execute returns, or  *)
(* exits, with nothing undone), a signal before the handlers are there.    *)
Dies == up /\ Gone /\ UNCHANGED pid_file

(* Somebody removes the pid file of a daemon that is not there any more.   *)
RemovePidFile ==
    /\ phase = "down" /\ pid_file
    /\ pid_file' = FALSE
    /\ UNCHANGED <<threadVars, log, up, toProcman, beaconVars, phase, clock, late,
                    signals, script>>

-----------------------------------------------------------------------------
(* modbus.sh restart: stop, sleep 2, start.                                *)
ScriptStop ==
    /\ ~ script
    /\ Signal
    /\ script' = TRUE

(* The new daemon exits when it finds the pid file.                        *)
ScriptStart ==
    /\ script
    /\ ~ Stopping \/ clock >= ScriptWait
    /\ script' = FALSE
    /\ \/ createPidFile
       \/ pid_file /\ UNCHANGED <<sharedVars, procmanVars, beaconVars, log,
                                  phase, pid_file, flags, clock, late, signals>>

-----------------------------------------------------------------------------
(* procman_thread.                                                         *)

(* It waits for the third part of a register that a signal has cut short.  *)
Blocked == toProcman = << <<"register", NULL>> >>

NoTime == UNCHANGED <<clock, late>>

(* The first message is taken for startall whatever it is, also when a     *)
(* signal came first and it is stop_all.                                   *)
FirstMessage ==
    /\ up /\ ~ awake
    /\ toProcman # << >>
    /\ toProcman' = Tail(toProcman)
    /\ StartModules
    /\ awake' = TRUE
    /\ NoTime
    /\ UNCHANGED <<up, stop_all, killed, torn>>

StopAll ==
    /\ Command("stop_all", NULL)
    /\ stop_all' = TRUE
    /\ NoTime
    /\ UNCHANGED <<toFabric, spawned, running, procmanVars, awake, killed, torn>>

(* Mutant: a process that has not introduced itself is spared.             *)
KillAllMutant ==
    /\ Command("killall", NULL)
    /\ running' = running \ (has_mod \cap started)
    /\ killed' = TRUE
    /\ NoTime
    /\ UNCHANGED <<toFabric, spawned, procmanVars, awake, stop_all, torn>>

(* killall_item: a registered process has no process_t.pid and is spared.  *)
KillAll ==
    /\ Command("killall", NULL)
    /\ running' = running \ has_mod
    /\ killed' = TRUE
    /\ NoTime
    /\ UNCHANGED <<toFabric, spawned, procmanVars, awake, stop_all, torn>>

(* A restart sleeps if there is such a process.  Where a process is to be  *)
(* started there is a pid for it.                                          *)
SleepingRestart(p) ==
    /\ ~ KillallDue /\ ~ ExitDue
    /\ p \in has_mod => Spare(p) # {}
    /\ Restart(p)
    /\ IF p \in procs
       THEN /\ clock' = IF Stopping THEN clock + RestartTime ELSE clock
            /\ late' = IF Stopping THEN late + RestartTime ELSE late
       ELSE NoTime
    /\ UNCHANGED flags

(* The next message is taken for the name, and the pid is no process.      *)
RegisterCut ==
    /\ Head(toProcman) = <<"register", NULL>>
    /\ Len(toProcman) >= 2
    /\ torn' = (torn \/ toProcman[2] = <<"killall", NULL>>)
    /\ toProcman' = Tail(Tail(toProcman))
    /\ NoTime
    /\ UNCHANGED <<up, toFabric, spawned, running, procmanVars, awake, stop_all, killed>>

Asked ==
    /\ awake
    /\ \/ StopAll
       \/ KillAll
       \/ \E p \in Pid : SleepingRestart(p)
       \/ \E p \in Pid \cup {NULL} : CheckPid(p) /\ NoTime /\ UNCHANGED flags
       \/ \E p \in Pid : RegisterPid(p) /\ NoTime /\ UNCHANGED flags
       \/ toProcman # << >> /\ RegisterCut

(* checkpid_item returns at once when stop_all is set.                     *)
Checks ==
    /\ awake /\ ~ stop_all /\ ~ Blocked
    /\ checkpid_event
    /\ NoTime
    /\ UNCHANGED flags

procman_thread ==
    /\ FirstMessage \/ Asked \/ Checks
    /\ UNCHANGED <<phase, pid_file, signals, script, beaconVars, log>>

-----------------------------------------------------------------------------
(* The fabric loop: s_procman_event reads, and introductions, timeouts and *)
(* reports of procman make it send.                                        *)
FabricReads ==
    /\ phase = "running"
    /\ toFabric # << >>
    /\ toFabric' = Tail(toFabric)
    /\ UNCHANGED <<up, toProcman, spawned, running, procmanVars, beaconVars, log, lifeVars>>

FabricSends(cmd, p) ==
    /\ phase = "running"
    /\ Len(toProcman) < MaxPipe
    /\ p \in spawned
    /\ toProcman' = Append(toProcman, <<cmd, p>>)
    /\ UNCHANGED <<up, toFabric, spawned, running, procmanVars, beaconVars, log, lifeVars>>

(* Processes, and pids that are given to other processes later.            *)
ProcessStep ==
    \E p \in Pid :
        /\ \/ ProcessDies(p)
           \/ /\ p \in spawned \ (running \cup procs \cup External)
              /\ spawned' = spawned \ {p}
              /\ UNCHANGED <<up, toProcman, toFabric, running>>
        /\ UNCHANGED <<procmanVars, beaconVars, log, lifeVars>>

(* A second of finalize passes when procman has nothing left to do in it.  *)
Tick ==
    /\ Stopping
    /\ toProcman = << >> \/ Blocked
    /\ ~ KillallDue /\ ~ ExitDue
    /\ clock' = clock + 1
    /\ UNCHANGED <<sharedVars, procmanVars, beaconVars, log, flags,
                   phase, pid_file, late, signals, script>>

BeaconStep ==
    /\ up /\ beacon_thread
    /\ UNCHANGED <<sharedVars, procmanVars, log, lifeVars>>

Next ==
    \/ Start \/ execute
    \/ (Signal \/ SignalInside) /\ UNCHANGED script
    \/ SendKillall \/ Exit \/ Dies \/ RemovePidFile
    \/ ScriptStop \/ ScriptStart
    \/ procman_thread
    \/ FabricReads
    \/ \E cmd \in {"check_pid", "register", "restart"}, p \in Pid : FabricSends(cmd, p)
    \/ ProcessStep \/ Tick \/ BeaconStep

Spec == Init /\ [][Next]_vars

-----------------------------------------------------------------------------
(* A daemon holds its pid file until it has sent killall and waited, so    *)
(* that no second one is started beside it by hand or by modbus.sh.        *)
PidFileHeld == phase # "down" => pid_file

(* Once killall has been handled no module process is left and none comes  *)
(* back, whatever restarts, reports and introductions were on their way:   *)
(* procman knows every process it started.                                 *)
KillallIsLast == killed => running \subseteq External

(* finalize logs "all processes killed" when its waits are over.  That is  *)
(* so unless restarts that were pending when the signal came took all of   *)
(* the time it waits, or procman was left in the middle of a register and  *)
(* took killall for its last part.                                         *)
AllKilledAtExit ==
    ExitDue /\ ~ (running \subseteq External) => torn \/ late >= StopWait + KillWait

(* The network hears of this daemon when both its sockets are bound.       *)
AnnouncedWhenReady == beacon = "published" => phase \in {"running", "stopping", "killing"}

(* modbus.sh, usage: "restart [config]".  When the script comes to its     *)
(* start, the daemon it has stopped does not stand in the way any more.    *)
RestartStarts == [][ScriptStart /\ Stopping => phase' = "starting"]_vars

-----------------------------------------------------------------------------
(* The inductive strengthening of these.  What the pipes hold, and when.   *)
LifeMsg ==
    {"startall", "stop_all", "killall", "check_pid", "register", "restart"} \X (Pid \cup {NULL})

Phase == {"down", "starting", "forked", "bound", "running", "stopping", "killing"}

LifeTypeOK ==
    /\ phase \in Phase
    /\ toProcman \in Seq(LifeMsg)
    /\ toBeacon \in Seq({"endpoint", "start"})
    /\ spawned \subseteq Pid
    /\ clock \in Nat /\ late \in Nat /\ late <= clock

(* A daemon that is starting is in step with its beacon thread.            *)
BeaconInStep ==
    /\ phase \in {"down", "starting"} => beacon = "off" /\ toBeacon = << >>
    /\ phase = "forked" => beacon \in {"off", "new", "ip"} /\ toBeacon = << >>
    /\ phase = "bound" => \/ beacon = "ip" /\ Len(toBeacon) = 1
                          \/ beacon = "named" /\ toBeacon = << >>

(* Behind killall there is nothing but what another finalize sends.        *)
FinalFrom(j) ==
    \A k \in j .. Len(toProcman) : toProcman[k] \in {<<"stop_all", NULL>>, <<"killall", NULL>>}

KillallOrder ==
    /\ \A k \in 1 .. Len(toProcman) :
         toProcman[k] = <<"killall", NULL>> => Stopping /\ FinalFrom(k)
    /\ killed => Stopping /\ awake /\ FinalFrom(1)

(* A process that procman forked and that runs is one procman knows.       *)
ForkedKnown == running \subseteq External \cup has_mod

(* The message that is taken for startall is never killall.                *)
FirstRead ==
    ~ awake =>
        \/ toProcman = << >> /\ phase \in {"down", "starting", "forked", "bound"}
        \/ toProcman # << >> /\ Head(toProcman) \in {<<"startall", NULL>>, <<"stop_all", NULL>>}

(* A killall that has been sent is on its way until it is handled or torn. *)
KillallComes ==
    phase = "killing" /\ ~ torn =>
        killed \/ \E k \in 1 .. Len(toProcman) : toProcman[k] = <<"killall", NULL>>

(* Time passes outside of restarts only when none is pending, and then not *)
(* beyond the first wait as long as killall has not been handled.          *)
RestartsFirst ==
    Stopping /\ late < clock => \A k \in 1 .. Len(toProcman) : toProcman[k][1] # "restart"

WaitInTime ==
    late < clock /\ (phase = "stopping" \/ (phase = "killing" /\ ~ killed /\ ~ torn))
        => clock <= StopWait

LifeInv ==
    /\ LifeTypeOK
    /\ PidFileHeld
    /\ BeaconInStep
    /\ AnnouncedWhenReady
    /\ KillallOrder
    /\ ForkedKnown
    /\ KillallIsLast
    /\ FirstRead
    /\ KillallComes
    /\ RestartsFirst
    /\ WaitInTime

=============================================================================
