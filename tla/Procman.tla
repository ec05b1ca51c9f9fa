------------------------------ MODULE Procman -------------------------------
(***************************************************************************)
(* The process manager thread (procman.c): it forks the configured         *)
(* modules, answers the fabric's commands in the order they were sent, and *)
(* looks at every process it knows each 10 ms.  fork() is taken to         *)
(* succeed, and SIGQUIT followed by SIGKILL to end a process.              *)
(***************************************************************************)
EXTENDS Deployment

VARIABLES
    procs,       \* the pids procman knows
    has_mod,     \* those whose process_t.mod is set (forked by procman)
    started,     \* those whose process_t.started is set
    on_restart   \* those whose process_t.on_restart is set

procmanVars == <<procs, has_mod, started, on_restart>>

ProcmanTypeOK ==
    /\ procs \subseteq Pid
    /\ has_mod \subseteq procs
    /\ started \subseteq procs
    /\ on_restart \subseteq procs

ProcmanInit ==
    /\ procs = {}
    /\ has_mod = {}
    /\ started = {}
    /\ on_restart = {}

(* zhash_delete(procs, pid) frees the process_t.                           *)
ForgetProc(p) ==
    /\ procs' = procs \ {p}
    /\ has_mod' = has_mod \ {p}
    /\ started' = started \ {p}
    /\ on_restart' = on_restart \ {p}

Command(cmd, p) ==
    /\ up
    /\ toProcman # << >>
    /\ Head(toProcman) = <<cmd, p>>
    /\ toProcman' = Tail(toProcman)
    /\ UNCHANGED up

(* startall_item for every configured module.                              *)
StartModules ==
    /\ procs' = procs \cup Initial
    /\ has_mod' = has_mod \cup Initial
    /\ spawned' = spawned \cup Initial
    /\ running' = running \cup Initial
    /\ UNCHANGED <<toFabric, started, on_restart>>

(* procman_thread's wait for its first message.                            *)
StartAll == Command("startall", NULL) /\ StartModules

(* Mutants: an unknown pid is marked as started; it gets no answer.        *)
CheckPidMutant(p) ==
    /\ Command("check_pid", p)
    /\ started' = started \cup {p}
    /\ toFabric' = Append(toFabric, <<"check_pid", IF p \in procs THEN "yes" ELSE "no">>)
    /\ UNCHANGED <<spawned, running, procs, has_mod, on_restart>>

SilentMutant(p) ==
    /\ Command("check_pid", p)
    /\ started' = started \cup ({p} \cap procs)
    /\ toFabric' = IF p \in procs THEN Append(toFabric, <<"check_pid", "yes">>) ELSE toFabric
    /\ UNCHANGED <<spawned, running, procs, has_mod, on_restart>>

(* check_pid: a pid that is known counts as started from now on.           *)
CheckPid(p) ==
    /\ Command("check_pid", p)
    /\ started' = started \cup ({p} \cap procs)
    /\ toFabric' = Append(toFabric, <<"check_pid", IF p \in procs THEN "yes" ELSE "no">>)
    /\ UNCHANGED <<spawned, running, procs, has_mod, on_restart>>

(* register: a pid that is not known is added, without a configuration.    *)
RegisterPid(p) ==
    /\ Command("register", p)
    /\ procs' = procs \cup {p}
    /\ UNCHANGED <<toFabric, spawned, running, has_mod, started, on_restart>>

(* Unused incarnations of the module p is an instance of.  When there is   *)
(* none left, or p has no configuration to start from, the process that is *)
(* forked is not followed by the model.                                    *)
Spare(p) == IF p \in has_mod THEN {q \in Pid \ spawned : Module[q] = Module[p]} ELSE {}

(* Mutant: the old process is not killed.                                  *)
ForkMutant(p, fresh) ==
    /\ procs' = (procs \ {p}) \cup fresh
    /\ has_mod' = (has_mod \ {p}) \cup fresh
    /\ started' = started \ {p}
    /\ on_restart' = on_restart \ {p}
    /\ spawned' = spawned \cup fresh
    /\ running' = running \cup fresh

Fork(p, fresh) ==
    /\ procs' = (procs \ {p}) \cup fresh
    /\ has_mod' = (has_mod \ {p}) \cup fresh
    /\ started' = started \ {p}
    /\ on_restart' = on_restart \ {p}
    /\ spawned' = spawned \cup fresh
    /\ running' = (running \ {p}) \cup fresh

(* restart: kill, tell the fabric to remove the module, start another      *)
(* process of the same configuration.                                      *)
Restart(p) ==
    /\ Command("restart", p)
    /\ IF p \in procs
       THEN /\ toFabric' = Append(toFabric, <<"remove", p>>)
            /\ \/ Spare(p) = {} /\ Fork(p, {})
               \/ \E q \in Spare(p) : Fork(p, {q})
       ELSE UNCHANGED <<toFabric, spawned, running, procmanVars>>

-----------------------------------------------------------------------------
(* checkpid_item, once per known pid and tick.                             *)
Watched(p) ==
    /\ up
    /\ p \in procs \ on_restart
    /\ UNCHANGED <<up, toProcman>>

(* A process that has not introduced itself in time is killed and          *)
(* forgotten.                                                              *)
StartTimeout(p) ==
    /\ Watched(p)
    /\ p \in has_mod \ started
    /\ ForgetProc(p)
    /\ running' = running \ {p}
    /\ UNCHANGED <<toFabric, spawned>>

(* A process that is gone is reported to the fabric, once.                 *)
NotRunning(p) ==
    /\ Watched(p)
    /\ p \notin running
    /\ toFabric' = Append(toFabric, <<"restart", p>>)
    /\ on_restart' = on_restart \cup {p}
    /\ UNCHANGED <<spawned, running, procs, has_mod, started>>

(* A process above its memory limit is reported on every tick; the model   *)
(* does so while fewer than MaxPipe messages are pending.                  *)
MaxMem(p) ==
    /\ Watched(p)
    /\ p \in started \cap has_mod \cap running
    /\ Len(toFabric) < MaxPipe
    /\ toFabric' = Append(toFabric, <<"restart", p>>)
    /\ UNCHANGED <<spawned, running, procmanVars>>

s_main_event == StartAll \/ \E p \in Pid : CheckPid(p) \/ RegisterPid(p) \/ Restart(p)

checkpid_event == \E p \in Pid : StartTimeout(p) \/ NotRunning(p) \/ MaxMem(p)

ProcmanNext == s_main_event \/ checkpid_event

=============================================================================
