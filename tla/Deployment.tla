----------------------------- MODULE Deployment -----------------------------
(***************************************************************************)
(* What the two threads of modbusd share: the configuration of one         *)
(* deployment (constants), the pair of pipes that joins the fabric loop    *)
(* (modbusd.c) to the process manager thread (procman.c), and the          *)
(* operating system's processes.                                           *)
(*                                                                         *)
(* A process incarnation is a member of Pid.  It has one DEALER socket, so *)
(* the same value stands for its pid and for its identity on the local     *)
(* ROUTER socket (module_t.pid and module_t.identity, module.h).           *)
(***************************************************************************)
EXTENDS Integers, Sequences, FiniteSets

CONSTANTS
    Pid,           \* process incarnations the model follows
    Initial,       \* those that startall forks (one per configured instance)
    External,      \* those started by hand, not by procman
    ModuleName,    \* [section] names of the configuration file
    Module,        \* Module[p]: the configured module p is an instance of
    Name,          \* "module:function" names
    MaxVersion,    \* bound on interface versions
    Provides,      \* Provides[m]: what m introduces, each name at one version, perhaps 0
    Call,          \* action ids of the calls that arrive
    Target,        \* Target[a]: <<name, version>> a asks for; version 0 is malformed
    Fab,           \* foreign fabrics ({} when conf->global = 0)
    Origin,        \* Origin[a]: the fabric a comes from, NULL for a local caller
    Offers,        \* Offers[f]: interfaces f may list
    ListLike,      \* modules and fabrics whose results can be taken for interface lists
    debug,         \* conf->debug
    MaxPipe,       \* bound on pending messages before the maxmem check reports
    NULL, Detached

(* interface.h: an interface is known by module, function and version;     *)
(* iface_new refuses version 0.                                            *)
Iface == Name \X (1 .. MaxVersion)

ASSUME ConfigAssumption ==
    /\ MaxVersion \in Nat
    /\ Initial \subseteq Pid /\ External \subseteq Pid
    /\ Initial \cap External = {} /\ IsFiniteSet(Initial)
    /\ Module \in [Pid -> ModuleName]
    /\ Provides \in [ModuleName -> SUBSET (Name \X (0 .. MaxVersion))]
    /\ \A m \in ModuleName : \A i, j \in Provides[m] : i[1] = j[1] => i = j
    /\ IsFiniteSet(Call)
    /\ Target \in [Call -> Name \X (0 .. MaxVersion)]
    /\ Origin \in [Call -> Fab \cup {NULL}]
    /\ Offers \in [Fab -> SUBSET Iface]
    /\ ListLike \subseteq ModuleName \cup Fab
    /\ debug \in BOOLEAN
    /\ MaxPipe \in Nat

(* A local identity is ten hex digits, a fabric's is a tcp:// endpoint     *)
(* (send_message tells them apart by length), and NULL is neither.         *)
ASSUME IdentityAssumption ==
    /\ Pid \cap Fab = {}
    /\ NULL \notin Pid \cup Fab \cup Iface \cup {Detached}
    /\ Detached \notin Iface

-----------------------------------------------------------------------------
VARIABLES
    up,          \* the daemon has not died of a NULL dereference or a double free
    toProcman,   \* messages the fabric has sent and procman has not read
    toFabric,    \* messages procman has sent and the fabric has not read
    spawned,     \* incarnations that have been started
    running      \* incarnations that are alive

sharedVars == <<up, toProcman, toFabric, spawned, running>>

(* Both ends always send whole messages: a command and one argument (the   *)
(* third frame of "register", a name, is not read for any decision).       *)
ProcmanMsg == ({"check_pid", "register", "restart"} \X Pid) \cup {<<"startall", NULL>>}
FabricMsg  == ({"restart", "remove"} \X Pid) \cup ({"check_pid"} \X {"yes", "no"})

SharedTypeOK ==
    /\ up \in BOOLEAN
    /\ toProcman \in Seq(ProcmanMsg)
    /\ toFabric \in Seq(FabricMsg)
    /\ spawned \subseteq Pid
    /\ running \subseteq Pid

(* execute() sends "startall" before it enters its loop; processes that    *)
(* were started by hand are already there.                                 *)
SharedInit ==
    /\ up = TRUE
    /\ toProcman = << <<"startall", NULL>> >>
    /\ toFabric = << >>
    /\ spawned = External
    /\ running = External

(* A module process may crash or exit at any time.                         *)
ProcessDies(p) ==
    /\ p \in running
    /\ running' = running \ {p}
    /\ UNCHANGED <<up, toProcman, toFabric, spawned>>

=============================================================================
