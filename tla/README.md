# A TLA+ model of modbusd

`modbusd` (src/modbus) is a message broker. *Module* processes register the
functions they provide over a local ZeroMQ socket; callers send CALLs, the
daemon gives each one to a module and passes the answer back. A process manager
thread starts the configured modules, watches them and replaces them. Daemons
on other machines (*fabrics*) are found by UDP beacon, list their functions to
each other and can be given calls. The FastCGI module is a bridge that turns
HTTP requests into CALLs.

This directory holds TLA+ modules of the daemon, of its life from start to exit
and of the FastCGI module, the TLC configurations that check them on small deployments, and TLAPS proofs of
their safety properties and of the refinements between them, for deployments of any
size.

## 1. Inventory

| Part | Source | State | Operations | Here |
|---|---|---|---|---|
| call queue and routing | modbusd.c | `proxy->queue` (action id -> message with `iface`, `routed_via`, three timestamps) | processCall, placeCall, processResult, processException, process_queue | Fabric |
| module registry | modbusd.c, module.c | `proxy->modules` (identity -> `state`, `need_restart`, pid) | processIntroduce, s_procman_event | Fabric |
| interface table | interface.c, check_interface of modbusd.c | `proxy->ifaces`, each with two lists of identities | append, search, remove | Interfaces, InterfaceTable, InterfaceList |
| peer fabrics | modbusd.c, fabric.c | `proxy->fab_list`, `fabric_t.alive` | s_beacon_event, getIfaceList_event, the IfaceList request and answer | Fabric |
| process manager | procman.c, process.c | `procs` (pid -> `mod`, `started`, `on_restart`), `stop_all` | procman_thread, s_main_event (check_pid, register, restart, stop_all, killall), checkpid_event | Procman, Lifecycle |
| FastCGI module | modules/fastcgi/modbus_fastcgi.c | `rq_list` | introduce, upstream_event, zmq_event | FastCGI |
| startup, shutdown | main, execute and finalize of modbusd.c, modbus.sh | the pid file, how far each has come | createPidFile, signal handlers, finalize, the script's restart | Lifecycle |
| message codec | message.c, modbus_helper.c | none | packing of messages, lookup by key | Message |
| beacon thread | beacon.c | how far beacon_thread has come | address, endpoint, start; forwards UDP beacons | Beacon; forwarded beacons are inputs of s_beacon_event |
| configuration | config.c, ini.c | the values read | config_new, ini_gets | not modelled; what it yields are `Initial` and `Module` of Deployment |
| logger | logger.c, logger-file.c | `f_log`, `file_count`, the rolled files | logger_file_thread, logger_thread_event | Logger |
| test programs | test/ | | | not modelled |

How they interact:

* The fabric loop and the process manager are two threads with one reactor
  each. They share no memory; a pair of pipes carries whole messages:
  `startall`, `check_pid`, `register`, `restart` one way, `remove`, `restart`
  and the answer to `check_pid` the other way.
* A handler runs to its end before the next one starts, except
  `processIntroduce`: in the middle of it the fabric loop blocks until a message
  of the process manager arrives.
* A module process is reached through one ROUTER socket. What is sent to a
  process that has died is dropped.
* A fabric is reached through one DEALER socket per fabric and may answer late
  or never.
* A signal handler runs finalize inside of whatever the fabric loop was doing.
  finalize sends `stop_all` and `killall` through the same pipe as everything
  else, waits with a clock and not for an answer, and exits.
* execute and the beacon thread exchange three messages; the logger thread only
  receives.

What is hard, and what makes each part correct (the full list with source lines
is `hazards` in PROJECT.json):

* a call holds a pointer into the module it was given to, while timeouts,
  restarts and reports of death delete modules: the pointer must not dangle;
* answers, process timeouts and reports of death of one module come in any
  order: the caller gets exactly one reply, the module one call at a time, and a
  module that is not free has a call that will free it;
* the interface lists and the registry are changed by different handlers, and
  placeCall dereferences one through the other;
* the two threads wait for each other's messages, and two kinds of message share
  one pipe;
* processes die before, during and after their introduction, and must be
  replaced without running more of them than configured;
* fabrics come, go silent and come back, their answers arrive after they were
  dropped, and calls must not circle between fabrics;
* a daemon that is stopped has restarts, checks and introductions on their way,
  perhaps half a command in the pipe, and two seconds for them; its pid file must
  stand until it is done;
* a message is read by key, with two lookups that do not agree on what a key is,
  and parameters or results bring keys of their own.

## 2. Modules

| Module | What it is |
|---|---|
| Deployment | constants of a deployment with their assumptions; what the threads share: the two pipes, the processes (`spawned`, `running`), and `up`, which turns FALSE when the daemon dereferences NULL or frees twice |
| Interfaces | the interface table as operators on a set of interfaces and a list of identities per interface |
| Fabric | the fabric loop; one action per handler, split by outcome where that reads better |
| Procman | the process manager thread |
| ModBusd | the composition: Init, Next, Spec, fairness, and all properties |
| InterfaceTable | abstract specification of the table, in the form Fabric uses |
| InterfaceList | the program's linked list, shown to implement InterfaceTable |
| CallService | abstract specification of what callers are promised, implemented by ModBusd |
| Beacon, Logger | the beacon thread, the rolling of the log |
| Lifecycle | main, execute, the signals, finalize, exit and the next start, with Procman, Beacon and Logger |
| Message | messages as sequences of fields, and the lookups by key |
| FastCGI | the FastCGI module over Message and the daemon's contract |
| MCModBusd, MCInterfaceList, MCLifecycle, MCFastCGI | values of the constants for TLC |
| InterfacesProofs | lemmas on lists of identities, pipes, and induction over naturals |
| ModBusdProofs | types of the daemon |
| RoutingProofs, ServiceProofs, RegistryProofs | calls and modules; calls and callers; the table, the registry and procman's processes |
| InterfaceListProofs, FastCGIProofs, LifecycleProofs | the modules they are named for, the last one with Beacon and Logger |

Variables carry the names of the fields they stand for. An identity on the local
socket and the pid of the process that owns it are one value, a member of `Pid`:
an *incarnation*. `work[p]` and `remote[f]` are messages in flight: calls
delivered to a process or a fabric that has not answered them. `replies[a]`
counts what was sent to a's caller. These three, and `introduced`, are not
variables of the program.

Actions of Fabric and the code:

| Action | Handler |
|---|---|
| `processCall` = `CallRefused`, `CallCrashes`, `CallRoutedLocally`, `CallRoutedGlobally`, `CallWaits` | processCall with check_interface and placeCall; one disjunct per outcome |
| `processResult`, `processException` (both `Answer`), `AnswerLate` | the same, for an answer of a module; `PlaceWaiting` is the zhash_foreach of placeCall at their end |
| `RemoteAnswer`, `RemoteBusy` | the same, for an answer of a fabric |
| `IfaceListResult` | the IfaceList branch of processResult; `Unexpected` is what that branch does with a late result of a call |
| `processReq_IfaceList`, `s_beacon_event`, `getIfaceList_event` | the same (one fabric per step) |
| `QueueTimeout`, `ProcessTimeout` | process_queue_item, one call per step |
| `IntroduceAsk`, `IntroduceAnswered` | processIntroduce before and after its blocking zstr_recv |
| `ProcmanRemove`, `ProcmanRestart`, `ProcmanStray` | s_procman_event |

Procman: `StartAll` is the wait of procman_thread with startall_item,
`CheckPid`, `RegisterPid`, `Restart` are commands of s_main_event, `StartTimeout`, `NotRunning`, `MaxMem` the three ways out of
checkpid_item. The environment has `ProcessDies`, and the actions of modules and
fabrics are the inputs of the handlers.

Lifecycle uses Procman's actions inside of a daemon that starts and ends:

| Action | Code |
|---|---|
| `Start` (`createPidFile`) | main up to execute; the log an earlier life left is chosen here |
| `ForkThreads`, `BindGlobal`, `BindLocal` | execute, cut where it waits for another thread |
| `Signal`, `SignalInside` | s_signal_handler and the beginning of finalize: between two handlers, in the middle of start-up, of another finalize, or between the frames that processIntroduce sends |
| `SendKillall`, `Exit` | finalize after its first and its second wait |
| `Dies` | a crash, or a socket that cannot be bound: nothing is undone |
| `RemovePidFile` | an operator who removes a stale pid file (external) |
| `ScriptStop`, `ScriptStart` | modbus.sh restart |
| `FirstMessage`, `StopAll`, `KillAll`, `RegisterCut`, `SleepingRestart`, `Checks` | procman_thread, s_main_event, checkpid_event |
| `FabricSends`, `FabricReads` | the fabric loop, as something that sends procman any command |
| `Tick` | a second of finalize passes |
| `BeaconStep` | beacon_thread |

FastCGI: `Introduce` and `Introduced` are introduce before and after its blocking
zmsg_recv; `Reject`, `Forward`, `SendFails` the three ends of upstream_event;
`zmq_event` (with `Ends`, `Outcomes` and `Dies`) the handler of that name. `DaemonReads`,
`DaemonAnswers` and `DaemonCalls` are the daemon as the module sees it, reading
with the lookups of Message: it answers an introduction or, for a pid that it takes for
unknown, sends nothing (section 6); it forwards what a module answers, results and
exceptions of any body.

Decisions that matter for what the results mean:

* **Time** is not counted in Fabric and FastCGI. A timeout may expire at any moment after the state it
  is about has been reached, which includes every setting of the timeouts and a
  clock that jumps. In Lifecycle it is, in seconds and only while the daemon is
  being stopped, because finalize relies on it: a second passes in each restart
  (`sleep(1)`), or when procman has nothing to read. What else procman does is
  taken to take no time; the 10 ms that killall_item sleeps per process, and a
  thread that is not scheduled for a second, are left out.
* **Fields, not bytes.** A message is the sequence of its fields in the order they
  are packed, each with key, depth and kind. m_lookup compares as many characters
  as the *field's* key has (memcmp over its length), so the names that are prefixes
  of a key match it: `Shorter` lists those a deployment has. m_get_string compares
  whole keys. Both go into maps, so a parameter or a result is searched as well.
* **A torn register.** `check_pid` and `register` are sent frame by frame as
  messages of their own. `SignalInside` ends them where the signal hits; procman
  then reads `stop_all` as the pid (`NULL` in the model) or `killall` as the name
  (`RegisterCut`), or waits for a third message (`Blocked`).
* **After exit** the model follows no module process any more: those that are left
  run on in the program, and are what `AllKilledAtExit` is about.
* **One list item per step.** process_queue, checkpid_event and
  getIfaceList_event visit all items of a table in one run of the handler. An
  action visits one item; a run is several steps, with steps of other actions
  possibly in between. This adds behaviours and removes none.
* **Dangling pointers** are nondeterministic: `LookupModule` of a deleted module
  may find nothing or any module. `NoDanglingRoute` shows that the case does not
  arise for a queued call.
* **Hash order** is any order (`PlaceWaiting`, `Introduce` of InterfaceList).
* **czmq is external.** `id_global_list` is a zlist with autofree and no comparison
  function (interface.c:20): it holds copies of the identities it is given, and
  `zlist_remove` compares pointers. So `iface_remove(ifaces, fab->identity)` finds
  nothing, and `getIfaceList_event` leaves the table alone (run `dropped`).
  `id_local_list` holds the pointers themselves, and a module's identity is found.
* **A result that is taken for a list.** processResult takes a result of a call that is
  no longer queued for an interface list. `ListLike` names the modules and fabrics whose
  results have a field that message_getIfaceList finds; from a sender that is no
  listed fabric such a result may bring the daemon down (modbusd.c:784). That a
  result names interfaces, in the form of a list, is left out.
* **Version 0.** A module may introduce it; iface_new makes no interface of it, and
  processIntroduce dereferences NULL (`RegisterCrashes`).
* **Undefined behaviour** has every outcome: what a freed or foreign pointer reads is
  any of the answers it can lead to, a second free (a fabric that cannot be
  connected, beacon.c:113) ends the process or does not.
* **zlist cursors** are external state too. `zlist_next` past the end starts
  again at the head: processIntroduce reads its list of functions that way
  (modbusd.c:534). Every handler that touches `id_global_list` leaves its cursor
  past the end (iface_print, or a walk to the end), so in placeCall line 250
  returns the first fabric whenever there is one.
* **A restart without a spare incarnation** forks a process the model does not
  follow, as does the restart of a process procman has no configuration for. The
  first limits only how long a chain of replacements is seen.
* fork() succeeds, also in Lifecycle, where a pid is free again when its process is
  gone and procman has forgotten it; SIGQUIT and SIGKILL end a process.
* An incarnation introduces itself once; an action id is used once (callers draw
  UUIDs).
* When the daemon dies of a NULL dereference or a second free (`up = FALSE`) nothing
  of it moves any more.
* execute starts the beacon thread, binds the global socket and waits for the address
  in global mode only; `ForkThreads` chooses the mode (`beacon` is "new" or "off").

## 3. Runs

| Run | Deployment | Shows |
|---|---|---|
| local | 2 instances of one module and 1 replacement, 2 local calls | type correctness; `NoDanglingRoute`, `OneCallPerModule`, `BusyHasCall`, `TableSound`, `ReplyAccounting`, `NoExtraInstance` |
| global | 2 modules started by hand, one of them with a version 0, 1 foreign fabric, 3 calls (one for the module, one for the fabric's function, one from the fabric), debug mode | `AtMostOneReply`, `ForeignCallsStay`, and the daemon implements CallService (`ImplementsCallService`) |
| liveness | 1 instance, 1 replacement, 1 process started by hand, 2 calls, one malformed | `EveryCallAnswered`, `IntroduceReturns` |
| interface_list | 3 interfaces (two versions of one), 2 modules, 1 fabric | `VersionOrder`, and the list implements the set form (`ImplementsTable`) |
| fastcgi | 2 requests, a stray action id, 4 sets of parameters, 9 shapes of answers | `FreedOnce`, `CallRead`, `RequestFinished` |
| lifecycle | 1 module, 2 pids, 2 signals per daemon, any number of lives, with and without a global socket; all log lives of up to 4 rolls | `PidFileHeld`, `KillallIsLast`, `AllKilledAtExit`, `AnnouncedWhenReady`, `RollOrder` |
| script_restart | the same, with the waits of the code | section 6 |
| mixed, busy, dropped, early_death, lost_event | the smallest deployment with the case | section 6 |

What the less obvious ones say:

* `AllKilledAtExit`: finalize logs "all processes killed" after its two waits. That
  is true of the processes procman started, unless the restarts that were pending
  when the signal came took all of the time it waits, or killall was read as the
  last part of a torn register. Both exceptions happen: without either of them
  TLC finds the property violated, and with `late > StopWait + KillWait` too.
* `KillallIsLast`: nothing that was on its way when killall is handled brings a
  process back. It rests on three facts together: every process procman has forked
  is in `procs` until it is killed, killall is the last thing the fabric loop
  sends and the pipe keeps the order, and procman itself forks nothing but what
  it was told to.
* `RequestFinished`: a request that the daemon has read as a CALL is finished, whatever
  a module answers, with two exceptions that the property names. `AnswerHidden`: a text
  in the answer is found under "actionid", for which an empty key or one that is a
  prefix of it is enough. `phase = "dead"`: the answer has ended the FastCGI process,
  because a number or a map is found under "actionid" and a pointer into the message is
  freed, because a response has inner arrays that are no texts or lack one of a pair,
  because the result is a text or a number and is read as an array, or because the
  "string" of an exception is no text and is freed before the request is finished.
* `CallRead`: parameters do not stand in for the module, function or version of the
  URL, since they are packed after these; one called "actionid" does stand in for
  the id (`HiddenFromDaemon`), since the id is packed last.
* `RollOrder`: within one life the numbers of the rolled files tell their order and
  none is used twice, also when rename fails on the way and when all are used up.

`CHECK_DEADLOCK FALSE` in the runs of ModBusd, InterfaceList and FastCGI: the
model may stop when all calls have been answered and all incarnations are used
up, or when the daemon has died.

### Bounds

* `Pid`, `Call`, `Fab`: routing is about a pair of calls that compete for a
  module, and about a module and its successor. Two calls and two instances with
  one replacement have a waiting call, a busy and an idle module, a death during
  work and the introduction of a successor while the old module is on its way
  out. The theorems of section 5 hold for any number.
* `MaxVersion` is 1 in the daemon's runs (the choice among versions is the
  business of interface_list, which has two versions).
* `MaxPipe`: a process above its memory limit is reported every 10 ms while the
  fabric is busy, so the pipe would grow without end. A new report is made while
  fewer than `MaxPipe` messages are pending. With 1, a report is still pending
  when other messages follow it, which is what the handlers can tell apart.
  Other messages are not limited: they are bounded by calls and incarnations.
* `MaxInbox` (FastCGI) limits unsolicited messages only: one comes while fewer than
  `MaxInbox` are pending. It may come before, between and after the answers.
* `Parameters` and `Answers` have one member per case the lookups and `Outcomes` tell
  apart: no field that matches, one that is the key, one that is a prefix of it, the
  empty key, as a text, a number, a map and the three kinds of arrays.
* Lifecycle counts in units of one second with waits of 1 instead of 2 in
  `lifecycle`: a restart takes as long as a wait, so that zero, one and more
  restarts fit in, and two signals overlap in every order. `script_restart` has
  the waits of the code. `MaxPipe` bounds what the fabric sends procman ahead.
* `MaxFiles` is 3 instead of 64: rolls that fail, the last name and one more roll
  than names are among the lives of up to four rolls.
* `VIEW WithoutToFabric` in `lifecycle` takes two states that differ only in what
  procman has sent to the fabric for one. Only `FabricReads` and `MaxMem` look at
  that pipe, and both change nothing else, so the two have the same futures. No
  property of the run reads it.
* The log an earlier life left (`log`) is chosen in `Start` and forgotten in
  `ForkThreads`; it adds no interleavings.
* Symmetry in `local` permutes calls, and the two initial instances: both are
  used uniformly, and that run checks invariants only.

### Fairness

`FairSpec` of ModBusd assumes: both reactors serve their pipes (`s_main_event`;
`IntroduceAnswered` or `s_procman_event`); the queue timer finds a call whose
time is up (`QueueTimeout`, `ProcessTimeout`, per call); the 10 ms timer finds a
process that is gone (`NotRunning`). zloop serves every ready socket and every
timer, and no handler runs for ever. *Not* assumed: that a module or a fabric
answers, that a process introduces itself or lives, that calls arrive.

`FairSpec` of FastCGI assumes that the process gets through introduce when a
message comes, that its reactor serves its socket, and that the daemon reads its
socket and answers each CALL, which `EveryCallAnswered` and `AtMostOneReply`
state for the daemon. Lifecycle assumes no fairness: its properties are about
what has been reached when a clock says so.

## 4. Abstract specifications

CallService is the daemon as its callers see it: a call is `new`, then `open`,
then `answered`; it may be refused at once; `lost` is the fate of a call whose
caller is on a machine that is no longer known, or that had just arrived when the
daemon came down. There are no modules, queues, pipes or fabrics in it.
`ImplementsCallService` maps the daemon's queue, timestamps and replies to that
status (`CallStatus`). It is checked by the run `global` and proved for every
deployment (section 5).

InterfaceTable promises that a request finds the least version that is at least
the one asked for. The program searches one list from the front.
InterfaceList shows why the two agree: an interface is created only when no
version as high is there, so versions of one name stand in ascending order
(`VersionOrder`), whatever was added and removed before. `ImplementsTable` is the
refinement, with the list mapped to the set of its keys and two functions.
Fabric has the set form in the place of the list: its handlers and InterfaceTable
share the operators of Interfaces. That no interface of the list is without identities
(`Inhabited`) is what makes the removal of a fabric, which finds nothing, a stutter.

`ImplementsTable` is checked by `interface_list` and proved (section 5).

## 5. Theorems

Every invariant of the passing runs and the two refinements of section 4 are
proved for every value of the constants that the named assumptions allow.

| Theorem | States |
|---|---|
| ModBusdProofs `TypeCorrect` | `Spec => []TypeOK` |
| RoutingProofs `RouteInvariant` | `Spec => []RouteInv`, the inductive invariant of the routing |
| RoutingProofs `RouteSafety`, `ModuleExclusion` | `NoDanglingRoute`, `OneCallPerModule` |
| RoutingProofs `HeldInvariant` | `Spec => []HeldInv`, who works for what |
| RoutingProofs `BusyModulesWork`, `ForeignCallsPlaced` | `BusyHasCall` outside debug mode, `ForeignCallsStay` |
| ServiceProofs `ReplyOnce`, `LocalCallsAccounted` | `AtMostOneReply`, `ReplyAccounting` |
| ServiceProofs `ServiceImplemented` | `Spec => ImplementsCallService` |
| RegistryProofs `TableAlwaysSound` | `TableSound` |
| RegistryProofs `InstancesLimited` | `NoExtraInstance` |
| InterfaceListProofs `ListAlwaysTyped`, `ListAlwaysByVersion` | `ListTypeOK`, `VersionOrder` |
| InterfaceListProofs `ListImplementsTable` | `Spec => ImplementsTable` |
| FastCGIProofs `FastCGIAlwaysTyped`, `RequestFreedOnce`, `CallsAlwaysRead` | `FastCGITypeOK`, `FreedOnce`, `CallRead` |
| LifecycleProofs `PidFileAlwaysHeld`, `AnnouncedReady` | `PidFileHeld`, `AnnouncedWhenReady` |
| LifecycleProofs `KillallEndsAll`, `AllKilled` | `KillallIsLast`, `AllKilledAtExit` |
| LifecycleProofs `LifeInvariant` | `Spec => []LifeInv`, the inductive invariant of shutdown |
| LifecycleProofs `LogsInOrder` | `RollOrder` |

### What they assume

* `ConfigAssumption` and `IdentityAssumption` of Deployment: the constants have
  the shapes of a deployment, local identities, fabric endpoints and NULL are
  different things, a module introduces each name at one version (its `provides` is a
  hash table), `Call` and `Initial` are finite. `Pid`, `Fab`, `Iface` and
  `ModuleName` may be infinite. `Initial` is what `start_count` adds up to;
  without its being finite `NoExtraInstance` would compare cardinalities that
  mean nothing.
* `TimeAssumption` of Lifecycle: the waits are whole numbers of seconds, and the
  second one (`KillWait`) is not 0. With no second wait finalize would exit in the
  instant it sends killall, and `AllKilledAtExit` would be false.
* `LogLifeAssumption`, `MaxFilesAssumption`: lives of the log are sequences of rolls,
  of any length.
* `ListAssumption` of InterfaceList: interfaces are finitely many pairs of a name
  and a version, and a module is no fabric.
* `ShorterAssumption` of Message: none of the names that messages are built with
  ("command", "body", "actionid", ...) is a prefix of another one.
* `StrayAssumption` and `ParameterAssumption` of FastCGI: what upstream_event packs
  from the environment are texts, and the text of a parameter called "actionid"
  is a request's id or stands for all others (`Stray`). `Answers` may be anything.

One theorem has a hypothesis, because what it states is false without it:
`BusyModulesWork` needs `debug = FALSE`. In debug mode ProcessTimeout takes the call
away and leaves the module BUSY (modbusd.c:338).

### How they are proved

**Types.** One lemma per handler or group of handlers. The lemmas on lists of
identities and on pipes are in InterfacesProofs.

**Why NoDanglingRoute needs RouteInv.** A module is deleted in two places. In
`ProcessTimeout` it is the module of the call that leaves the queue, and by
`OneCallPerModule` no other call points at it. In `ProcmanRemove` it is whatever
module procman names, so the invariant must know that no queued call points at a
module that is *going*: one whose `restart` is pending at procman or whose
`remove` is pending at the fabric (`RouteHeld`). That stays true because a
module which is going is not IDLE and so is given no call (`GoingNotIdle`), and
because a `restart` is sent only for a module that was IDLE and becomes
RESTARTING, or that has just answered its one call. The second case needs
`WorkRouted`: an answer of p for a queued call is an answer for the call routed
to p. `WorkRouted` in turn needs `ArrivedFirst` (a call that has not arrived is
in nobody's hands), and `GoingNotIdle` needs `IntroducedOnce` (a module that is
going does not become IDLE by a second introduction).

**HeldInv** puts three facts together. A call that leaves the queue must not be the
only one of a module that stays BUSY: where a module answers, `WorkRouted` says
that it is its own call; where a fabric answers, `RemoteRouted` says that the call
is routed to the fabric and so to no module. Placing gives a module its call in the
step that makes it BUSY. `ShrinkHeld` covers all handlers that only take calls away.

**The service.** ServiceProofs sorts all handlers by what they do to the calls:
nothing (`Silent`), take one in (`Arrival`), or end one (`Departure`). `StepEffect`
shows that every step is one of the three; the rest of the module never looks at a
handler again. The inductive invariant `ReplyInv` says that a call which has not
arrived is not queued, and that one which has not arrived or is queued has not been
replied to. With it an arrival maps to Accept, Refuse, Lose or Fail and a departure
to Answer or Lose.

**The table.** RegistryProofs does the same for the table: a step is `Still`, or a
module `Joins` or `Leaves`, or a fabric `Lists` (`TableEffect`).
`TableSound` alone is not inductive: `zlist_remove` unlinks one node, so an identity
that stood in a list twice would survive its removal. `ListedOnce` says that none
does.

**Instances.** `NoExtraInstance` speaks of running processes, but restarts are made
from what procman has in `procs`. `InstanceInv` counts these (`KnownInstances`), says
that what runs is among them (`ForkedKnown`), and that `startall` is read once
(`StartedOnce`). A restart exchanges one process of a module for another.

**The list of interfaces.** `Introduce`, `IfaceListResult` and `iface_remove` walk over
lists of any length, so each is a recursive function over its turns. One lemma per
function says what one more turn does (`NextLocal`, `NextGlobal`, `NextSifted`), the
next one is the induction (`AllLocal`, `AllGlobal`, `AllSifted`). The point of the
proof is `HomesStay`: what a module provides is filed turn by turn in a list
that the turns before have changed, while the set form looks all of it up in the
table as it was. The two agree because a turn adds no interface that a
later one would be filed in: names provided by a module differ, and the versions of
one name in a fabric's list rise. `VersionOrder` makes the first match of
`CheckInterface` the least version. `Inhabited` is the part of the invariant that the
removal of a fabric needs.

**Shutdown.** `LifeInv` follows killall through the pipe: behind it there is nothing
but what another finalize sends (`KillallOrder`), it is never the message taken for
startall (`FirstRead`), and once sent it is in the pipe until it is handled or torn
(`KillallComes`). With `ForkedKnown` this gives `KillallIsLast`. For
`AllKilledAtExit` the seconds are counted: time passes outside of restarts only when
no restart is pending (`RestartsFirst`), and then not beyond the first wait as long
as killall has not been handled (`WaitInTime`). So if a process is left when
finalize's waits are over, all of these seconds were spent in restarts
(`late >= StopWait + KillWait`), or a register was torn.

**FastCGI.** `FreedInv` adds to `FreedOnce` that listed requests are accepted ones and
that what has not been accepted has not been finished. It does not mention messages:
whatever the lookup returns, `zmq_event` finishes a request only if it is listed
and takes it off the list in the same step. The types need more: what the daemon
owes are ids *it has read*. `CallFacts` gives the place of every field of a CALL
with parameters of any number; `CallIsRead` finds what each lookup of the daemon
returns there: the first "command", "module", "function" and "version" stand before
all parameters, and an id that is not the last field's is that of a parameter.

**Log.** `LoggedInOrder` is an induction over the rolls of a life.

**Induction.** The library's rules for induction take an operator as a parameter and
cannot be used. InterfacesProofs has what replaces them: every set of naturals that
is not empty has a least element (`LeastNatural`, from the library's facts on
well-founded relations), so a set of naturals with 0 that is closed under successor is
Nat (`NatSteps`), and a recursive function over `0 .. n` exists and satisfies its
equations (`RecursionExists`). The statement to be proved becomes the set of those n
for which it holds.

`RouteInv`, `HeldInv`, `ReplyInv`, `TableInv`, `InstanceInv` and `LifeInv` were checked
with TLC on the deployments of section 3 before they were proved.

### Only model-checked

The liveness properties `EveryCallAnswered`, `IntroduceReturns` and
`RequestFinished`: fairness and ENABLED are outside the prover's reach. The
disagreements of section 6, each by its counterexample.

## 6. Where code and documentation disagree

Each has a run that TLC must find violated.

* **mixed** (`LocalThenGlobal`). placeCall takes the next identity of its local
  search from the list of fabrics (modbusd.c:250). An interface with a local
  module and a fabric brings the daemon down.
* **busy** (`BusyCallReplaced`). After MODULES_BUSY the wrong message is cleared
  (modbusd.c:644), and the call is not offered to anybody else.
* **early_death** (`EarlyDeathNoticed`). A process that dies before it introduces
  itself is reported to a fabric that does not know it and is never replaced
  (procman.c:178).
* **lost_event** (`DeadModuleLeaves`). processIntroduce reads a report of death
  as the answer to its question (modbusd.c:504); the dead module stays
  registered.
* **dropped** (`GlobalsKnown`). The README says it is easy to remove servers. A server
  that goes silent leaves `fab_list`, but not the lists of the interfaces
  (modbusd.c:395 with interface.c:20): calls for them go on being routed to it and are
  ended by a timeout.
* **script_restart** (`RestartStarts`). The script offers "restart [config]" and
  waits two seconds (modbus.sh:44); finalize takes four until it removes the pid
  file, and the new daemon exits when it finds it (modbusd.c:1055). After a
  restart no daemon is running.

Met on the way, without a run of their own:

* src/README.md:8 says messages are stored in a FIFO queue. The queue is a hash table,
  and waiting calls are placed in hash order (modbusd.c:722); `PlaceWaiting` has any order.
* Once processIntroduce has read a report as its answer (`lost_event`), the answer itself
  can be read by the next processIntroduce (modbusd.c:504). A "no" for an unknown
  process then refuses one that procman started, and that process is sent nothing: it
  stays in its introduction, and FastCGI's zmsg_recv there (modbus_fastcgi.c:64) has no
  timeout. `IntroduceAnswered` and `DaemonReads` have the case.
* The number of instances is read into two characters (config.c:219, config.h:12): of
  `instances = 12` the 1 is kept.

Because of `mixed`, a deployment with an interface provided on both sides ends
in a crash; `global` includes such a case, and its invariants are checked up to
and including the crash.

## 7. Not modelled

* two complete daemons against each other (a fabric is an environment);
* of the codec, m_unpack_map, m_unpack_array, m_get_double and m_get_bool, and the
  layout of interface lists;
* timeout arithmetic: any timeout may expire at any moment, which includes what an
  overflow or a clock set back can do;
* a second introduction of a running process, a second CALL with a queued id;
* that `zlist_remove` might run the free function interface.c registers for identities
  (interface.c:92 gives `free_iface` for plain strings): it is taken to unlink the node
  and no more;
* a result that comes after its timeout, is taken for an interface list and does name
  interfaces;
* a second SIGTERM that is delivered to another thread than the first, and a "restart"
  that a signal cuts in two (zstr_sendx): what procman then reads is what a torn
  check_pid makes it read;
* a fork that fails (procman.c:107 then frees an entry it has inserted);
* module processes that outlive the daemon, and what they do with the next one;
* the exit status daemonize reports;
* the reading of the configuration, of the logger the pipe to its thread
  (logger.c only formats lines), and the test programs;
* in FastCGI, the layout of HTTP headers and the fixed-size copies of parameters.

## 8. Plan

Done: all components above but the configuration and the test programs, and the proofs of all safety
properties. Next, in this order:

1. **Repeated introductions** of a running process.
2. **Federation**: two fabrics that exchange real interface lists and calls, with
   messages in flight lost or delayed; calls do not circle, tables converge.
3. **Timeout arithmetic** at its width (`uint64_t` milliseconds, `int` products)
   against the reference definition of a timeout.
