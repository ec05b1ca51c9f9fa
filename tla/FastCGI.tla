------------------------------- MODULE FastCGI ------------------------------
(***************************************************************************)
(* The FastCGI module (modbus_fastcgi.c): one reactor that accepts HTTP    *)
(* requests from the web server, sends each one to the daemon as a CALL,   *)
(* and finishes the request when the answer comes back.  The daemon is     *)
(* there by its contract: it answers a CALL of a local caller once         *)
(* (EveryCallAnswered and AtMostOneReply of module ModBusd), under the     *)
(* action id it has read from it.                                          *)
(*                                                                         *)
(* getActionid gives each request an id of its own, so the request stands  *)
(* for its action id.                                                      *)
(***************************************************************************)
EXTENDS Message

CONSTANTS
    Request,     \* HTTP requests
    Stray,       \* an action id that is no request's
    MaxInbox,    \* bound on pending messages before another stray one comes
    Parameters,  \* environments of requests: a set of sequences of fields
    Answers      \* bodies of what modules answer: a set of sequences of fields

ASSUME StrayAssumption == Stray \notin Request /\ MaxInbox \in Nat

VARIABLES
    phase,     \* "new", "waiting" for the answer to its introduction, "serving", "dead"
    accepted,  \* requests FCGX_Accept_r has returned
    rq_list,   \* requests that wait for an answer
    response,  \* what has been written to a request
    finished,  \* how often a request was finished and freed
    toDaemon,  \* messages to the daemon it has not read
    owed,      \* CALLs the daemon has and has not answered, by the id it read
    inbox      \* messages of the daemon, in the order they were sent

vars == <<phase, accepted, rq_list, response, finished, toDaemon, owed, inbox>>

Id == Request \cup {Stray}

(* The environment is packed as texts; the text of one called "actionid"   *)
(* is the id of a request, or Stray, which stands for every other text.    *)
Parameter == [key : STRING, depth : {1}, kind : {"RAW"}, val : Id \cup STRING]

ASSUME ParameterAssumption ==
    \A par \in Parameters :
        /\ par \in Seq(Parameter)
        /\ \A k \in 1 .. Len(par) : par[k].key = "actionid" => par[k].val \in Id

Url == [module |-> "m", function |-> "f", version |-> 1]

Written == {"nothing", "400", "result", "500", "empty"}

Calls == {CallMessage(cmd, Url, par, id) : cmd \in {"call", "other"}, par \in Parameters, id \in Id}

ToDaemon == Calls \cup {Introduction(1, Stray)}

FromDaemon ==
    Calls \cup {message_response(Stray), message_stop(Stray)}
          \cup {message_exception("text", id) : id \in Id}
          \cup {AnswerMessage(cmd, body, id) : cmd \in {"result", "exception"}, body \in Answers, id \in Id}

FastCGITypeOK ==
    /\ phase \in {"new", "waiting", "serving", "dead"}
    /\ accepted \subseteq Request
    /\ rq_list \subseteq accepted
    /\ response \in [Request -> Written]
    /\ finished \in [Request -> 0 .. 1]
    /\ toDaemon \in Seq(ToDaemon)
    /\ owed \subseteq Id
    /\ inbox \in Seq(FromDaemon)

Init ==
    /\ phase = "new"
    /\ accepted = {}
    /\ rq_list = {}
    /\ response = [r \in Request |-> "nothing"]
    /\ finished = [r \in Request |-> 0]
    /\ toDaemon = << >>
    /\ owed = {}
    /\ inbox = << >>

requestVars == <<accepted, rq_list, response, finished>>

(* The first half of introduce.                                            *)
Introduce ==
    /\ phase = "new"
    /\ phase' = "waiting"
    /\ toDaemon' = Append(toDaemon, Introduction(1, Stray))
    /\ UNCHANGED <<requestVars, owed, inbox>>

(* The second half: one message of the daemon, whatever it is, and main    *)
(* starts the reactor.                                                     *)
Introduced ==
    /\ phase = "waiting"
    /\ inbox # << >>
    /\ phase' = "serving"
    /\ inbox' = Tail(inbox)
    /\ UNCHANGED <<requestVars, toDaemon, owed>>

-----------------------------------------------------------------------------
(* upstream_event.                                                         *)
Accepts(r) ==
    /\ phase = "serving"
    /\ r \notin accepted
    /\ accepted' = accepted \cup {r}
    /\ UNCHANGED <<phase, owed, inbox>>

Finish(r, text) ==
    /\ response' = [response EXCEPT ![r] = text]
    /\ finished' = [finished EXCEPT ![r] = @ + 1]

(* Without REQUEST_URI the request is finished and nothing is written; a   *)
(* path of fewer than four parts gets a 400.                               *)
Reject(r) ==
    /\ Accepts(r)
    /\ Finish(r, "nothing") \/ Finish(r, "400")
    /\ UNCHANGED <<rq_list, toDaemon>>

(* The first part of the path is sent as the command, the environment of   *)
(* the request as the parameters.                                          *)
Forward(r) ==
    /\ Accepts(r)
    /\ rq_list' = rq_list \cup {r}
    /\ \E cmd \in {"call", "other"}, par \in Parameters :
         toDaemon' = Append(toDaemon, CallMessage(cmd, Url, par, r))
    /\ UNCHANGED <<response, finished>>

(* zmsg_send fails: the request is not listed, and not finished either.    *)
SendFails(r) ==
    /\ Accepts(r)
    /\ UNCHANGED <<rq_list, response, finished, toDaemon>>

upstream_event == \E r \in Request : Reject(r) \/ Forward(r) \/ SendFails(r)

-----------------------------------------------------------------------------
(* The daemon.                                                             *)
Sends(msg) ==
    /\ inbox' = Append(inbox, msg)
    /\ UNCHANGED <<phase, requestVars>>

(* message_fromzmq, then: an introduction is answered or not, as the first *)
(* message in procman's pipe says; a CALL is going to be; another command  *)
(* is not.                                                                 *)
DaemonReads ==
    LET msg == Head(toDaemon)
    IN  /\ toDaemon # << >>
        /\ toDaemon' = Tail(toDaemon)
        /\ \/ /\ message_check_command(msg) = "introduce"
              /\ Sends(message_response(Stray))
              /\ UNCHANGED owed
           \/ /\ message_check_command(msg) = "call"
              /\ owed' = owed \cup {message_check_actionid(msg)}
              /\ UNCHANGED <<phase, requestVars, inbox>>
           \/ /\ message_check_command(msg) # "call"
              /\ UNCHANGED <<phase, requestVars, owed, inbox>>

(* The daemon's own exception, or what a module answers, forwarded as it   *)
(* is: a result or an exception with any body under which the daemon finds *)
(* the id.                                                                 *)
DaemonAnswers(id) ==
    /\ id \in owed
    /\ owed' = owed \ {id}
    /\ \/ Sends(message_exception("text", id))
       \/ \E cmd \in {"result", "exception"}, body \in Answers :
             LET msg == AnswerMessage(cmd, body, id)
             IN  message_check_actionid(msg) = id /\ Sends(msg)
    /\ UNCHANGED toDaemon

(* introduce registers the function "stop": a request may ask for it, and  *)
(* its own CALL comes back, to be answered by a process timeout.  A CALL   *)
(* of another caller, or the "stop" of finalize, has an id of its own.     *)
DaemonCalls ==
    /\ phase = "serving"
    /\ Len(inbox) < MaxInbox
    /\ \/ \E id \in owed \cup {Stray}, par \in Parameters : Sends(CallMessage("call", Url, par, id))
       \/ Sends(message_stop(Stray))
    /\ UNCHANGED <<toDaemon, owed>>

-----------------------------------------------------------------------------
(* What zmq_event writes for a message: nothing for a result that is not   *)
(* made of three parts, or for a command that is no answer.  The parts of  *)
(* a broken response are read as texts and pairs of texts all the same,    *)
(* and a result that is a text or a number as the object of an array: the  *)
(* process reads what lies there, or dies of it.  It also dies of freeing  *)
(* the "string" of an exception that is no text.                           *)
Outcomes(msg) ==
    LET command == m_lookup(msg, "command").val
        result  == m_lookup(msg, "result")
        text    == m_lookup(msg, "string")
    IN  CASE command = "result" /\ result.kind = "ARRAY" ->
                 (CASE result.val = "response" -> {"result"}
                    [] result.val = "broken" -> {"result", "dead"}
                    [] OTHER -> {"empty"})
          [] command = "result" /\ result.kind \in {"RAW", "INT"} -> {"result", "empty", "dead"}
          [] command = "exception" ->
                 IF text.kind \in {"RAW", "NONE"} THEN {"500"} ELSE {"dead"}
          [] OTHER -> {"empty"}

Dies == phase' = "dead" /\ UNCHANGED <<rq_list, response, finished>>

(* Mutant: the request stays listed after it has been freed.               *)
KeepListedMutant(id, msg) ==
    IF id \in rq_list
    THEN \E text \in Outcomes(msg) :
             IF text = "dead" THEN Dies ELSE Finish(id, text) /\ UNCHANGED <<phase, rq_list>>
    ELSE UNCHANGED <<phase, rq_list, response, finished>>

(* Mutant: a malformed result is dropped.                                  *)
DropMalformedMutant(id, msg) ==
    IF id \in rq_list /\ Outcomes(msg) # {"empty"}
    THEN \E text \in Outcomes(msg) :
             IF text = "dead" THEN Dies
             ELSE Finish(id, text) /\ rq_list' = rq_list \ {id} /\ UNCHANGED phase
    ELSE UNCHANGED <<phase, rq_list, response, finished>>

(* Whatever the message is, the request it names is finished, freed and no *)
(* longer listed, if the process outlives it.                              *)
Ends(id, msg) ==
    IF id \in rq_list
    THEN \E text \in Outcomes(msg) :
             IF text = "dead" THEN Dies
             ELSE Finish(id, text) /\ rq_list' = rq_list \ {id} /\ UNCHANGED phase
    ELSE UNCHANGED <<phase, rq_list, response, finished>>

(* The id is looked up by m_lookup.  Of a text it returns a copy; of any   *)
(* other value a pointer into the message, which is read as a text and     *)
(* then freed, what the C library ends the process for.                    *)
zmq_event ==
    LET msg == Head(inbox)
        id  == m_lookup(msg, "actionid")
    IN  /\ phase = "serving"
        /\ inbox # << >>
        /\ inbox' = Tail(inbox)
        /\ IF id.kind \in {"RAW", "NONE"} THEN Ends(id.val, msg) ELSE Dies
        /\ UNCHANGED <<accepted, toDaemon, owed>>

Next ==
    \/ Introduce \/ Introduced
    \/ upstream_event
    \/ DaemonReads
    \/ \E id \in Id : DaemonAnswers(id)
    \/ DaemonCalls
    \/ zmq_event

Spec == Init /\ [][Next]_vars

(* The reactor serves its socket, and the daemon keeps its contract.       *)
FairSpec ==
    /\ Spec
    /\ WF_vars(Introduce) /\ WF_vars(Introduced) /\ WF_vars(zmq_event)
    /\ WF_vars(DaemonReads)
    /\ \A id \in Id : WF_vars(DaemonAnswers(id))

-----------------------------------------------------------------------------
(* A request is freed when it is finished, and then no message finds it    *)
(* any more: not the answer to a CALL whose own CALL came back first, nor  *)
(* any stray message, nor one that is taken for another.                   *)
FreedOnce ==
    \A r \in Request :
        /\ finished[r] <= 1
        /\ r \in rq_list => finished[r] = 0

(* m_get_string and m_get_int find what upstream_event has packed:         *)
(* the parameters of a request, whatever they are called, do not stand in  *)
(* for the module, function and version of its path, and nothing but a     *)
(* parameter named "actionid" stands in for its id.                        *)
CallRead ==
    \A k \in 1 .. Len(toDaemon) :
        LET msg == toDaemon[k]
        IN  msg \in Calls =>
                /\ message_getModule(msg) = Url.module
                /\ message_getFunc(msg) = Url.function
                /\ message_getIfVersion(msg) = Url.version
                /\ message_check_actionid(msg) = OwnId(msg) \/ HiddenFromDaemon(msg)

(* The answer to r is one of a module, and a part of it hides the id.      *)
AnswerHidden(r) ==
    \E k \in 1 .. Len(inbox) :
        /\ OwnId(inbox[k]) = r
        /\ message_check_command(inbox[k]) \in {"result", "exception"}
        /\ HiddenFromLookup(inbox[k])

(* The web server hears of every request the daemon has read as a CALL,    *)
(* unless its answer, a module's, names another id before its own, or this *)
(* process has died of an answer (zmq_event finishes a request whatever    *)
(* else it is sent).                                                       *)
RequestFinished ==
    \A r \in Request : r \in owed ~> finished[r] = 1 \/ AnswerHidden(r) \/ phase = "dead"

(* The inductive strengthening of FreedOnce: only accepted requests are    *)
(* listed or finished, and an accepted one is not accepted again.          *)
FreedInv ==
    /\ accepted \subseteq Request
    /\ rq_list \subseteq accepted
    /\ finished \in [Request -> 0 .. 1]
    /\ FreedOnce
    /\ \A r \in Request \ accepted : finished[r] = 0

=============================================================================
