------------------------------- MODULE Message ------------------------------
(***************************************************************************)
(* The layout of messages (message.c) and the lookups by key that read     *)
(* them (modbus_helper.c).  A message is a msgpack map of maps.  Here it   *)
(* is the sequence of its fields in the order they are packed, each with   *)
(* its depth; the fields of a map follow it, one deeper.  Of a value that  *)
(* is no map the kind is kept, and the text or number; of an array, whether *)
(* it is a "response", the three parts of one, a "broken" one, whose parts  *)
(* are not made of texts, or one of texts has lost its pair, or "other".    *)
(***************************************************************************)
EXTENDS Integers, Sequences

CONSTANT Shorter    \* pairs <<k, key>> where the name k is a proper prefix of key

(* No name that messages are built with is a prefix of another one.        *)
FieldNames == {"command", "body", "actionid", "module", "function", "version", "parameters", "seqno"}

ASSUME ShorterAssumption == \A k, key \in FieldNames : <<k, key>> \notin Shorter

Entry(key, kind, val) == <<[key |-> key, depth |-> 1, kind |-> kind, val |-> val]>>

Raw(key, text)  == Entry(key, "RAW", text)
Num(key, n)     == Entry(key, "INT", n)
Array(key, what) == Entry(key, "ARRAY", what)
Map(key, inner) == Entry(key, "MAP", Len(inner)) \o
    [k \in 1 .. Len(inner) |-> [inner[k] EXCEPT !.depth = @ + 1]]

(* Every message is a command, a body and an action id, in this order.     *)
Envelope(command, body, actionid) ==
    Raw("command", command) \o Map("body", body) \o Raw("actionid", actionid)

(* The introduction the FastCGI module sends.                              *)
Introduction(pid, actionid) == Envelope("introduce",
    Num("pid", pid) \o Raw("name", "fastcgi") \o Raw("desc", "") \o
    Entry("debug", "BOOLEAN", TRUE) \o Map("provides", Num("stop", 1)), actionid)

message_response(actionid) == Envelope("result",
    Map("result", Raw("introduce", "ok")) \o Num("seqno", 0), actionid)

message_exception(text, actionid) == Envelope("exception",
    Raw("string", text) \o Num("exception", 1), actionid)

message_stop(actionid) == Envelope("stop", Raw("time", "0"), actionid)

(* The CALL that upstream_event packs.                                     *)
CallMessage(command, url, parameters, actionid) == Envelope(command,
    Raw("module", url.module) \o Raw("function", url.function) \o Num("version", url.version) \o
    Map("parameters", parameters) \o Num("seqno", 0), actionid)

(* What modules answer with: a result, or an exception of their own.       *)
AnswerMessage(command, body, actionid) == Envelope(command, body \o Num("seqno", 0), actionid)

-----------------------------------------------------------------------------
Nothing == [key |-> "", depth |-> 0, kind |-> "NONE", val |-> ""]

All(msg) == 1 .. Len(msg)

(* The fields inside of the map at k.                                      *)
Inside(msg, k) == {j \in k + 1 .. Len(msg) : \A i \in k + 1 .. j : msg[i].depth > msg[k].depth}

First(msg, places) ==
    IF places = {} THEN Nothing ELSE msg[CHOOSE k \in places : \A j \in places : k <= j]

(* memcmp over the length of the field's key: a key that is a prefix of    *)
(* the one looked for is as good as that one, the empty key for any.       *)
Matches(key, wanted) == key = wanted \/ key = "" \/ <<key, wanted>> \in Shorter

(* m_lookup goes into maps, not into arrays, and knows no other kinds.     *)
m_lookup(msg, wanted) ==
    First(msg, {k \in All(msg) :
        Matches(msg[k].key, wanted) /\ msg[k].kind \in {"RAW", "INT", "MAP", "ARRAY"}})

(* Mutant: a field that comes later takes the place of one before it.      *)
m_get_stringMutant(msg, places, wanted) ==
    LET found == {k \in places : msg[k].key = wanted /\ msg[k].kind = "RAW"}
    IN  IF found = {} THEN Nothing ELSE msg[CHOOSE k \in found : \A j \in found : k >= j]

(* m_get_string compares whole keys, and goes into maps.                   *)
m_get_string(msg, places, wanted) ==
    First(msg, {k \in places : msg[k].key = wanted /\ msg[k].kind = "RAW"})

(* m_get_int goes into maps too, and forgets what it finds there.          *)
m_get_int(msg, places, wanted) ==
    First(msg, {k \in places : msg[k].key = wanted /\ msg[k].kind = "INT"
                                /\ \A j \in places : msg[k].depth <= msg[j].depth})

(* m_find_map(message->object.data, "body").                               *)
Body(msg) == Inside(msg, CHOOSE k \in All(msg) :
    /\ msg[k].depth = 1 /\ Matches(msg[k].key, "body")
    /\ \A j \in 1 .. k - 1 : ~ (msg[j].depth = 1 /\ Matches(msg[j].key, "body")))

message_check_command(msg)  == m_get_string(msg, All(msg), "command").val
message_check_actionid(msg) == m_get_string(msg, All(msg), "actionid").val
message_getModule(msg)      == m_get_string(msg, Body(msg), "module").val
message_getFunc(msg)        == m_get_string(msg, Body(msg), "function").val
message_getIfVersion(msg)   == m_get_int(msg, Body(msg), "version").val

-----------------------------------------------------------------------------
(* The action id a message was built with is its last field.  A field that *)
(* is found before it hides it: from m_get_string one of the same name,    *)
(* from m_lookup one whose name is a prefix of "actionid".                 *)
OwnId(msg) == msg[Len(msg)].val

HiddenFromDaemon(msg) ==
    \E k \in 1 .. Len(msg) - 1 : msg[k].key = "actionid" /\ msg[k].kind = "RAW"

HiddenFromLookup(msg) ==
    \E k \in 1 .. Len(msg) - 1 :
        /\ Matches(msg[k].key, "actionid")
        /\ msg[k].kind \in {"RAW", "INT", "MAP", "ARRAY"}

=============================================================================
