---------------------------- MODULE FastCGIProofs ---------------------------
(***************************************************************************)
(* The FastCGI module frees a request once, for any number of requests,    *)
(* any parameters and results, and whatever the daemon sends; and whatever *)
(* the parameters of a request are, the daemon reads its CALL as it was    *)
(* meant.  For the second the fields of a CALL are put in their places,    *)
(* one concatenation at a time, and each lookup is followed to the field   *)
(* it finds.                                                               *)
(***************************************************************************)
EXTENDS FastCGI, SequenceTheorems, TLAPS

(* Of the naturals: a set of them has a least element.                     *)
Numbers == INSTANCE InterfacesProofs

(* A request that has not been finished is finished by Finish, and the     *)
(* others are left alone.                                                  *)
LEMMA FinishFacts ==
    ASSUME finished \in [Request -> 0 .. 1], NEW r \in Request, NEW text,
           finished[r] = 0, Finish(r, text)
    PROVE  /\ finished' \in [Request -> 0 .. 1]
           /\ finished'[r] = 1
           /\ \A s \in Request \ {r} : finished'[s] = finished[s]
BY DEF Finish

(* What zmq_event may come to with a message.                              *)
LEMMA OutcomesFacts == ASSUME NEW msg PROVE Outcomes(msg) \subseteq Written \cup {"dead"}
BY DEF Outcomes, Written

(* A step that leaves the requests alone keeps FreedInv.                   *)
LEMMA Untouched ==
    ASSUME FreedInv, UNCHANGED requestVars
    PROVE  FreedInv'
BY DEF FreedInv, FreedOnce, requestVars

(* What Ends does: nothing to the requests, or one that is listed is       *)
(* finished and no longer listed.                                          *)
LEMMA EndsFacts ==
    ASSUME NEW id, NEW msg, Ends(id, msg)
    PROVE  \/ UNCHANGED <<phase, rq_list, response, finished>>
           \/ Dies
           \/ /\ id \in rq_list /\ rq_list' = rq_list \ {id} /\ UNCHANGED phase
              /\ \E text \in Written : Finish(id, text)
<1>1. CASE id \in rq_list
  <2>1. PICK text \in Outcomes(msg) :
           IF text = "dead" THEN Dies
           ELSE Finish(id, text) /\ rq_list' = rq_list \ {id} /\ UNCHANGED phase
    BY <1>1 DEF Ends
  <2>2. text = "dead" \/ text \in Written
    BY OutcomesFacts
  <2> QED BY <1>1, <2>1, <2>2
<1>2. CASE id \notin rq_list
  BY <1>2 DEF Ends
<1> QED BY <1>1, <1>2

(* An answer finishes a listed request and takes it off rq_list, and does  *)
(* nothing to one that is not listed.                                      *)
LEMMA EndsStep ==
    ASSUME FreedInv, NEW id, NEW msg, Ends(id, msg) \/ Dies, UNCHANGED accepted
    PROVE  FreedInv'
<1>1. CASE UNCHANGED <<rq_list, response, finished>>
  BY <1>1, Untouched DEF requestVars
<1>2. ASSUME id \in rq_list, rq_list' = rq_list \ {id}, NEW text \in Written, Finish(id, text)
      PROVE  FreedInv'
  <2>1. id \in Request /\ id \in accepted /\ finished[id] = 0
    BY <1>2 DEF FreedInv, FreedOnce
  <2> QED BY <1>2, <2>1, FinishFacts DEF FreedInv, FreedOnce
<1>3. CASE Dies
  BY <1>1, <1>3 DEF Dies
<1> QED BY <1>1, <1>2, <1>3, EndsFacts

(* Every event of the reactor and every message of the daemon keeps        *)
(* FreedInv: what is freed has been taken off rq_list in the same handler. *)
LEMMA FreedInvStep ==
    ASSUME FreedInv, [Next]_vars
    PROVE  FreedInv'
<1>1. CASE Introduce \/ Introduced
  BY <1>1, Untouched DEF Introduce, Introduced
<1>2. ASSUME NEW r \in Request, Reject(r) PROVE FreedInv'
  <2>1. finished[r] = 0 /\ r \notin rq_list
    BY <1>2 DEF Reject, Accepts, FreedInv
  <2>2. PICK text \in {"nothing", "400"} : Finish(r, text)
    BY <1>2 DEF Reject
  <2>3. accepted' = accepted \cup {r} /\ UNCHANGED rq_list
    BY <1>2 DEF Reject, Accepts
  <2> QED BY <2>1, <2>2, <2>3, FinishFacts DEF FreedInv, FreedOnce
<1>3. ASSUME NEW r \in Request, Forward(r) \/ SendFails(r) PROVE FreedInv'
  <2>1. finished[r] = 0
    BY <1>3 DEF Forward, SendFails, Accepts, FreedInv
  <2>2. /\ accepted' = accepted \cup {r} /\ UNCHANGED finished
        /\ rq_list' = rq_list \/ rq_list' = rq_list \cup {r}
    BY <1>3 DEF Forward, SendFails, Accepts
  <2> QED BY <2>1, <2>2 DEF FreedInv, FreedOnce
<1>4. CASE DaemonReads
  <2>1. UNCHANGED requestVars
    BY <1>4 DEF DaemonReads, Sends
  <2> QED BY <2>1, Untouched
<1>5. ASSUME NEW id \in Id, DaemonAnswers(id) PROVE FreedInv'
  <2>1. UNCHANGED requestVars
    BY <1>5 DEF DaemonAnswers, Sends
  <2> QED BY <2>1, Untouched
<1>6. CASE DaemonCalls
  <2>1. UNCHANGED requestVars
    BY <1>6 DEF DaemonCalls, Sends
  <2> QED BY <2>1, Untouched
<1>7. CASE zmq_event
  <2> DEFINE msg == Head(inbox)
             id  == m_lookup(msg, "actionid")
  <2>1. UNCHANGED accepted
    BY <1>7 DEF zmq_event
  <2>2. Ends(id.val, msg) \/ Dies
    BY <1>7 DEF zmq_event
  <2> QED BY <2>1, <2>2, EndsStep
<1>8. CASE UNCHANGED vars
  BY <1>8, Untouched DEF vars, requestVars
<1> QED BY <1>1, <1>2, <1>3, <1>4, <1>5, <1>6, <1>7, <1>8 DEF Next, upstream_event

(* Whatever the daemon sends and in whatever order, upstream_event and     *)
(* zmq_event free a request at most once, and none that is still listed.   *)
THEOREM RequestFreedOnce == Spec => []FreedOnce
<1>1. Init => FreedInv
  BY DEF Init, FreedInv, FreedOnce
<1>2. FreedInv /\ [Next]_vars => FreedInv'
  BY FreedInvStep
<1>3. FreedInv => FreedOnce
  BY DEF FreedInv
<1> QED BY <1>1, <1>2, <1>3, PTL DEF Spec

-----------------------------------------------------------------------------
(* What the fields of a message to the daemon are made of.  (The provers   *)
(* do not know of a text that it is in STRING.)                            *)
Name  == STRING \cup FieldNames \cup {"pid", "name", "desc", "debug", "provides", "stop"}
Kind  == {"RAW", "INT", "MAP", "BOOLEAN"}
Value == Id \cup Int \cup STRING \cup BOOLEAN
            \cup {"introduce", "fastcgi", "", "call", "other", "m", "f"}

Field == [key : Name, depth : Nat, kind : Kind, val : Value]

(* A field, and the same one level deeper in a map.                        *)
FieldOf(key, depth, kind, val) == [key |-> key, depth |-> depth, kind |-> kind, val |-> val]

Deeper(f) == [f EXCEPT !.depth = @ + 1]

(* The fields of s, then those of t.                                       *)
Joined(u, s, t) ==
    /\ u \in Seq(Field) /\ Len(u) = Len(s) + Len(t)
    /\ \A k \in 1 .. Len(s) : u[k] = s[k]
    /\ \A k \in 1 .. Len(t) : u[Len(s) + k] = t[k]

(* Concatenation joins.                                                    *)
LEMMA Join ==
    ASSUME NEW s \in Seq(Field), NEW t \in Seq(Field)
    PROVE  Joined(s \o t, s, t)
<1>1. Len(s) \in Nat /\ Len(t) \in Nat
  BY LenProperties
<1>2. /\ s \o t \in Seq(Field) /\ Len(s \o t) = Len(s) + Len(t)
      /\ \A k \in 1 .. Len(s) + Len(t) : (s \o t)[k] = IF k <= Len(s) THEN s[k] ELSE t[k - Len(s)]
  BY ConcatProperties
<1>3. \A k \in 1 .. Len(s) : (s \o t)[k] = s[k]
  BY <1>1, <1>2
<1>4. ASSUME NEW k \in 1 .. Len(t) PROVE (s \o t)[Len(s) + k] = t[k]
  <2>1. /\ Len(s) + k \in 1 .. Len(s) + Len(t) /\ ~ (Len(s) + k <= Len(s))
        /\ Len(s) + k - Len(s) = k
    BY <1>1
  <2> QED BY <1>2, <2>1
<1> QED BY <1>2, <1>3, <1>4 DEF Joined

(* A field that stands alone.                                              *)
Alone(s, f) == s \in Seq(Field) /\ Len(s) = 1 /\ s[1] = f

(* Entry makes one.                                                        *)
LEMMA EntryFacts ==
    ASSUME NEW key \in Name, NEW kind \in Kind, NEW val \in Value
    PROVE  Alone(Entry(key, kind, val), FieldOf(key, 1, kind, val))
<1> DEFINE f == FieldOf(key, 1, kind, val)
<1>1. f \in Field
  BY DEF Field, FieldOf
<1>2. Entry(key, kind, val) = <<f>>
  BY DEF Entry, FieldOf
<1> HIDE DEF f
<1>3. <<f>> \in Seq(Field) /\ Len(<<f>>) = 1 /\ <<f>>[1] = f
  BY <1>1
<1> QED BY <1>2, <1>3 DEF f, Alone

(* A map: its own field, then those inside of it, one deeper.              *)
Nested(s, f, inner) ==
    /\ s \in Seq(Field) /\ Len(s) = Len(inner) + 1 /\ s[1] = f
    /\ \A k \in 1 .. Len(inner) : s[k + 1] = Deeper(inner[k])

(* Map makes one of the fields it is given.                                *)
LEMMA MapFacts ==
    ASSUME NEW key \in Name, NEW inner \in Seq(Field)
    PROVE  Nested(Map(key, inner), FieldOf(key, 1, "MAP", Len(inner)), inner)
<1> DEFINE e == Entry(key, "MAP", Len(inner))
           s == [k \in 1 .. Len(inner) |-> Deeper(inner[k])]
           f == FieldOf(key, 1, "MAP", Len(inner))
<1>1. Len(inner) \in Nat /\ \A k \in 1 .. Len(inner) : Deeper(inner[k]) \in Field
  <2>1. Len(inner) \in Nat /\ \A k \in 1 .. Len(inner) : inner[k] \in Field
    BY LenProperties, ElementOfSeq
  <2> QED BY <2>1 DEF Field, Deeper
<1>2. Alone(e, f)
  <2>1. Len(inner) \in Value /\ "MAP" \in Kind
    BY <1>1 DEF Value, Kind
  <2> QED BY <2>1, EntryFacts
<1>3. s \in Seq(Field) /\ Len(s) = Len(inner) /\ \A k \in 1 .. Len(inner) : s[k] = Deeper(inner[k])
  BY <1>1, SeqDef
<1>4. Map(key, inner) = e \o s
  BY DEF Map, Deeper
<1> HIDE DEF e, s, f
<1>5. Joined(e \o s, e, s)
  BY <1>2, <1>3, Join DEF Alone
<1>6. Nested(e \o s, f, inner)
  BY <1>1, <1>2, <1>3, <1>5 DEF Joined, Alone, Nested
<1> QED BY <1>4, <1>6 DEF f

(* Every message: the command, the body with its fields, the action id.    *)
Enveloped(msg, command, body, id) ==
    /\ Len(msg) = Len(body) + 3
    /\ msg[1] = FieldOf("command", 1, "RAW", command)
    /\ msg[2] = FieldOf("body", 1, "MAP", Len(body))
    /\ \A k \in 1 .. Len(body) : msg[k + 2] = Deeper(body[k])
    /\ msg[Len(body) + 3] = FieldOf("actionid", 1, "RAW", id)

(* Envelope puts them together in this order.                              *)
LEMMA EnvelopeFacts ==
    ASSUME NEW command \in {"introduce", "call", "other"}, NEW body \in Seq(Field), NEW id \in Id
    PROVE  Enveloped(Envelope(command, body, id), command, body, id)
<1> DEFINE c == Raw("command", command)
           b == Map("body", body)
           a == Raw("actionid", id)
<1>0. /\ Len(body) \in Nat /\ command \in Value /\ id \in Value
      /\ "command" \in Name /\ "body" \in Name /\ "actionid" \in Name /\ "RAW" \in Kind
  BY LenProperties DEF Value, Name, FieldNames, Kind
<1>1. Alone(c, FieldOf("command", 1, "RAW", command))
  BY <1>0, EntryFacts DEF Raw
<1>2. Nested(b, FieldOf("body", 1, "MAP", Len(body)), body)
  BY <1>0, MapFacts
<1>3. Alone(a, FieldOf("actionid", 1, "RAW", id))
  BY <1>0, EntryFacts DEF Raw
<1>4. Envelope(command, body, id) = c \o b \o a
  BY DEF Envelope
<1> HIDE DEF a, b, c
<1> DEFINE cb == c \o b
<1>5. Joined(cb, c, b)
  BY <1>1, <1>2, Join DEF Alone, Nested
<1> HIDE DEF cb
<1>6. Joined(cb \o a, cb, a)
  BY <1>3, <1>5, Join DEF Alone, Joined
<1>7. Len(cb) = Len(body) + 2 /\ cb[1] = c[1] /\ \A k \in 1 .. Len(body) + 1 : cb[1 + k] = b[k]
  BY <1>0, <1>1, <1>2, <1>5 DEF Alone, Nested, Joined
<1>8. /\ Len(cb \o a) = Len(body) + 3 /\ (cb \o a)[1] = c[1] /\ (cb \o a)[Len(body) + 3] = a[1]
      /\ \A k \in 1 .. Len(body) + 1 : (cb \o a)[1 + k] = b[k]
  BY <1>0, <1>3, <1>6, <1>7 DEF Alone, Joined
<1>9. Enveloped(cb \o a, command, body, id)
  <2>1. (cb \o a)[2] = b[1]
    BY <1>0, <1>8
  <2>2. ASSUME NEW k \in 1 .. Len(body) PROVE (cb \o a)[k + 2] = Deeper(body[k])
    <3>1. k + 1 \in 1 .. Len(body) + 1 /\ k + 2 = 1 + (k + 1)
      BY <1>0
    <3>2. (cb \o a)[k + 2] = b[k + 1]
      BY <1>8, <3>1
    <3> QED BY <1>2, <3>2 DEF Nested
  <2> QED BY <1>1, <1>2, <1>3, <1>8, <2>1, <2>2 DEF Alone, Nested, Enveloped
<1> QED BY <1>4, <1>9 DEF cb

-----------------------------------------------------------------------------
(* The fields of a CALL, in their order.                                   *)
Laid(msg, command, par, id) ==
    /\ Len(msg) = Len(par) + 8
    /\ msg[1] = FieldOf("command", 1, "RAW", command)
    /\ msg[2] = FieldOf("body", 1, "MAP", Len(par) + 5)
    /\ msg[3] = FieldOf("module", 2, "RAW", "m")
    /\ msg[4] = FieldOf("function", 2, "RAW", "f")
    /\ msg[5] = FieldOf("version", 2, "INT", 1)
    /\ msg[6] = FieldOf("parameters", 2, "MAP", Len(par))
    /\ \A k \in 1 .. Len(par) : msg[k + 6] = FieldOf(par[k].key, 3, "RAW", par[k].val)
    /\ msg[Len(par) + 7] = FieldOf("seqno", 2, "INT", 0)
    /\ msg[Len(par) + 8] = FieldOf("actionid", 1, "RAW", id)

(* upstream_event packs a CALL in this order.                              *)
LEMMA CallFacts ==
    ASSUME NEW command \in {"call", "other"}, NEW par \in Parameters, NEW id \in Id
    PROVE  Laid(CallMessage(command, Url, par, id), command, par, id)
<1> DEFINE m == Raw("module", "m")
           f == Raw("function", "f")
           v == Num("version", 1)
           p == Map("parameters", par)
           s == Num("seqno", 0)
           n == Len(par)
<1>1. /\ par \in Seq(Field) /\ n \in Nat
      /\ \A k \in 1 .. n : par[k] = FieldOf(par[k].key, 1, "RAW", par[k].val)
  <2>1. par \in Seq(Parameter)
    BY ParameterAssumption
  <2>2. Parameter \subseteq Field
    <3>1. STRING \subseteq Name
      BY Zenon DEF Name
    <3>2. Id \cup STRING \subseteq Value
      BY Zenon DEF Value
    <3>3. {1} \subseteq Nat /\ {"RAW"} \subseteq Kind
      BY DEF Kind
    <3> QED BY <3>1, <3>2, <3>3 DEF Parameter, Field
  <2>3. \A k \in 1 .. n : par[k] \in Parameter
    BY <2>1, ElementOfSeq
  <2>4. par \in Seq(Field) /\ n \in Nat
    BY <2>1, <2>2, SeqMonotonic, LenProperties
  <2>5. \A e \in Parameter : e = FieldOf(e.key, 1, "RAW", e.val)
    BY DEF Parameter, FieldOf
  <2> QED BY <2>3, <2>4, <2>5
<1>2. /\ Alone(m, FieldOf("module", 1, "RAW", "m"))
      /\ Alone(f, FieldOf("function", 1, "RAW", "f"))
      /\ Alone(v, FieldOf("version", 1, "INT", 1))
      /\ Alone(s, FieldOf("seqno", 1, "INT", 0))
      /\ Nested(p, FieldOf("parameters", 1, "MAP", n), par)
  <2>1. /\ {"module", "function", "version", "seqno", "parameters"} \subseteq Name
        /\ {"RAW", "INT", "MAP"} \subseteq Kind
        /\ "m" \in Value /\ "f" \in Value /\ 1 \in Value /\ 0 \in Value
    BY DEF Name, FieldNames, Kind, Value
  <2>2. /\ Alone(m, FieldOf("module", 1, "RAW", "m"))
        /\ Alone(f, FieldOf("function", 1, "RAW", "f"))
    BY <2>1, EntryFacts DEF Raw
  <2>3. /\ Alone(v, FieldOf("version", 1, "INT", 1))
        /\ Alone(s, FieldOf("seqno", 1, "INT", 0))
    BY <2>1, EntryFacts DEF Num
  <2>4. Nested(p, FieldOf("parameters", 1, "MAP", n), par)
    BY <1>1, <2>1, MapFacts
  <2> QED BY <2>2, <2>3, <2>4
<1>3. CallMessage(command, Url, par, id) = Envelope(command, m \o f \o v \o p \o s, id)
  BY DEF CallMessage, Url
<1> HIDE DEF m, f, v, p, s
<1> DEFINE b2 == m \o f
           b3 == b2 \o v
           b4 == b3 \o p
           b5 == b4 \o s
<1>4. Joined(b2, m, f)
  BY <1>2, Join DEF Alone
<1>5. Joined(b3, b2, v)
  <2> HIDE DEF b2
  <2> QED BY <1>2, <1>4, Join DEF Alone, Joined
<1>6. Joined(b4, b3, p)
  <2> HIDE DEF b3
  <2> QED BY <1>2, <1>5, Join DEF Nested, Joined
<1>7. Joined(b5, b4, s)
  <2> HIDE DEF b4
  <2> QED BY <1>2, <1>6, Join DEF Alone, Joined
<1> HIDE DEF b2, b3, b4, b5, n
<1>8. Len(b3) = 3 /\ b3[1] = m[1] /\ b3[2] = f[1] /\ b3[3] = v[1]
  BY <1>2, <1>4, <1>5 DEF Joined, Alone
<1>9. /\ Len(b4) = n + 4 /\ b4[1] = m[1] /\ b4[2] = f[1] /\ b4[3] = v[1] /\ b4[4] = p[1]
      /\ \A k \in 1 .. n : b4[k + 4] = Deeper(par[k])
  <2>1. Len(p) = n + 1 /\ \A k \in 1 .. n : p[k + 1] = Deeper(par[k])
    BY <1>2 DEF Nested, n
  <2>2. Len(b4) = n + 4 /\ b4[1] = m[1] /\ b4[2] = f[1] /\ b4[3] = v[1] /\ b4[4] = p[1]
    BY <1>1, <1>6, <1>8, <2>1 DEF Joined
  <2>3. ASSUME NEW k \in 1 .. n PROVE b4[k + 4] = Deeper(par[k])
    <3>1. k + 1 \in 1 .. Len(p) /\ Len(b3) + (k + 1) = k + 4
      BY <1>1, <1>8, <2>1
    <3>2. b4[k + 4] = p[k + 1]
      BY <1>6, <3>1 DEF Joined
    <3> QED BY <2>1, <3>2
  <2> QED BY <2>2, <2>3
<1>10. /\ Len(b5) = n + 5 /\ b5[1] = m[1] /\ b5[2] = f[1] /\ b5[3] = v[1] /\ b5[4] = p[1]
       /\ b5[n + 5] = s[1] /\ \A k \in 1 .. n : b5[k + 4] = Deeper(par[k])
  <2>1. /\ Len(b5) = n + 5 /\ b5[n + 5] = s[1]
        /\ \A k \in 1 .. n + 4 : b5[k] = b4[k]
    BY <1>1, <1>2, <1>7, <1>9 DEF Joined, Alone
  <2>2. 1 \in 1 .. n + 4 /\ 2 \in 1 .. n + 4 /\ 3 \in 1 .. n + 4 /\ 4 \in 1 .. n + 4
        /\ \A k \in 1 .. n : k + 4 \in 1 .. n + 4
    BY <1>1
  <2> QED BY <1>9, <2>1, <2>2
<1>11. Enveloped(Envelope(command, b5, id), command, b5, id)
  BY <1>7, EnvelopeFacts DEF Joined
<1> DEFINE msg == Envelope(command, b5, id)
<1> HIDE DEF msg
<1>12. /\ Len(msg) = n + 8
       /\ msg[1] = FieldOf("command", 1, "RAW", command)
       /\ msg[2] = FieldOf("body", 1, "MAP", n + 5)
       /\ msg[n + 8] = FieldOf("actionid", 1, "RAW", id)
       /\ \A k \in 1 .. n + 5 : msg[k + 2] = Deeper(b5[k])
  BY <1>1, <1>10, <1>11 DEF Enveloped, msg
<1>13. /\ msg[3] = Deeper(m[1]) /\ msg[4] = Deeper(f[1]) /\ msg[5] = Deeper(v[1])
       /\ msg[6] = Deeper(p[1]) /\ msg[n + 7] = Deeper(s[1])
       /\ \A k \in 1 .. n : msg[k + 6] = Deeper(Deeper(par[k]))
  <2>1. /\ 1 \in 1 .. n + 5 /\ 2 \in 1 .. n + 5 /\ 3 \in 1 .. n + 5 /\ 4 \in 1 .. n + 5
        /\ n + 5 \in 1 .. n + 5 /\ (n + 5) + 2 = n + 7
        /\ 1 + 2 = 3 /\ 2 + 2 = 4 /\ 3 + 2 = 5 /\ 4 + 2 = 6
        /\ \A k \in 1 .. n : k + 4 \in 1 .. n + 5 /\ (k + 4) + 2 = k + 6
    BY <1>1
  <2>2. /\ msg[3] = Deeper(b5[1]) /\ msg[4] = Deeper(b5[2]) /\ msg[5] = Deeper(b5[3])
        /\ msg[6] = Deeper(b5[4]) /\ msg[n + 7] = Deeper(b5[n + 5])
    BY <1>12, <2>1
  <2>3. \A k \in 1 .. n : msg[k + 6] = Deeper(b5[k + 4])
    BY <1>12, <2>1
  <2> QED BY <1>10, <2>2, <2>3
<1>14. \A key, kind, val, depth : depth \in Nat =>
          Deeper(FieldOf(key, depth, kind, val)) = FieldOf(key, depth + 1, kind, val)
  BY DEF Deeper, FieldOf
<1>15. \A k \in 1 .. n : Deeper(Deeper(par[k])) = FieldOf(par[k].key, 3, "RAW", par[k].val)
  <2>1. \A k \in 1 .. n : Deeper(par[k]) = FieldOf(par[k].key, 2, "RAW", par[k].val)
    BY <1>1, <1>14 DEF n
  <2> QED BY <1>14, <2>1
<1>16. /\ msg[3] = FieldOf("module", 2, "RAW", "m") /\ msg[4] = FieldOf("function", 2, "RAW", "f")
       /\ msg[5] = FieldOf("version", 2, "INT", 1) /\ msg[6] = FieldOf("parameters", 2, "MAP", n)
       /\ msg[n + 7] = FieldOf("seqno", 2, "INT", 0)
  <2>1. /\ m[1] = FieldOf("module", 1, "RAW", "m") /\ f[1] = FieldOf("function", 1, "RAW", "f")
        /\ v[1] = FieldOf("version", 1, "INT", 1) /\ p[1] = FieldOf("parameters", 1, "MAP", n)
        /\ s[1] = FieldOf("seqno", 1, "INT", 0)
    BY <1>2 DEF Alone, Nested, n
  <2> QED BY <1>13, <1>14, <2>1
<1>17. Laid(msg, command, par, id)
  BY <1>12, <1>13, <1>15, <1>16 DEF Laid, n
<1> QED BY <1>3, <1>17 DEF msg, b5, b4, b3, b2

-----------------------------------------------------------------------------
(* The field a lookup finds is the first one that will do.                 *)
LEMMA FirstFacts ==
    ASSUME NEW msg, NEW places, places \subseteq Nat, NEW k \in places, \A j \in places : k <= j
    PROVE  First(msg, places) = msg[k]
<1> DEFINE c == CHOOSE i \in places : \A j \in places : i <= j
<1>1. c \in places /\ \A j \in places : c <= j
  OBVIOUS
<1>2. First(msg, places) = msg[c]
  BY DEF First
<1> HIDE DEF c
<1>3. c = k
  BY <1>1
<1> QED BY <1>2, <1>3

(* The fields of a CALL: keys, kinds and depths.                           *)
Shaped(msg, command, n, id) ==
    /\ n \in Nat /\ Len(msg) = n + 8
    /\ msg[1].key = "command" /\ msg[1].depth = 1 /\ msg[1].kind = "RAW" /\ msg[1].val = command
    /\ msg[2].key = "body" /\ msg[2].depth = 1 /\ msg[2].kind = "MAP"
    /\ msg[3].key = "module" /\ msg[3].depth = 2 /\ msg[3].kind = "RAW" /\ msg[3].val = "m"
    /\ msg[4].key = "function" /\ msg[4].depth = 2 /\ msg[4].kind = "RAW" /\ msg[4].val = "f"
    /\ msg[5].key = "version" /\ msg[5].depth = 2 /\ msg[5].kind = "INT" /\ msg[5].val = 1
    /\ msg[6].key = "parameters" /\ msg[6].depth = 2 /\ msg[6].kind = "MAP"
    /\ msg[n + 7].key = "seqno" /\ msg[n + 7].depth = 2 /\ msg[n + 7].kind = "INT"
    /\ msg[n + 8].key = "actionid" /\ msg[n + 8].depth = 1 /\ msg[n + 8].kind = "RAW"
    /\ msg[n + 8].val = id
    /\ \A j \in 7 .. n + 6 : /\ msg[j].depth = 3 /\ msg[j].kind = "RAW"
                             /\ msg[j].key = "actionid" => msg[j].val \in Id

(* They are what the lookups compare.                                      *)
LEMMA CallFields ==
    ASSUME NEW msg, NEW command, NEW par \in Parameters, NEW id, Laid(msg, command, par, id)
    PROVE  Shaped(msg, command, Len(par), id)
<1> DEFINE n == Len(par)
<1>1. n \in Nat /\ \A k \in 1 .. n : par[k].key = "actionid" => par[k].val \in Id
  BY ParameterAssumption, LenProperties
<1>2. \A key, depth, kind, val : /\ FieldOf(key, depth, kind, val).key = key
                                 /\ FieldOf(key, depth, kind, val).depth = depth
                                 /\ FieldOf(key, depth, kind, val).kind = kind
                                 /\ FieldOf(key, depth, kind, val).val = val
  BY DEF FieldOf
<1>3. ASSUME NEW j \in 7 .. n + 6
      PROVE  msg[j].depth = 3 /\ msg[j].kind = "RAW" /\ (msg[j].key = "actionid" => msg[j].val \in Id)
  <2>1. j - 6 \in 1 .. n /\ (j - 6) + 6 = j
    BY <1>1
  <2>2. msg[j] = FieldOf(par[j - 6].key, 3, "RAW", par[j - 6].val)
    BY <2>1 DEF Laid
  <2> QED BY <1>1, <1>2, <2>1, <2>2
<1> QED BY <1>1, <1>2, <1>3 DEF Laid, Shaped

(* The body of a CALL is what lies between its own field and the id.       *)
LEMMA CallBody ==
    ASSUME NEW msg, NEW command, NEW par \in Parameters, NEW id, Laid(msg, command, par, id)
    PROVE  Body(msg) = 3 .. Len(par) + 7
<1> DEFINE n == Len(par)
           Opens(k) == msg[k].depth = 1 /\ Matches(msg[k].key, "body")
           k == CHOOSE k \in All(msg) : Opens(k) /\ \A j \in 1 .. k - 1 : ~ Opens(j)
<1>0. Shaped(msg, command, n, id)
  BY CallFields
<1> HIDE DEF n
<1>1. n \in Nat /\ All(msg) = 1 .. n + 8
  BY <1>0 DEF Shaped, All
<1>2. ~ Opens(1) /\ Opens(2)
  BY <1>0, ShorterAssumption DEF Shaped, Matches, FieldNames
<1>3. k = 2
  <2> HIDE DEF Opens
  <2>1. 2 \in All(msg) /\ \A j \in 1 .. 2 - 1 : ~ Opens(j)
    BY <1>1, <1>2
  <2>2. k \in All(msg) /\ Opens(k) /\ \A j \in 1 .. k - 1 : ~ Opens(j)
    BY <1>2, <2>1
  <2> HIDE DEF k
  <2> QED BY <1>1, <1>2, <2>2
<1>4. Body(msg) = Inside(msg, 2)
  BY <1>3 DEF Body
<1>5. \A j \in 3 .. n + 7 : msg[j].depth > 1
  <2>1. \A j \in 3 .. n + 7 : j \in {3, 4, 5, 6} \/ j \in 7 .. n + 6 \/ j = n + 7
    BY <1>1
  <2> QED BY <1>0, <2>1 DEF Shaped
<1>6. ~ (msg[n + 8].depth > 1) /\ msg[2].depth = 1 /\ Len(msg) = n + 8
  BY <1>0, <1>1 DEF Shaped
<1>7. ASSUME NEW j PROVE j \in Inside(msg, 2) <=> j \in 3 .. n + 7
  <2>1. j \in Inside(msg, 2) <=> j \in 3 .. n + 8 /\ \A i \in 3 .. j : msg[i].depth > 1
    BY <1>6 DEF Inside
  <2>2. CASE j \in 3 .. n + 7
    BY <1>1, <1>5, <2>1, <2>2
  <2>3. CASE j = n + 8
    BY <1>1, <1>6, <2>1, <2>3
  <2>4. CASE j \notin 3 .. n + 8
    BY <1>1, <2>1, <2>4
  <2> QED BY <1>1, <2>2, <2>3, <2>4
<1> QED BY <1>4, <1>7 DEF n

(* What the daemon reads in a CALL.                                        *)
LEMMA CallIsRead ==
    ASSUME NEW msg, NEW command, NEW par \in Parameters, NEW id \in Id, Laid(msg, command, par, id)
    PROVE  /\ message_check_command(msg) = command
           /\ message_getModule(msg) = "m"
           /\ message_getFunc(msg) = "f"
           /\ message_getIfVersion(msg) = 1
           /\ OwnId(msg) = id
           /\ message_check_actionid(msg) = id \/ HiddenFromDaemon(msg)
           /\ message_check_actionid(msg) \in Id
<1> DEFINE n == Len(par)
<1>shape. Shaped(msg, command, n, id)
  BY CallFields
<1>body. Body(msg) = 3 .. n + 7
  BY CallBody
<1> HIDE DEF n
<1>0. n \in Nat /\ Len(msg) = n + 8 /\ All(msg) = 1 .. n + 8 /\ Body(msg) = 3 .. n + 7
  BY <1>shape, <1>body DEF Shaped, All
<1>1. message_check_command(msg) = command
  <2> DEFINE P == {j \in All(msg) : msg[j].key = "command" /\ msg[j].kind = "RAW"}
  <2>1. P \subseteq Nat /\ 1 \in P /\ \A j \in P : 1 <= j
    BY <1>0, <1>shape DEF Shaped
  <2> HIDE DEF P
  <2>2. First(msg, P) = msg[1]
    BY <2>1, FirstFacts
  <2> QED BY <2>2, <1>shape DEF Shaped, P, message_check_command, m_get_string
<1>2. message_getModule(msg) = "m"
  <2> DEFINE P == {j \in Body(msg) : msg[j].key = "module" /\ msg[j].kind = "RAW"}
  <2>1. P \subseteq Nat /\ 3 \in P /\ \A j \in P : 3 <= j
    BY <1>0, <1>shape DEF Shaped
  <2> HIDE DEF P
  <2>2. First(msg, P) = msg[3]
    BY <2>1, FirstFacts
  <2> QED BY <2>2, <1>shape DEF Shaped, P, message_getModule, m_get_string
<1>3. message_getFunc(msg) = "f"
  <2> DEFINE P == {j \in Body(msg) : msg[j].key = "function" /\ msg[j].kind = "RAW"}
  <2>1. P \subseteq Nat /\ 4 \in P
    BY <1>0, <1>shape DEF Shaped
  <2>2. \A j \in P : 4 <= j
    <3>1. 3 \notin P
      BY <1>shape DEF Shaped
    <3>2. \A j \in P : j \in 3 .. n + 7
      BY <1>0
    <3> HIDE DEF P
    <3> QED BY <1>0, <3>1, <3>2
  <2> HIDE DEF P
  <2>3. First(msg, P) = msg[4]
    BY <2>1, <2>2, FirstFacts
  <2> QED BY <2>3, <1>shape DEF Shaped, P, message_getFunc, m_get_string
<1>4. message_getIfVersion(msg) = 1
  <2> DEFINE P == {j \in Body(msg) : msg[j].key = "version" /\ msg[j].kind = "INT"
                                      /\ \A i \in Body(msg) : msg[j].depth <= msg[i].depth}
  <2>1. \A j \in 3 .. n + 7 : j \in {3, 4, 5, 6} \/ j \in 7 .. n + 6 \/ j = n + 7
    BY <1>0
  <2>2. \A i \in Body(msg) : 2 <= msg[i].depth
    BY <1>0, <2>1, <1>shape DEF Shaped
  <2>3. 5 \in P
    BY <1>0, <2>2, <1>shape DEF Shaped
  <2>4. \A j \in P : j = 5
    BY <1>0, <2>1, <1>shape DEF Shaped
  <2> HIDE DEF P
  <2>5. First(msg, P) = msg[5]
    BY <2>3, <2>4, FirstFacts
  <2> QED BY <2>5, <1>shape DEF Shaped, P, message_getIfVersion, m_get_int
<1>5. OwnId(msg) = id
  BY <1>0, <1>shape DEF Shaped, OwnId
<1>6. /\ message_check_actionid(msg) = id \/ HiddenFromDaemon(msg)
      /\ message_check_actionid(msg) \in Id
  <2> DEFINE P == {j \in All(msg) : msg[j].key = "actionid" /\ msg[j].kind = "RAW"}
  <2>1. P \subseteq Nat /\ n + 8 \in P
    BY <1>0, <1>shape DEF Shaped
  <2>2. PICK k \in P : \A j \in P : k <= j
    <3> HIDE DEF P
    <3> QED BY <2>1, Numbers!LeastNatural
  <2>3. First(msg, P) = msg[k]
    <3> HIDE DEF P
    <3> QED BY <2>1, <2>2, FirstFacts
  <2>4. message_check_actionid(msg) = msg[k].val
    BY <2>3 DEF message_check_actionid, m_get_string
  <2>5. k = n + 8 \/ k \in 7 .. n + 6
    <3>1. 1 \notin P /\ 2 \notin P /\ 3 \notin P /\ 4 \notin P /\ 5 \notin P /\ 6 \notin P /\ n + 7 \notin P
      BY <1>shape DEF Shaped
    <3>2. k \in 1 .. n + 8 /\ k \in P
      BY <1>0, <2>2
    <3> HIDE DEF P
    <3> QED BY <1>0, <3>1, <3>2
  <2>6. CASE k = n + 8
    BY <2>4, <2>6, <1>shape DEF Shaped
  <2>7. CASE k \in 7 .. n + 6
    <3>1. HiddenFromDaemon(msg)
      <4>1. k \in 1 .. Len(msg) - 1
        BY <1>0, <2>7
      <4> QED BY <2>2, <4>1 DEF HiddenFromDaemon
    <3>2. msg[k].val \in Id
      BY <2>2, <2>7, <1>shape DEF Shaped
    <3> QED BY <2>4, <3>1, <3>2
  <2> QED BY <2>5, <2>6, <2>7
<1> QED BY <1>1, <1>2, <1>3, <1>4, <1>5, <1>6

(* The module's introduction is no CALL.                                   *)
LEMMA IntroductionIsRead == message_check_command(Introduction(1, Stray)) = "introduce"
<1> DEFINE p == Num("pid", 1)
           n == Raw("name", "fastcgi")
           d == Raw("desc", "")
           g == Entry("debug", "BOOLEAN", TRUE)
           s == Num("stop", 1)
           v == Map("provides", s)
           msg == Introduction(1, Stray)
<1>1. /\ p \in Seq(Field) /\ n \in Seq(Field) /\ d \in Seq(Field) /\ g \in Seq(Field)
      /\ v \in Seq(Field)
  <2>1. /\ {"pid", "name", "desc", "debug", "provides", "stop"} \subseteq Name
        /\ {"RAW", "INT", "MAP", "BOOLEAN"} \subseteq Kind
        /\ 1 \in Value /\ "fastcgi" \in Value /\ "" \in Value
    BY DEF Name, Kind, Value
  <2>2. TRUE \in Value
    BY Zenon DEF Value
  <2>3. p \in Seq(Field) /\ s \in Seq(Field)
    BY <2>1, EntryFacts DEF Alone, Num
  <2>4. n \in Seq(Field) /\ d \in Seq(Field)
    BY <2>1, EntryFacts DEF Alone, Raw
  <2>5. g \in Seq(Field)
    <3>1. Alone(g, FieldOf("debug", 1, "BOOLEAN", TRUE))
      BY <2>1, <2>2, EntryFacts, Zenon
    <3> QED BY <3>1 DEF Alone
  <2>6. v \in Seq(Field)
    <3> HIDE DEF s
    <3> QED BY <2>1, <2>3, MapFacts DEF Nested
  <2> QED BY <2>3, <2>4, <2>5, <2>6
<1>2. msg = Envelope("introduce", p \o n \o d \o g \o v, Stray)
  BY DEF Introduction
<1> HIDE DEF p, n, d, g, s, v, msg
<1>3. p \o n \o d \o g \o v \in Seq(Field)
  BY <1>1, Join DEF Joined
<1> DEFINE b == p \o n \o d \o g \o v
<1> HIDE DEF b
<1>4. Enveloped(msg, "introduce", b, Stray)
  <2>1. Stray \in Id /\ b \in Seq(Field) /\ msg = Envelope("introduce", b, Stray)
    BY <1>2, <1>3 DEF Id, b
  <2> QED BY <2>1, EnvelopeFacts
<1>5. Len(b) \in Nat /\ Len(msg) = Len(b) + 3 /\ msg[1] = FieldOf("command", 1, "RAW", "introduce")
  BY <1>3, <1>4, LenProperties DEF Enveloped, b
<1> DEFINE P == {j \in All(msg) : msg[j].key = "command" /\ msg[j].kind = "RAW"}
<1>6. P \subseteq Nat /\ 1 \in P /\ \A j \in P : 1 <= j
  BY <1>5 DEF All, FieldOf
<1> HIDE DEF P
<1>7. First(msg, P) = msg[1]
  BY <1>6, FirstFacts
<1> QED BY <1>5, <1>7 DEF P, FieldOf, message_check_command, m_get_string, msg

-----------------------------------------------------------------------------
(* What upstream_event has packed can be read.                             *)
LEMMA StoredCalls ==
    ASSUME NEW msg \in Calls
    PROVE  /\ message_getModule(msg) = Url.module
           /\ message_getFunc(msg) = Url.function
           /\ message_getIfVersion(msg) = Url.version
           /\ message_check_actionid(msg) = OwnId(msg) \/ HiddenFromDaemon(msg)
           /\ message_check_actionid(msg) \in Id
<1>1. PICK cmd \in {"call", "other"}, par \in Parameters, id \in Id :
         msg = CallMessage(cmd, Url, par, id)
  BY DEF Calls
<1>2. Laid(msg, cmd, par, id)
  BY <1>1, CallFacts
<1>3. /\ message_getModule(msg) = "m" /\ message_getFunc(msg) = "f" /\ message_getIfVersion(msg) = 1
      /\ OwnId(msg) = id /\ message_check_actionid(msg) \in Id
      /\ message_check_actionid(msg) = id \/ HiddenFromDaemon(msg)
  BY <1>2, CallIsRead
<1> QED BY <1>3 DEF Url

(* The inductive invariant: the types rest on FreedInv, since a request is *)
(* counted as finished at most once.                                       *)
FastCGIInv == FastCGITypeOK /\ FreedInv

(* Every step keeps the types: an id the daemon comes to owe an answer to  *)
(* is one it could read in a CALL.                                         *)
LEMMA TypeStep ==
    ASSUME FastCGIInv, [Next]_vars
    PROVE  FastCGITypeOK'
<1> USE DEF FastCGIInv
<1>1. CASE Introduce
  <2>1. Introduction(1, Stray) \in ToDaemon
    BY DEF ToDaemon
  <2>2. toDaemon' \in Seq(ToDaemon)
    BY <1>1, <2>1, AppendProperties DEF Introduce, FastCGITypeOK
  <2> QED BY <1>1, <2>2 DEF Introduce, requestVars, FastCGITypeOK
<1>2. CASE Introduced
  <2>1. inbox' \in Seq(FromDaemon)
    BY <1>2, HeadTailProperties DEF Introduced, FastCGITypeOK
  <2> QED BY <1>2, <2>1 DEF Introduced, requestVars, FastCGITypeOK
<1>3. ASSUME NEW r \in Request, Reject(r) PROVE FastCGITypeOK'
  <2>1. finished' \in [Request -> 0 .. 1] /\ response' \in [Request -> Written]
    <3>1. finished[r] = 0
      BY <1>3 DEF Reject, Accepts, FreedInv
    <3>2. PICK text \in {"nothing", "400"} : Finish(r, text)
      BY <1>3 DEF Reject
    <3>3. text \in Written
      BY DEF Written
    <3>4. finished \in [Request -> 0 .. 1] /\ response \in [Request -> Written]
      BY DEF FastCGITypeOK
    <3>5. finished' \in [Request -> 0 .. 1]
      BY <3>1, <3>2, <3>4, FinishFacts
    <3>6. response' \in [Request -> Written]
      BY <3>2, <3>3, <3>4 DEF Finish
    <3> QED BY <3>5, <3>6
  <2> QED BY <1>3, <2>1 DEF Reject, Accepts, FastCGITypeOK
<1>4. ASSUME NEW r \in Request, Forward(r) PROVE FastCGITypeOK'
  <2>1. PICK cmd \in {"call", "other"}, par \in Parameters :
           toDaemon' = Append(toDaemon, CallMessage(cmd, Url, par, r))
    BY <1>4 DEF Forward
  <2>2. CallMessage(cmd, Url, par, r) \in ToDaemon
    BY DEF ToDaemon, Calls, Id
  <2>3. toDaemon' \in Seq(ToDaemon)
    BY <2>1, <2>2, AppendProperties DEF FastCGITypeOK
  <2> QED BY <1>4, <2>3 DEF Forward, Accepts, FastCGITypeOK
<1>5. ASSUME NEW r \in Request, SendFails(r) PROVE FastCGITypeOK'
  BY <1>5 DEF SendFails, Accepts, FastCGITypeOK
<1>6. CASE DaemonReads
  <2> DEFINE msg == Head(toDaemon)
  <2>1. msg \in ToDaemon /\ toDaemon' \in Seq(ToDaemon)
    BY <1>6, HeadTailProperties DEF DaemonReads, FastCGITypeOK
  <2>2. inbox' \in Seq(FromDaemon)
    <3>1. message_response(Stray) \in FromDaemon
      BY DEF FromDaemon
    <3>2. inbox' = inbox \/ inbox' = Append(inbox, message_response(Stray))
      BY <1>6 DEF DaemonReads, Sends
    <3> QED BY <3>1, <3>2, AppendProperties DEF FastCGITypeOK
  <2>3. owed' \subseteq Id
    <3>1. CASE message_check_command(msg) = "call"
      <4>1. msg \in Calls
        BY <2>1, <3>1, IntroductionIsRead DEF ToDaemon
      <4>2. message_check_actionid(msg) \in Id
        BY <4>1, StoredCalls
      <4>3. owed' = owed \/ owed' = owed \cup {message_check_actionid(msg)}
        BY <1>6 DEF DaemonReads
      <4> QED BY <4>2, <4>3 DEF FastCGITypeOK
    <3>2. CASE message_check_command(msg) # "call"
      BY <1>6, <3>2 DEF DaemonReads, FastCGITypeOK
    <3> QED BY <3>1, <3>2
  <2>4. UNCHANGED <<phase, requestVars>>
    BY <1>6 DEF DaemonReads, Sends
  <2> QED BY <2>1, <2>2, <2>3, <2>4 DEF FastCGITypeOK, requestVars
<1>7. ASSUME NEW id \in Id, DaemonAnswers(id) PROVE FastCGITypeOK'
  <2>1. inbox' \in Seq(FromDaemon)
    <3>1. PICK msg \in FromDaemon : inbox' = Append(inbox, msg)
      BY <1>7 DEF DaemonAnswers, Sends, FromDaemon
    <3> QED BY <3>1, AppendProperties DEF FastCGITypeOK
  <2> QED BY <1>7, <2>1 DEF DaemonAnswers, Sends, requestVars, FastCGITypeOK
<1>8. CASE DaemonCalls
  <2>1. inbox' \in Seq(FromDaemon)
    <3>1. owed \cup {Stray} \subseteq Id
      BY DEF FastCGITypeOK, Id
    <3>2. PICK msg \in FromDaemon : inbox' = Append(inbox, msg)
      BY <1>8, <3>1 DEF DaemonCalls, Sends, FromDaemon, Calls
    <3> QED BY <3>2, AppendProperties DEF FastCGITypeOK
  <2> QED BY <1>8, <2>1 DEF DaemonCalls, Sends, requestVars, FastCGITypeOK
<1>9. CASE zmq_event
  <2> DEFINE msg == Head(inbox)
             id  == m_lookup(msg, "actionid")
  <2>0. inbox # << >> /\ inbox' = Tail(inbox) /\ UNCHANGED <<accepted, toDaemon, owed>>
    BY <1>9 DEF zmq_event
  <2>1. inbox' \in Seq(FromDaemon) /\ UNCHANGED <<accepted, toDaemon, owed>>
    BY <2>0, HeadTailProperties DEF FastCGITypeOK
  <2>2. Ends(id.val, msg) \/ Dies
    BY <1>9 DEF zmq_event
  <2>3. ASSUME id.val \in rq_list, rq_list' = rq_list \ {id.val}, UNCHANGED phase,
               NEW text \in Written, Finish(id.val, text)
        PROVE  FastCGITypeOK'
    <3>1. id.val \in Request /\ finished[id.val] = 0
      BY <2>3 DEF FreedInv, FreedOnce
    <3> HIDE DEF id, msg
    <3>2. finished' \in [Request -> 0 .. 1] /\ response' \in [Request -> Written]
      BY <2>3, <3>1 DEF Finish, FastCGITypeOK
    <3> QED BY <2>1, <2>3, <3>2 DEF FastCGITypeOK
  <2>4. CASE UNCHANGED <<phase, rq_list, response, finished>>
    BY <2>1, <2>4 DEF FastCGITypeOK
  <2>5. CASE Dies
    BY <2>1, <2>5 DEF Dies, FastCGITypeOK
  <2> QED
    <3> HIDE DEF id, msg
    <3> QED BY <2>2, <2>3, <2>4, <2>5, EndsFacts
<1>10. CASE UNCHANGED vars
  BY <1>10 DEF vars, FastCGITypeOK
<1> QED
  BY <1>1, <1>2, <1>3, <1>4, <1>5, <1>6, <1>7, <1>8, <1>9, <1>10 DEF Next, upstream_event

(* With FreedInv the types are inductive.                                  *)
LEMMA FastCGIInvariant == Spec => []FastCGIInv
<1>1. Init => FastCGIInv
  <2> SUFFICES ASSUME Init PROVE FastCGIInv
    OBVIOUS
  <2>1. << >> \in Seq(ToDaemon) /\ << >> \in Seq(FromDaemon)
    BY EmptySeq
  <2>2. FastCGITypeOK
    BY <2>1 DEF Init, FastCGITypeOK, Written
  <2>3. FreedInv
    BY DEF Init, FreedInv, FreedOnce
  <2> QED BY <2>2, <2>3 DEF FastCGIInv
<1>2. FastCGIInv /\ [Next]_vars => FastCGIInv'
  BY TypeStep, FreedInvStep DEF FastCGIInv
<1> QED BY <1>1, <1>2, PTL DEF Spec

(* Only requests the reactor has accepted wait for an answer, none is      *)
(* finished twice, and the daemon owes answers only under ids of requests  *)
(* or under one that belongs to none.                                      *)
THEOREM FastCGIAlwaysTyped == Spec => []FastCGITypeOK
<1>1. FastCGIInv => FastCGITypeOK
  BY DEF FastCGIInv
<1> QED BY <1>1, FastCGIInvariant, PTL

(* Whatever a request's environment is called and says, the daemon reads   *)
(* in a CALL the module, function and version that upstream_event took     *)
(* from the path; only a parameter named "actionid" hides the id.          *)
THEOREM CallsAlwaysRead == Spec => []CallRead
<1>1. FastCGIInv => CallRead
  <2> SUFFICES ASSUME FastCGITypeOK PROVE CallRead
    BY DEF FastCGIInv
  <2> QED BY StoredCalls DEF CallRead
<1> QED BY <1>1, FastCGIInvariant, PTL

=============================================================================
