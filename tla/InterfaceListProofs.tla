------------------------- MODULE InterfaceListProofs ------------------------
(***************************************************************************)
(* The program's list of interfaces (module InterfaceList) for any number  *)
(* of interfaces, modules and fabrics: it stays a list of interfaces that  *)
(* is ordered by version, and it implements the set form of the table.     *)
(* One turn of a loop is looked at first, then the loop by induction over  *)
(* its turns.                                                              *)
(***************************************************************************)
EXTENDS InterfaceList, InterfacesProofs, FiniteSetTheorems

(* The inductive invariant, of a list rather than of a state: the loops go *)
(* through lists that no state shows.                                      *)
ListInv(l) == l \in Seq(Entry) /\ ByVersion(l)

(* What is in a list.                                                      *)
LEMMA EntryFacts ==
    ASSUME NEW l \in Seq(Entry)
    PROVE  /\ Len(l) \in Nat /\ DOMAIN l = 1 .. Len(l)
           /\ \A k \in 1 .. Len(l) : /\ l[k] \in Entry /\ l[k].key \in Iface /\ l[k].key \in Keys(l)
                                     /\ l[k].id_local_list \in Seq(Local)
                                     /\ l[k].id_global_list \in Seq(Global)
           /\ \A i \in Keys(l) : \E k \in 1 .. Len(l) : l[k].key = i
           /\ Keys(l) \subseteq Iface
<1>1. Len(l) \in Nat /\ DOMAIN l = 1 .. Len(l)
  BY LenProperties
<1>2. ASSUME NEW k \in 1 .. Len(l)
      PROVE  /\ l[k] \in Entry /\ l[k].key \in Iface /\ l[k].key \in Keys(l)
             /\ l[k].id_local_list \in Seq(Local)
             /\ l[k].id_global_list \in Seq(Global)
  <2>1. l[k] \in Entry
    BY ElementOfSeq
  <2> QED BY <1>1, <2>1 DEF Entry, Keys
<1>3. \A i \in Keys(l) : \E k \in 1 .. Len(l) : l[k].key = i
  BY <1>1 DEF Keys
<1> QED BY <1>1, <1>2, <1>3

(* No interface is in an ordered list twice.                               *)
LEMMA KeysDiffer ==
    ASSUME NEW l, ListInv(l), NEW j \in 1 .. Len(l), NEW k \in 1 .. Len(l), l[j].key = l[k].key
    PROVE  j = k
<1>1. l[j].key[2] \in Nat /\ Len(l) \in Nat /\ DOMAIN l = 1 .. Len(l)
  BY EntryFacts, ListAssumption DEF ListInv
<1>2. ~ (j < k) /\ ~ (k < j)
  BY <1>1 DEF ListInv, ByVersion
<1> QED BY <1>1, <1>2

(* EntryOf finds it.                                                       *)
LEMMA EntryOfKey ==
    ASSUME NEW l, ListInv(l), NEW k \in 1 .. Len(l)
    PROVE  l[k].key \in Keys(l) /\ EntryOf(l, l[k].key) = l[k]
<1>1. Len(l) \in Nat /\ DOMAIN l = 1 .. Len(l) /\ l[k].key \in Keys(l)
  BY EntryFacts DEF ListInv
<1> DEFINE j == CHOOSE j \in 1 .. Len(l) : l[j].key = l[k].key
<1>2. j \in 1 .. Len(l) /\ l[j].key = l[k].key
  OBVIOUS
<1>3. EntryOf(l, l[k].key) = l[j]
  BY <1>1 DEF EntryOf
<1> HIDE DEF j
<1>4. j = k
  BY <1>2, KeysDiffer
<1> QED BY <1>1, <1>3, <1>4

(* check_interface finds the least version that will do, if there is one.  *)
LEMMA CheckFacts ==
    ASSUME NEW l, ListInv(l), NEW t \in Iface
    PROVE  /\ CheckInterface(l, t) = 0 <=> Matches(Keys(l), t) = {}
           /\ CheckInterface(l, t) # 0 =>
                /\ CheckInterface(l, t) \in 1 .. Len(l)
                /\ l[CheckInterface(l, t)].key = Least(Matches(Keys(l), t))
<1> DEFINE I == {k \in 1 .. Len(l) : l[k].key[1] = t[1] /\ l[k].key[2] >= t[2]}
           M == Matches(Keys(l), t)
           c == CHOOSE k \in I : \A j \in I : k <= j
<1>0. Len(l) \in Nat /\ Keys(l) \subseteq Iface
  BY EntryFacts DEF ListInv
<1>1. CheckInterface(l, t) = IF I # {} THEN c ELSE 0
  BY DEF CheckInterface, SelectInSeq, Min
<1>2. I = {} <=> M = {}
  BY EntryFacts DEF ListInv, Matches
<1>3. ASSUME I # {} PROVE c \in 1 .. Len(l) /\ c # 0 /\ l[c].key = Least(M)
  <2>1. I \subseteq Nat
    BY <1>0
  <2>2. \E k \in I : \A j \in I : k <= j
    <3> HIDE DEF I
    <3> QED BY <1>3, <2>1, LeastNatural
  <2>3. c \in I /\ \A j \in I : c <= j
    BY <2>2
  <2> HIDE DEF c
  <2>4. l[c].key \in M
    BY <2>3, EntryFacts DEF ListInv, Matches
  <2>5. ASSUME NEW i \in M PROVE l[c].key[2] <= i[2] /\ l[c].key[1] = i[1]
    <3>1. PICK j \in 1 .. Len(l) : l[j].key = i
      BY EntryFacts DEF ListInv, Matches
    <3>2. j \in I /\ l[c].key[1] = l[j].key[1] /\ c \in 1 .. Len(l)
      BY <2>3, <2>5, <3>1 DEF Matches
    <3>3. l[c].key[2] \in Nat /\ l[j].key[2] \in Nat
      BY <3>2, EntryFacts, ListAssumption DEF ListInv
    <3>4. CASE c = j
      BY <3>1, <3>2, <3>3, <3>4
    <3>5. CASE c < j
      <4>1. DOMAIN l = 1 .. Len(l)
        BY EntryFacts DEF ListInv
      <4>2. l[c].key[2] < l[j].key[2]
        BY <3>2, <3>5, <4>1 DEF ListInv, ByVersion
      <4> QED BY <3>1, <3>2, <3>3, <4>2
    <3> QED BY <1>0, <2>3, <3>2, <3>4, <3>5
  <2> DEFINE N == {i[1] : i \in Iface}
  <2>6. M \in SUBSET (N \X Nat) /\ M # {}
    <3>1. ASSUME NEW i \in Iface PROVE i \in N \X Nat
      BY ListAssumption
    <3> QED BY <1>0, <2>4, <3>1 DEF Matches
  <2> HIDE DEF M, N
  <2>7. Least(M) \in M /\ \A j \in M : Least(M)[2] <= j[2]
    BY <2>6, LeastFacts
  <2>8. Least(M)[1] = l[c].key[1] /\ Least(M)[2] = l[c].key[2]
    <3>1. M \subseteq Iface
      BY <1>0 DEF M, Matches
    <3>2. Least(M)[2] \in Nat /\ l[c].key[2] \in Nat
      BY <2>4, <2>7, <3>1, ListAssumption
    <3> QED BY <2>4, <2>5, <2>7, <3>2
  <2>9. Least(M) = l[c].key
    <3>1. Least(M) \in Iface /\ l[c].key \in Iface
      BY <1>0, <2>4, <2>7 DEF M, Matches
    <3>2. Least(M) = <<Least(M)[1], Least(M)[2]>> /\ l[c].key = <<l[c].key[1], l[c].key[2]>>
      BY <3>1, ListAssumption
    <3> QED BY <2>8, <3>2
  <2> QED BY <1>0, <2>3, <2>9
<1> HIDE DEF I, M, c
<1> QED BY <1>1, <1>2, <1>3 DEF M

(* The lists by interface are those of the entries.                        *)
LEMMA ListsOf ==
    ASSUME NEW l, ListInv(l)
    PROVE  /\ LocalLists(l) \in [Iface -> Seq(Local)]
           /\ GlobalLists(l) \in [Iface -> Seq(Global)]
           /\ \A k \in 1 .. Len(l) : /\ LocalLists(l)[l[k].key] = l[k].id_local_list
                                     /\ GlobalLists(l)[l[k].key] = l[k].id_global_list
           /\ \A i \in Iface \ Keys(l) : LocalLists(l)[i] = << >> /\ GlobalLists(l)[i] = << >>
<1>1. \A k \in 1 .. Len(l) : /\ LocalLists(l)[l[k].key] = l[k].id_local_list
                             /\ GlobalLists(l)[l[k].key] = l[k].id_global_list
  <2>1. ASSUME NEW k \in 1 .. Len(l)
        PROVE  /\ LocalLists(l)[l[k].key] = l[k].id_local_list
               /\ GlobalLists(l)[l[k].key] = l[k].id_global_list
    <3>1. l[k].key \in Iface /\ l[k].key \in Keys(l) /\ EntryOf(l, l[k].key) = l[k]
      BY EntryFacts, EntryOfKey DEF ListInv
    <3> QED BY <3>1 DEF LocalLists, GlobalLists
  <2> QED BY <2>1
<1>2. \A i \in Iface \ Keys(l) : LocalLists(l)[i] = << >> /\ GlobalLists(l)[i] = << >>
  BY DEF LocalLists, GlobalLists
<1>3. ASSUME NEW i \in Iface PROVE LocalLists(l)[i] \in Seq(Local) /\ GlobalLists(l)[i] \in Seq(Global)
  <2>1. CASE i \in Keys(l)
    <3>1. PICK k \in 1 .. Len(l) : l[k].key = i
      BY <2>1, EntryFacts DEF ListInv
    <3>2. l[k].id_local_list \in Seq(Local) /\ l[k].id_global_list \in Seq(Global)
      BY EntryFacts DEF ListInv
    <3> QED BY <1>1, <3>1, <3>2
  <2>2. CASE i \notin Keys(l)
    BY <1>2, <2>2, EmptySeq
  <2> QED BY <2>1, <2>2
<1>4. /\ LocalLists(l) = [i \in Iface |-> LocalLists(l)[i]]
      /\ GlobalLists(l) = [i \in Iface |-> GlobalLists(l)[i]]
  BY DEF LocalLists, GlobalLists
<1> QED BY <1>1, <1>2, <1>3, <1>4

(* Changing the lists of entries leaves the order alone.                   *)
LEMMA SameKeys ==
    ASSUME NEW l, ListInv(l), NEW m \in Seq(Entry), Len(m) = Len(l),
           \A k \in 1 .. Len(l) : m[k].key = l[k].key
    PROVE  ListInv(m) /\ Keys(m) = Keys(l)
<1>1. DOMAIN l = 1 .. Len(l) /\ DOMAIN m = 1 .. Len(l)
  BY EntryFacts DEF ListInv
<1> QED BY <1>1 DEF ListInv, ByVersion, Keys

-----------------------------------------------------------------------------
(* A new interface comes behind all lower versions of it, and no identity  *)
(* is behind it yet.                                                       *)
LEMMA FiledFacts ==
    ASSUME NEW l, ListInv(l), NEW i \in Iface
    PROVE  /\ ListInv(Filed(l, i))
           /\ Home(Keys(l), i) \in Iface
           /\ Keys(Filed(l, i)) = Keys(l) \cup {Home(Keys(l), i)}
           /\ CheckInterface(Filed(l, i), i) \in 1 .. Len(Filed(l, i))
           /\ Filed(l, i)[CheckInterface(Filed(l, i), i)].key = Home(Keys(l), i)
           /\ LocalLists(Filed(l, i)) = LocalLists(l)
           /\ GlobalLists(Filed(l, i)) = GlobalLists(l)
<1>0. Len(l) \in Nat /\ DOMAIN l = 1 .. Len(l) /\ Keys(l) \subseteq Iface
  BY EntryFacts DEF ListInv
<1>1. CASE CheckInterface(l, i) # 0
  <2>1. Matches(Keys(l), i) # {} /\ Filed(l, i) = l
    BY <1>1, CheckFacts DEF Filed
  <2>2. CheckInterface(l, i) \in 1 .. Len(l) /\ l[CheckInterface(l, i)].key = Home(Keys(l), i)
    BY <1>1, <2>1, CheckFacts DEF Home
  <2>3. Home(Keys(l), i) \in Keys(l)
    BY <2>2, EntryFacts DEF ListInv
  <2> QED BY <1>0, <2>1, <2>2, <2>3
<1>2. CASE CheckInterface(l, i) = 0
  <2> DEFINE e == [key |-> i, id_local_list |-> << >>, id_global_list |-> << >>]
             m == Append(l, e)
  <2>1. Matches(Keys(l), i) = {} /\ Filed(l, i) = m /\ Home(Keys(l), i) = i
    BY <1>2, CheckFacts DEF Filed, Home
  <2>2. e \in Entry /\ e.key = i /\ e.id_local_list = << >> /\ e.id_global_list = << >>
    BY EmptySeq DEF Entry
  <2> HIDE DEF e
  <2>3. /\ m \in Seq(Entry) /\ Len(m) = Len(l) + 1 /\ m[Len(l) + 1] = e
        /\ \A k \in 1 .. Len(l) : m[k] = l[k]
    BY <2>2, AppendProperties DEF ListInv
  <2> HIDE DEF m
  <2>4. DOMAIN m = 1 .. Len(l) + 1 /\ \A k \in 1 .. Len(l) + 1 : k \in 1 .. Len(l) \/ k = Len(l) + 1
    BY <1>0, <2>3, EntryFacts
  <2>5. Keys(m) = Keys(l) \cup {i}
    BY <1>0, <2>2, <2>3, <2>4 DEF Keys
  <2>6. i \notin Keys(l) /\ \A k \in 1 .. Len(l) : l[k].key[1] = i[1] => l[k].key[2] < i[2]
    <3>1. \A j \in Iface : j[2] \in Nat
      BY ListAssumption
    <3>2. \A j \in Keys(l) : j[1] = i[1] => j[2] < i[2]
      BY <1>0, <2>1, <3>1 DEF Matches
    <3> QED BY <3>1, <3>2, EntryFacts DEF ListInv
  <2>7. ByVersion(m)
    <3>1. ASSUME NEW j \in 1 .. Len(l) + 1, NEW k \in 1 .. Len(l) + 1,
                 j < k, m[j].key[1] = m[k].key[1]
          PROVE  m[j].key[2] < m[k].key[2]
      <4>1. j \in 1 .. Len(l) /\ m[j] = l[j]
        BY <1>0, <2>3, <3>1
      <4>2. CASE k \in 1 .. Len(l)
        <5>1. m[k] = l[k]
          BY <2>3, <4>2
        <5> QED BY <1>0, <3>1, <4>1, <4>2, <5>1 DEF ListInv, ByVersion
      <4>3. CASE k = Len(l) + 1
        BY <2>2, <2>3, <2>6, <3>1, <4>1, <4>3
      <4> QED BY <2>4, <4>2, <4>3
    <3> QED BY <2>4, <3>1 DEF ByVersion
  <2>8. ListInv(m)
    BY <2>3, <2>7 DEF ListInv
  <2>9. /\ CheckInterface(m, i) \in 1 .. Len(m)
        /\ m[CheckInterface(m, i)].key = i
    <3>1. Matches(Keys(m), i) = {i}
      <4>1. i[2] \in Nat
        BY ListAssumption
      <4> QED BY <2>1, <2>5, <4>1 DEF Matches
    <3>2. Least({i}) = i
      BY DEF Least
    <3>3. CheckInterface(m, i) # 0
      BY <2>8, <3>1, CheckFacts
    <3> QED BY <2>8, <3>1, <3>2, <3>3, CheckFacts
  <2>10. ASSUME NEW j \in Iface
         PROVE  LocalLists(m)[j] = LocalLists(l)[j] /\ GlobalLists(m)[j] = GlobalLists(l)[j]
    <3>1. CASE j \in Keys(l)
      <4>1. PICK k \in 1 .. Len(l) : l[k].key = j
        BY <3>1, EntryFacts DEF ListInv
      <4>2. k \in 1 .. Len(m) /\ m[k] = l[k]
        BY <1>0, <2>3
      <4>3. /\ LocalLists(m)[m[k].key] = m[k].id_local_list
            /\ GlobalLists(m)[m[k].key] = m[k].id_global_list
        BY <2>8, <4>2, ListsOf
      <4>4. /\ LocalLists(l)[l[k].key] = l[k].id_local_list
            /\ GlobalLists(l)[l[k].key] = l[k].id_global_list
        BY ListsOf
      <4> QED BY <4>1, <4>2, <4>3, <4>4
    <3>2. CASE j = i
      <4>1. Len(l) + 1 \in 1 .. Len(m) /\ m[Len(l) + 1].key = j
        BY <1>0, <2>2, <2>3, <3>2
      <4>2. LocalLists(m)[j] = << >> /\ GlobalLists(m)[j] = << >>
        BY <2>2, <2>3, <2>8, <4>1, ListsOf
      <4> QED BY <2>6, <3>2, <4>2, ListsOf
    <3>3. CASE j \notin Keys(m)
      BY <2>5, <2>8, <3>3, ListsOf
    <3> QED BY <2>5, <3>1, <3>2, <3>3
  <2>11. LocalLists(m) = LocalLists(l) /\ GlobalLists(m) = GlobalLists(l)
    BY <2>8, <2>10, ListsOf
  <2> QED BY <2>1, <2>5, <2>8, <2>9, <2>11
<1> QED BY <1>1, <1>2

(* One turn of processIntroduce's loop.                                    *)
LEMMA OneLocal ==
    ASSUME NEW l, ListInv(l), NEW i \in Iface, NEW id \in Local
    PROVE  /\ ListInv(FileOneLocal(l, i, id))
           /\ Keys(FileOneLocal(l, i, id)) = Keys(l) \cup {Home(Keys(l), i)}
           /\ LocalLists(FileOneLocal(l, i, id)) = FiledIn(LocalLists(l), {Home(Keys(l), i)}, id)
           /\ GlobalLists(FileOneLocal(l, i, id)) = GlobalLists(l)
<1> DEFINE f == Filed(l, i)
           c == CheckInterface(f, i)
           h == Home(Keys(l), i)
           m == FileOneLocal(l, i, id)
           e == [f[c] EXCEPT !.id_local_list = ListAdd(@, id)]
<1>1. /\ ListInv(f) /\ Keys(f) = Keys(l) \cup {h} /\ c \in 1 .. Len(f) /\ f[c].key = h
      /\ LocalLists(f) = LocalLists(l) /\ GlobalLists(f) = GlobalLists(l) /\ h \in Iface
  BY FiledFacts
<1>2. m = [f EXCEPT ![c] = e]
  BY DEF FileOneLocal
<1> HIDE DEF f, c, h, m
<1>3. f \in Seq(Entry) /\ Len(f) \in Nat /\ f[c] \in Entry /\ f[c].id_local_list \in Seq(Local)
  BY <1>1, EntryFacts DEF ListInv
<1>4. ListAdd(f[c].id_local_list, id) \in Seq(Local)
  BY <1>3, ListAddFacts
<1>5. /\ e \in Entry /\ e.key = h /\ e.id_local_list = ListAdd(f[c].id_local_list, id)
      /\ e.id_global_list = f[c].id_global_list
  BY <1>1, <1>3, <1>4 DEF Entry
<1> HIDE DEF e
<1>6. m \in Seq(Entry) /\ Len(m) = Len(f) /\ \A k \in 1 .. Len(f) : m[k] = IF k = c THEN e ELSE f[k]
  BY <1>1, <1>2, <1>3, <1>5, ExceptSeq
<1>7. \A k \in 1 .. Len(f) : m[k].key = f[k].key /\ m[k].id_global_list = f[k].id_global_list
  BY <1>1, <1>5, <1>6
<1>8. ListInv(m) /\ Keys(m) = Keys(f)
  BY <1>1, <1>6, <1>7, SameKeys
<1>9. ASSUME NEW j \in Iface
      PROVE  /\ LocalLists(m)[j] = IF j = h THEN ListAdd(LocalLists(f)[j], id) ELSE LocalLists(f)[j]
             /\ GlobalLists(m)[j] = GlobalLists(f)[j]
  <2>1. CASE j \in Keys(f)
    <3>1. PICK k \in 1 .. Len(f) : f[k].key = j
      BY <1>1, <2>1, EntryFacts DEF ListInv
    <3>2. LocalLists(f)[j] = f[k].id_local_list /\ GlobalLists(f)[j] = f[k].id_global_list
      BY <1>1, <3>1, ListsOf
    <3>3. k \in 1 .. Len(m) /\ m[k].key = j
      BY <1>6, <1>7, <3>1
    <3>4. LocalLists(m)[j] = m[k].id_local_list /\ GlobalLists(m)[j] = m[k].id_global_list
      BY <1>8, <3>3, ListsOf
    <3>5. j = h <=> k = c
      BY <1>1, <3>1, KeysDiffer
    <3> QED BY <1>5, <1>6, <1>7, <3>2, <3>4, <3>5
  <2>2. CASE j \notin Keys(f)
    <3>1. /\ LocalLists(m)[j] = << >> /\ LocalLists(f)[j] = << >>
          /\ GlobalLists(m)[j] = << >> /\ GlobalLists(f)[j] = << >>
      BY <1>1, <1>8, <2>2, ListsOf
    <3> QED BY <1>1, <2>2, <3>1
  <2> QED BY <2>1, <2>2
<1>10. GlobalLists(m) = GlobalLists(f)
  BY <1>1, <1>8, <1>9, ListsOf
<1>11. LocalLists(m) = FiledIn(LocalLists(f), {h}, id)
  <2>1. DOMAIN LocalLists(f) = Iface /\ LocalLists(m) = [j \in Iface |-> LocalLists(m)[j]]
    BY <1>1, <1>8, ListsOf
  <2>2. \A j \in Iface : LocalLists(m)[j] = IF j \in {h} THEN ListAdd(LocalLists(f)[j], id)
                                            ELSE LocalLists(f)[j]
    BY <1>9
  <2> QED BY <2>1, <2>2 DEF FiledIn
<1> QED BY <1>1, <1>8, <1>10, <1>11 DEF m, h

(* One turn of processResult's loop over a list of interfaces.             *)
LEMMA OneGlobal ==
    ASSUME NEW l, ListInv(l), NEW i \in Iface, NEW id \in Global
    PROVE  /\ ListInv(FileOneGlobal(l, i, id))
           /\ Keys(FileOneGlobal(l, i, id)) = Keys(l) \cup {Home(Keys(l), i)}
           /\ GlobalLists(FileOneGlobal(l, i, id)) = FiledIn(GlobalLists(l), {Home(Keys(l), i)}, id)
           /\ LocalLists(FileOneGlobal(l, i, id)) = LocalLists(l)
<1> DEFINE f == Filed(l, i)
           c == CheckInterface(f, i)
           h == Home(Keys(l), i)
           m == FileOneGlobal(l, i, id)
           e == [f[c] EXCEPT !.id_global_list = ListAdd(@, id)]
<1>1. /\ ListInv(f) /\ Keys(f) = Keys(l) \cup {h} /\ c \in 1 .. Len(f) /\ f[c].key = h
      /\ GlobalLists(f) = GlobalLists(l) /\ LocalLists(f) = LocalLists(l) /\ h \in Iface
  BY FiledFacts
<1>2. m = [f EXCEPT ![c] = e]
  BY DEF FileOneGlobal
<1> HIDE DEF f, c, h, m
<1>3. f \in Seq(Entry) /\ Len(f) \in Nat /\ f[c] \in Entry /\ f[c].id_global_list \in Seq(Global)
  BY <1>1, EntryFacts DEF ListInv
<1>4. ListAdd(f[c].id_global_list, id) \in Seq(Global)
  BY <1>3, ListAddFacts
<1>5. /\ e \in Entry /\ e.key = h /\ e.id_global_list = ListAdd(f[c].id_global_list, id)
      /\ e.id_local_list = f[c].id_local_list
  BY <1>1, <1>3, <1>4 DEF Entry
<1> HIDE DEF e
<1>6. m \in Seq(Entry) /\ Len(m) = Len(f) /\ \A k \in 1 .. Len(f) : m[k] = IF k = c THEN e ELSE f[k]
  BY <1>1, <1>2, <1>3, <1>5, ExceptSeq
<1>7. \A k \in 1 .. Len(f) : m[k].key = f[k].key /\ m[k].id_local_list = f[k].id_local_list
  BY <1>1, <1>5, <1>6
<1>8. ListInv(m) /\ Keys(m) = Keys(f)
  BY <1>1, <1>6, <1>7, SameKeys
<1>9. ASSUME NEW j \in Iface
      PROVE  /\ GlobalLists(m)[j] = IF j = h THEN ListAdd(GlobalLists(f)[j], id) ELSE GlobalLists(f)[j]
             /\ LocalLists(m)[j] = LocalLists(f)[j]
  <2>1. CASE j \in Keys(f)
    <3>1. PICK k \in 1 .. Len(f) : f[k].key = j
      BY <1>1, <2>1, EntryFacts DEF ListInv
    <3>2. GlobalLists(f)[j] = f[k].id_global_list /\ LocalLists(f)[j] = f[k].id_local_list
      BY <1>1, <3>1, ListsOf
    <3>3. k \in 1 .. Len(m) /\ m[k].key = j
      BY <1>6, <1>7, <3>1
    <3>4. GlobalLists(m)[j] = m[k].id_global_list /\ LocalLists(m)[j] = m[k].id_local_list
      BY <1>8, <3>3, ListsOf
    <3>5. j = h <=> k = c
      BY <1>1, <3>1, KeysDiffer
    <3> QED BY <1>5, <1>6, <1>7, <3>2, <3>4, <3>5
  <2>2. CASE j \notin Keys(f)
    <3>1. /\ GlobalLists(m)[j] = << >> /\ GlobalLists(f)[j] = << >>
          /\ LocalLists(m)[j] = << >> /\ LocalLists(f)[j] = << >>
      BY <1>1, <1>8, <2>2, ListsOf
    <3> QED BY <1>1, <2>2, <3>1
  <2> QED BY <2>1, <2>2
<1>10. LocalLists(m) = LocalLists(f)
  BY <1>1, <1>8, <1>9, ListsOf
<1>11. GlobalLists(m) = FiledIn(GlobalLists(f), {h}, id)
  <2>1. DOMAIN GlobalLists(f) = Iface /\ GlobalLists(m) = [j \in Iface |-> GlobalLists(m)[j]]
    BY <1>1, <1>8, ListsOf
  <2>2. \A j \in Iface : GlobalLists(m)[j] = IF j \in {h} THEN ListAdd(GlobalLists(f)[j], id)
                                            ELSE GlobalLists(f)[j]
    BY <1>9
  <2> QED BY <2>1, <2>2 DEF FiledIn
<1> QED BY <1>1, <1>8, <1>10, <1>11 DEF m, h

-----------------------------------------------------------------------------
(* What both loops come upon: interfaces of one name by rising version.    *)
Rising(o) == \A j, k \in DOMAIN o : j < k /\ o[j][1] = o[k][1] => o[j][2] < o[k][2]

(* Where the first n are filed in a table.                                 *)
HomesUpto(table, o, n) == {Home(table, o[j]) : j \in 1 .. n}

(* Filing some of them does not change where the next one belongs.         *)
LEMMA HomesStay ==
    ASSUME NEW K \in SUBSET Iface, NEW o \in Seq(Iface), Rising(o), NEW n \in 0 .. Len(o) - 1
    PROVE  Home(K \cup HomesUpto(K, o, n), o[n + 1]) = Home(K, o[n + 1])
<1>0. Len(o) \in Nat /\ DOMAIN o = 1 .. Len(o) /\ n + 1 \in 1 .. Len(o)
  BY LenProperties
<1>1. \A j \in 1 .. Len(o) : o[j] \in Iface
  BY ElementOfSeq
<1>2. ASSUME NEW x \in Matches(K \cup HomesUpto(K, o, n), o[n + 1]), x \notin K PROVE FALSE
  <2>1. PICK j \in 1 .. n : x = Home(K, o[j])
    BY <1>2 DEF Matches, HomesUpto
  <2>2. Matches(K, o[j]) = {}
    <3>1. ASSUME Matches(K, o[j]) # {} PROVE x \in K
      <4> DEFINE N == {i[1] : i \in Iface}
                 M == Matches(K, o[j])
      <4>1. \A i \in Iface : i \in N \X Nat
        BY ListAssumption
      <4>2. M \in SUBSET (N \X Nat) /\ M \subseteq K
        BY <4>1 DEF Matches
      <4>3. M # {} /\ x = Least(M)
        BY <2>1, <3>1 DEF Home
      <4> HIDE DEF M, N
      <4>4. Least(M) \in M
        BY <4>2, <4>3, LeastFacts
      <4> QED BY <4>2, <4>3, <4>4
    <3> QED BY <1>2, <3>1
  <2>3. x = o[j] /\ j \in 1 .. Len(o) /\ j < n + 1
    BY <1>0, <2>1, <2>2 DEF Home
  <2>4. o[j][1] = o[n + 1][1] /\ o[j][2] >= o[n + 1][2]
    BY <2>3 DEF Matches
  <2>5. o[j][2] < o[n + 1][2]
    BY <1>0, <2>3, <2>4 DEF Rising
  <2>6. o[j][2] \in Nat /\ o[n + 1][2] \in Nat
    BY <1>0, <1>1, <2>3, ListAssumption
  <2> QED BY <2>4, <2>5, <2>6
<1>3. Matches(K \cup HomesUpto(K, o, n), o[n + 1]) = Matches(K, o[n + 1])
  BY <1>2 DEF Matches
<1> QED BY <1>3 DEF Home

(* A list of identities behind every interface.                            *)
ListsOver(X) == [Iface -> Seq(X)]

(* Filing under one interface more.                                        *)
OneMore(lists, H, h, id) ==
    FiledIn(FiledIn(lists, H, id), {h}, id) = FiledIn(lists, H \cup {h}, id)

(* Filing in two goes is filing once, for an identity is not filed twice.  *)
LEMMA FiledMore ==
    ASSUME NEW X, NEW lists \in ListsOver(X), NEW id \in X, NEW H, NEW h
    PROVE  FiledIn(lists, {}, id) = lists /\ OneMore(lists, H, h, id)
<1>1. ASSUME NEW s \in Seq(X) PROVE ListAdd(ListAdd(s, id), id) = ListAdd(s, id)
  <2>1. id \in Items(ListAdd(s, id))
    BY ListAddFacts
  <2> QED BY <2>1 DEF ListAdd
<1>2. ASSUME NEW i \in Iface
      PROVE  FiledIn(FiledIn(lists, H, id), {h}, id)[i] = FiledIn(lists, H \cup {h}, id)[i]
  <2>1. lists[i] \in Seq(X)
    BY DEF ListsOver
  <2> QED BY <1>1, <2>1 DEF FiledIn, ListsOver
<1>3. /\ DOMAIN FiledIn(lists, H \cup {h}, id) = Iface
      /\ DOMAIN FiledIn(FiledIn(lists, H, id), {h}, id) = Iface
  BY DEF FiledIn, ListsOver
<1>4. FiledIn(lists, {}, id) = lists
  BY DEF FiledIn, ListsOver
<1>5. FiledIn(FiledIn(lists, H, id), {h}, id) = FiledIn(lists, H \cup {h}, id)
  <2> DEFINE a == FiledIn(FiledIn(lists, H, id), {h}, id)
             b == FiledIn(lists, H \cup {h}, id)
  <2>1. a = [i \in Iface |-> a[i]] /\ b = [i \in Iface |-> b[i]]
    BY <1>3 DEF FiledIn, ListsOver
  <2> HIDE DEF a, b
  <2>2. \A i \in Iface : a[i] = b[i]
    BY <1>2 DEF a, b
  <2>3. a = b
    BY <2>1, <2>2
  <2> QED BY <2>3 DEF a, b
<1> QED BY <1>4, <1>5 DEF OneMore

-----------------------------------------------------------------------------
(* What the n-th turn of processIntroduce's loop has come to.              *)
TurnLocal(l, o, id, m, n) ==
    /\ ListInv(m)
    /\ Keys(m) = Keys(l) \cup HomesUpto(Keys(l), o, n)
    /\ LocalLists(m) = FiledIn(LocalLists(l), HomesUpto(Keys(l), o, n), id)
    /\ GlobalLists(m) = GlobalLists(l)

(* One turn more.                                                          *)
LEMMA NextLocal ==
    ASSUME NEW l, ListInv(l), NEW o \in Seq(Iface), Rising(o), NEW id \in Local,
           NEW n \in 0 .. Len(o) - 1, NEW m, TurnLocal(l, o, id, m, n)
    PROVE  TurnLocal(l, o, id, FileOneLocal(m, o[n + 1], id), n + 1)
<1> DEFINE K == Keys(l)
           h == Home(K, o[n + 1])
<1>0. Len(o) \in Nat /\ n + 1 \in 1 .. Len(o) /\ o[n + 1] \in Iface /\ K \in SUBSET Iface
  BY LenProperties, ElementOfSeq, EntryFacts DEF ListInv
<1>1. Home(Keys(m), o[n + 1]) = h
  BY <1>0, HomesStay DEF TurnLocal
<1>2. HomesUpto(K, o, n + 1) = HomesUpto(K, o, n) \cup {h}
  <2>1. 1 .. n + 1 = (1 .. n) \cup {n + 1}
    BY <1>0
  <2> QED BY <2>1 DEF HomesUpto
<1>3. /\ ListInv(FileOneLocal(m, o[n + 1], id))
      /\ Keys(FileOneLocal(m, o[n + 1], id)) = Keys(m) \cup {h}
      /\ LocalLists(FileOneLocal(m, o[n + 1], id)) = FiledIn(LocalLists(m), {h}, id)
      /\ GlobalLists(FileOneLocal(m, o[n + 1], id)) = GlobalLists(m)
  <2>1. ListInv(m)
    BY DEF TurnLocal
  <2> HIDE DEF h
  <2> QED BY <1>0, <1>1, <2>1, OneLocal
<1>4. FiledIn(FiledIn(LocalLists(l), HomesUpto(K, o, n), id), {h}, id)
         = FiledIn(LocalLists(l), HomesUpto(K, o, n) \cup {h}, id)
  <2> DEFINE A == LocalLists(l)
             H == HomesUpto(K, o, n)
  <2>1. A \in ListsOver(Local)
    BY ListsOf DEF ListsOver
  <2> HIDE DEF A, H, h, K
  <2>2. OneMore(A, H, h, id)
    BY <2>1, FiledMore
  <2> QED BY <2>2 DEF OneMore, A, H
<1> QED BY <1>2, <1>3, <1>4 DEF TurnLocal

(* The whole loop.                                                         *)
LEMMA AllLocal ==
    ASSUME NEW l, ListInv(l), NEW o \in Seq(Iface), Rising(o), NEW id \in Local
    PROVE  TurnLocal(l, o, id, FiledLocal(l, o, id), Len(o))
<1> DEFINE N == Len(o)
           after[n \in 0 .. N] == IF n = 0 THEN l ELSE FileOneLocal(after[n - 1], o[n], id)
           V == {m \in Seq(Entry) : ListInv(m)}
           F == [n \in 1 .. N |-> [m \in V |-> FileOneLocal(m, o[n], id)]]
           T == {n \in 0 .. N : TurnLocal(l, o, id, after[n], n)}
<1>0. N \in Nat /\ \A n \in 1 .. N : o[n] \in Iface
  BY LenProperties, ElementOfSeq
<1>1. FiledLocal(l, o, id) = after[N]
  BY DEF FiledLocal
<1>2. after = [n \in 0 .. N |-> IF n = 0 THEN l ELSE FileOneLocal(after[n - 1], o[n], id)]
  <2>1. l \in V /\ \A n \in 1 .. N : \A m \in V : FileOneLocal(m, o[n], id) \in V
    BY <1>0, OneLocal DEF ListInv
  <2> HIDE DEF N, V
  <2>2. F \in [1 .. N -> [V -> V]]
    BY <2>1
  <2>3. \E g : Recursion(g, N, V, l, F)
    <3> HIDE DEF F
    <3> QED BY <1>0, <2>1, <2>2, RecursionExists
  <2>4. PICK g : Recursion(g, N, V, l, F)
    BY <2>3
  <2>5. ASSUME NEW n \in 1 .. N PROVE g[n] = FileOneLocal(g[n - 1], o[n], id)
    <3>1. n - 1 \in 0 .. N /\ g[n - 1] \in V
      BY <1>0, <2>4 DEF Recursion
    <3> QED BY <2>4, <3>1 DEF Recursion
  <2>6. \A n \in 0 .. N : g[n] = IF n = 0 THEN l ELSE FileOneLocal(g[n - 1], o[n], id)
    BY <1>0, <2>4, <2>5 DEF Recursion
  <2>7. g = [n \in 0 .. N |-> IF n = 0 THEN l ELSE FileOneLocal(g[n - 1], o[n], id)]
    BY <2>4, <2>6 DEF Recursion
  <2> QED BY <2>7 DEF N
<1> HIDE DEF after, N
<1>3. after[0] = l /\ \A n \in 1 .. N : after[n] = FileOneLocal(after[n - 1], o[n], id)
  <2>1. \A n \in 0 .. N : after[n] = IF n = 0 THEN l ELSE FileOneLocal(after[n - 1], o[n], id)
    BY <1>2
  <2> QED BY <1>0, <2>1
<1>4. 0 \in T
  <2>1. HomesUpto(Keys(l), o, 0) = {}
    BY DEF HomesUpto
  <2>2. FiledIn(LocalLists(l), {}, id) = LocalLists(l)
    BY ListsOf, FiledMore DEF ListsOver
  <2>3. TurnLocal(l, o, id, l, 0)
    BY <2>1, <2>2 DEF TurnLocal
  <2> QED BY <1>0, <1>3, <2>3
<1>5. ASSUME NEW n \in 0 .. N - 1, n \in T PROVE n + 1 \in T
  <2>1. n + 1 \in 1 .. N /\ (n + 1) - 1 = n
    BY <1>0
  <2>2. TurnLocal(l, o, id, FileOneLocal(after[n], o[n + 1], id), n + 1)
    BY <1>5, NextLocal DEF N
  <2>3. after[n + 1] = FileOneLocal(after[n], o[n + 1], id)
    BY <1>3, <2>1
  <2> QED BY <1>0, <2>1, <2>2, <2>3
<1>6. \A n \in 0 .. N : n \in T
  <2> HIDE DEF T
  <2> QED BY <1>0, <1>4, <1>5, NatSteps
<1> QED BY <1>0, <1>1, <1>6 DEF N

(* The same of processResult's loop.                                       *)
TurnGlobal(l, o, id, m, n) ==
    /\ ListInv(m)
    /\ Keys(m) = Keys(l) \cup HomesUpto(Keys(l), o, n)
    /\ GlobalLists(m) = FiledIn(GlobalLists(l), HomesUpto(Keys(l), o, n), id)
    /\ LocalLists(m) = LocalLists(l)

(* One turn more.                                                          *)
LEMMA NextGlobal ==
    ASSUME NEW l, ListInv(l), NEW o \in Seq(Iface), Rising(o), NEW id \in Global,
           NEW n \in 0 .. Len(o) - 1, NEW m, TurnGlobal(l, o, id, m, n)
    PROVE  TurnGlobal(l, o, id, FileOneGlobal(m, o[n + 1], id), n + 1)
<1> DEFINE K == Keys(l)
           h == Home(K, o[n + 1])
<1>0. Len(o) \in Nat /\ n + 1 \in 1 .. Len(o) /\ o[n + 1] \in Iface /\ K \in SUBSET Iface
  BY LenProperties, ElementOfSeq, EntryFacts DEF ListInv
<1>1. Home(Keys(m), o[n + 1]) = h
  BY <1>0, HomesStay DEF TurnGlobal
<1>2. HomesUpto(K, o, n + 1) = HomesUpto(K, o, n) \cup {h}
  <2>1. 1 .. n + 1 = (1 .. n) \cup {n + 1}
    BY <1>0
  <2> QED BY <2>1 DEF HomesUpto
<1>3. /\ ListInv(FileOneGlobal(m, o[n + 1], id))
      /\ Keys(FileOneGlobal(m, o[n + 1], id)) = Keys(m) \cup {h}
      /\ GlobalLists(FileOneGlobal(m, o[n + 1], id)) = FiledIn(GlobalLists(m), {h}, id)
      /\ LocalLists(FileOneGlobal(m, o[n + 1], id)) = LocalLists(m)
  <2>1. ListInv(m)
    BY DEF TurnGlobal
  <2> HIDE DEF h
  <2> QED BY <1>0, <1>1, <2>1, OneGlobal
<1>4. FiledIn(FiledIn(GlobalLists(l), HomesUpto(K, o, n), id), {h}, id)
         = FiledIn(GlobalLists(l), HomesUpto(K, o, n) \cup {h}, id)
  <2> DEFINE A == GlobalLists(l)
             H == HomesUpto(K, o, n)
  <2>1. A \in ListsOver(Global)
    BY ListsOf DEF ListsOver
  <2> HIDE DEF A, H, h, K
  <2>2. OneMore(A, H, h, id)
    BY <2>1, FiledMore
  <2> QED BY <2>2 DEF OneMore, A, H
<1> QED BY <1>2, <1>3, <1>4 DEF TurnGlobal

(* The whole loop.                                                         *)
LEMMA AllGlobal ==
    ASSUME NEW l, ListInv(l), NEW o \in Seq(Iface), Rising(o), NEW id \in Global
    PROVE  TurnGlobal(l, o, id, FiledGlobal(l, o, id), Len(o))
<1> DEFINE N == Len(o)
           after[n \in 0 .. N] == IF n = 0 THEN l ELSE FileOneGlobal(after[n - 1], o[n], id)
           V == {m \in Seq(Entry) : ListInv(m)}
           F == [n \in 1 .. N |-> [m \in V |-> FileOneGlobal(m, o[n], id)]]
           T == {n \in 0 .. N : TurnGlobal(l, o, id, after[n], n)}
<1>0. N \in Nat /\ \A n \in 1 .. N : o[n] \in Iface
  BY LenProperties, ElementOfSeq
<1>1. FiledGlobal(l, o, id) = after[N]
  BY DEF FiledGlobal
<1>2. after = [n \in 0 .. N |-> IF n = 0 THEN l ELSE FileOneGlobal(after[n - 1], o[n], id)]
  <2>1. l \in V /\ \A n \in 1 .. N : \A m \in V : FileOneGlobal(m, o[n], id) \in V
    BY <1>0, OneGlobal DEF ListInv
  <2> HIDE DEF N, V
  <2>2. F \in [1 .. N -> [V -> V]]
    BY <2>1
  <2>3. \E g : Recursion(g, N, V, l, F)
    <3> HIDE DEF F
    <3> QED BY <1>0, <2>1, <2>2, RecursionExists
  <2>4. PICK g : Recursion(g, N, V, l, F)
    BY <2>3
  <2>5. ASSUME NEW n \in 1 .. N PROVE g[n] = FileOneGlobal(g[n - 1], o[n], id)
    <3>1. n - 1 \in 0 .. N /\ g[n - 1] \in V
      BY <1>0, <2>4 DEF Recursion
    <3> QED BY <2>4, <3>1 DEF Recursion
  <2>6. \A n \in 0 .. N : g[n] = IF n = 0 THEN l ELSE FileOneGlobal(g[n - 1], o[n], id)
    BY <1>0, <2>4, <2>5 DEF Recursion
  <2>7. g = [n \in 0 .. N |-> IF n = 0 THEN l ELSE FileOneGlobal(g[n - 1], o[n], id)]
    BY <2>4, <2>6 DEF Recursion
  <2> QED BY <2>7 DEF N
<1> HIDE DEF after, N
<1>3. after[0] = l /\ \A n \in 1 .. N : after[n] = FileOneGlobal(after[n - 1], o[n], id)
  <2>1. \A n \in 0 .. N : after[n] = IF n = 0 THEN l ELSE FileOneGlobal(after[n - 1], o[n], id)
    BY <1>2
  <2> QED BY <1>0, <2>1
<1>4. 0 \in T
  <2>1. HomesUpto(Keys(l), o, 0) = {}
    BY DEF HomesUpto
  <2>2. FiledIn(GlobalLists(l), {}, id) = GlobalLists(l)
    BY ListsOf, FiledMore DEF ListsOver
  <2>3. TurnGlobal(l, o, id, l, 0)
    BY <2>1, <2>2 DEF TurnGlobal
  <2> QED BY <1>0, <1>3, <2>3
<1>5. ASSUME NEW n \in 0 .. N - 1, n \in T PROVE n + 1 \in T
  <2>1. n + 1 \in 1 .. N /\ (n + 1) - 1 = n
    BY <1>0
  <2>2. TurnGlobal(l, o, id, FileOneGlobal(after[n], o[n + 1], id), n + 1)
    BY <1>5, NextGlobal DEF N
  <2>3. after[n + 1] = FileOneGlobal(after[n], o[n + 1], id)
    BY <1>3, <2>1
  <2> QED BY <1>0, <2>1, <2>2, <2>3
<1>6. \A n \in 0 .. N : n \in T
  <2> HIDE DEF T
  <2> QED BY <1>0, <1>4, <1>5, NatSteps
<1> QED BY <1>0, <1>1, <1>6 DEF N

-----------------------------------------------------------------------------
(* An order of S is a list in which each interface of S comes once.        *)
LEMMA OrderFacts ==
    ASSUME NEW S \in SUBSET Iface, NEW o \in Orders(S)
    PROVE  o \in Seq(Iface) /\ S = {o[j] : j \in 1 .. Len(o)}
<1> DEFINE N == Cardinality(S)
<1>1. IsFiniteSet(S) /\ N \in Nat
  BY ListAssumption, FS_Subset, FS_CardinalityType
<1>2. o \in [1 .. N -> S] /\ \A j, k \in 1 .. N : o[j] = o[k] => j = k
  BY DEF Orders
<1>3. o \in Injection(1 .. N, S)
  BY <1>2 DEF Injection, IsInjective
<1>4. Cardinality(1 .. N) = N
  <2> HIDE DEF N
  <2>1. Cardinality(1 .. N) = IF 1 > N THEN 0 ELSE N - 1 + 1
    BY <1>1, FS_Interval
  <2> QED BY <1>1, <2>1
<1>5. o \in Surjection(1 .. N, S)
  <2> HIDE DEF N
  <2> QED BY <1>1, <1>3, <1>4, FS_Injection DEF N
<1>6. o \in Seq(Iface) /\ Len(o) = N
  BY <1>1, <1>2, SeqDef
<1> QED BY <1>2, <1>5, <1>6 DEF Surjection

-----------------------------------------------------------------------------
(* What iface_remove has kept once it has walked over n entries of l.      *)
Sifted(l, m, n) ==
    /\ ListInv(m)
    /\ \A k \in 1 .. Len(m) : \E j \in 1 .. n : m[k] = l[j] /\ HasIdentities(l[j])
    /\ \A j \in 1 .. n : HasIdentities(l[j]) => \E k \in 1 .. Len(m) : m[k] = l[j]

(* One entry more: it comes behind what has been kept.                     *)
LEMMA NextSifted ==
    ASSUME NEW l, ListInv(l), NEW n \in 0 .. Len(l) - 1, NEW m, Sifted(l, m, n)
    PROVE  Sifted(l, IF HasIdentities(l[n + 1]) THEN Append(m, l[n + 1]) ELSE m, n + 1)
<1> DEFINE e == l[n + 1]
           a == Append(m, e)
<1>0. /\ Len(l) \in Nat /\ DOMAIN l = 1 .. Len(l) /\ n + 1 \in 1 .. Len(l) /\ e \in Entry
      /\ m \in Seq(Entry) /\ Len(m) \in Nat /\ DOMAIN m = 1 .. Len(m)
  BY EntryFacts DEF ListInv, Sifted
<1>1. CASE HasIdentities(e)
  <2>1. /\ a \in Seq(Entry) /\ Len(a) = Len(m) + 1 /\ a[Len(m) + 1] = e
        /\ \A k \in 1 .. Len(m) : a[k] = m[k]
    BY <1>0, AppendProperties
  <2> HIDE DEF a
  <2>2. DOMAIN a = 1 .. Len(m) + 1 /\ \A k \in 1 .. Len(m) + 1 : k \in 1 .. Len(m) \/ k = Len(m) + 1
    BY <1>0, <2>1, EntryFacts
  <2>3. \A k \in 1 .. Len(a) : \E j \in 1 .. n + 1 : a[k] = l[j] /\ HasIdentities(l[j])
    <3>1. ASSUME NEW k \in 1 .. Len(m) PROVE \E j \in 1 .. n + 1 : a[k] = l[j] /\ HasIdentities(l[j])
      <4>1. PICK j \in 1 .. n : m[k] = l[j] /\ HasIdentities(l[j])
        BY DEF Sifted
      <4> QED BY <1>0, <2>1, <4>1
    <3> QED BY <1>0, <1>1, <2>1, <2>2, <3>1
  <2>4. \A j \in 1 .. n + 1 : HasIdentities(l[j]) => \E k \in 1 .. Len(a) : a[k] = l[j]
    <3>1. ASSUME NEW j \in 1 .. n, HasIdentities(l[j]) PROVE \E k \in 1 .. Len(a) : a[k] = l[j]
      <4>1. PICK k \in 1 .. Len(m) : m[k] = l[j]
        BY <3>1 DEF Sifted
      <4> QED BY <1>0, <2>1, <4>1
    <3>2. ASSUME NEW j \in 1 .. n + 1 PROVE j \in 1 .. n \/ j = n + 1
      BY <1>0
    <3>3. \E k \in 1 .. Len(a) : a[k] = l[n + 1]
      BY <1>0, <2>1
    <3> QED BY <3>1, <3>2, <3>3
  <2>5. ByVersion(a)
    <3>1. ASSUME NEW j \in 1 .. Len(m) + 1, NEW k \in 1 .. Len(m) + 1,
                 j < k, a[j].key[1] = a[k].key[1]
          PROVE  a[j].key[2] < a[k].key[2]
      <4>1. j \in 1 .. Len(m) /\ a[j] = m[j]
        BY <1>0, <2>1, <3>1
      <4>2. CASE k \in 1 .. Len(m)
        <5>1. a[k] = m[k]
          BY <2>1, <4>2
        <5> QED BY <1>0, <3>1, <4>1, <4>2, <5>1 DEF Sifted, ListInv, ByVersion
      <4>3. CASE k = Len(m) + 1
        <5>1. PICK i \in 1 .. n : m[j] = l[i]
          BY <4>1 DEF Sifted
        <5>2. i < n + 1 /\ i \in DOMAIN l /\ n + 1 \in DOMAIN l
          BY <1>0, <5>1
        <5>3. l[i].key[1] = l[n + 1].key[1]
          BY <2>1, <3>1, <4>1, <4>3, <5>1
        <5>4. l[i].key[2] < l[n + 1].key[2]
          BY <5>2, <5>3 DEF ListInv, ByVersion
        <5> QED BY <2>1, <4>1, <4>3, <5>1, <5>4
      <4> QED BY <2>2, <4>2, <4>3
    <3> QED BY <2>2, <3>1 DEF ByVersion
  <2>6. Sifted(l, a, n + 1)
    BY <2>1, <2>3, <2>4, <2>5 DEF Sifted, ListInv
  <2> QED BY <1>1, <2>6 DEF a
<1>2. CASE ~ HasIdentities(e)
  <2>1. \A k \in 1 .. Len(m) : \E j \in 1 .. n + 1 : m[k] = l[j] /\ HasIdentities(l[j])
    <3>1. ASSUME NEW k \in 1 .. Len(m) PROVE \E j \in 1 .. n + 1 : m[k] = l[j] /\ HasIdentities(l[j])
      <4>1. PICK j \in 1 .. n : m[k] = l[j] /\ HasIdentities(l[j])
        BY DEF Sifted
      <4> QED BY <1>0, <4>1
    <3> QED BY <3>1
  <2>2. ASSUME NEW j \in 1 .. n + 1, HasIdentities(l[j])
        PROVE  \E k \in 1 .. Len(m) : m[k] = l[j]
    <3>1. j \in 1 .. n
      BY <1>0, <1>2, <2>2
    <3> QED BY <2>2, <3>1 DEF Sifted
  <2>3. Sifted(l, m, n + 1)
    BY <2>1, <2>2 DEF Sifted
  <2> QED BY <1>2, <2>3
<1> QED BY <1>1, <1>2

(* The whole walk.                                                         *)
LEMMA AllSifted ==
    ASSUME NEW l, ListInv(l)
    PROVE  Sifted(l, Remaining(l), Len(l))
<1> DEFINE N == Len(l)
           Kept(m, n) == IF HasIdentities(l[n]) THEN Append(m, l[n]) ELSE m
           kept[n \in 0 .. N] ==
               IF n = 0 THEN << >>
               ELSE IF HasIdentities(l[n]) THEN Append(kept[n - 1], l[n])
               ELSE kept[n - 1]
           V == Seq(Entry)
           F == [n \in 1 .. N |-> [m \in V |-> Kept(m, n)]]
           T == {n \in 0 .. N : Sifted(l, kept[n], n)}
<1>0. N \in Nat /\ \A n \in 1 .. N : l[n] \in Entry
  BY EntryFacts DEF ListInv
<1>1. Remaining(l) = kept[N]
  BY DEF Remaining
<1>2. kept = [n \in 0 .. N |-> IF n = 0 THEN << >>
                               ELSE IF HasIdentities(l[n]) THEN Append(kept[n - 1], l[n])
                               ELSE kept[n - 1]]
  <2>1. << >> \in V /\ \A n \in 1 .. N : \A m \in V : Kept(m, n) \in V
    BY <1>0, EmptySeq, AppendProperties
  <2> HIDE DEF N, V, Kept
  <2>2. F \in [1 .. N -> [V -> V]]
    BY <2>1
  <2>3. \E g : Recursion(g, N, V, << >>, F)
    <3> HIDE DEF F
    <3> QED BY <1>0, <2>1, <2>2, RecursionExists
  <2>4. PICK g : Recursion(g, N, V, << >>, F)
    BY <2>3
  <2>5. ASSUME NEW n \in 1 .. N PROVE g[n] = Kept(g[n - 1], n)
    <3>1. n - 1 \in 0 .. N /\ g[n - 1] \in V
      BY <1>0, <2>4 DEF Recursion
    <3> QED BY <2>4, <3>1 DEF Recursion
  <2>6. \A n \in 0 .. N : g[n] = IF n = 0 THEN << >>
                                 ELSE IF HasIdentities(l[n]) THEN Append(g[n - 1], l[n])
                                 ELSE g[n - 1]
    <3>1. g[0] = << >>
      BY <2>4 DEF Recursion
    <3>2. ASSUME NEW n \in 0 .. N, n # 0 PROVE g[n] = Kept(g[n - 1], n)
      BY <1>0, <2>5, <3>2
    <3> QED BY <3>1, <3>2 DEF Kept
  <2>7. g = [n \in 0 .. N |-> IF n = 0 THEN << >>
                              ELSE IF HasIdentities(l[n]) THEN Append(g[n - 1], l[n])
                              ELSE g[n - 1]]
    BY <2>4, <2>6 DEF Recursion
  <2> QED BY <2>7 DEF N
<1> HIDE DEF kept, N
<1>3. kept[0] = << >> /\ \A n \in 1 .. N : kept[n] = Kept(kept[n - 1], n)
  <2>1. \A n \in 0 .. N : kept[n] = IF n = 0 THEN << >>
                                    ELSE IF HasIdentities(l[n]) THEN Append(kept[n - 1], l[n])
                                    ELSE kept[n - 1]
    BY <1>2
  <2> QED BY <1>0, <2>1
<1>4. 0 \in T
  <2>1. << >> \in Seq(Entry) /\ Len(<< >>) = 0 /\ ByVersion(<< >>)
    BY EmptySeq DEF ByVersion
  <2>2. Sifted(l, << >>, 0)
    BY <2>1 DEF Sifted, ListInv
  <2> QED BY <1>0, <1>3, <2>2
<1>5. ASSUME NEW n \in 0 .. N - 1, n \in T PROVE n + 1 \in T
  <2>1. n + 1 \in 1 .. N /\ (n + 1) - 1 = n
    BY <1>0
  <2>2. Sifted(l, Kept(kept[n], n + 1), n + 1)
    BY <1>5, NextSifted DEF N
  <2>3. kept[n + 1] = Kept(kept[n], n + 1)
    <3> HIDE DEF Kept
    <3> QED BY <1>3, <2>1
  <2> HIDE DEF Kept
  <2> QED BY <1>0, <2>1, <2>2, <2>3
<1>6. \A n \in 0 .. N : n \in T
  <2> HIDE DEF T
  <2> QED BY <1>0, <1>4, <1>5, NatSteps
<1> QED BY <1>0, <1>1, <1>6 DEF N

(* What goes is an interface that has no identity: no list changes.        *)
LEMMA RemainingFacts ==
    ASSUME NEW l, ListInv(l)
    PROVE  /\ ListInv(Remaining(l))
           /\ Keys(Remaining(l)) = Keys(l) \ Empty(Keys(l), LocalLists(l), GlobalLists(l))
           /\ LocalLists(Remaining(l)) = LocalLists(l)
           /\ GlobalLists(Remaining(l)) = GlobalLists(l)
<1> DEFINE r == Remaining(l)
<1>1. Sifted(l, r, Len(l)) /\ ListInv(r)
  BY AllSifted DEF Sifted
<1> HIDE DEF r
<1>2. ASSUME NEW k \in 1 .. Len(l)
      PROVE  HasIdentities(l[k]) <=> ~ (LocalLists(l)[l[k].key] = << >> /\ GlobalLists(l)[l[k].key] = << >>)
  BY ListsOf DEF HasIdentities
<1>3. ASSUME NEW i \in Keys(r)
      PROVE  /\ i \in Keys(l) /\ ~ (LocalLists(l)[i] = << >> /\ GlobalLists(l)[i] = << >>)
             /\ LocalLists(r)[i] = LocalLists(l)[i] /\ GlobalLists(r)[i] = GlobalLists(l)[i]
  <2>1. PICK k \in 1 .. Len(r) : r[k].key = i
    BY <1>1, <1>3, EntryFacts DEF ListInv
  <2>2. PICK j \in 1 .. Len(l) : r[k] = l[j] /\ HasIdentities(l[j])
    BY <1>1 DEF Sifted
  <2>3. l[j].key \in Keys(l) /\ l[j].key = i
    BY <2>1, <2>2, EntryFacts DEF ListInv
  <2>4. LocalLists(r)[i] = r[k].id_local_list /\ GlobalLists(r)[i] = r[k].id_global_list
    BY <1>1, <2>1, ListsOf
  <2>5. LocalLists(l)[i] = l[j].id_local_list /\ GlobalLists(l)[i] = l[j].id_global_list
    BY <2>3, ListsOf
  <2> QED BY <1>2, <2>2, <2>3, <2>4, <2>5
<1>4. ASSUME NEW i \in Keys(l), ~ (LocalLists(l)[i] = << >> /\ GlobalLists(l)[i] = << >>)
      PROVE  i \in Keys(r)
  <2>1. PICK j \in 1 .. Len(l) : l[j].key = i
    BY EntryFacts DEF ListInv
  <2>2. HasIdentities(l[j])
    BY <1>2, <1>4, <2>1
  <2>3. PICK k \in 1 .. Len(r) : r[k] = l[j]
    BY <1>1, <2>2 DEF Sifted
  <2> QED BY <1>1, <2>1, <2>3, EntryFacts DEF ListInv
<1>5. Keys(r) = Keys(l) \ Empty(Keys(l), LocalLists(l), GlobalLists(l))
  BY <1>3, <1>4 DEF Empty
<1>6. ASSUME NEW i \in Iface
      PROVE  LocalLists(r)[i] = LocalLists(l)[i] /\ GlobalLists(r)[i] = GlobalLists(l)[i]
  <2>1. CASE i \in Keys(r)
    BY <1>3, <2>1
  <2>2. CASE i \notin Keys(r)
    <3>1. LocalLists(r)[i] = << >> /\ GlobalLists(r)[i] = << >>
      BY <1>1, <2>2, ListsOf
    <3>2. LocalLists(l)[i] = << >> /\ GlobalLists(l)[i] = << >>
      BY <1>4, <2>2, ListsOf
    <3> QED BY <3>1, <3>2
  <2> QED BY <2>1, <2>2
<1>7. LocalLists(r) = LocalLists(l) /\ GlobalLists(r) = GlobalLists(l)
  BY <1>1, <1>6, ListsOf
<1> QED BY <1>1, <1>5, <1>7 DEF r

(* iface_remove takes the identity out of every list of modules.           *)
LEMMA StruckFacts ==
    ASSUME ListInv(list), NEW id
    PROVE  /\ ListInv(Struck(id)) /\ Keys(Struck(id)) = Keys(list)
           /\ LocalLists(Struck(id)) = StruckFrom(LocalLists(list), id)
           /\ GlobalLists(Struck(id)) = GlobalLists(list)
<1> DEFINE s == Struck(id)
           e(k) == [list[k] EXCEPT !.id_local_list = ListRemove(@, id)]
<1>0. Len(list) \in Nat /\ DOMAIN list = 1 .. Len(list)
  BY EntryFacts DEF ListInv
<1>1. ASSUME NEW k \in 1 .. Len(list)
      PROVE  /\ e(k) \in Entry /\ e(k).key = list[k].key
             /\ e(k).id_local_list = ListRemove(list[k].id_local_list, id)
             /\ e(k).id_global_list = list[k].id_global_list
  <2>1. /\ list[k] \in Entry /\ list[k].id_local_list \in Seq(Local)
        /\ list[k].id_global_list \in Seq(Global)
    BY EntryFacts DEF ListInv
  <2>2. ListRemove(list[k].id_local_list, id) \in Seq(Local)
    BY <2>1, ListRemoveFacts
  <2> QED BY <2>1, <2>2 DEF Entry
<1>2. s = [k \in 1 .. Len(list) |-> e(k)]
  BY <1>0 DEF Struck
<1> HIDE DEF e, s
<1>3. s \in Seq(Entry) /\ Len(s) = Len(list) /\ \A k \in 1 .. Len(list) : s[k] = e(k)
  BY <1>0, <1>1, <1>2, SeqDef
<1>4. ListInv(s) /\ Keys(s) = Keys(list)
  BY <1>1, <1>3, SameKeys
<1>5. ASSUME NEW i \in Iface
      PROVE  /\ LocalLists(s)[i] = ListRemove(LocalLists(list)[i], id)
             /\ GlobalLists(s)[i] = GlobalLists(list)[i]
  <2>1. CASE i \in Keys(list)
    <3>1. PICK k \in 1 .. Len(list) : list[k].key = i
      BY <2>1, EntryFacts DEF ListInv
    <3>2. k \in 1 .. Len(s) /\ s[k].key = i
      BY <1>1, <1>3, <3>1
    <3>3. LocalLists(s)[i] = s[k].id_local_list /\ GlobalLists(s)[i] = s[k].id_global_list
      BY <1>4, <3>2, ListsOf
    <3>4. /\ LocalLists(list)[i] = list[k].id_local_list
          /\ GlobalLists(list)[i] = list[k].id_global_list
      BY <3>1, ListsOf
    <3> QED BY <1>1, <1>3, <3>3, <3>4
  <2>2. CASE i \notin Keys(list)
    <3>1. ListRemove(<< >>, id) = << >>
      <4>1. id \notin Items(<< >>)
        BY DEF Items
      <4> QED BY <4>1 DEF ListRemove
    <3>2. /\ LocalLists(s)[i] = << >> /\ LocalLists(list)[i] = << >>
          /\ GlobalLists(s)[i] = << >> /\ GlobalLists(list)[i] = << >>
      BY <1>4, <2>2, ListsOf
    <3> QED BY <3>1, <3>2
  <2> QED BY <2>1, <2>2
<1>6. /\ LocalLists(s) \in [Iface -> Seq(Local)] /\ GlobalLists(s) \in [Iface -> Seq(Global)]
      /\ DOMAIN LocalLists(list) = Iface /\ DOMAIN GlobalLists(list) = Iface
  BY <1>4, ListsOf
<1>7. LocalLists(s) = StruckFrom(LocalLists(list), id)
  BY <1>5, <1>6 DEF StruckFrom
<1>8. GlobalLists(s) = GlobalLists(list)
  BY <1>4, <1>5, ListsOf
<1> QED BY <1>4, <1>7, <1>8 DEF s

(* The identity of a fabric is in no list of modules.                      *)
LEMMA NotStruck ==
    ASSUME NEW X, NEW lists \in ListsOver(X), NEW id, id \notin X
    PROVE  StruckFrom(lists, id) = lists
<1>1. ASSUME NEW i \in Iface PROVE ListRemove(lists[i], id) = lists[i]
  <2>1. lists[i] \in Seq(X)
    BY DEF ListsOver
  <2>2. id \notin Items(lists[i])
    BY <2>1, ElementOfSeq, LenProperties DEF Items
  <2> QED BY <2>2 DEF ListRemove
<1>2. lists = [i \in Iface |-> lists[i]] /\ DOMAIN lists = Iface
  BY DEF ListsOver
<1> QED BY <1>1, <1>2 DEF StruckFrom

-----------------------------------------------------------------------------
(* The abstract table computes with the operators of module Interfaces.    *)
LEMMA SameOperators ==
    ASSUME NEW K, NEW S, NEW lists, NEW locals, NEW globals, NEW id
    PROVE  /\ Table!Homes(K, S) = Homes(K, S)
           /\ Table!FiledIn(lists, S, id) = FiledIn(lists, S, id)
           /\ Table!StruckFrom(lists, id) = StruckFrom(lists, id)
           /\ Table!Empty(K, locals, globals) = Empty(K, locals, globals)
<1>1. Table!Homes(K, S) = Homes(K, S)
  BY DEF Table!Homes, Homes, Table!Home, Home, Table!Matches, Matches, Table!Least, Least
<1>2. Table!FiledIn(lists, S, id) = FiledIn(lists, S, id)
  BY DEF Table!FiledIn, FiledIn, Table!ListAdd, ListAdd, Table!Items, Items
<1>3. Table!StruckFrom(lists, id) = StruckFrom(lists, id)
  BY DEF Table!StruckFrom, StruckFrom, Table!ListRemove, ListRemove, Table!Items, Items
<1>4. Table!Empty(K, locals, globals) = Empty(K, locals, globals)
  BY DEF Table!Empty, Empty
<1> QED BY <1>1, <1>2, <1>3, <1>4

(* processIntroduce files the module under the homes of what it provides,  *)
(* each taken in the table as it was before the first turn.                *)
LEMMA IntroduceFiles ==
    ASSUME ListInv(list), NEW id \in Local, Introduce(id)
    PROVE  ListInv(list)' /\ \E S \in SUBSET Iface : Table!FileLocal(id, S)
<1>1. PICK S \in SUBSET Iface : /\ \A i, j \in S : i[1] = j[1] => i = j
                                /\ \E o \in Orders(S) : list' = FiledLocal(list, o, id)
  BY DEF Introduce
<1>2. PICK o \in Orders(S) : list' = FiledLocal(list, o, id)
  BY <1>1
<1>3. o \in Seq(Iface) /\ S = {o[j] : j \in 1 .. Len(o)}
  BY OrderFacts
<1>4. Rising(o)
  <2>1. DOMAIN o = 1 .. Cardinality(S) /\ Cardinality(S) \in Nat /\ \A j \in DOMAIN o : o[j] \in S
    BY ListAssumption, FS_Subset, FS_CardinalityType DEF Orders
  <2>2. \A j, k \in DOMAIN o : o[j] = o[k] => j = k
    BY DEF Orders
  <2>3. ASSUME NEW j \in DOMAIN o, NEW k \in DOMAIN o, j < k, o[j][1] = o[k][1] PROVE FALSE
    <3>1. j = k
      BY <1>1, <2>1, <2>2, <2>3
    <3> QED BY <2>1, <2>3, <3>1
  <2> QED BY <2>3 DEF Rising
<1>5. TurnLocal(list, o, id, list', Len(o))
  BY <1>2, <1>3, <1>4, AllLocal
<1>6. HomesUpto(Keys(list), o, Len(o)) = Table!Homes(Keys(list), S)
  <2>1. HomesUpto(Keys(list), o, Len(o)) = Homes(Keys(list), S)
    BY <1>3 DEF HomesUpto, Homes
  <2> QED BY <2>1, SameOperators
<1>7. Table!FileLocal(id, S)
  <2> DEFINE H == HomesUpto(Keys(list), o, Len(o))
  <2>1. FiledIn(LocalLists(list), H, id) = Table!FiledIn(LocalLists(list), H, id)
    BY SameOperators
  <2>2. /\ Keys(list') = Keys(list) \cup H
        /\ LocalLists(list') = Table!FiledIn(LocalLists(list), H, id)
        /\ GlobalLists(list') = GlobalLists(list)
    BY <1>5, <2>1 DEF TurnLocal
  <2> QED BY <1>6, <2>2 DEF Table!FileLocal
<1> QED BY <1>5, <1>7 DEF TurnLocal

(* So does processResult with the interfaces of another fabric.            *)
LEMMA IfaceListFiles ==
    ASSUME ListInv(list), NEW id \in Global, IfaceListResult(id)
    PROVE  ListInv(list)' /\ \E S \in SUBSET Iface : Table!FileGlobal(id, S)
<1>0. PICK S \in SUBSET Iface : \E o \in Orders(S) : Rising(o) /\ list' = FiledGlobal(list, o, id)
  BY DEF IfaceListResult, Rising
<1>1. PICK o \in Orders(S) : Rising(o) /\ list' = FiledGlobal(list, o, id)
  BY <1>0
<1>2. o \in Seq(Iface) /\ S = {o[j] : j \in 1 .. Len(o)}
  BY OrderFacts
<1>3. TurnGlobal(list, o, id, list', Len(o))
  BY <1>1, <1>2, AllGlobal
<1>4. HomesUpto(Keys(list), o, Len(o)) = Table!Homes(Keys(list), S)
  <2>1. HomesUpto(Keys(list), o, Len(o)) = Homes(Keys(list), S)
    BY <1>2 DEF HomesUpto, Homes
  <2> QED BY <2>1, SameOperators
<1>5. Table!FileGlobal(id, S)
  <2> DEFINE H == HomesUpto(Keys(list), o, Len(o))
  <2>1. FiledIn(GlobalLists(list), H, id) = Table!FiledIn(GlobalLists(list), H, id)
    BY SameOperators
  <2>2. /\ Keys(list') = Keys(list) \cup H
        /\ GlobalLists(list') = Table!FiledIn(GlobalLists(list), H, id)
        /\ LocalLists(list') = LocalLists(list)
    BY <1>3, <2>1 DEF TurnGlobal
  <2> QED BY <1>4, <2>2 DEF Table!FileGlobal
<1> QED BY <1>3, <1>5 DEF TurnGlobal

(* No interface is without identities: the walk of iface_remove destroys   *)
(* none but those it empties itself.                                       *)
Inhabited == Empty(Keys(list), LocalLists(list), GlobalLists(list)) = {}

LEMMA FiledInhabited ==
    ASSUME ListInv(list), ListInv(list'), Inhabited, NEW id, NEW S \in SUBSET Iface,
           \/ id \in Local /\ Table!FileLocal(id, S)
           \/ id \in Global /\ Table!FileGlobal(id, S)
    PROVE  Inhabited'
<1>1. ASSUME NEW X, NEW l \in Seq(X), NEW x \in X PROVE ListAdd(l, x) # << >>
  <2>1. CASE x \in Items(l)
    <3>1. Len(l) # 0
      BY <2>1 DEF Items
    <3> QED BY <2>1, <3>1 DEF ListAdd
  <2>2. CASE x \notin Items(l)
    BY <2>2, AppendProperties DEF ListAdd
  <2> QED BY <2>1, <2>2
<1>2. /\ LocalLists(list) \in [Iface -> Seq(Local)] /\ GlobalLists(list) \in [Iface -> Seq(Global)]
      /\ Keys(list) \subseteq Iface /\ Keys(list') \subseteq Iface
  BY ListsOf, EntryFacts DEF ListInv
<1>3. ASSUME NEW i \in Keys(list'), LocalLists(list')[i] = << >>, GlobalLists(list')[i] = << >>
      PROVE  FALSE
  <2> DEFINE H == Homes(Keys(list), S)
             L == LocalLists(list)[i]
             G == GlobalLists(list)[i]
  <2>1. i \in Iface /\ L \in Seq(Local) /\ G \in Seq(Global)
    BY <1>2
  <2>2. i \in Keys(list) => ~ (L = << >> /\ G = << >>)
    BY DEF Inhabited, Empty
  <2>3. CASE id \in Local /\ Table!FileLocal(id, S)
    <3>1. /\ Keys(list') = Keys(list) \cup H
          /\ LocalLists(list') = FiledIn(LocalLists(list), H, id)
          /\ GlobalLists(list') = GlobalLists(list)
      BY <2>3, SameOperators DEF Table!FileLocal
    <3>2. LocalLists(list')[i] = IF i \in H THEN ListAdd(L, id) ELSE L
      BY <1>2, <2>1, <3>1 DEF FiledIn
    <3>3. ListAdd(L, id) # << >>
      BY <1>1, <2>1, <2>3
    <3> HIDE DEF H
    <3> QED BY <1>3, <2>2, <3>1, <3>2, <3>3
  <2>4. CASE id \in Global /\ Table!FileGlobal(id, S)
    <3>1. /\ Keys(list') = Keys(list) \cup H
          /\ GlobalLists(list') = FiledIn(GlobalLists(list), H, id)
          /\ LocalLists(list') = LocalLists(list)
      BY <2>4, SameOperators DEF Table!FileGlobal
    <3>2. GlobalLists(list')[i] = IF i \in H THEN ListAdd(G, id) ELSE G
      BY <1>2, <2>1, <3>1 DEF FiledIn
    <3>3. ListAdd(G, id) # << >>
      BY <1>1, <2>1, <2>4
    <3> HIDE DEF H
    <3> QED BY <1>3, <2>2, <3>1, <3>2, <3>3
  <2> QED BY <2>3, <2>4
<1> QED BY <1>3 DEF Inhabited, Empty

(* iface_remove takes the identity of a module out, and the interfaces     *)
(* that are left without any; for a fabric it changes nothing.             *)
LEMMA RemoveStrikes ==
    ASSUME ListInv(list), Inhabited, NEW id \in Local \cup Global, iface_remove(id)
    PROVE  /\ ListInv(list)' /\ Inhabited'
           /\ \/ id \in Local /\ Table!RemoveLocal(id)
              \/ UNCHANGED Table!tableVars
<1> DEFINE s == Struck(id)
<1>1. /\ ListInv(s) /\ Keys(s) = Keys(list)
      /\ LocalLists(s) = StruckFrom(LocalLists(list), id)
      /\ GlobalLists(s) = GlobalLists(list)
  BY StruckFacts
<1>2. list' = Remaining(s)
  BY DEF iface_remove
<1> HIDE DEF s
<1>3. /\ ListInv(list') /\ Keys(list') = Keys(list) \ Empty(Keys(list), LocalLists(s), GlobalLists(s))
      /\ LocalLists(list') = LocalLists(s) /\ GlobalLists(list') = GlobalLists(s)
  BY <1>1, <1>2, RemainingFacts
<1>4. Inhabited'
  BY <1>3 DEF Inhabited, Empty
<1>5. CASE id \in Local
  <2>1. /\ LocalLists(list') = Table!StruckFrom(LocalLists(list), id)
        /\ Keys(list') = Keys(list) \ Table!Empty(Keys(list), LocalLists(list'), GlobalLists(list))
    BY <1>1, <1>3, SameOperators
  <2> QED BY <1>1, <1>3, <1>4, <1>5, <2>1 DEF Table!RemoveLocal
<1>6. CASE id \notin Local
  <2>1. LocalLists(list) \in ListsOver(Local)
    BY ListsOf DEF ListsOver
  <2>2. LocalLists(s) = LocalLists(list)
    BY <1>1, <1>6, <2>1, NotStruck
  <2> QED BY <1>1, <1>3, <1>4, <2>2 DEF Inhabited, Table!tableVars
<1> QED BY <1>3, <1>4, <1>5, <1>6

-----------------------------------------------------------------------------
(* A step of the program's list is a step of the abstract table.           *)
LEMMA ListStep ==
    ASSUME ListInv(list), Inhabited, [Next]_list
    PROVE  ListInv(list)' /\ Inhabited' /\ [Table!Next]_(Table!tableVars)
<1>1. ASSUME NEW id \in Local, Introduce(id)
      PROVE  ListInv(list)' /\ Inhabited' /\ Table!Next
  BY <1>1, IntroduceFiles, FiledInhabited DEF Table!Next
<1>2. ASSUME NEW id \in Global, IfaceListResult(id)
      PROVE  ListInv(list)' /\ Inhabited' /\ Table!Next
  BY <1>2, IfaceListFiles, FiledInhabited DEF Table!Next
<1>3. ASSUME NEW id \in Local \cup Global, iface_remove(id)
      PROVE  ListInv(list)' /\ Inhabited' /\ [Table!Next]_(Table!tableVars)
  BY <1>3, RemoveStrikes DEF Table!Next
<1>4. CASE UNCHANGED list
  BY <1>4 DEF Table!tableVars, Inhabited
<1> QED BY <1>1, <1>2, <1>3, <1>4 DEF Next

(* The empty table is an empty list.                                       *)
LEMMA ListStart ==
    ASSUME Init
    PROVE  ListInv(list) /\ Inhabited /\ Table!Init
<1>1. list \in Seq(Entry) /\ Len(list) = 0 /\ DOMAIN list = {} /\ list = << >>
  BY EmptySeq DEF Init
<1>2. ListInv(list)
  BY <1>1 DEF ListInv, ByVersion
<1>3. Keys(list) = {}
  BY <1>1 DEF Keys
<1>4. /\ LocalLists(list) = [i \in Iface |-> << >>]
      /\ GlobalLists(list) = [i \in Iface |-> << >>]
  BY <1>3 DEF LocalLists, GlobalLists
<1>5. Inhabited
  BY <1>3 DEF Inhabited, Empty
<1> QED BY <1>2, <1>3, <1>4, <1>5 DEF Table!Init

(* In every reachable state proxy->ifaces is a list of interfaces, each    *)
(* with a list of modules and one of fabrics.                              *)
THEOREM ListAlwaysTyped == Spec => []ListTypeOK
<1>1. Spec => [](ListInv(list) /\ Inhabited)
  BY ListStart, ListStep, PTL DEF Spec
<1>2. ListInv(list) => ListTypeOK
  BY DEF ListInv, ListTypeOK
<1> QED BY <1>1, <1>2, PTL

(* However modules and fabrics come and go, the interfaces of one name     *)
(* stand in the order of their versions: the first match check_interface   *)
(* meets is the least version that will do.                                *)
THEOREM ListAlwaysByVersion == Spec => []VersionOrder
<1>1. Spec => [](ListInv(list) /\ Inhabited)
  BY ListStart, ListStep, PTL DEF Spec
<1>2. ListInv(list) => VersionOrder
  BY DEF ListInv, VersionOrder
<1> QED BY <1>1, <1>2, PTL

(* The program's list does what the set form of the table promises: every  *)
(* pass of processIntroduce, processResult and iface_remove over it is one *)
(* step of module InterfaceTable.                                          *)
THEOREM ListImplementsTable == Spec => ImplementsTable
<1>1. Spec => Table!Init /\ [][Table!Next]_(Table!tableVars)
  BY ListStart, ListStep, PTL DEF Spec
<1> QED BY <1>1 DEF ImplementsTable, Table!Spec

=============================================================================
