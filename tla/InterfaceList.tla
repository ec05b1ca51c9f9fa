---------------------------- MODULE InterfaceList ---------------------------
(***************************************************************************)
(* The interface table as the program keeps it: proxy->ifaces is one zlist *)
(* of iface_t that check_interface searches from the front, that           *)
(* processIntroduce and the IfaceList branch of processResult extend one   *)
(* interface at a time, and that iface_remove walks.                       *)
(***************************************************************************)
EXTENDS Interfaces, SequencesExt

CONSTANTS Iface, Local, Global

(* An interface is a name and a version; a module's identity is no fabric's*)
(* (send_message tells them apart by their length).                        *)
ASSUME ListAssumption ==
    /\ IsFiniteSet(Iface)
    /\ \A i \in Iface : i = <<i[1], i[2]>> /\ i[2] \in Nat
    /\ Local \cap Global = {}

VARIABLE list    \* proxy->ifaces

Entry == [key : Iface, id_local_list : Seq(Local), id_global_list : Seq(Global)]

ListTypeOK == list \in Seq(Entry)

(* Mutant: only the version asked for is found.                            *)
CheckInterfaceMutant(l, target) == SelectInSeq(l, LAMBDA e : e.key = target)

(* check_interface: the place of the first match, 0 if there is none.      *)
CheckInterface(l, target) ==
    SelectInSeq(l, LAMBDA e : e.key[1] = target[1] /\ e.key[2] >= target[2])

(* One turn of the loops that file an identity under an interface.         *)
Filed(l, i) ==
    IF CheckInterface(l, i) # 0 THEN l
    ELSE Append(l, [key |-> i, id_local_list |-> << >>, id_global_list |-> << >>])

(* Mutant: the identity of a module goes to the list of fabrics.           *)
FileOneLocalMutant(l, i, id) ==
    LET k == CheckInterface(Filed(l, i), i)
    IN  [Filed(l, i) EXCEPT ![k].id_global_list = ListAdd(@, id)]

FileOneLocal(l, i, id) ==
    LET k == CheckInterface(Filed(l, i), i)
    IN  [Filed(l, i) EXCEPT ![k].id_local_list = ListAdd(@, id)]

FileOneGlobal(l, i, id) ==
    LET k == CheckInterface(Filed(l, i), i)
    IN  [Filed(l, i) EXCEPT ![k].id_global_list = ListAdd(@, id)]

Orders(S) == {o \in [1 .. Cardinality(S) -> S] : \A j, k \in DOMAIN o : o[j] = o[k] => j = k}

(* The loops: the interfaces of o in their order.                          *)
FiledLocal(l, o, id) ==
    LET after[n \in 0 .. Len(o)] == IF n = 0 THEN l ELSE FileOneLocal(after[n - 1], o[n], id)
    IN  after[Len(o)]

FiledGlobal(l, o, id) ==
    LET after[n \in 0 .. Len(o)] == IF n = 0 THEN l ELSE FileOneGlobal(after[n - 1], o[n], id)
    IN  after[Len(o)]

(* processIntroduce: provides maps a function to one version, and its keys *)
(* come in hash order.                                                     *)
Introduce(id) ==
    \E S \in SUBSET Iface :
        /\ S # {}
        /\ \A i, j \in S : i[1] = j[1] => i = j
        /\ \E o \in Orders(S) : list' = FiledLocal(list, o, id)

(* The interfaces of a fabric come in the order of that fabric's own list, *)
(* by version if they have the same name (VersionOrder).                   *)
IfaceListResult(id) ==
    \E S \in SUBSET Iface : \E o \in Orders(S) :
        /\ \A j, k \in DOMAIN o : j < k /\ o[j][1] = o[k][1] => o[j][2] < o[k][2]
        /\ list' = FiledGlobal(list, o, id)

(* Mutant: an interface goes when either of its lists is empty.            *)
HasIdentitiesMutant(e) == e.id_local_list # << >> /\ e.id_global_list # << >>

(* iface_remove destroys an interface that has none left.                  *)
HasIdentities(e) == e.id_local_list # << >> \/ e.id_global_list # << >>

Remaining(l) ==
    LET kept[n \in 0 .. Len(l)] ==
            IF n = 0 THEN << >>
            ELSE IF HasIdentities(l[n]) THEN Append(kept[n - 1], l[n])
            ELSE kept[n - 1]
    IN  kept[Len(l)]

(* zlist_remove compares pointers: it finds the identity of a module, and  *)
(* none of a fabric, of which id_global_list keeps a copy.                 *)
Struck(id) == [k \in DOMAIN list |-> [list[k] EXCEPT !.id_local_list = ListRemove(@, id)]]

iface_remove(id) == list' = Remaining(Struck(id))

Init == list = << >>

Next ==
    \/ \E id \in Local : Introduce(id)
    \/ \E id \in Global : IfaceListResult(id)
    \/ \E id \in Local \cup Global : iface_remove(id)

Spec == Init /\ [][Next]_list

-----------------------------------------------------------------------------
ByVersion(l) ==
    \A j, k \in DOMAIN l :
        j < k /\ l[j].key[1] = l[k].key[1] => l[j].key[2] < l[k].key[2]

(* Among interfaces of one name the list is ordered by version, whatever   *)
(* order modules and fabrics come and go in: processIntroduce creates an   *)
(* interface only when check_interface finds no version that is as high.   *)
VersionOrder == ByVersion(list)

(* The refinement mapping onto the set form of the table.                  *)
Keys(l) == {l[k].key : k \in DOMAIN l}

EntryOf(l, i) == l[CHOOSE k \in DOMAIN l : l[k].key = i]

LocalLists(l)  == [i \in Iface |-> IF i \in Keys(l) THEN EntryOf(l, i).id_local_list ELSE << >>]
GlobalLists(l) == [i \in Iface |-> IF i \in Keys(l) THEN EntryOf(l, i).id_global_list ELSE << >>]

Table == INSTANCE InterfaceTable WITH
    ifaces <- Keys(list), id_local_list <- LocalLists(list), id_global_list <- GlobalLists(list)

(* Filing an interface and removing an identity in the program's list do   *)
(* what they do in the set form that Fabric uses.                          *)
ImplementsTable == Table!Spec

=============================================================================
