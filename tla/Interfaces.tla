----------------------------- MODULE Interfaces -----------------------------
(***************************************************************************)
(* The interface table of the fabric (interface.c and check_interface of   *)
(* modbusd.c) as operators on a set of interfaces and a list of identities *)
(* per interface.  The program keeps one zlist of interfaces; module       *)
(* InterfaceList models that list and shows that, among interfaces of the  *)
(* same name, it is ordered by version, so that "the first match in the    *)
(* list" is "the match with the least version", which is what is used here.*)
(***************************************************************************)
EXTENDS Integers, Sequences

(* czmq (external): the items of a zlist.                                  *)
Items(list) == {list[k] : k \in 1 .. Len(list)}

(* czmq (external): zlist_remove unlinks one matching node.  A list of     *)
(* identities holds no identity twice, so which one does not matter.       *)
ListRemove(list, id) ==
    IF id \notin Items(list)
    THEN list
    ELSE LET k == CHOOSE j \in 1 .. Len(list) : list[j] = id
         IN  [j \in 1 .. Len(list) - 1 |-> IF j < k THEN list[j] ELSE list[j + 1]]

(* iface_append_local and iface_append_global: append unless present.      *)
ListAdd(list, id) == IF id \in Items(list) THEN list ELSE Append(list, id)

(* check_interface: interfaces of table with the name and at least the     *)
(* version asked for.                                                      *)
Matches(table, target) == {i \in table : i[1] = target[1] /\ i[2] >= target[2]}

Least(S) == CHOOSE i \in S : \A j \in S : i[2] <= j[2]

(* Where processIntroduce, or an IfaceList result, files interface i: the  *)
(* first match of check_interface, else a new interface.                   *)
Home(table, i) ==
    IF Matches(table, i) = {} THEN i ELSE Least(Matches(table, i))

Homes(table, list) == {Home(table, i) : i \in list}

(* The lists once identity id has been appended to those of the interfaces *)
(* in homes, and once it has been removed from all of them.                *)
FiledIn(lists, homes, id) ==
    [i \in DOMAIN lists |-> IF i \in homes THEN ListAdd(lists[i], id) ELSE lists[i]]

StruckFrom(lists, id) == [i \in DOMAIN lists |-> ListRemove(lists[i], id)]

(* iface_remove drops the interfaces that are left with two empty lists.   *)
Empty(table, local, global) == {i \in table : local[i] = << >> /\ global[i] = << >>}

=============================================================================
