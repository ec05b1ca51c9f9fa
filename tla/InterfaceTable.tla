--------------------------- MODULE InterfaceTable ---------------------------
(***************************************************************************)
(* What the interface table promises: a set of interfaces, each with the   *)
(* identities behind it.  A request finds the least version that is at     *)
(* least the one asked for.  Fabric uses the table in this form; module    *)
(* InterfaceList shows that the program's linked list implements it.       *)
(***************************************************************************)
EXTENDS Interfaces

CONSTANTS Iface, Local, Global

VARIABLES ifaces, id_local_list, id_global_list

tableVars == <<ifaces, id_local_list, id_global_list>>

Init ==
    /\ ifaces = {}
    /\ id_local_list = [i \in Iface |-> << >>]
    /\ id_global_list = [i \in Iface |-> << >>]

FileLocal(id, list) ==
    LET homes == Homes(ifaces, list)
    IN  /\ ifaces' = ifaces \cup homes
        /\ id_local_list' = FiledIn(id_local_list, homes, id)
        /\ UNCHANGED id_global_list

FileGlobal(id, list) ==
    LET homes == Homes(ifaces, list)
    IN  /\ ifaces' = ifaces \cup homes
        /\ id_global_list' = FiledIn(id_global_list, homes, id)
        /\ UNCHANGED id_local_list

RemoveLocal(id) ==
    /\ id_local_list' = StruckFrom(id_local_list, id)
    /\ ifaces' = ifaces \ Empty(ifaces, id_local_list', id_global_list)
    /\ UNCHANGED id_global_list

Next ==
    \/ \E id \in Local, list \in SUBSET Iface : FileLocal(id, list)
    \/ \E id \in Global, list \in SUBSET Iface : FileGlobal(id, list)
    \/ \E id \in Local : RemoveLocal(id)

Spec == Init /\ [][Next]_tableVars

=============================================================================
