------------------------------- MODULE Beacon -------------------------------
(***************************************************************************)
(* The beacon thread (beacon.c): it tells the fabric the address of this   *)
(* machine, waits twice for a message of the fabric, whatever it says, and *)
(* then announces the daemon to the network.                               *)
(***************************************************************************)
EXTENDS Sequences

VARIABLES
    beacon,    \* how far beacon_thread has come
    toBeacon   \* messages of the fabric it has not read

beaconVars == <<beacon, toBeacon>>

BeaconInit == beacon = "off" /\ toBeacon = << >>

(* zbeacon_hostname, then zstr_sendf(pipe, self).                          *)
SendIP ==
    /\ beacon = "new"
    /\ beacon' = "ip"
    /\ UNCHANGED toBeacon

(* The next message that is awaited, and what follows it.                  *)
Awaits(from, to) ==
    /\ beacon = from
    /\ toBeacon # << >>
    /\ beacon' = to
    /\ toBeacon' = Tail(toBeacon)

beacon_thread == SendIP \/ Awaits("ip", "named") \/ Awaits("named", "published")

=============================================================================
