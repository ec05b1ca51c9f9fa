-------------------------- MODULE MCInterfaceList ---------------------------
(* Two functions, one of them in two versions; two modules, one fabric.    *)
EXTENDS InterfaceList

MCIface == {<<"m:f", 1>>, <<"m:f", 2>>, <<"m:g", 1>>}

=============================================================================
