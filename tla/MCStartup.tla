----------------------------- MODULE MCStartup -----------------------------
(***************************************************************************)
(* Startup for TLC: three ports, one leaf that has expired and one that is *)
(* valid, the template of config init and a configuration with a port.     *)
(***************************************************************************)
EXTENDS Startup

CONSTANTS old, new

Fixed == [port |-> 3, mdns |-> TRUE]

MCTaken    == {{1, 2}, Ports}
MCContents == {Template, Fixed}
MCBundles  == {old, new}
MCValid    == {new}
=============================================================================
