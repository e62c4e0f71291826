---------------------------- MODULE MCCliConfig ----------------------------
(***************************************************************************)
(* CliConfig for TLC.  Addresses, certificates and invocations are         *)
(* interchangeable.  Where two invocations overlap, TLC follows the hosts  *)
(* up to two certificates at addresses: one that moved, one that got       *)
(* another certificate, or both at once.                                   *)
(***************************************************************************)
EXTENDS CliConfig

Symmetry == Permutations(Addrs) \cup Permutations(Certs) \cup Permutations(Clis)

FewServed == Cardinality(served) <= 2
=============================================================================
