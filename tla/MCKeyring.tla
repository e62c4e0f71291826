----------------------------- MODULE MCKeyring -----------------------------
(***************************************************************************)
(* Keyring for TLC.  Invocations are interchangeable.                      *)
(***************************************************************************)
EXTENDS Keyring, TLC

Symmetry == Permutations(Clis)

(* Two key pairs are made where invocations overlap, three where none do.  *)
FewKeys == overlapped => keys < MaxKeys
=============================================================================
