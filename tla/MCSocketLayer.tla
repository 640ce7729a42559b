--------------------------- MODULE MCSocketLayer ---------------------------
(***************************************************************************)
(* Instances of SocketLayer for TLC.  File descriptors, blocks of memory   *)
(* and interface data are interchangeable: no definition orders them.      *)
(***************************************************************************)
EXTENDS SocketLayer, TLC

Symmetry == Permutations(Fd) \cup Permutations(Lsd) \cup Permutations(Idata)
=============================================================================
