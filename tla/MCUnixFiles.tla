---------------------------- MODULE MCUnixFiles -----------------------------
(***************************************************************************)
(* An instance of UnixFiles for TLC: handles and sockets are               *)
(* interchangeable.                                                        *)
(***************************************************************************)
EXTENDS UnixFiles, TLC

MCSymmetry == Permutations(Sock)
=============================================================================
