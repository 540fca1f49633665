---------------------------- MODULE MCVpnSession ----------------------------
(* Small instances of VpnSession for TLC.                                  *)
EXTENDS SessionLines, TLC

\* RAS handles are interchangeable: no action or property tells them apart.
HandleSymmetry == Permutations(Handles)
=============================================================================
