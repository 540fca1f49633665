---------------------------- MODULE MCContainers ----------------------------
(***************************************************************************)
(* The tables and containers of DuiLib for TLC.                            *)
(***************************************************************************)
EXTENDS Containers, TLC

\* Elements and options are three of the four model values that are nodes, pages and items.
Symmetry == Permutations(Elements)
=============================================================================
