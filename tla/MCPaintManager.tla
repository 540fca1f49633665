--------------------------- MODULE MCPaintManager ---------------------------
(* Two or three controls, two of which have the same name one after the    *)
(* other.                                                                  *)
EXTENDS PaintManager, TLC

CONSTANTS c1, c2, c3, n1, n2

McSuccessors == (c1 :> n1) @@ (c2 :> n1)
McNameOf == (c1 :> n1) @@ (c2 :> n1) @@ (c3 :> n2)

\* The two controls of one name are interchangeable.
SuccessorSymmetry == Permutations({c1, c2})
=============================================================================
