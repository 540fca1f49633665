----------------------------- MODULE MCIpSearch -----------------------------
(* All indexes over a small range of addresses.                            *)
EXTENDS IpSearch, FiniteSets

\* A file is sorted by first address; every set of first addresses is one.
Sorted(S) ==
  [k \in 1..Cardinality(S) |->
     CHOOSE x \in S : Cardinality({y \in S : y < x}) = k - 1]

McIndexes == {Sorted(S) : S \in SUBSET (0..MaxIp) \ {{}}}
=============================================================================
