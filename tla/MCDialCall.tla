----------------------------- MODULE MCDialCall -----------------------------
(* A small instance of DialCall for TLC.                                   *)
EXTENDS DialCall, TLC

CONSTANTS google, other

\* The defaults of ReadConfig: a DNS server and the global mode.
McDefault == [dns1 |-> google, dns2 |-> google, mode |-> 1]

SecretSymmetry == Permutations(Secrets)
=============================================================================
