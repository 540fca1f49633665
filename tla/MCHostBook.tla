----------------------------- MODULE MCHostBook -----------------------------
(* Small instances of HostBook for TLC.                                    *)
EXTENDS HostBook, TLC

CONSTANTS plain, quoted, doubled, quadrupled

\* A text without apostrophes is stored as it is, one apostrophe ends the
\* literal too early, and every two of them are stored as one.
McStoredAs ==
  [t \in Texts |->
     CASE t = quoted -> Rejected
       [] t = doubled -> quoted
       [] t = quadrupled -> doubled
       [] OTHER -> t]

WindowSymmetry == Permutations(Windows)
=============================================================================
