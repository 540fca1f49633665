----------------------------- MODULE MCSqlite3 ------------------------------
(***************************************************************************)
(* CppSQLite3 for TLC: the binary buffer and the ownership of statements.  *)
(* The two share no state: a behaviour is one of one of them, the part.    *)
(***************************************************************************)
EXTENDS SqlBinary, TLC

CONSTANTS Databases, Queries, Statements, Handles, VMs, NONE

VARIABLES
  part,
  mpDB, opened, vm, dbOf, qVM, mbEof, mbOwnVM, sVM, leaked, spoiled

ownerVars == <<mpDB, opened, vm, dbOf, qVM, mbEof, mbOwnVM, sVM, leaked, spoiled>>

Owners == INSTANCE SqlWrapper

ASSUME OwnersAssumption == Owners!ConstantsAssumption

McInit == part \in {"owners", "binary"} /\ Init /\ Owners!Init

McNext ==
  \/ part = "owners" /\ Owners!Next /\ UNCHANGED <<part, vars>>
  \/ part = "binary" /\ Next /\ UNCHANGED <<part, ownerVars>>

\* Nothing tells two databases, queries, statements, handles or VMs apart.
ObjectSymmetry ==
  UNION {Permutations(Databases), Permutations(Queries), Permutations(Statements),
         Permutations(Handles), Permutations(VMs)}

McSpec == McInit /\ [][McNext]_<<part, vars, ownerVars>>

-----------------------------------------------------------------------------
(* The properties of the parts, under names of their own.                  *)

\* Each member of the objects keeps its type.
TypesOK == TypeOK /\ Owners!TypeOK

\* CppSQLite3Binary and encode.c: bytes and text stay those of the blob, and the text fits
\* the buffer and can stand between quotes.
BlobIntact == BlobKept /\ BufferHolds /\ TextIsQuotable

\* CppSQLite3.cpp: every VM that is allocated has one owner, or was in a statement that was
\* assigned to; no object is left with the address of one that has been freed; and an owning
\* query that is not at its end stands on a row.  Not so only at addresses that a borrower's
\* failing step, or a statement finalized before its queries, freed under another object.
VMsOwned == Owners!OneOwner /\ Owners!NoStaleVM /\ Owners!NotAtEofHasRow

\* CppSQLite3.cpp: every open handle can still be closed, and no VM outlives its handle.
HandlesHeld == Owners!HandlesHeld
=============================================================================
