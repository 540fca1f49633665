------------------------------ MODULE IpSearch ------------------------------
(***************************************************************************)
(* CIpFinder::SearchIp: the binary search for an address in the index of   *)
(* qqwry.dat, the whole index as every caller searches it.  Entry k, at    *)
(* byte IndexStart + 7 * (k - 1), starts with the first address of a range *)
(* of addresses that ends where the next entry's range starts.             *)
(***************************************************************************)
EXTENDS Naturals, Sequences

CONSTANTS
  IndexStart,  \* m_indexStart, the offset of the first entry
  MaxIp,       \* the largest address, 2^32 - 1
  Indexes      \* the indexes considered: sequences of first addresses

INDEX_LENGTH == 7

ASSUME StartAssumption == IndexStart \in Nat
ASSUME MaxIpAssumption == MaxIp \in Nat
ASSUME IndexesAssumption == Indexes \subseteq Seq(0..MaxIp) \ {<<>>}

VARIABLES
  index,   \* the first addresses of the entries
  ipValue,
  indexLeft,
  indexRight,
  indexMid,
  pc       \* "loop", or "done" when indexMid has been returned

vars == <<index, ipValue, indexLeft, indexRight, indexMid, pc>>

Entries == 1..Len(index)
OffsetOf(k) == IndexStart + INDEX_LENGTH * (k - 1)

\* m_indexEnd is the offset of the last entry, not the byte after it.
IndexEnd == OffsetOf(Len(index))

\* The address at an offset of the index.
EntryAt(offset) == (offset - IndexStart) \div INDEX_LENGTH + 1
GetValue4(offset) == index[EntryAt(offset)]

\* Mutants of Middle: half of the bytes instead of half of the entries, and
\* half of the entries rounded up.
MiddleByte(left, right) == (right - left) \div 2 + left
MiddleUp(left, right) ==
  (((right - left) \div INDEX_LENGTH + 1) \div 2) * INDEX_LENGTH + left

Middle(left, right) ==
  (((right - left) \div INDEX_LENGTH) \div 2) * INDEX_LENGTH + left

TypeOK ==
  /\ index \in Seq(0..MaxIp) \ {<<>>}
  /\ ipValue \in 0..MaxIp
  /\ {indexLeft, indexRight, indexMid} \subseteq {OffsetOf(k) : k \in Entries}
  /\ pc \in {"loop", "done"}

Init ==
  /\ index \in Indexes
  /\ ipValue \in 0..MaxIp
  /\ indexLeft = IndexStart
  /\ indexRight = IndexEnd
  /\ indexMid = Middle(indexLeft, indexRight)
  /\ pc = "loop"

\* Mutant of Turn: the end of the search is moved before the middle, as in a
\* search for an exact match.
TurnExact ==
  /\ pc = "loop"
  /\ IF ipValue < GetValue4(indexMid)
     THEN indexRight' = (IF indexMid = IndexStart THEN indexMid
                         ELSE indexMid - INDEX_LENGTH) /\ UNCHANGED indexLeft
     ELSE indexLeft' = indexMid /\ UNCHANGED indexRight
  /\ indexMid' = Middle(indexLeft', indexRight')
  /\ pc' = IF indexLeft' < indexMid' THEN "loop" ELSE "done"
  /\ UNCHANGED <<index, ipValue>>

\* One turn of the loop, with the test at its end.
Turn ==
  /\ pc = "loop"
  /\ IF ipValue < GetValue4(indexMid)
     THEN indexRight' = indexMid /\ UNCHANGED indexLeft
     ELSE indexLeft' = indexMid /\ UNCHANGED indexRight
  /\ indexMid' = Middle(indexLeft', indexRight')
  /\ pc' = IF indexLeft' < indexMid' THEN "loop" ELSE "done"
  /\ UNCHANGED <<index, ipValue>>

Next == Turn

Spec == Init /\ [][Next]_vars

\* The loop is a plain computation: it goes on as long as it can.
FairSpec == Spec /\ WF_vars(Next)

-----------------------------------------------------------------------------
(* Properties.                                                             *)

\* Entry k is the one whose range of addresses holds ip.
Covers(k, ip) == index[k] <= ip /\ (k = Len(index) \/ ip < index[k + 1])

\* The offset returned is that of the entry which covers the address, for all
\* addresses from the first entry's to just before the last entry's: whatever
\* the number of entries, the halving never steps over the entry.
FindsEntry ==
  pc = "done" /\ index[1] <= ipValue /\ ipValue < index[Len(index)] =>
    Covers(EntryAt(indexMid), ipValue)

\* The loop ends although it compares the middle, rounded down, with the left.
SearchReturns == <>(pc = "done")

\* The comments of SearchIp and GetAddressByIp2 know no exception for the last
\* entry: every address that lies in the range of an entry gets that entry.
FindsEveryEntry ==
  pc = "done" /\ index[1] <= ipValue => Covers(EntryAt(indexMid), ipValue)
=============================================================================
