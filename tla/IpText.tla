------------------------------- MODULE IpText -------------------------------
(***************************************************************************)
(* The texts of addresses in CIpFinder: IsRightIpString, the turns of      *)
(* IpString2IpValue over the parts of a text, and IpValue2IpString.        *)
(***************************************************************************)
EXTENDS Integers, Sequences

CONSTANTS
  Base,   \* values of one part of an address: 0x100
  Texts   \* the texts considered: sequences of characters

\* Characters: the ten digits, the dot and one that is neither.
Dot == 10
Other == 11
isdigit(c) == c \in 0..9

Word == Base * Base * Base * Base

\* What is taken for granted of the constants.
ConstantsAssumption ==
  /\ Base \in Nat \ {0}
  /\ Texts \subseteq Seq(0..Other)

VARIABLES
  pszIp,
  pBeg,   \* where the current part begins
  ulIp,   \* unsigned long, 32 bits
  pc      \* "check", "parts" or "done"

vars == <<pszIp, pBeg, ulIp, pc>>

TypeOK ==
  /\ pszIp \in Seq(0..Other)
  /\ pBeg \in 1..(Len(pszIp) + 1)
  /\ ulIp \in 0..(Word - 1)
  /\ pc \in {"check", "parts", "done"}

\* At least "0.0.0.0"; digits and dots, with no dot beside a dot.
IsRightIpString(t) ==
  /\ Len(t) >= 7
  /\ \A i \in 1..Len(t) :
       \/ isdigit(t[i])
       \/ /\ t[i] = Dot
          /\ i > 1 => isdigit(t[i - 1])
          /\ i < Len(t) => isdigit(t[i + 1])

\* strchr: the first dot at or behind i, 0 if there is none.
NextDot(i) ==
  LET dots == {k \in i..Len(pszIp) : pszIp[k] = Dot}
  IN IF dots = {} THEN 0 ELSE CHOOSE k \in dots : \A j \in dots : k <= j

\* The number that the characters of t from b to e are.
Number(t, b, e) ==
  LET n[k \in 0..(e - b + 1)] == IF k = 0 THEN 0 ELSE 10 * n[k - 1] + t[b + k - 1]
  IN n[e - b + 1]

\* atoi of the part that begins at i; the parts considered stay below 2^31.
Atoi(i) ==
  Number(pszIp, i, IF NextDot(i) = 0 THEN Len(pszIp) ELSE NextDot(i) - 1)

Init ==
  /\ pszIp \in Texts
  /\ pBeg = 1
  /\ ulIp = 0
  /\ pc = "check"

\* A text that is refused has the value 0.
Check ==
  /\ pc = "check"
  /\ pc' = IF IsRightIpString(pszIp) THEN "parts" ELSE "done"
  /\ UNCHANGED <<pszIp, pBeg, ulIp>>

\* Mutant of Part: the value so far is shifted before the part is added.
PartShiftsFirst ==
  /\ pc = "parts" /\ NextDot(pBeg) # 0
  /\ ulIp' = (ulIp * Base + Atoi(pBeg)) % Word
  /\ pBeg' = NextDot(pBeg) + 1
  /\ UNCHANGED <<pszIp, pc>>

\* A part with a dot behind it.
Part ==
  /\ pc = "parts" /\ NextDot(pBeg) # 0
  /\ ulIp' = ((ulIp + Atoi(pBeg)) * Base) % Word
  /\ pBeg' = NextDot(pBeg) + 1
  /\ UNCHANGED <<pszIp, pc>>

LastPart ==
  /\ pc = "parts" /\ NextDot(pBeg) = 0
  /\ ulIp' = (ulIp + Atoi(pBeg)) % Word
  /\ pc' = "done"
  /\ UNCHANGED <<pszIp, pBeg>>

Next == Check \/ Part \/ LastPart

Spec == Init /\ [][Next]_vars

\* The numbers IpValue2IpString prints, from the first to the last.
IpValue2IpString(value) ==
  <<value \div (Base * Base * Base), (value \div (Base * Base)) % Base,
    (value \div Base) % Base, value % Base>>

-----------------------------------------------------------------------------
(* Properties.                                                             *)

\* Three dots of a text, and the places before and behind it: the limits of four parts.
Dots(t) == {k \in 1..Len(t) : t[k] = Dot}
Limits(t) == {<<0, d[1], d[2], d[3], Len(t) + 1>> : d \in [1..3 -> Dots(t)]}

Parts(t, d) == [k \in 1..4 |-> Number(t, d[k] + 1, d[k + 1] - 1)]

\* Four numbers of one byte each between three dots.
Legal(t, d) ==
  \A k \in 1..4 :
    /\ d[k] + 1 < d[k + 1]
    /\ \A i \in (d[k] + 1)..(d[k + 1] - 1) : isdigit(t[i])
    /\ Parts(t, d)[k] < Base

\* Every legal address is accepted, none is refused for its length or for a dot
\* near an end, and its value prints as the same four numbers: shifting and
\* adding part by part loses nothing of 32 bits.
LegalTextsRoundTrip ==
  pc = "done" =>
    \A d \in Limits(pszIp) : Legal(pszIp, d) => IpValue2IpString(ulIp) = Parts(pszIp, d)
=============================================================================
