----------------------------- MODULE IpLocator ------------------------------
(***************************************************************************)
(* The IP locator: its search, its records and its addresses.              *)
(* They share no state: a behaviour is one of one of them, the part.       *)
(***************************************************************************)
EXTENDS IpSearch

CONSTANTS
  Bases, RecordTexts, Next4,
  Base, AddressTexts

VARIABLES
  part,
  record, file, recordPc, strCountry, strLocation, ulLocationOffset, behind, pos, ulCount,
  pszIp, pBeg, ulIp, addressPc

recordVars == <<record, file, recordPc, strCountry, strLocation, ulLocationOffset, behind,
                pos, ulCount>>
addressVars == <<pszIp, pBeg, ulIp, addressPc>>
locatorVars == <<part, vars, recordVars, addressVars>>

R == INSTANCE IpRecord WITH Texts <- RecordTexts, pc <- recordPc
A == INSTANCE IpText WITH Texts <- AddressTexts, pc <- addressPc

ASSUME PartsAssumption == R!ConstantsAssumption /\ A!ConstantsAssumption

LocatorInit ==
  /\ part \in {"search", "record", "address"}
  /\ IF part = "search" THEN Init
     ELSE /\ index = <<0>> /\ ipValue = 0 /\ pc = "done"
          /\ indexLeft = IndexStart /\ indexRight = IndexStart /\ indexMid = IndexStart
  /\ IF part = "record" THEN R!Init
     ELSE /\ record = CHOOSE r \in R!Record : TRUE
          /\ file = <<>> /\ recordPc = "done"
          /\ strCountry = <<>> /\ strLocation = <<>> /\ ulLocationOffset = 0
          /\ behind = FALSE /\ pos = 0 /\ ulCount = 1
  /\ IF part = "address" THEN A!Init
     ELSE pszIp = <<>> /\ pBeg = 1 /\ ulIp = 0 /\ addressPc = "done"

LocatorNext ==
  \/ part = "search" /\ Next /\ UNCHANGED <<part, recordVars, addressVars>>
  \/ part = "record" /\ R!Next /\ UNCHANGED <<part, vars, addressVars>>
  \/ part = "address" /\ A!Next /\ UNCHANGED <<part, vars, recordVars>>

LocatorSpec == LocatorInit /\ [][LocatorNext]_locatorVars

\* Search and decoding are plain computations: they go on as long as they can.
FairLocatorSpec == LocatorSpec /\ WF_locatorVars(LocatorNext)

-----------------------------------------------------------------------------
(* The properties of the parts, under names of their own.                  *)

\* Each variable of search, decoder and conversion keeps its type.
TypesOK == TypeOK /\ R!TypeOK /\ A!TypeOK

\* IpFinder.cpp, SearchIp and GetAddressByOffset: search and decoding end, for every index
\* and address and for every record of the format.
AlwaysReturns ==
  /\ part = "search" => SearchReturns
  /\ part = "record" => R!DecodeReturns

\* IpFinder.cpp, GetAddressByOffset: the country comes back whatever the form of the area,
\* and the area with it where it is inline or redirected with 0x02.
DecodesRecord == part = "record" => R!DecodesCountry /\ R!DecodesRecord

\* IpFinder.cpp, IpString2IpValue: a legal address keeps its four numbers.
LegalTextsRoundTrip == A!LegalTextsRoundTrip
=============================================================================
