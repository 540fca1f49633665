------------------------------ MODULE IpRecord ------------------------------
(***************************************************************************)
(* CIpFinder::GetAddressByOffset: how a record of qqwry.dat is decoded,    *)
(* byte by byte, through its redirections, with the GetString it calls     *)
(* twice.                                                                  *)
(* The file is one record and the texts it refers to, laid out as the      *)
(* comments of the function describe.                                      *)
(***************************************************************************)
EXTENDS Integers, Sequences

CONSTANTS
  Bases,  \* offsets at which the texts of the file may start
  Texts,  \* country and area texts: sequences of bytes that are no modes
  Next4   \* what may follow the record: first bytes of the next record

IP_LENGTH == 4
REDIRECT_MODE_1 == 1
REDIRECT_MODE_2 == 2
EOF == -1

Byte == 0..255

-----------------------------------------------------------------------------
(* The format (external).                                                  *)

Shapes == {"plain", "mode1", "mode1to2", "mode2"}
Areas == {"inline", "mode1", "mode2", "unknown1", "unknown2"}

Offset3(n) == <<n % 256, (n \div 256) % 256, (n \div 65536) % 256>>
Text(t) == t \o <<0>>

\* A record with everything the decoder may have to follow.
Record ==
  [base : Bases, shape : Shapes, area : Areas, country : Texts, location : Texts,
   next : Next4]

CountryAt(r) == r.base
LocationAt(r) == r.base + Len(r.country) + 1
TargetAt(r) == LocationAt(r) + Len(r.location) + 1

AreaBytes(r) ==
  CASE r.area = "inline" -> Text(r.location)
    [] r.area = "mode1" -> <<1>> \o Offset3(LocationAt(r))
    [] r.area = "mode2" -> <<2>> \o Offset3(LocationAt(r))
    [] r.area = "unknown1" -> <<1, 0, 0, 0>>
    [] r.area = "unknown2" -> <<2, 0, 0, 0>>

\* What a record of mode 1 points to.
TargetBytes(r) ==
  CASE r.shape = "mode1" -> Text(r.country) \o AreaBytes(r)
    [] r.shape = "mode1to2" -> <<2>> \o Offset3(CountryAt(r)) \o AreaBytes(r)
    [] OTHER -> <<>>

\* What is taken for granted of the constants: an offset has three bytes.
ConstantsAssumption ==
  /\ Bases \subseteq Nat \ (0..7)
  /\ Texts \subseteq Seq(32..255)
  /\ Next4 \subseteq Byte
  /\ \A r \in Record : TargetAt(r) < 256 * 256 * 256

RecordAt(r) == TargetAt(r) + Len(TargetBytes(r))

RecordBytes(r) ==
  <<255, 0, 0, 1>> \o
  CASE r.shape = "plain" -> Text(r.country) \o AreaBytes(r)
    [] r.shape = "mode2" -> <<2>> \o Offset3(CountryAt(r)) \o AreaBytes(r)
    [] OTHER -> <<1>> \o Offset3(TargetAt(r))

\* The header is the two offsets of the index; its bytes are no text.
FileOf(r) ==
  [k \in 1..r.base |-> IF k <= 8 THEN 200 + k ELSE 0]
    \o Text(r.country) \o Text(r.location) \o TargetBytes(r) \o RecordBytes(r)
    \o <<r.next, 0, 0, 2>>

-----------------------------------------------------------------------------
(* The decoder.                                                            *)

VARIABLES
  record,            \* what the file was made from
  file,              \* its bytes, the one at offset n being file[n + 1]
  pc,                \* "mode", "country", "area", "location" or "done"
  strCountry,
  strLocation,
  ulLocationOffset,
  behind,            \* the area follows the country's text
  pos,               \* where GetString reads
  ulCount            \* what GetString has counted

vars == <<record, file, pc, strCountry, strLocation, ulLocationOffset, behind,
          pos, ulCount>>

\* fgetc after fseek; at the end of the file EOF, which & 0xFF turns into 255.
Fgetc(n) == IF n < Len(file) THEN file[n + 1] ELSE EOF
Value(n) == Fgetc(n) % 256

GetValue3(n) == (Value(n + 2) * 256 + Value(n + 1)) * 256 + Value(n)

TypeOK ==
  /\ file \in Seq(Byte)
  /\ pc \in {"mode", "country", "area", "location", "done"}
  /\ strCountry \in Seq(Byte) /\ strLocation \in Seq(Byte)
  /\ ulLocationOffset \in Nat
  /\ behind \in BOOLEAN
  /\ pos \in Nat
  /\ ulCount \in Nat \ {0}

Init ==
  /\ record \in Record
  /\ file = FileOf(record)
  /\ pc = "mode"
  /\ strCountry = <<>> /\ strLocation = <<>>
  /\ ulLocationOffset = 0
  /\ behind = FALSE
  /\ pos = RecordAt(record)
  /\ ulCount = 1

\* Mutant of StartGetString: the terminating byte is not counted.
StartGetStringFromZero(n) == pos' = n /\ ulCount' = 0

StartGetString(n) == pos' = n /\ ulCount' = 1

\* The redirection of the record: where the country's text is, and where the
\* area is, behind that text or at a fixed place.
ReadMode ==
  LET ulOffset == pos + IP_LENGTH
      nVal == Value(ulOffset)
      ulRedirect == GetValue3(ulOffset + 1)
  IN /\ pc = "mode"
     /\ pc' = "country"
     /\ \/ /\ nVal = REDIRECT_MODE_1 /\ Value(ulRedirect) = REDIRECT_MODE_2
           /\ StartGetString(GetValue3(ulRedirect + 1))
           /\ behind' = FALSE /\ ulLocationOffset' = ulRedirect + 4
        \/ /\ nVal = REDIRECT_MODE_1 /\ Value(ulRedirect) # REDIRECT_MODE_2
           /\ StartGetString(ulRedirect)
           /\ behind' = TRUE /\ ulLocationOffset' = ulRedirect
        \/ /\ nVal = REDIRECT_MODE_2
           /\ StartGetString(ulRedirect)
           /\ behind' = FALSE /\ ulLocationOffset' = ulOffset + 4
        \/ /\ nVal \notin {REDIRECT_MODE_1, REDIRECT_MODE_2}
           /\ StartGetString(ulOffset)
           /\ behind' = TRUE /\ ulLocationOffset' = ulOffset
     /\ UNCHANGED <<record, file, strCountry, strLocation>>

\* One turn of GetString's loop.  At the end of the file it goes on appending
\* what fgetc returns: the position no longer moves.
GetChar ==
  /\ pc \in {"country", "location"}
  /\ Fgetc(pos) \notin {0, EOF}
  /\ IF pc = "country"
     THEN strCountry' = Append(strCountry, Fgetc(pos)) /\ UNCHANGED strLocation
     ELSE strLocation' = Append(strLocation, Fgetc(pos)) /\ UNCHANGED strCountry
  /\ pos' = pos + 1
  /\ ulCount' = ulCount + 1
  /\ UNCHANGED <<record, file, pc, ulLocationOffset, behind>>

\* Mutant of CountryRead: the area is always looked for behind the country.
CountryReadBehind ==
  /\ pc = "country" /\ Fgetc(pos) = 0
  /\ ulLocationOffset' = ulLocationOffset + ulCount
  /\ pc' = "area"
  /\ UNCHANGED <<record, file, strCountry, strLocation, behind, pos, ulCount>>

CountryRead ==
  /\ pc = "country" /\ Fgetc(pos) = 0
  /\ ulLocationOffset' = ulLocationOffset + (IF behind THEN ulCount ELSE 0)
  /\ pc' = "area"
  /\ UNCHANGED <<record, file, strCountry, strLocation, behind, pos, ulCount>>

\* The redirection of the area: the second fgetc is evaluated only if the first
\* byte is no mode 2, and reads the byte behind it.
ReadArea ==
  /\ pc = "area"
  /\ IF \/ Value(ulLocationOffset) = REDIRECT_MODE_2
        \/ Value(ulLocationOffset + 1) = REDIRECT_MODE_1
     THEN /\ ulLocationOffset' = GetValue3(ulLocationOffset + 1)
          /\ StartGetString(GetValue3(ulLocationOffset + 1))
     ELSE UNCHANGED ulLocationOffset /\ StartGetString(ulLocationOffset)
  /\ pc' = "location"
  /\ UNCHANGED <<record, file, strCountry, strLocation, behind>>

LocationRead ==
  /\ pc = "location" /\ Fgetc(pos) = 0
  /\ pc' = "done"
  /\ UNCHANGED <<record, file, strCountry, strLocation, ulLocationOffset,
                 behind, pos, ulCount>>

Next == ReadMode \/ GetChar \/ CountryRead \/ ReadArea \/ LocationRead

Spec == Init /\ [][Next]_vars

\* The decoder is a plain computation: it goes on as long as it can.
FairSpec == Spec /\ WF_vars(Next)

-----------------------------------------------------------------------------
(* Properties.                                                             *)

\* In every combination of redirections of the record with an area that is
\* inline or redirected with mode 2, both texts come back complete, whether
\* they lie before or behind the record: the area is looked for behind the
\* country's text only where the text really precedes it.  An inline area of no
\* characters is left out: its second byte belongs to the next record.
DecodesRecord ==
  pc = "done" /\ record.area \in {"inline", "mode2"} /\ record.location # <<>> =>
    strCountry = record.country /\ strLocation = record.location

\* The country comes back whatever the form of the area.
DecodesCountry == pc \notin {"mode", "country"} => strCountry = record.country

\* Decoding ends for every record laid out as the comments describe: no offset
\* is read from a wrong place, which could lead behind the last zero byte.
DecodeReturns == <>(pc = "done")
=============================================================================
