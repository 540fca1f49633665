--------------------------- MODULE IpLocator_proof --------------------------
(***************************************************************************)
(* The IP locator of IpLocator, for an index, records and addresses of any *)
(* length: the search finds the entry, the decoder both texts, and a legal *)
(* address keeps its value.                                                *)
(***************************************************************************)
EXTENDS IpLocator, SequenceTheorems, WellFoundedInduction, TLAPS

-----------------------------------------------------------------------------
(* The search.                                                             *)

\* The loop invariant: both ends are offsets of entries, the middle is the
\* entry half way between them, rounded down; the address is not below the
\* left entry unless that is the first, and below the right one unless that is
\* the last; and when the loop has ended the ends are at most neighbours.
SearchInv ==
  /\ index \in Seq(0..MaxIp)
  /\ ipValue \in 0..MaxIp
  /\ pc \in {"loop", "done"}
  /\ \E a, b \in Entries :
       /\ a <= b
       /\ indexLeft = OffsetOf(a) /\ indexRight = OffsetOf(b)
       /\ indexMid = OffsetOf(a + ((b - a) \div 2))
       /\ a = 1 \/ index[a] <= ipValue
       /\ b = Len(index) \/ ipValue < index[b]
       /\ pc = "done" => b <= a + 1

\* EntryAt undoes OffsetOf.
LEMMA EntryAtOffset ==
  ASSUME NEW k \in Nat \ {0}
  PROVE  EntryAt(OffsetOf(k)) = k
<1>1. OffsetOf(k) - IndexStart = 7 * (k - 1)
  BY StartAssumption DEF OffsetOf, INDEX_LENGTH
<1>2. (7 * (k - 1)) \div 7 = k - 1
  OBVIOUS
<1> QED  BY <1>1, <1>2 DEF EntryAt, INDEX_LENGTH

\* Dividing before multiplying keeps the middle on an entry.
LEMMA MiddleIsEntry ==
  ASSUME NEW a \in Nat \ {0}, NEW b \in Nat \ {0}, a <= b
  PROVE  Middle(OffsetOf(a), OffsetOf(b)) = OffsetOf(a + ((b - a) \div 2))
<1>1. OffsetOf(b) - OffsetOf(a) = 7 * (b - a)
  BY StartAssumption DEF OffsetOf, INDEX_LENGTH
<1>2. (7 * (b - a)) \div 7 = b - a
  OBVIOUS
<1>3. PICK m \in Nat : m = (b - a) \div 2
  OBVIOUS
<1>4. m * 7 + OffsetOf(a) = OffsetOf(a + m)
  BY StartAssumption DEF OffsetOf, INDEX_LENGTH
<1> QED  BY <1>1, <1>2, <1>3, <1>4 DEF Middle, INDEX_LENGTH

\* What is read from the index is an address.
LEMMA AddressesAreNumbers ==
  ASSUME SearchInv, NEW k \in Entries
  PROVE  index[k] \in Nat /\ ipValue \in Nat
<1>1. index \in Seq(0..MaxIp) /\ ipValue \in 0..MaxIp
  BY DEF SearchInv
<1>2. index[k] \in 0..MaxIp
  BY <1>1, ElementOfSeq DEF Entries
<1> QED  BY <1>1, <1>2, MaxIpAssumption

\* The invariant holds before the first turn of the loop.
LEMMA SearchInvInit == Init => SearchInv
<1> SUFFICES ASSUME Init PROVE SearchInv
  OBVIOUS
<1>1. index \in Seq(0..MaxIp) /\ index # <<>>
  BY IndexesAssumption DEF Init
<1>2. Len(index) \in Nat \ {0}
  BY <1>1
<1>3. 1 \in Entries /\ Len(index) \in Entries
  BY <1>2 DEF Entries
<1>4. OffsetOf(1) = IndexStart
  BY StartAssumption DEF OffsetOf, INDEX_LENGTH
<1>5. indexMid = OffsetOf(1 + ((Len(index) - 1) \div 2))
  BY <1>2, <1>4, MiddleIsEntry DEF Init, IndexEnd
<1>6. index \in Seq(0..MaxIp) /\ ipValue \in 0..MaxIp /\ pc = "loop"
  BY <1>1 DEF Init
<1>7. indexLeft = OffsetOf(1) /\ indexRight = OffsetOf(Len(index))
  BY <1>4 DEF Init, IndexEnd
<1>8. 1 <= Len(index)
  BY <1>2
<1> QED  BY <1>3, <1>5, <1>6, <1>7, <1>8 DEF SearchInv

\* A turn of the loop keeps the invariant.
LEMMA SearchInvNext == SearchInv /\ [Next]_vars => SearchInv'
<1> SUFFICES ASSUME SearchInv, [Next]_vars PROVE SearchInv'
  OBVIOUS
<1>1. CASE UNCHANGED vars
  BY <1>1 DEF vars, SearchInv, Entries, OffsetOf
<1>2. CASE Turn
  <2>1. PICK a \in Entries, b \in Entries :
          /\ a <= b
          /\ indexLeft = OffsetOf(a) /\ indexRight = OffsetOf(b)
          /\ indexMid = OffsetOf(a + ((b - a) \div 2))
          /\ a = 1 \/ index[a] <= ipValue
          /\ b = Len(index) \/ ipValue < index[b]
    BY DEF SearchInv
  <2> DEFINE m == a + ((b - a) \div 2)
  <2>2. Len(index) \in Nat /\ a \in Nat \ {0} /\ b \in Nat \ {0} /\ b <= Len(index)
    BY DEF SearchInv, Entries
  <2>3. m \in Nat \ {0} /\ a <= m /\ m <= b /\ (m < b \/ a = b)
    BY <2>1, <2>2
  <2>4. m \in Entries
    BY <2>2, <2>3 DEF Entries
  <2>5. GetValue4(indexMid) = index[m]
    BY <2>1, <2>3, EntryAtOffset DEF GetValue4
  <2>6. index[m] \in Nat /\ ipValue \in Nat
    BY <2>4, AddressesAreNumbers
  <2>7. index' = index /\ ipValue' = ipValue
    BY <1>2 DEF Turn
  <2>8. CASE ipValue < GetValue4(indexMid)
    <3>1. indexRight' = OffsetOf(m) /\ indexLeft' = OffsetOf(a)
      BY <1>2, <2>1, <2>8 DEF Turn
    <3>2. indexMid' = OffsetOf(a + ((m - a) \div 2))
      BY <1>2, <3>1, <2>2, <2>3, MiddleIsEntry DEF Turn
    <3>3. pc' = "done" => m <= a + 1
      <4>1. pc' = "done" => ~(OffsetOf(a) < OffsetOf(a + ((m - a) \div 2)))
        BY <1>2, <3>1, <3>2 DEF Turn
      <4>2. PICK q \in Nat : q = (m - a) \div 2
        BY <2>2, <2>3
      <4>3. q > 0 => OffsetOf(a) < OffsetOf(a + q)
        BY <2>2, <4>2, StartAssumption DEF OffsetOf, INDEX_LENGTH
      <4>4. m > a + 1 => q > 0
        BY <2>2, <2>3, <4>2
      <4> QED  BY <4>1, <4>2, <4>3, <4>4, <2>2, <2>3
    <3>4. ipValue < index[m]
      BY <2>5, <2>8
    <3>5. pc' \in {"loop", "done"}
      BY <1>2 DEF Turn
    <3> HIDE DEF m
    <3> QED
      BY <2>1, <2>3, <2>4, <2>7, <3>1, <3>2, <3>3, <3>4, <3>5
      DEF SearchInv, Entries, OffsetOf
  <2>9. CASE ~(ipValue < GetValue4(indexMid))
    <3>1. indexLeft' = OffsetOf(m) /\ indexRight' = OffsetOf(b)
      BY <1>2, <2>1, <2>9 DEF Turn
    <3>2. indexMid' = OffsetOf(m + ((b - m) \div 2))
      BY <1>2, <3>1, <2>2, <2>3, MiddleIsEntry DEF Turn
    <3>3. pc' = "done" => b <= m + 1
      <4>1. pc' = "done" => ~(OffsetOf(m) < OffsetOf(m + ((b - m) \div 2)))
        BY <1>2, <3>1, <3>2 DEF Turn
      <4>2. PICK q \in Nat : q = (b - m) \div 2
        BY <2>2, <2>3
      <4>3. q > 0 => OffsetOf(m) < OffsetOf(m + q)
        BY <2>3, <4>2, StartAssumption DEF OffsetOf, INDEX_LENGTH
      <4>4. b > m + 1 => q > 0
        BY <2>2, <2>3, <4>2
      <4> QED  BY <4>1, <4>2, <4>3, <4>4, <2>2, <2>3
    <3>4. index[m] <= ipValue
      BY <2>5, <2>6, <2>9
    <3>5. pc' \in {"loop", "done"}
      BY <1>2 DEF Turn
    <3> HIDE DEF m
    <3> QED
      BY <2>1, <2>3, <2>4, <2>7, <3>1, <3>2, <3>3, <3>4, <3>5
      DEF SearchInv, Entries, OffsetOf
  <2> QED  BY <2>8, <2>9
<1> QED  BY <1>1, <1>2 DEF Next

\* The entries on either side of the address when the loop has ended.
LEMMA SearchInvFinds == SearchInv => FindsEntry
<1> SUFFICES ASSUME SearchInv, pc = "done", index[1] <= ipValue,
                    ipValue < index[Len(index)]
             PROVE  Covers(EntryAt(indexMid), ipValue)
  BY DEF FindsEntry
<1>1. PICK a \in Entries, b \in Entries :
        /\ a <= b /\ b <= a + 1
        /\ indexMid = OffsetOf(a + ((b - a) \div 2))
        /\ a = 1 \/ index[a] <= ipValue
        /\ b = Len(index) \/ ipValue < index[b]
  BY DEF SearchInv
<1>2. a \in Nat \ {0} /\ b \in Nat /\ Len(index) \in Nat
  BY DEF SearchInv, Entries
<1>3. (b - a) \div 2 = 0
  BY <1>1, <1>2
<1>4. EntryAt(indexMid) = a
  BY <1>1, <1>2, <1>3, EntryAtOffset
<1>5. index[a] <= ipValue
  BY <1>1
<1>6. index[a] \in Nat /\ index[b] \in Nat /\ ipValue \in Nat
  BY AddressesAreNumbers
<1>7. ipValue < index[b]
  BY <1>1
<1>8. b = a + 1
  BY <1>1, <1>2, <1>5, <1>6, <1>7
<1> QED  BY <1>4, <1>5, <1>7, <1>8 DEF Covers

-----------------------------------------------------------------------------
(* Places in a file.                                                       *)

\* The bytes s are in the file f from the offset n on.
At(f, n, s) ==
  /\ n \in Nat
  /\ n + Len(s) <= Len(f)
  /\ \A k \in 1..Len(s) : f[n + k] = s[k]

LEMMA AtEnd ==
  ASSUME NEW S, NEW f \in Seq(S), NEW s \in Seq(S)
  PROVE  f \o s \in Seq(S) /\ Len(f \o s) = Len(f) + Len(s) /\ At(f \o s, Len(f), s)
BY DEF At

LEMMA AtBefore ==
  ASSUME NEW S, NEW f \in Seq(S), NEW s \in Seq(S), NEW t \in Seq(S), NEW n, At(f, n, s)
  PROVE  At(f \o t, n, s)
BY DEF At

LEMMA AtParts ==
  ASSUME NEW S, NEW f \in Seq(S), NEW s \in Seq(S), NEW t \in Seq(S), NEW n, At(f, n, s \o t)
  PROVE  At(f, n, s) /\ At(f, n + Len(s), t)
<1> DEFINE u == s \o t
<1>1. /\ u \in Seq(S) /\ Len(u) = Len(s) + Len(t)
      /\ \A k \in 1..Len(s) : u[k] = s[k]
      /\ \A k \in 1..Len(t) : u[Len(s) + k] = t[k]
  OBVIOUS
<1>2. /\ n \in Nat /\ n + Len(u) <= Len(f)
      /\ \A k \in 1..Len(u) : f[n + k] = u[k]
  BY DEF At
<1> HIDE DEF u
<1>3. At(f, n, s)
  BY <1>1, <1>2 DEF At
<1>4. ASSUME NEW k \in 1..Len(t) PROVE f[n + Len(s) + k] = t[k]
  <2>1. Len(s) + k \in 1..Len(u) /\ n + (Len(s) + k) = n + Len(s) + k
    BY <1>1, <1>2
  <2> QED BY <1>1, <1>2, <2>1
<1>5. n + Len(s) \in Nat /\ n + Len(s) + Len(t) <= Len(f)
  BY <1>1, <1>2
<1> QED BY <1>3, <1>4, <1>5 DEF At

\* Six parts of a file are one behind the other.
LEMMA AtEach ==
  ASSUME NEW S, NEW a \in Seq(S), NEW b \in Seq(S), NEW c \in Seq(S), NEW d \in Seq(S),
         NEW e \in Seq(S), NEW g \in Seq(S), NEW f, f = a \o b \o c \o d \o e \o g
  PROVE  /\ f \in Seq(S)
         /\ At(f, Len(a), b)
         /\ At(f, Len(a) + Len(b), c)
         /\ At(f, Len(a) + Len(b) + Len(c), d)
         /\ At(f, Len(a) + Len(b) + Len(c) + Len(d), e)
<1> DEFINE ab == a \o b
           ac == ab \o c
           ad == ac \o d
           ae == ad \o e
<1>1. ab \in Seq(S) /\ Len(ab) = Len(a) + Len(b) /\ At(ab, Len(a), b)
  BY ONLY AtEnd, a \in Seq(S), b \in Seq(S)
<1>2. f = ae \o g
  OBVIOUS
<1> HIDE DEF ab
<1>3. ac \in Seq(S) /\ Len(ac) = Len(ab) + Len(c) /\ At(ac, Len(ab), c)
  BY ONLY AtEnd, <1>1, c \in Seq(S)
<1>4. At(ac, Len(a), b)
  BY ONLY AtBefore, <1>1, b \in Seq(S), c \in Seq(S)
<1> HIDE DEF ac
<1>5. ad \in Seq(S) /\ Len(ad) = Len(ac) + Len(d) /\ At(ad, Len(ac), d)
  BY ONLY AtEnd, <1>3, d \in Seq(S)
<1>6. At(ad, Len(a), b) /\ At(ad, Len(ab), c)
  BY ONLY AtBefore, <1>3, <1>4, b \in Seq(S), c \in Seq(S), d \in Seq(S)
<1> HIDE DEF ad
<1>7. ae \in Seq(S) /\ Len(ae) = Len(ad) + Len(e) /\ At(ae, Len(ad), e)
  BY ONLY AtEnd, <1>5, e \in Seq(S)
<1>8. At(ae, Len(a), b) /\ At(ae, Len(ab), c) /\ At(ae, Len(ac), d)
  BY ONLY AtBefore, <1>5, <1>6, b \in Seq(S), c \in Seq(S), d \in Seq(S), e \in Seq(S)
<1> HIDE DEF ae
<1>9. f \in Seq(S)
  BY ONLY AtEnd, <1>2, <1>7, g \in Seq(S)
<1>10. /\ At(f, Len(a), b) /\ At(f, Len(ab), c) /\ At(f, Len(ac), d)
       /\ At(f, Len(ad), e)
  BY ONLY AtBefore, <1>2, <1>7, <1>8, b \in Seq(S), c \in Seq(S), d \in Seq(S),
          e \in Seq(S), g \in Seq(S)
<1> QED BY <1>1, <1>3, <1>5, <1>9, <1>10

-----------------------------------------------------------------------------
(* The decoder.                                                            *)

\* Where the text of the country, the area and its text are.
CountryPlace(r) ==
  CASE r.shape = "plain" -> R!RecordAt(r) + 4
    [] r.shape = "mode1" -> R!TargetAt(r)
    [] OTHER -> R!CountryAt(r)
AreaPlace(r) ==
  CASE r.shape = "mode1to2" -> R!TargetAt(r) + 4
    [] r.shape = "mode2" -> R!RecordAt(r) + 8
    [] OTHER -> CountryPlace(r) + Len(r.country) + 1
LocationPlace(r) ==
  IF r.area = "inline" THEN AreaPlace(r) ELSE R!LocationAt(r)

\* The areas of which DecodesRecord speaks.
Readable(r) == r.area \in {"inline", "mode2"} /\ r.location # <<>>

\* A redirection.
Jump(mode, n) == <<mode>> \o R!Offset3(n)

LEMMA RecordIs ==
  ASSUME NEW r \in R!Record
  PROVE  /\ r.base \in Nat /\ r.base >= 8
         /\ r.shape \in R!Shapes /\ r.area \in R!Areas
         /\ r.country \in Seq(32..255) /\ r.location \in Seq(32..255)
         /\ r.next \in R!Byte
<1>1. /\ r.base \in Bases /\ r.shape \in R!Shapes /\ r.area \in R!Areas
      /\ r.country \in RecordTexts /\ r.location \in RecordTexts /\ r.next \in Next4
  BY DEF R!Record
<1>2. /\ Bases \subseteq Nat \ (0..7) /\ RecordTexts \subseteq Seq(32..255)
      /\ Next4 \subseteq R!Byte
  BY PartsAssumption DEF R!ConstantsAssumption
<1>3. r.base \in Nat \ (0..7)
  BY ONLY <1>1, <1>2
<1>4. r.base \in Nat /\ r.base >= 8
  BY ONLY <1>3
<1> QED BY ONLY <1>1, <1>2, <1>4

\* Three bytes are enough for what a redirection leads to.
LEMMA PlacesAre ==
  ASSUME NEW r \in R!Record
  PROVE  /\ R!CountryAt(r) \in Nat /\ R!CountryAt(r) < 256 * 256 * 256
         /\ R!LocationAt(r) \in Nat /\ R!LocationAt(r) < 256 * 256 * 256
         /\ R!TargetAt(r) \in Nat /\ R!TargetAt(r) < 256 * 256 * 256
<1>1. PICK b \in Nat, c \in Nat, d \in Nat :
        b = r.base /\ c = Len(r.country) /\ d = Len(r.location)
  BY RecordIs
<1>2. /\ R!CountryAt(r) = b
      /\ R!LocationAt(r) = b + c + 1
      /\ R!TargetAt(r) = b + c + 1 + d + 1
  BY <1>1 DEF R!CountryAt, R!LocationAt, R!TargetAt
<1>3. R!TargetAt(r) < 256 * 256 * 256
  BY PartsAssumption DEF R!ConstantsAssumption
<1>4. b + c + 1 + d + 1 < 256 * 256 * 256
  BY ONLY <1>2, <1>3
<1>5. /\ b \in Nat /\ b < 256 * 256 * 256
      /\ b + c + 1 \in Nat /\ b + c + 1 < 256 * 256 * 256
      /\ b + c + 1 + d + 1 \in Nat
  BY ONLY b \in Nat, c \in Nat, d \in Nat, <1>4
<1> QED BY ONLY <1>2, <1>4, <1>5

\* The pieces are bytes.
LEMMA TextIs ==
  ASSUME NEW t \in Seq(32..255)
  PROVE  /\ R!Text(t) \in Seq(R!Byte)
         /\ Len(R!Text(t)) = Len(t) + 1
         /\ \A k \in 1..Len(t) : R!Text(t)[k] = t[k] /\ t[k] \in 32..255
         /\ R!Text(t)[Len(t) + 1] = 0
<1>1. \A k \in 1..Len(t) : t[k] \in 32..255
  BY ElementOfSeq
<1>2. t \in Seq(0..255) /\ Len(t) \in Nat
  <2>1. ASSUME NEW k \in 1..Len(t) PROVE t[k] \in 0..255
    <3>1. t[k] \in 32..255
      BY <1>1
    <3> QED BY ONLY <3>1
  <2> QED BY <2>1
<1> DEFINE u == t \o <<0>>
<1>3. /\ u \in Seq(0..255) /\ Len(u) = Len(t) + 1
      /\ \A k \in 1..Len(t) : u[k] = t[k]
      /\ u[Len(t) + 1] = 0
  BY ONLY <1>2
<1>4. u = R!Text(t) /\ R!Byte = 0..255
  BY DEF R!Text, R!Byte
<1> HIDE DEF u
<1> QED BY ONLY <1>1, <1>3, <1>4

\* The bytes of two parts are those of both.
LEMMA JoinIs ==
  ASSUME NEW S, NEW a \in Seq(S), NEW b \in Seq(S)
  PROVE  a \o b \in Seq(S) /\ Len(a \o b) = Len(a) + Len(b)
OBVIOUS

LEMMA OffsetIs ==
  ASSUME NEW n \in Nat
  PROVE  R!Offset3(n) \in Seq(R!Byte) /\ Len(R!Offset3(n)) = 3
<1>1. n % 256 \in R!Byte /\ (n \div 256) % 256 \in R!Byte /\ (n \div 65536) % 256 \in R!Byte
  BY DEF R!Byte
<1> QED BY <1>1 DEF R!Offset3

LEMMA JumpIs ==
  ASSUME NEW n \in Nat
  PROVE  /\ Jump(1, n) \in Seq(R!Byte) /\ Len(Jump(1, n)) = 4
         /\ Jump(2, n) \in Seq(R!Byte) /\ Len(Jump(2, n)) = 4
<1> DEFINE b == R!Offset3(n)
<1>1. b \in Seq(R!Byte) /\ Len(b) = 3
  BY OffsetIs
<1>2. /\ <<1>> \in Seq(R!Byte) /\ Len(<<1>>) = 1
      /\ <<2>> \in Seq(R!Byte) /\ Len(<<2>>) = 1
  BY DEF R!Byte
<1>3. Jump(1, n) = <<1>> \o b /\ Jump(2, n) = <<2>> \o b
  BY DEF Jump
<1> HIDE DEF b
<1>4. Jump(1, n) \in Seq(R!Byte) /\ Len(Jump(1, n)) = Len(<<1>>) + Len(b)
  BY ONLY <1>1, <1>2, <1>3, JoinIs
<1>5. Jump(2, n) \in Seq(R!Byte) /\ Len(Jump(2, n)) = Len(<<2>>) + Len(b)
  BY ONLY <1>1, <1>2, <1>3, JoinIs
<1> QED BY ONLY <1>1, <1>2, <1>4, <1>5

LEMMA AreaIs ==
  ASSUME NEW r \in R!Record
  PROVE  /\ R!AreaBytes(r) \in Seq(R!Byte)
         /\ r.area = "inline" => R!AreaBytes(r) = R!Text(r.location)
         /\ r.area = "mode2" => R!AreaBytes(r) = Jump(2, R!LocationAt(r))
<1>1. R!Text(r.location) \in Seq(R!Byte)
  BY RecordIs, TextIs
<1>2. PICK n \in Nat : n = R!LocationAt(r)
  BY PlacesAre
<1>3. Jump(1, n) \in Seq(R!Byte) /\ Jump(2, n) \in Seq(R!Byte)
  BY JumpIs
<1>4. <<1, 0, 0, 0>> \in Seq(R!Byte) /\ <<2, 0, 0, 0>> \in Seq(R!Byte)
  BY DEF R!Byte
<1>5. r.area \in {"inline", "mode1", "mode2", "unknown1", "unknown2"}
  BY RecordIs DEF R!Areas
<1>6. R!AreaBytes(r) =
        CASE r.area = "inline" -> R!Text(r.location)
          [] r.area = "mode1" -> Jump(1, n)
          [] r.area = "mode2" -> Jump(2, n)
          [] r.area = "unknown1" -> <<1, 0, 0, 0>>
          [] r.area = "unknown2" -> <<2, 0, 0, 0>>
  BY <1>2 DEF R!AreaBytes, Jump
<1> QED BY ONLY <1>1, <1>2, <1>3, <1>4, <1>5, <1>6

\* What follows the address of a record.
RecordBody(r) ==
  CASE r.shape = "plain" -> R!Text(r.country) \o R!AreaBytes(r)
    [] r.shape = "mode2" -> Jump(2, R!CountryAt(r)) \o R!AreaBytes(r)
    [] OTHER -> Jump(1, R!TargetAt(r))

LEMMA PiecesAre ==
  ASSUME NEW r \in R!Record
  PROVE  /\ R!TargetBytes(r) \in Seq(R!Byte) /\ RecordBody(r) \in Seq(R!Byte)
         /\ R!RecordBytes(r) = <<255, 0, 0, 1>> \o RecordBody(r)
         /\ r.shape = "mode1" => R!TargetBytes(r) = R!Text(r.country) \o R!AreaBytes(r)
         /\ r.shape = "mode1to2" =>
              R!TargetBytes(r) = Jump(2, R!CountryAt(r)) \o R!AreaBytes(r)
<1> DEFINE t == R!Text(r.country)
           a == R!AreaBytes(r)
           jc == Jump(2, R!CountryAt(r))
           jt == Jump(1, R!TargetAt(r))
<1>1. t \in Seq(R!Byte) /\ a \in Seq(R!Byte)
  BY RecordIs, TextIs, AreaIs
<1>2. jc \in Seq(R!Byte) /\ jt \in Seq(R!Byte)
  <2>1. PICK m \in Nat, n \in Nat : m = R!CountryAt(r) /\ n = R!TargetAt(r)
    BY PlacesAre
  <2> QED BY <2>1, JumpIs
<1>3. R!TargetBytes(r) =
        CASE r.shape = "mode1" -> t \o a
          [] r.shape = "mode1to2" -> jc \o a
          [] OTHER -> <<>>
  BY DEF R!TargetBytes, Jump
<1>4. RecordBody(r) =
        CASE r.shape = "plain" -> t \o a
          [] r.shape = "mode2" -> jc \o a
          [] OTHER -> jt
  BY DEF RecordBody
<1>5. R!RecordBytes(r) = <<255, 0, 0, 1>> \o RecordBody(r)
  BY DEF R!RecordBytes, RecordBody, Jump
<1>6. r.shape \in {"plain", "mode1", "mode1to2", "mode2"}
  BY RecordIs DEF R!Shapes
<1> HIDE DEF t, a, jc, jt
<1> DEFINE ta == t \o a
           ja == jc \o a
<1>7. ta \in Seq(R!Byte) /\ ja \in Seq(R!Byte)
  BY ONLY <1>1, <1>2, JoinIs
<1>8. /\ R!TargetBytes(r) = CASE r.shape = "mode1" -> ta
                              [] r.shape = "mode1to2" -> ja
                              [] OTHER -> <<>>
      /\ RecordBody(r) = CASE r.shape = "plain" -> ta
                           [] r.shape = "mode2" -> ja
                           [] OTHER -> jt
  BY ONLY <1>3, <1>4
<1> HIDE DEF ta, ja
<1>9. <<>> \in Seq(R!Byte)
  OBVIOUS
<1>10. R!TargetBytes(r) \in Seq(R!Byte) /\ RecordBody(r) \in Seq(R!Byte)
  BY ONLY <1>2, <1>6, <1>7, <1>8, <1>9
<1>11. /\ r.shape = "mode1" => R!TargetBytes(r) = ta
       /\ r.shape = "mode1to2" => R!TargetBytes(r) = ja
  BY ONLY <1>8
<1> QED BY ONLY <1>5, <1>10, <1>11 DEF ta, ja, t, a, jc

LEMMA FunctionIsSeq ==
  ASSUME NEW S, NEW n \in Nat, NEW f \in [1..n -> S]
  PROVE  f \in Seq(S) /\ Len(f) = n
OBVIOUS

\* Where the pieces of the file are.
LEMMA FileIs ==
  ASSUME NEW r \in R!Record
  PROVE  /\ R!FileOf(r) \in Seq(R!Byte)
         /\ At(R!FileOf(r), R!CountryAt(r), R!Text(r.country))
         /\ At(R!FileOf(r), R!LocationAt(r), R!Text(r.location))
         /\ At(R!FileOf(r), R!TargetAt(r), R!TargetBytes(r))
         /\ At(R!FileOf(r), R!RecordAt(r), R!RecordBytes(r))
<1> DEFINE a == [k \in 1..r.base |-> IF k <= 8 THEN 200 + k ELSE 0]
           b == R!Text(r.country)
           c == R!Text(r.location)
           d == R!TargetBytes(r)
           e == R!RecordBytes(r)
           g == <<r.next, 0, 0, 2>>
           f == R!FileOf(r)
<1>1. a \in Seq(R!Byte) /\ Len(a) = r.base
  <2>1. PICK n \in Nat : n = r.base
    BY RecordIs
  <2>2. \A k \in 1..n : (IF k <= 8 THEN 200 + k ELSE 0) \in R!Byte
    BY DEF R!Byte
  <2>3. a \in [1..n -> R!Byte]
    BY <2>1, <2>2
  <2> HIDE DEF a
  <2>4. a \in Seq(R!Byte) /\ Len(a) = n
    BY ONLY n \in Nat, <2>3, FunctionIsSeq
  <2> QED BY <2>1, <2>4
<1>2. b \in Seq(R!Byte) /\ Len(b) = Len(r.country) + 1
  BY RecordIs, TextIs
<1>3. c \in Seq(R!Byte) /\ Len(c) = Len(r.location) + 1
  BY RecordIs, TextIs
<1>4. d \in Seq(R!Byte)
  BY PiecesAre
<1>5. e \in Seq(R!Byte)
  <2>1. <<255, 0, 0, 1>> \in Seq(R!Byte)
    BY DEF R!Byte
  <2>2. RecordBody(r) \in Seq(R!Byte)
    BY PiecesAre
  <2>3. e = <<255, 0, 0, 1>> \o RecordBody(r)
    BY PiecesAre
  <2> QED BY ONLY <2>1, <2>2, <2>3, JoinIs
<1>6. g \in Seq(R!Byte)
  <2>1. r.next \in R!Byte
    BY RecordIs
  <2> QED BY <2>1 DEF R!Byte
<1>7. f = a \o b \o c \o d \o e \o g
  BY DEF R!FileOf
<1>8. /\ R!CountryAt(r) = r.base
      /\ R!LocationAt(r) = r.base + Len(r.country) + 1
      /\ R!TargetAt(r) = r.base + Len(r.country) + 1 + Len(r.location) + 1
      /\ R!RecordAt(r) = r.base + Len(r.country) + 1 + Len(r.location) + 1 + Len(d)
  BY DEF R!CountryAt, R!LocationAt, R!TargetAt, R!RecordAt
<1>9. r.base \in Nat /\ Len(r.country) \in Nat /\ Len(r.location) \in Nat
  BY RecordIs
<1> HIDE DEF a, b, c, d, e, g, f
<1>10. /\ f \in Seq(R!Byte)
       /\ At(f, Len(a), b)
       /\ At(f, Len(a) + Len(b), c)
       /\ At(f, Len(a) + Len(b) + Len(c), d)
       /\ At(f, Len(a) + Len(b) + Len(c) + Len(d), e)
  BY ONLY <1>1, <1>2, <1>3, <1>4, <1>5, <1>6, <1>7, AtEach
<1>11. /\ Len(a) = R!CountryAt(r)
       /\ Len(a) + Len(b) = R!LocationAt(r)
       /\ Len(a) + Len(b) + Len(c) = R!TargetAt(r)
       /\ Len(a) + Len(b) + Len(c) + Len(d) = R!RecordAt(r)
  <2>1. PICK n \in Nat, k \in Nat, m \in Nat, w \in Nat :
          n = r.base /\ k = Len(r.country) /\ m = Len(r.location) /\ w = Len(d)
    BY <1>4, <1>9
  <2>2. Len(a) = n /\ Len(b) = k + 1 /\ Len(c) = m + 1 /\ Len(d) = w
    BY ONLY <1>1, <1>2, <1>3, <2>1
  <2>3. /\ R!CountryAt(r) = n /\ R!LocationAt(r) = n + k + 1
        /\ R!TargetAt(r) = n + k + 1 + m + 1 /\ R!RecordAt(r) = n + k + 1 + m + 1 + w
    BY ONLY <1>8, <2>1
  <2>4. /\ n + (k + 1) = n + k + 1 /\ n + (k + 1) + (m + 1) = n + k + 1 + m + 1
        /\ n + (k + 1) + (m + 1) + w = n + k + 1 + m + 1 + w
    BY ONLY n \in Nat, k \in Nat, m \in Nat, w \in Nat
  <2> QED BY ONLY <2>2, <2>3, <2>4
<1>12. /\ At(f, R!CountryAt(r), b)
       /\ At(f, R!LocationAt(r), c)
       /\ At(f, R!TargetAt(r), d)
       /\ At(f, R!RecordAt(r), e)
  BY ONLY <1>10, <1>11
<1> QED BY ONLY <1>10, <1>12 DEF f, b, c, d, e

\* What is read at a known place.
LEMMA ReadAt ==
  ASSUME file \in Seq(R!Byte), NEW s \in Seq(R!Byte), NEW n, At(file, n, s), NEW k \in 1..Len(s)
  PROVE  R!Fgetc(n + k - 1) = s[k] /\ R!Value(n + k - 1) = s[k]
<1>1. n \in Nat /\ n + k - 1 < Len(file) /\ (n + k - 1) + 1 = n + k
  BY DEF At
<1>2. file[n + k] = s[k]
  BY DEF At
<1>3. R!Fgetc(n + k - 1) = s[k]
  BY ONLY <1>1, <1>2 DEF R!Fgetc
<1>4. PICK v \in 0..255 : v = s[k]
  BY ElementOfSeq DEF R!Byte
<1>5. v % 256 = v
  OBVIOUS
<1>6. R!Value(n + k - 1) = v % 256
  BY ONLY <1>3, <1>4 DEF R!Value
<1> QED BY ONLY <1>3, <1>4, <1>5, <1>6

LEMMA Divided ==
  ASSUME NEW m \in Nat
  PROVE  /\ m \div 256 \in Nat /\ m % 256 \in 0..255
         /\ m = (m \div 256) * 256 + (m % 256)
OBVIOUS

\* A number below 2^24 is that of its three bytes.
LEMMA ThreeBytes ==
  ASSUME NEW m \in Nat, m < 256 * 256 * 256
  PROVE  (((m \div 65536) % 256) * 256 + ((m \div 256) % 256)) * 256 + (m % 256) = m
<1>1. PICK q \in Nat, a \in 0..255 : q = m \div 256 /\ a = m % 256
  BY Divided
<1>2. PICK c \in Nat, b \in 0..255 : c = q \div 256 /\ b = q % 256
  BY Divided
<1>3. m = q * 256 + a /\ q = c * 256 + b
  BY <1>1, <1>2, Divided
<1>4. m = c * 65536 + b * 256 + a /\ c < 256
  BY <1>3
<1>5. m \div 65536 = c
  BY <1>4
<1>6. c % 256 = c
  BY <1>4
<1> QED BY <1>1, <1>2, <1>4, <1>5, <1>6

LEMMA ReadOffset ==
  ASSUME file \in Seq(R!Byte), NEW m \in Nat, m < 256 * 256 * 256,
         NEW n \in Nat, At(file, n, R!Offset3(m))
  PROVE  R!GetValue3(n) = m
<1>1. R!Offset3(m) \in Seq(R!Byte) /\ Len(R!Offset3(m)) = 3
  BY OffsetIs
<1>2. 1 \in 1..Len(R!Offset3(m)) /\ 2 \in 1..Len(R!Offset3(m)) /\ 3 \in 1..Len(R!Offset3(m))
  BY <1>1
<1>3. /\ R!Value(n + 1 - 1) = R!Offset3(m)[1]
      /\ R!Value(n + 2 - 1) = R!Offset3(m)[2]
      /\ R!Value(n + 3 - 1) = R!Offset3(m)[3]
  BY ONLY file \in Seq(R!Byte), At(file, n, R!Offset3(m)), <1>1, <1>2, ReadAt
<1>4. n + 1 - 1 = n /\ n + 2 - 1 = n + 1 /\ n + 3 - 1 = n + 2
  OBVIOUS
<1>5. /\ R!Offset3(m)[1] = m % 256
      /\ R!Offset3(m)[2] = (m \div 256) % 256
      /\ R!Offset3(m)[3] = (m \div 65536) % 256
  BY DEF R!Offset3
<1>6. (((m \div 65536) % 256) * 256 + ((m \div 256) % 256)) * 256 + (m % 256) = m
  BY ThreeBytes
<1> QED BY ONLY <1>3, <1>4, <1>5, <1>6 DEF R!GetValue3

LEMMA ReadJump ==
  ASSUME file \in Seq(R!Byte), NEW m \in Nat, m < 256 * 256 * 256,
         NEW n \in Nat, NEW mode \in {1, 2}, At(file, n, Jump(mode, m))
  PROVE  R!Value(n) = mode /\ R!GetValue3(n + 1) = m
<1> DEFINE b == R!Offset3(m)
           a == <<mode>>
<1>1. b \in Seq(R!Byte) /\ a \in Seq(R!Byte) /\ Len(a) = 1 /\ a[1] = mode
  <2>1. b \in Seq(R!Byte)
    BY OffsetIs
  <2> QED BY <2>1 DEF R!Byte
<1>2. Jump(mode, m) = a \o b
  BY DEF Jump
<1> HIDE DEF a, b
<1>3. At(file, n, a) /\ At(file, n + Len(a), b)
  BY ONLY file \in Seq(R!Byte), At(file, n, Jump(mode, m)), <1>1, <1>2, AtParts
<1>4. 1 \in 1..Len(a)
  BY <1>1
<1>5. R!Value(n + 1 - 1) = a[1]
  BY ONLY file \in Seq(R!Byte), <1>1, <1>3, <1>4, ReadAt
<1>6. R!Value(n) = mode
  <2>1. n + 1 - 1 = n
    OBVIOUS
  <2> QED BY ONLY <1>1, <1>5, <2>1
<1>7. R!GetValue3(n + 1) = m
  <2>1. At(file, n + 1, b) /\ n + 1 \in Nat
    BY <1>1, <1>3
  <2> QED BY <2>1, ReadOffset DEF b
<1> QED BY <1>6, <1>7

\* The byte k places behind the start of a text: a byte of the text, or the zero at its end.
LEMMA ReadText ==
  ASSUME file \in Seq(R!Byte), NEW t \in Seq(32..255), NEW n, At(file, n, R!Text(t)),
         NEW k \in 0..Len(t)
  PROVE  /\ k = Len(t) => R!Fgetc(n + k) = 0
         /\ k # Len(t) => R!Fgetc(n + k) = t[k + 1] /\ R!Fgetc(n + k) # 0
         /\ R!Value(n + k) \notin {1, 2}
<1> DEFINE s == R!Text(t)
<1>1. /\ s \in Seq(R!Byte) /\ Len(s) = Len(t) + 1
      /\ \A j \in 1..Len(t) : s[j] = t[j] /\ t[j] \in 32..255
      /\ s[Len(t) + 1] = 0
  BY TextIs
<1>2. At(file, n, s)
  OBVIOUS
<1> HIDE DEF s
<1>3. k + 1 \in 1..Len(s) /\ n \in Nat /\ n + (k + 1) - 1 = n + k
  BY <1>1, <1>2 DEF At
<1>4. R!Fgetc(n + (k + 1) - 1) = s[k + 1] /\ R!Value(n + (k + 1) - 1) = s[k + 1]
  BY ONLY file \in Seq(R!Byte), <1>1, <1>2, <1>3, ReadAt
<1>5. R!Fgetc(n + k) = s[k + 1] /\ R!Value(n + k) = s[k + 1]
  BY ONLY <1>3, <1>4
<1>6. CASE k = Len(t)
  BY ONLY <1>1, <1>5, <1>6
<1>7. CASE k # Len(t)
  <2>1. k + 1 \in 1..Len(t)
    BY <1>7
  <2>2. PICK v \in 32..255 : v = s[k + 1] /\ v = t[k + 1]
    BY ONLY <1>1, <2>1
  <2>3. v # 0 /\ v \notin {1, 2}
    BY ONLY v \in 32..255
  <2> QED BY ONLY <1>5, <1>7, <2>2, <2>3
<1> QED BY ONLY <1>6, <1>7

LEMMA TextStart ==
  ASSUME file \in Seq(R!Byte), NEW t \in Seq(32..255), NEW n, At(file, n, R!Text(t))
  PROVE  /\ R!Value(n) \notin {1, 2}
         /\ t # <<>> => R!Value(n + 1) \notin {1, 2}
<1>1. n + 0 = n /\ 0 \in 0..Len(t)
  BY DEF At
<1>2. R!Value(n + 0) \notin {1, 2}
  BY ONLY file \in Seq(R!Byte), t \in Seq(32..255), At(file, n, R!Text(t)), <1>1, ReadText
<1>3. t # <<>> => 1 \in 0..Len(t)
  OBVIOUS
<1>4. t # <<>> => R!Value(n + 1) \notin {1, 2}
  BY ONLY file \in Seq(R!Byte), t \in Seq(32..255), At(file, n, R!Text(t)), <1>3, ReadText
<1> QED BY ONLY <1>1, <1>2, <1>4

\* The country's text and the area are where they are looked for.
LEMMA PlacesInFile ==
  ASSUME record \in R!Record, file = R!FileOf(record)
  PROVE  /\ file \in Seq(R!Byte)
         /\ At(file, CountryPlace(record), R!Text(record.country))
         /\ At(file, AreaPlace(record), R!AreaBytes(record))
         /\ R!RecordAt(record) \in Nat
         /\ At(file, R!RecordAt(record) + 4, RecordBody(record))
         /\ At(file, R!LocationAt(record), R!Text(record.location))
<1> DEFINE r == record
           t == R!Text(r.country)
           a == R!AreaBytes(r)
           jc == Jump(2, R!CountryAt(r))
           h == <<255, 0, 0, 1>>
           body == RecordBody(r)
<1>1. /\ file \in Seq(R!Byte)
      /\ At(file, R!CountryAt(r), t)
      /\ At(file, R!LocationAt(r), R!Text(r.location))
      /\ At(file, R!TargetAt(r), R!TargetBytes(r))
      /\ At(file, R!RecordAt(r), R!RecordBytes(r))
  BY FileIs
<1>2. t \in Seq(R!Byte) /\ Len(t) = Len(r.country) + 1 /\ Len(r.country) \in Nat
  BY RecordIs, TextIs
<1>3. a \in Seq(R!Byte)
  BY AreaIs
<1>4. jc \in Seq(R!Byte) /\ Len(jc) = 4
  <2>1. PICK n \in Nat : n = R!CountryAt(r)
    BY PlacesAre
  <2> QED BY <2>1, JumpIs
<1>5. /\ body \in Seq(R!Byte)
      /\ R!RecordBytes(r) = h \o body
      /\ r.shape = "mode1" => R!TargetBytes(r) = t \o a
      /\ r.shape = "mode1to2" => R!TargetBytes(r) = jc \o a
  BY PiecesAre
<1>6. h \in Seq(R!Byte) /\ Len(h) = 4
  BY DEF R!Byte
<1>7. r.shape = "plain" => body = t \o a
  BY DEF RecordBody
<1>8. r.shape = "mode2" => body = jc \o a
  BY DEF RecordBody
<1>9. r.shape \in {"plain", "mode1", "mode1to2", "mode2"}
  BY RecordIs DEF R!Shapes
<1>10. R!RecordAt(r) \in Nat /\ R!TargetAt(r) \in Nat /\ R!LocationAt(r) \in Nat
  BY <1>1, PlacesAre DEF At
<1>11. /\ CountryPlace(r) = CASE r.shape = "plain" -> R!RecordAt(r) + 4
                             [] r.shape = "mode1" -> R!TargetAt(r)
                             [] OTHER -> R!CountryAt(r)
       /\ AreaPlace(r) = CASE r.shape = "mode1to2" -> R!TargetAt(r) + 4
                           [] r.shape = "mode2" -> R!RecordAt(r) + 8
                           [] OTHER -> CountryPlace(r) + Len(r.country) + 1
  BY DEF CountryPlace, AreaPlace
<1> HIDE DEF t, a, jc, h, body
<1>12. At(file, R!RecordAt(r) + 4, body)
  <2>1. At(file, R!RecordAt(r) + Len(h), body)
    BY ONLY <1>1, <1>5, <1>6, AtParts
  <2> QED BY ONLY <2>1, <1>6
<1>13. CASE r.shape = "plain"
  <2>1. CountryPlace(r) = R!RecordAt(r) + 4 /\ AreaPlace(r) = CountryPlace(r) + Len(r.country) + 1
    BY <1>11, <1>13
  <2>2. At(file, R!RecordAt(r) + 4, t) /\ At(file, R!RecordAt(r) + 4 + Len(t), a)
    BY ONLY <1>1, <1>2, <1>3, <1>7, <1>12, <1>13, AtParts
  <2>3. R!RecordAt(r) + 4 + Len(t) = AreaPlace(r)
    BY ONLY <1>2, <1>10, <2>1
  <2> QED BY <1>1, <1>10, <1>12, <2>1, <2>2, <2>3 DEF t, a, body
<1>14. CASE r.shape = "mode1"
  <2>1. CountryPlace(r) = R!TargetAt(r) /\ AreaPlace(r) = CountryPlace(r) + Len(r.country) + 1
    BY <1>11, <1>14
  <2>2. At(file, R!TargetAt(r), t) /\ At(file, R!TargetAt(r) + Len(t), a)
    BY ONLY <1>1, <1>2, <1>3, <1>5, <1>14, AtParts
  <2>3. R!TargetAt(r) + Len(t) = AreaPlace(r)
    BY ONLY <1>2, <1>10, <2>1
  <2> QED BY <1>1, <1>10, <1>12, <2>1, <2>2, <2>3 DEF t, a, body
<1>15. CASE r.shape = "mode1to2"
  <2>1. CountryPlace(r) = R!CountryAt(r) /\ AreaPlace(r) = R!TargetAt(r) + 4
    BY <1>11, <1>15
  <2>2. At(file, R!TargetAt(r) + Len(jc), a)
    BY ONLY <1>1, <1>3, <1>4, <1>5, <1>15, AtParts
  <2>3. At(file, AreaPlace(r), a)
    BY ONLY <1>4, <2>1, <2>2
  <2> QED BY <1>1, <1>10, <1>12, <2>1, <2>3 DEF t, a, body
<1>16. CASE r.shape = "mode2"
  <2>1. CountryPlace(r) = R!CountryAt(r) /\ AreaPlace(r) = R!RecordAt(r) + 8
    BY <1>11, <1>16
  <2>2. At(file, R!RecordAt(r) + 4 + Len(jc), a)
    BY ONLY <1>1, <1>3, <1>4, <1>8, <1>12, <1>16, AtParts
  <2>3. At(file, AreaPlace(r), a)
    <3>1. R!RecordAt(r) + 4 + Len(jc) = R!RecordAt(r) + 8
      BY ONLY <1>4, <1>10
    <3> QED BY ONLY <2>1, <2>2, <3>1
  <2> QED BY <1>1, <1>10, <1>12, <2>1, <2>3 DEF t, a, body
<1> QED BY ONLY <1>9, <1>13, <1>14, <1>15, <1>16

\* What the decoder finds at the start of the record.
LEMMA ModeIs ==
  ASSUME record \in R!Record, file = R!FileOf(record),
         NEW n, n = R!RecordAt(record) + 4
  PROVE  /\ record.shape = "plain" => R!Value(n) \notin {1, 2}
         /\ record.shape \in {"mode1", "mode1to2"} =>
              R!Value(n) = 1 /\ R!GetValue3(n + 1) = R!TargetAt(record)
         /\ record.shape = "mode1" => R!Value(R!TargetAt(record)) \notin {1, 2}
         /\ record.shape = "mode1to2" =>
              /\ R!Value(R!TargetAt(record)) = 2
              /\ R!GetValue3(R!TargetAt(record) + 1) = R!CountryAt(record)
         /\ record.shape = "mode2" =>
              R!Value(n) = 2 /\ R!GetValue3(n + 1) = R!CountryAt(record)
<1> DEFINE r == record
           t == R!Text(r.country)
           a == R!AreaBytes(r)
<1>1. /\ file \in Seq(R!Byte) /\ n \in Nat
      /\ At(file, CountryPlace(r), t)
      /\ At(file, n, RecordBody(r))
  BY PlacesInFile
<1>2. PICK c \in Nat, g \in Nat :
        /\ c = R!CountryAt(r) /\ g = R!TargetAt(r)
        /\ c < 256 * 256 * 256 /\ g < 256 * 256 * 256
  BY PlacesAre
<1>3. At(file, g, R!TargetBytes(r))
  BY <1>2, FileIs
<1>4. r.country \in Seq(32..255) /\ a \in Seq(R!Byte)
  BY RecordIs, AreaIs
<1>5. R!Value(CountryPlace(r)) \notin {1, 2}
  BY ONLY <1>1, <1>4, TextStart
<1>6. r.shape = "plain" => CountryPlace(r) = n
  BY DEF CountryPlace
<1>7. r.shape = "mode1" => CountryPlace(r) = R!TargetAt(r)
  BY DEF CountryPlace
<1>8. ASSUME r.shape \in {"mode1", "mode1to2"}
      PROVE  R!Value(n) = 1 /\ R!GetValue3(n + 1) = R!TargetAt(r)
  <2>1. RecordBody(r) = Jump(1, g)
    BY <1>2, <1>8 DEF RecordBody
  <2>2. At(file, n, Jump(1, g)) /\ 1 \in {1, 2}
    BY <1>1, <2>1
  <2> QED BY ONLY <1>1, <1>2, g \in Nat, <2>2, ReadJump
<1>9. ASSUME NEW m, At(file, m, Jump(2, c) \o a)
      PROVE  R!Value(m) = 2 /\ R!GetValue3(m + 1) = c
  <2> DEFINE j == Jump(2, c)
  <2>1. j \in Seq(R!Byte)
    BY JumpIs
  <2>2. At(file, m, j \o a)
    BY <1>9
  <2> HIDE DEF j
  <2>3. At(file, m, j)
    BY ONLY <1>1, <1>4, <2>1, <2>2, AtParts
  <2>4. At(file, m, Jump(2, c)) /\ m \in Nat /\ 2 \in {1, 2}
    BY <2>3 DEF j, At
  <2> QED BY ONLY <1>1, <1>2, c \in Nat, <2>4, ReadJump
<1>10. ASSUME r.shape = "mode1to2"
       PROVE  R!Value(R!TargetAt(r)) = 2 /\ R!GetValue3(R!TargetAt(r) + 1) = R!CountryAt(r)
  <2>1. R!TargetBytes(r) = Jump(2, c) \o a
    BY <1>2, <1>10, PiecesAre
  <2>2. At(file, g, Jump(2, c) \o a)
    BY ONLY <1>3, <2>1
  <2> QED BY ONLY <1>2, <1>9, <2>2
<1>11. ASSUME r.shape = "mode2"
       PROVE  R!Value(n) = 2 /\ R!GetValue3(n + 1) = R!CountryAt(r)
  <2>1. RecordBody(r) = Jump(2, c) \o a
    BY <1>2, <1>11 DEF RecordBody
  <2>2. At(file, n, Jump(2, c) \o a)
    BY ONLY <1>1, <2>1
  <2> QED BY ONLY <1>2, <1>9, <2>2
<1> QED BY <1>5, <1>6, <1>7, <1>8, <1>10, <1>11

\* What the decoder finds at the area, if DecodesRecord speaks of it.
LEMMA AreaStartIs ==
  ASSUME record \in R!Record, file = R!FileOf(record), Readable(record),
         NEW n, n = AreaPlace(record)
  PROVE  /\ record.area = "inline" => R!Value(n) # 2 /\ R!Value(n + 1) # 1
         /\ record.area = "mode2" =>
              R!Value(n) = 2 /\ R!GetValue3(n + 1) = R!LocationAt(record)
         /\ At(file, LocationPlace(record), R!Text(record.location))
<1> DEFINE r == record
<1>1. /\ file \in Seq(R!Byte)
      /\ At(file, n, R!AreaBytes(r))
      /\ At(file, R!LocationAt(r), R!Text(r.location))
  BY PlacesInFile
<1>2. r.location \in Seq(32..255)
  BY RecordIs
<1>3. n \in Nat
  BY <1>1 DEF At
<1>4. r.location # <<>> /\ r.area \in {"inline", "mode2"}
  BY DEF Readable
<1>5. ASSUME r.area = "inline"
      PROVE  /\ R!Value(n) # 2 /\ R!Value(n + 1) # 1
             /\ At(file, LocationPlace(r), R!Text(r.location))
  <2>1. At(file, n, R!Text(r.location))
    BY <1>1, <1>5, AreaIs
  <2>2. R!Value(n) \notin {1, 2} /\ R!Value(n + 1) \notin {1, 2}
    BY ONLY <1>1, <1>2, <1>4, <2>1, TextStart
  <2>3. LocationPlace(r) = n
    BY <1>5 DEF LocationPlace
  <2> QED BY <2>1, <2>2, <2>3
<1>6. ASSUME r.area = "mode2"
      PROVE  /\ R!Value(n) = 2 /\ R!GetValue3(n + 1) = R!LocationAt(r)
             /\ At(file, LocationPlace(r), R!Text(r.location))
  <2>1. PICK m \in Nat : m = R!LocationAt(r) /\ m < 256 * 256 * 256
    BY PlacesAre
  <2>2. At(file, n, Jump(2, m)) /\ 2 \in {1, 2}
    BY <1>1, <1>6, <2>1, AreaIs
  <2>3. R!Value(n) = 2 /\ R!GetValue3(n + 1) = m
    BY ONLY <1>1, <1>3, m \in Nat, <2>1, <2>2, ReadJump
  <2>4. LocationPlace(r) = R!LocationAt(r)
    BY <1>6 DEF LocationPlace
  <2> QED BY <1>1, <2>1, <2>3, <2>4
<1> QED BY <1>4, <1>5, <1>6

\* GetString has read some of the text t that begins at n.
Reading(t, n, str, p, count) ==
  \E k \in 0..Len(t) : count = k + 1 /\ p = n + k /\ str = SubSeq(t, 1, k)

LEMMA ReadingBegins ==
  ASSUME NEW t \in Seq(32..255), NEW n \in Nat
  PROVE  Reading(t, n, <<>>, n, 1)
<1>1. 0 \in 0..Len(t) /\ 1 = 0 + 1 /\ n = n + 0 /\ <<>> = SubSeq(t, 1, 0)
  OBVIOUS
<1> QED BY ONLY <1>1 DEF Reading

\* One element more.
LEMMA OneMore ==
  ASSUME NEW S, NEW t \in Seq(S), NEW k \in Nat, k < Len(t)
  PROVE  Append(SubSeq(t, 1, k), t[k + 1]) = SubSeq(t, 1, k + 1)
<1>1. \A i \in 1..(k + 1) : t[i] \in S
  OBVIOUS
<1>2. /\ SubSeq(t, 1, k) \in Seq(S) /\ Len(SubSeq(t, 1, k)) = k
      /\ \A i \in 1..k : SubSeq(t, 1, k)[i] = t[i]
  BY <1>1
<1>3. /\ SubSeq(t, 1, k + 1) \in Seq(S) /\ Len(SubSeq(t, 1, k + 1)) = k + 1
      /\ \A i \in 1..(k + 1) : SubSeq(t, 1, k + 1)[i] = t[i]
  BY <1>1
<1> DEFINE a == SubSeq(t, 1, k)
           b == SubSeq(t, 1, k + 1)
           x == t[k + 1]
<1>4. x \in S
  BY <1>1
<1>5. b[k + 1] = x /\ \A i \in 1..k : b[i] = a[i]
  BY <1>2, <1>3
<1> HIDE DEF a, b, x
<1>6. /\ a \in Seq(S) /\ Len(a) = k
      /\ b \in Seq(S) /\ Len(b) = k + 1
  BY <1>2, <1>3 DEF a, b
<1>7. Append(a, x) = b
  BY ONLY k \in Nat, <1>4, <1>5, <1>6
<1> QED BY ONLY <1>7 DEF a, b, x

LEMMA ReadingGoesOn ==
  ASSUME file \in Seq(R!Byte), NEW t \in Seq(32..255), NEW n, At(file, n, R!Text(t)),
         NEW str, NEW p, NEW count, Reading(t, n, str, p, count), R!Fgetc(p) # 0
  PROVE  Reading(t, n, Append(str, R!Fgetc(p)), p + 1, count + 1)
<1>1. PICK k \in 0..Len(t) : count = k + 1 /\ p = n + k /\ str = SubSeq(t, 1, k)
  BY DEF Reading
<1>2. /\ k = Len(t) => R!Fgetc(n + k) = 0
      /\ k # Len(t) => R!Fgetc(n + k) = t[k + 1]
  BY ReadText
<1>3. k # Len(t) /\ R!Fgetc(p) = t[k + 1]
  BY ONLY <1>1, <1>2, R!Fgetc(p) # 0
<1>4. k < Len(t) /\ k + 1 \in 0..Len(t) /\ n \in Nat /\ k \in Nat
  BY <1>3 DEF At
<1>5. Append(SubSeq(t, 1, k), t[k + 1]) = SubSeq(t, 1, k + 1)
  BY <1>4, OneMore
<1>6. count + 1 = (k + 1) + 1 /\ p + 1 = n + (k + 1)
  BY <1>1, <1>4
<1>7. Append(str, R!Fgetc(p)) = SubSeq(t, 1, k + 1)
  BY ONLY <1>1, <1>3, <1>5
<1> QED BY ONLY <1>4, <1>6, <1>7 DEF Reading

LEMMA ReadingEnds ==
  ASSUME file \in Seq(R!Byte), NEW t \in Seq(32..255), NEW n, At(file, n, R!Text(t)),
         NEW str, NEW p, NEW count, Reading(t, n, str, p, count), R!Fgetc(p) = 0
  PROVE  str = t /\ count = Len(t) + 1
<1>1. PICK k \in 0..Len(t) : count = k + 1 /\ p = n + k /\ str = SubSeq(t, 1, k)
  BY DEF Reading
<1>2. k # Len(t) => R!Fgetc(n + k) # 0
  BY ReadText
<1>3. k = Len(t)
  BY <1>1, <1>2
<1>4. SubSeq(t, 1, Len(t)) = t
  BY SubSeqFull
<1> QED BY ONLY <1>1, <1>3, <1>4

\* The area follows the text of the country.
Behind(r) == r.shape \in {"plain", "mode1"}

\* What the decoder knows at each point: where the texts are, and how much of them it has.
RecordInv ==
  /\ record \in R!Record
  /\ file = R!FileOf(record)
  /\ recordPc = "mode" => pos = R!RecordAt(record) /\ strCountry = <<>> /\ strLocation = <<>>
  /\ recordPc = "country" =>
       /\ Reading(record.country, CountryPlace(record), strCountry, pos, ulCount)
       /\ behind = Behind(record)
       /\ ulLocationOffset = IF behind THEN CountryPlace(record) ELSE AreaPlace(record)
       /\ strLocation = <<>>
  /\ recordPc = "area" => ulLocationOffset = AreaPlace(record) /\ strLocation = <<>>
  /\ recordPc = "location" /\ Readable(record) =>
       Reading(record.location, LocationPlace(record), strLocation, pos, ulCount)
  /\ recordPc \in {"area", "location", "done"} => strCountry = record.country
  /\ recordPc = "done" /\ Readable(record) => strLocation = record.location

LEMMA RecordInvInit == R!Init => RecordInv
BY DEF R!Init, RecordInv

LEMMA ReadModeKeeps == RecordInv /\ R!ReadMode => RecordInv'
<1> SUFFICES ASSUME RecordInv, R!ReadMode PROVE RecordInv'
  OBVIOUS
<1> DEFINE n == pos + 4
           r == record
<1>1. /\ record' = record /\ file' = file /\ strLocation' = <<>> /\ strCountry = <<>>
      /\ strCountry' = <<>> /\ recordPc' = "country"
      /\ r \in R!Record /\ file = R!FileOf(r) /\ pos = R!RecordAt(r)
  BY DEF RecordInv, R!ReadMode
<1>2. /\ r.shape = "plain" => R!Value(n) \notin {1, 2}
      /\ r.shape \in {"mode1", "mode1to2"} =>
           R!Value(n) = 1 /\ R!GetValue3(n + 1) = R!TargetAt(r)
      /\ r.shape = "mode1" => R!Value(R!TargetAt(r)) \notin {1, 2}
      /\ r.shape = "mode1to2" =>
           /\ R!Value(R!TargetAt(r)) = 2
           /\ R!GetValue3(R!TargetAt(r) + 1) = R!CountryAt(r)
      /\ r.shape = "mode2" =>
           R!Value(n) = 2 /\ R!GetValue3(n + 1) = R!CountryAt(r)
  BY <1>1, ModeIs
<1>3. \/ /\ R!Value(n) = 1 /\ R!Value(R!GetValue3(n + 1)) = 2
         /\ pos' = R!GetValue3(R!GetValue3(n + 1) + 1) /\ ulCount' = 1
         /\ behind' = FALSE /\ ulLocationOffset' = R!GetValue3(n + 1) + 4
      \/ /\ R!Value(n) = 1 /\ R!Value(R!GetValue3(n + 1)) # 2
         /\ pos' = R!GetValue3(n + 1) /\ ulCount' = 1
         /\ behind' = TRUE /\ ulLocationOffset' = R!GetValue3(n + 1)
      \/ /\ R!Value(n) = 2
         /\ pos' = R!GetValue3(n + 1) /\ ulCount' = 1
         /\ behind' = FALSE /\ ulLocationOffset' = n + 4
      \/ /\ R!Value(n) \notin {1, 2}
         /\ pos' = n /\ ulCount' = 1
         /\ behind' = TRUE /\ ulLocationOffset' = n
  BY DEF R!ReadMode, R!IP_LENGTH, R!REDIRECT_MODE_1, R!REDIRECT_MODE_2, R!StartGetString
<1>4. r.shape \in {"plain", "mode1", "mode1to2", "mode2"} /\ r.country \in Seq(32..255)
  BY <1>1, RecordIs DEF R!Shapes
<1>5. /\ CountryPlace(r) = CASE r.shape = "plain" -> n
                             [] r.shape = "mode1" -> R!TargetAt(r)
                             [] OTHER -> R!CountryAt(r)
      /\ AreaPlace(r) = CASE r.shape = "mode1to2" -> R!TargetAt(r) + 4
                          [] r.shape = "mode2" -> R!RecordAt(r) + 8
                          [] OTHER -> CountryPlace(r) + Len(r.country) + 1
  BY <1>1 DEF CountryPlace, AreaPlace
<1>6. n + 4 = R!RecordAt(r) + 8
  BY <1>1, PlacesInFile
<1> HIDE DEF n
<1> DEFINE v == R!Value(n)
           to == R!GetValue3(n + 1)
           vto == R!Value(to)
           c == R!CountryAt(r)
           g == R!TargetAt(r)
<1>7. /\ pos' = CountryPlace(r) /\ ulCount' = 1 /\ behind' = Behind(r)
      /\ ulLocationOffset' = IF behind' THEN CountryPlace(r) ELSE AreaPlace(r)
  <2>1. CASE r.shape = "plain"
    <3>1. v \notin {1, 2} /\ CountryPlace(r) = n
      BY ONLY <1>2, <1>5, <2>1
    <3>2. pos' = n /\ ulCount' = 1 /\ behind' = TRUE /\ ulLocationOffset' = n
      BY ONLY <1>3, <3>1
    <3>3. Behind(r) = TRUE
      BY <2>1 DEF Behind
    <3> QED BY ONLY <3>1, <3>2, <3>3
  <2>2. CASE r.shape = "mode1"
    <3>1. v = 1 /\ to = g /\ vto # 2 /\ CountryPlace(r) = g
      BY ONLY <1>2, <1>5, <2>2
    <3>2. pos' = to /\ ulCount' = 1 /\ behind' = TRUE /\ ulLocationOffset' = to
      BY ONLY <1>3, <3>1
    <3>3. Behind(r) = TRUE
      BY <2>2 DEF Behind
    <3> QED BY ONLY <3>1, <3>2, <3>3
  <2>3. CASE r.shape = "mode1to2"
    <3>1. v = 1 /\ to = g /\ vto = 2 /\ R!GetValue3(to + 1) = c
      BY ONLY <1>2, <2>3
    <3>2. CountryPlace(r) = c /\ AreaPlace(r) = g + 4
      BY ONLY <1>5, <2>3
    <3>3. /\ pos' = R!GetValue3(to + 1) /\ ulCount' = 1 /\ behind' = FALSE
          /\ ulLocationOffset' = to + 4
      BY ONLY <1>3, <3>1
    <3>4. Behind(r) = FALSE
      BY <2>3 DEF Behind
    <3> QED BY ONLY <3>1, <3>2, <3>3, <3>4
  <2>4. CASE r.shape = "mode2"
    <3>1. v = 2 /\ to = c
      BY ONLY <1>2, <2>4
    <3>2. CountryPlace(r) = c /\ AreaPlace(r) = R!RecordAt(r) + 8
      BY ONLY <1>5, <2>4
    <3>3. pos' = to /\ ulCount' = 1 /\ behind' = FALSE /\ ulLocationOffset' = n + 4
      BY ONLY <1>3, <3>1
    <3>4. Behind(r) = FALSE
      BY <2>4 DEF Behind
    <3> QED BY ONLY <1>6, <3>1, <3>2, <3>3, <3>4
  <2> QED BY ONLY <1>4, <2>1, <2>2, <2>3, <2>4
<1>8. CountryPlace(r) \in Nat
  BY <1>1, PlacesInFile DEF At
<1>9. Reading(r.country, CountryPlace(r), strCountry', pos', ulCount')
  <2>1. Reading(r.country, CountryPlace(r), <<>>, CountryPlace(r), 1)
    BY ONLY <1>4, <1>8, ReadingBegins
  <2> QED BY ONLY <1>1, <1>7, <2>1
<1> QED BY <1>1, <1>7, <1>9 DEF RecordInv

LEMMA GetCharKeeps == RecordInv /\ R!GetChar => RecordInv'
<1> SUFFICES ASSUME RecordInv, R!GetChar PROVE RecordInv'
  OBVIOUS
<1>1. /\ record' = record /\ file' = file /\ recordPc' = recordPc
      /\ ulLocationOffset' = ulLocationOffset /\ behind' = behind
      /\ pos' = pos + 1 /\ ulCount' = ulCount + 1
      /\ R!Fgetc(pos) # 0
  BY DEF R!GetChar
<1>2. /\ file \in Seq(R!Byte)
      /\ At(file, CountryPlace(record), R!Text(record.country))
      /\ record.country \in Seq(32..255) /\ record.location \in Seq(32..255)
  BY PlacesInFile, RecordIs DEF RecordInv
<1>3. CASE recordPc = "country"
  <2>1. strCountry' = Append(strCountry, R!Fgetc(pos)) /\ strLocation' = strLocation
    BY <1>3 DEF R!GetChar
  <2>2. Reading(record.country, CountryPlace(record), strCountry, pos, ulCount)
    BY <1>3 DEF RecordInv
  <2>3. Reading(record.country, CountryPlace(record), Append(strCountry, R!Fgetc(pos)),
                pos + 1, ulCount + 1)
    BY ONLY <1>1, <1>2, <2>2, ReadingGoesOn
  <2>4. Reading(record.country, CountryPlace(record), strCountry, pos, ulCount)'
    BY ONLY <1>1, <2>1, <2>3 DEF Reading, CountryPlace
  <2> QED BY <1>1, <1>3, <2>1, <2>4 DEF RecordInv
<1>4. CASE recordPc = "location"
  <2>1. strLocation' = Append(strLocation, R!Fgetc(pos)) /\ strCountry' = strCountry
    BY <1>4 DEF R!GetChar
  <2>2. ASSUME Readable(record)
        PROVE  Reading(record.location, LocationPlace(record), strLocation', pos', ulCount')
    <3>1. Reading(record.location, LocationPlace(record), strLocation, pos, ulCount)
      BY <1>4, <2>2 DEF RecordInv
    <3>2. At(file, LocationPlace(record), R!Text(record.location))
      BY <2>2, AreaStartIs DEF RecordInv
    <3>3. Reading(record.location, LocationPlace(record), Append(strLocation, R!Fgetc(pos)),
                  pos + 1, ulCount + 1)
      BY ONLY <1>1, <1>2, <3>1, <3>2, ReadingGoesOn
    <3> QED BY ONLY <1>1, <2>1, <3>3
  <2> QED BY <1>1, <1>4, <2>1, <2>2 DEF RecordInv
<1> QED BY <1>3, <1>4 DEF R!GetChar

LEMMA CountryReadKeeps == RecordInv /\ R!CountryRead => RecordInv'
<1> SUFFICES ASSUME RecordInv, R!CountryRead PROVE RecordInv'
  OBVIOUS
<1>1. /\ record' = record /\ file' = file /\ recordPc = "country" /\ recordPc' = "area"
      /\ strCountry' = strCountry /\ strLocation' = strLocation
      /\ R!Fgetc(pos) = 0
      /\ ulLocationOffset' = ulLocationOffset + (IF behind THEN ulCount ELSE 0)
  BY DEF R!CountryRead
<1>2. /\ file \in Seq(R!Byte)
      /\ At(file, CountryPlace(record), R!Text(record.country))
      /\ At(file, AreaPlace(record), R!AreaBytes(record))
      /\ record.country \in Seq(32..255) /\ record.shape \in R!Shapes
  BY PlacesInFile, RecordIs DEF RecordInv
<1>3. /\ Reading(record.country, CountryPlace(record), strCountry, pos, ulCount)
      /\ behind = Behind(record) /\ strLocation = <<>>
      /\ ulLocationOffset = IF behind THEN CountryPlace(record) ELSE AreaPlace(record)
  BY <1>1 DEF RecordInv
<1>4. strCountry = record.country /\ ulCount = Len(record.country) + 1
  BY ONLY <1>1, <1>2, <1>3, ReadingEnds
<1>5. CountryPlace(record) \in Nat /\ AreaPlace(record) \in Nat /\ Len(record.country) \in Nat
  BY <1>2 DEF At
<1>6. ulLocationOffset' = AreaPlace(record)
  <2>1. CASE Behind(record)
    <3>1. AreaPlace(record) = CountryPlace(record) + Len(record.country) + 1
      BY <2>1 DEF AreaPlace, Behind
    <3>2. ulLocationOffset' = CountryPlace(record) + (Len(record.country) + 1)
      BY <1>1, <1>3, <1>4, <2>1
    <3> QED BY ONLY <1>5, <3>1, <3>2
  <2>2. CASE ~Behind(record)
    <3>1. behind = FALSE
      <4>1. Behind(record) = FALSE
        BY <2>2 DEF Behind
      <4> QED BY ONLY <1>3, <4>1
    <3> QED BY <1>1, <1>3, <1>5, <3>1
  <2> QED BY <2>1, <2>2
<1> QED BY <1>1, <1>3, <1>4, <1>6 DEF RecordInv

LEMMA ReadAreaKeeps == RecordInv /\ R!ReadArea => RecordInv'
<1> SUFFICES ASSUME RecordInv, R!ReadArea PROVE RecordInv'
  OBVIOUS
<1> DEFINE n == ulLocationOffset
           to == R!GetValue3(n + 1)
<1>1. /\ record' = record /\ file' = file /\ recordPc = "area" /\ recordPc' = "location"
      /\ strCountry' = strCountry /\ strLocation' = strLocation
      /\ IF R!Value(n) = 2 \/ R!Value(n + 1) = 1
         THEN pos' = to /\ ulCount' = 1
         ELSE pos' = n /\ ulCount' = 1
  BY DEF R!ReadArea, R!REDIRECT_MODE_1, R!REDIRECT_MODE_2, R!StartGetString
<1>2. /\ record \in R!Record /\ file = R!FileOf(record)
      /\ n = AreaPlace(record) /\ strLocation = <<>> /\ strCountry = record.country
  BY <1>1 DEF RecordInv
<1>3. ASSUME Readable(record)
      PROVE  Reading(record.location, LocationPlace(record), strLocation', pos', ulCount')
  <2>1. /\ record.area = "inline" => R!Value(n) # 2 /\ R!Value(n + 1) # 1
        /\ record.area = "mode2" => R!Value(n) = 2 /\ to = R!LocationAt(record)
        /\ At(file, LocationPlace(record), R!Text(record.location))
    BY <1>2, <1>3, AreaStartIs
  <2>2. pos' = LocationPlace(record) /\ ulCount' = 1
    <3> HIDE DEF n, to
    <3>1. CASE record.area = "inline"
      BY <1>1, <1>2, <2>1, <3>1 DEF LocationPlace
    <3>2. CASE record.area = "mode2"
      BY <1>1, <2>1, <3>2 DEF LocationPlace
    <3> QED BY <1>3, <3>1, <3>2 DEF Readable
  <2>3. LocationPlace(record) \in Nat /\ record.location \in Seq(32..255)
    BY <1>2, <2>1, RecordIs DEF At
  <2>4. Reading(record.location, LocationPlace(record), <<>>, LocationPlace(record), 1)
    BY ONLY <2>3, ReadingBegins
  <2> QED BY ONLY <1>1, <1>2, <2>2, <2>4
<1> QED BY <1>1, <1>2, <1>3 DEF RecordInv

LEMMA LocationReadKeeps == RecordInv /\ R!LocationRead => RecordInv'
<1> SUFFICES ASSUME RecordInv, R!LocationRead PROVE RecordInv'
  OBVIOUS
<1>1. /\ record' = record /\ file' = file /\ recordPc = "location" /\ recordPc' = "done"
      /\ strCountry' = strCountry /\ strLocation' = strLocation
      /\ R!Fgetc(pos) = 0
  BY DEF R!LocationRead
<1>2. ASSUME Readable(record) PROVE strLocation = record.location
  <2>1. /\ file \in Seq(R!Byte) /\ record.location \in Seq(32..255)
        /\ At(file, LocationPlace(record), R!Text(record.location))
    BY <1>2, PlacesInFile, RecordIs, AreaStartIs DEF RecordInv
  <2>2. Reading(record.location, LocationPlace(record), strLocation, pos, ulCount)
    BY <1>1, <1>2 DEF RecordInv
  <2> QED BY ONLY <1>1, <2>1, <2>2, ReadingEnds
<1> QED BY <1>1, <1>2 DEF RecordInv

LEMMA RecordInvNext == RecordInv /\ [R!Next]_recordVars => RecordInv'
<1> SUFFICES ASSUME RecordInv, [R!Next]_recordVars PROVE RecordInv'
  OBVIOUS
<1>1. CASE UNCHANGED recordVars
  BY <1>1 DEF recordVars, RecordInv, Reading
<1> QED
  BY <1>1, ReadModeKeeps, GetCharKeeps, CountryReadKeeps, ReadAreaKeeps, LocationReadKeeps
  DEF R!Next

LEMMA RecordInvDecodes == RecordInv /\ R!TypeOK => R!DecodesCountry /\ R!DecodesRecord
BY DEF RecordInv, R!DecodesCountry, R!DecodesRecord, Readable, R!TypeOK

\* What the decoder reads is a byte, the end of the file included, and an offset a number.
LEMMA ReadType ==
  ASSUME file \in Seq(R!Byte), NEW n \in Nat
  PROVE  /\ R!Fgetc(n) \in R!Byte \cup {R!EOF}
         /\ R!Value(n) \in Nat
<1>1. R!Fgetc(n) \in 0..255 \cup {-1}
  <2>1. CASE n < Len(file)
    <3>1. n + 1 \in 1..Len(file)
      BY <2>1
    <3>2. file[n + 1] \in 0..255
      BY <3>1, ElementOfSeq DEF R!Byte
    <3> QED BY <2>1, <3>2 DEF R!Fgetc
  <2>2. CASE ~(n < Len(file))
    BY <2>2 DEF R!Fgetc, R!EOF
  <2> QED BY <2>1, <2>2
<1>2. PICK v \in Int : v = R!Fgetc(n)
  BY <1>1
<1>3. v % 256 \in Nat
  OBVIOUS
<1> QED BY <1>1, <1>2, <1>3 DEF R!Value, R!Byte, R!EOF

LEMMA OffsetType ==
  ASSUME file \in Seq(R!Byte), NEW n \in Nat
  PROVE  R!GetValue3(n) \in Nat
<1>1. n + 1 \in Nat /\ n + 2 \in Nat
  OBVIOUS
<1>2. PICK x \in Nat, y \in Nat, w \in Nat :
        x = R!Value(n) /\ y = R!Value(n + 1) /\ w = R!Value(n + 2)
  BY <1>1, ReadType
<1>3. (w * 256 + y) * 256 + x \in Nat
  OBVIOUS
<1> QED BY ONLY <1>2, <1>3 DEF R!GetValue3

LEMMA RecordTypesInit == R!Init => R!TypeOK
<1> SUFFICES ASSUME R!Init PROVE R!TypeOK
  OBVIOUS
<1>1. record \in R!Record /\ file = R!FileOf(record)
  BY DEF R!Init
<1>2. file \in Seq(R!Byte) /\ R!RecordAt(record) \in Nat
  BY <1>1, PlacesInFile
<1>3. pos \in Nat
  BY <1>2 DEF R!Init
<1>4. recordPc = "mode" /\ strCountry = <<>> /\ strLocation = <<>>
  BY DEF R!Init
<1>5. <<>> \in Seq(R!Byte)
  OBVIOUS
<1>6. strCountry \in Seq(R!Byte) /\ strLocation \in Seq(R!Byte)
  BY ONLY <1>4, <1>5
<1>7. ulLocationOffset = 0 /\ ulCount = 1
  BY DEF R!Init
<1>8. ulLocationOffset \in Nat /\ ulCount \in Nat \ {0}
  BY ONLY <1>7
<1>9. behind \in BOOLEAN
  BY DEF R!Init
<1> QED BY ONLY <1>2, <1>3, <1>4, <1>6, <1>8, <1>9 DEF R!TypeOK

LEMMA RecordTypesNext == R!TypeOK /\ [R!Next]_recordVars => R!TypeOK'
<1> SUFFICES ASSUME R!TypeOK, [R!Next]_recordVars PROVE R!TypeOK'
  OBVIOUS
<1>1. file \in Seq(R!Byte) /\ pos \in Nat /\ ulLocationOffset \in Nat /\ ulCount \in Nat \ {0}
  BY DEF R!TypeOK
<1>2. \A n \in Nat : R!GetValue3(n) \in Nat
  BY <1>1, OffsetType
<1>3. CASE R!ReadMode
  <2> DEFINE n == pos + 4
             to == R!GetValue3(n + 1)
  <2>1. n \in Nat /\ n + 1 \in Nat /\ n + 4 \in Nat
    BY <1>1
  <2> HIDE DEF n
  <2>2. to \in Nat
    BY <1>2, <2>1
  <2>3. to + 1 \in Nat /\ to + 4 \in Nat
    BY <2>2
  <2>4. R!GetValue3(to + 1) \in Nat
    BY <1>2, <2>3
  <2>5. pos' \in {R!GetValue3(to + 1), to, n} /\ ulCount' = 1
    BY <1>3 DEF R!ReadMode, R!StartGetString, R!IP_LENGTH, n
  <2>6. ulLocationOffset' \in {to + 4, to, n + 4, n} /\ behind' \in BOOLEAN
    BY <1>3 DEF R!ReadMode, R!IP_LENGTH, n
  <2>7. /\ file' = file /\ recordPc' = "country"
        /\ strCountry' = strCountry /\ strLocation' = strLocation
    BY <1>3 DEF R!ReadMode
  <2> HIDE DEF to
  <2>8. pos' \in Nat /\ ulLocationOffset' \in Nat
    BY ONLY <2>1, <2>2, <2>3, <2>4, <2>5, <2>6
  <2> QED BY <2>5, <2>6, <2>7, <2>8 DEF R!TypeOK
<1>4. CASE R!GetChar
  <2>1. R!Fgetc(pos) \in R!Byte
    BY <1>1, <1>4, ReadType DEF R!GetChar
  <2>2. Append(strCountry, R!Fgetc(pos)) \in Seq(R!Byte)
    BY <2>1 DEF R!TypeOK
  <2>3. Append(strLocation, R!Fgetc(pos)) \in Seq(R!Byte)
    BY <2>1 DEF R!TypeOK
  <2>4. strCountry' \in Seq(R!Byte) /\ strLocation' \in Seq(R!Byte)
    BY <1>4, <2>2, <2>3 DEF R!GetChar, R!TypeOK
  <2> QED BY <1>1, <1>4, <2>4 DEF R!GetChar, R!TypeOK
<1>5. CASE R!CountryRead
  BY <1>1, <1>5 DEF R!CountryRead, R!TypeOK
<1>6. CASE R!ReadArea
  <2>1. ulLocationOffset + 1 \in Nat
    BY <1>1
  <2>2. R!GetValue3(ulLocationOffset + 1) \in Nat
    BY <1>2, <2>1
  <2>3. /\ ulLocationOffset' \in {R!GetValue3(ulLocationOffset + 1), ulLocationOffset}
        /\ pos' \in {R!GetValue3(ulLocationOffset + 1), ulLocationOffset}
        /\ ulCount' = 1
    BY <1>6 DEF R!ReadArea, R!StartGetString
  <2>4. ulLocationOffset' \in Nat /\ pos' \in Nat
    BY ONLY <1>1, <2>2, <2>3
  <2> QED BY <1>6, <2>3, <2>4 DEF R!ReadArea, R!TypeOK
<1>7. CASE R!LocationRead
  BY <1>7 DEF R!LocationRead, R!TypeOK
<1>8. CASE UNCHANGED recordVars
  BY <1>8 DEF recordVars, R!TypeOK
<1> QED BY <1>3, <1>4, <1>5, <1>6, <1>7, <1>8 DEF R!Next

-----------------------------------------------------------------------------
(* Addresses.                                                              *)

\* A set of natural numbers that is not empty has a least element.
LEMMA Least ==
  ASSUME NEW S \in SUBSET Nat, S # {}
  PROVE  \E m \in S : \A k \in S : m <= k
<1> DEFINE Less == {ss \in Nat \X Nat : ss[1] < ss[2]}
<1>1. IsWellFoundedOn(Less, Nat)
  BY NatLessThanWellFounded DEF OpToRel
<1>2. PICK m \in S : \A y \in S : ~(<<y, m>> \in Less)
  BY <1>1, WFMin
<1>3. ASSUME NEW k \in S PROVE m <= k
  <2>1. <<k, m>> \in Nat \X Nat /\ ~(<<k, m>> \in Less)
    BY <1>2
  <2>2. ~(k < m)
    BY <2>1
  <2> QED BY <2>2
<1> QED BY <1>3

\* What holds of 0, and of i + 1 if of i, holds of every natural number up to n.
LEMMA UpTo ==
  ASSUME NEW S, NEW n \in Nat, 0 \in S, \A i \in 0..(n - 1) : i \in S => i + 1 \in S
  PROVE  \A i \in 0..n : i \in S
<1> DEFINE Bad == {i \in 0..n : i \notin S}
<1>1. SUFFICES ASSUME Bad # {} PROVE FALSE
  OBVIOUS
<1>2. PICK m \in Bad : \A k \in Bad : m <= k
  <2>1. Bad \in SUBSET Nat
    OBVIOUS
  <2> HIDE DEF Bad
  <2> QED BY <1>1, <2>1, Least
<1>3. m \in 0..n /\ m # 0 /\ m \notin S
  BY <1>2
<1>4. m - 1 \in 0..(n - 1) /\ (m - 1) + 1 = m
  BY <1>3
<1>5. m - 1 \in 0..n /\ ~(m <= m - 1)
  BY <1>3
<1>6. m - 1 \notin Bad
  BY ONLY <1>2, <1>5
<1>7. m - 1 \in S
  BY <1>5, <1>6
<1> QED BY <1>3, <1>4, <1>7

\* The values of the first characters of a part, from none to m of them.
ValuesOf(t, b, m, f) ==
  f = [k \in 0..m |-> IF k = 0 THEN 0 ELSE 10 * f[k - 1] + t[b + k - 1]]

LEMMA ValuesAreNumbers ==
  ASSUME NEW t \in Seq(0..11), NEW b \in Nat \ {0}, NEW m \in Nat, b + m <= Len(t) + 1,
         NEW f, ValuesOf(t, b, m, f)
  PROVE  \A k \in 0..m : f[k] \in Nat
<1> DEFINE S == {k \in 0..m : f[k] \in Nat}
<1>1. 0 \in S
  <2>1. 0 \in 0..m
    OBVIOUS
  <2>2. f[0] = 0
    BY <2>1 DEF ValuesOf
  <2> QED BY <2>1, <2>2
<1>2. ASSUME NEW i \in 0..(m - 1), i \in S PROVE i + 1 \in S
  <2>1. i + 1 \in 0..m /\ i + 1 # 0 /\ (i + 1) - 1 = i /\ b + (i + 1) - 1 = b + i
    BY <1>2
  <2>2. f[i + 1] = 10 * f[i] + t[b + i]
    BY <2>1 DEF ValuesOf
  <2>3. b + i \in 1..Len(t)
    BY <1>2
  <2>4. t[b + i] \in Nat
    <3>1. t[b + i] \in 0..11
      BY <2>3, ElementOfSeq
    <3> QED BY <3>1
  <2>5. PICK u \in Nat, v \in Nat : u = f[i] /\ v = t[b + i]
    BY <1>2, <2>4
  <2>6. 10 * u + v \in Nat
    OBVIOUS
  <2>7. f[i + 1] \in Nat
    BY ONLY <2>2, <2>5, <2>6
  <2> QED BY <2>1, <2>7
<1> HIDE DEF S
<1>3. \A k \in 0..m : k \in S
  BY <1>1, <1>2, UpTo
<1> QED BY <1>3 DEF S

LEMMA ValuesExist ==
  ASSUME NEW t \in Seq(0..11), NEW b \in Nat \ {0}, NEW m \in Nat, b + m <= Len(t) + 1
  PROVE  \E f : ValuesOf(t, b, m, f)
<1> DEFINE S == {i \in 0..m : \E f : ValuesOf(t, b, i, f)}
<1>1. 0 \in S
  <2> DEFINE f == [k \in 0..0 |-> 0]
  <2>1. f = [k \in 0..0 |-> IF k = 0 THEN 0 ELSE 10 * f[k - 1] + t[b + k - 1]]
    OBVIOUS
  <2> HIDE DEF f
  <2>2. ValuesOf(t, b, 0, f)
    BY <2>1 DEF ValuesOf
  <2> QED BY <2>2
<1>2. ASSUME NEW i \in 0..(m - 1), i \in S PROVE i + 1 \in S
  <2>1. PICK g : ValuesOf(t, b, i, g)
    BY <1>2
  <2> DEFINE f == [k \in 0..(i + 1) |-> IF k <= i THEN g[k] ELSE 10 * g[i] + t[b + i]]
  <2>2. ASSUME NEW k \in 0..(i + 1)
        PROVE  f[k] = IF k = 0 THEN 0 ELSE 10 * f[k - 1] + t[b + k - 1]
    <3>1. CASE k = 0
      <4>1. 0 \in 0..i /\ 0 <= i
        OBVIOUS
      <4> QED BY <3>1, <4>1, <2>1 DEF ValuesOf
    <3>2. CASE k # 0 /\ k <= i
      <4>1. k \in 0..i /\ k - 1 \in 0..(i + 1) /\ k - 1 <= i
        BY <3>2
      <4>2. g[k] = 10 * g[k - 1] + t[b + k - 1]
        BY <3>2, <4>1, <2>1 DEF ValuesOf
      <4>3. f[k] = g[k] /\ f[k - 1] = g[k - 1]
        BY <3>2, <4>1
      <4> QED BY ONLY <3>2, <4>2, <4>3
    <3>3. CASE k = i + 1
      <4>1. i \in 0..(i + 1) /\ ~(i + 1 <= i) /\ i + 1 # 0 /\ (i + 1) - 1 = i
            /\ b + (i + 1) - 1 = b + i /\ i + 1 \in 0..(i + 1)
        OBVIOUS
      <4>2. f[i + 1] = 10 * g[i] + t[b + i] /\ f[i] = g[i]
        BY <4>1
      <4> QED BY ONLY <3>3, <4>1, <4>2
    <3> QED BY <3>1, <3>2, <3>3
  <2>3. f = [k \in 0..(i + 1) |-> f[k]]
    OBVIOUS
  <2> HIDE DEF f
  <2>4. ValuesOf(t, b, i + 1, f)
    BY <2>2, <2>3 DEF ValuesOf
  <2>5. i + 1 \in 0..m
    OBVIOUS
  <2> QED BY <2>4, <2>5
<1> HIDE DEF S
<1>3. \A i \in 0..m : i \in S
  BY <1>1, <1>2, UpTo
<1>4. m \in 0..m
  OBVIOUS
<1> QED BY <1>3, <1>4 DEF S

\* The number of a part of an address, whatever its characters.
LEMMA NumberType ==
  ASSUME NEW t \in Seq(0..11), NEW b \in Nat \ {0}, NEW e \in Nat, b <= e + 1, e <= Len(t)
  PROVE  A!Number(t, b, e) \in Nat
<1> DEFINE m == e - b + 1
           n == CHOOSE f : ValuesOf(t, b, m, f)
<1>1. m \in Nat /\ b + m <= Len(t) + 1 /\ m \in 0..m
  OBVIOUS
<1>2. A!Number(t, b, e) = n[m]
  BY DEF A!Number, ValuesOf
<1> HIDE DEF m
<1>3. ValuesOf(t, b, m, n)
  BY <1>1, ValuesExist
<1> HIDE DEF n
<1>4. n[m] \in Nat
  BY <1>1, <1>3, ValuesAreNumbers
<1> QED BY <1>2, <1>4

\* strchr: the dot it finds has none before it.
LEMMA NextDotIs ==
  ASSUME pszIp \in Seq(0..11), NEW i \in Nat \ {0}, NEW m \in i..Len(pszIp),
         pszIp[m] = 10, \A j \in i..(m - 1) : pszIp[j] # 10
  PROVE  A!NextDot(i) = m
<1> DEFINE dots == {k \in i..Len(pszIp) : pszIp[k] = 10}
<1>0. Len(pszIp) \in Nat
  OBVIOUS
<1>1. m \in dots
  OBVIOUS
<1>2. \A k \in dots : m <= k
  BY <1>0
<1>3. \A k \in dots : (\A j \in dots : k <= j) => k = m
  BY <1>0, <1>1, <1>2
<1>4. (CHOOSE k \in dots : \A j \in dots : k <= j) = m
  <2> HIDE DEF dots
  <2> QED BY <1>1, <1>2, <1>3
<1>5. dots # {}
  BY <1>1
<1> QED BY <1>4, <1>5 DEF A!NextDot, A!Dot

LEMMA NoNextDot ==
  ASSUME pszIp \in Seq(0..11), NEW i \in Nat \ {0},
         \A j \in i..Len(pszIp) : pszIp[j] # 10
  PROVE  A!NextDot(i) = 0
BY DEF A!NextDot, A!Dot

LEMMA NextDotType ==
  ASSUME pszIp \in Seq(0..11), NEW i \in Nat \ {0}
  PROVE  A!NextDot(i) = 0 \/ A!NextDot(i) \in i..Len(pszIp)
<1> DEFINE dots == {k \in i..Len(pszIp) : pszIp[k] = 10}
<1>1. CASE dots = {}
  BY <1>1 DEF A!NextDot, A!Dot
<1>2. CASE dots # {}
  <2>1. dots \in SUBSET Nat /\ dots \subseteq i..Len(pszIp)
    OBVIOUS
  <2> HIDE DEF dots
  <2>2. \E m \in dots : \A k \in dots : m <= k
    BY <1>2, <2>1, Least
  <2>3. (CHOOSE k \in dots : \A j \in dots : k <= j) \in dots
    BY <2>2
  <2>4. A!NextDot(i) = CHOOSE k \in dots : \A j \in dots : k <= j
    BY <1>2 DEF A!NextDot, A!Dot, dots
  <2> QED BY <2>1, <2>3, <2>4
<1> QED BY <1>1, <1>2


\* The limits of the four parts of a legal address: three dots, with digits around them.
LegalAt(a, b, c) ==
  /\ a \in Nat /\ b \in Nat /\ c \in Nat
  /\ 2 <= a /\ a + 2 <= b /\ b + 2 <= c /\ c <= Len(pszIp) - 1
  /\ pszIp[a] = 10 /\ pszIp[b] = 10 /\ pszIp[c] = 10
  /\ \A i \in 1..Len(pszIp) : i \notin {a, b, c} => pszIp[i] \in 0..9

\* The numbers of the four parts.
NumbersAt(a, b, c) ==
  <<A!Number(pszIp, 1, a - 1), A!Number(pszIp, a + 1, b - 1),
    A!Number(pszIp, b + 1, c - 1), A!Number(pszIp, c + 1, Len(pszIp))>>

LEMMA LegalMeans ==
  ASSUME pszIp \in Seq(0..11), NEW d \in A!Limits(pszIp), A!Legal(pszIp, d)
  PROVE  \E a, b, c \in Nat :
           /\ LegalAt(a, b, c)
           /\ A!Parts(pszIp, d) = NumbersAt(a, b, c)
           /\ \A k \in 1..4 : NumbersAt(a, b, c)[k] < Base
<1>1. PICK e \in [1..3 -> A!Dots(pszIp)] : d = <<0, e[1], e[2], e[3], Len(pszIp) + 1>>
  BY DEF A!Limits
<1>2. PICK a, b, c : a = e[1] /\ b = e[2] /\ c = e[3]
  OBVIOUS
<1>3. /\ a \in 1..Len(pszIp) /\ b \in 1..Len(pszIp) /\ c \in 1..Len(pszIp)
      /\ pszIp[a] = 10 /\ pszIp[b] = 10 /\ pszIp[c] = 10
  BY <1>1, <1>2 DEF A!Dots, A!Dot
<1>4. Len(pszIp) \in Nat
  OBVIOUS
<1>5. d[1] = 0 /\ d[2] = a /\ d[3] = b /\ d[4] = c /\ d[5] = Len(pszIp) + 1
  BY <1>1, <1>2
<1>6. \A k \in 1..4 :
        /\ d[k] + 1 < d[k + 1]
        /\ \A i \in (d[k] + 1)..(d[k + 1] - 1) : pszIp[i] \in 0..9
        /\ A!Parts(pszIp, d)[k] < Base
  BY DEF A!Legal, A!isdigit
<1>7. /\ 0 + 1 < a /\ \A i \in (0 + 1)..(a - 1) : pszIp[i] \in 0..9
      /\ a + 1 < b /\ \A i \in (a + 1)..(b - 1) : pszIp[i] \in 0..9
      /\ b + 1 < c /\ \A i \in (b + 1)..(c - 1) : pszIp[i] \in 0..9
      /\ c + 1 < Len(pszIp) + 1
      /\ \A i \in (c + 1)..(Len(pszIp) + 1 - 1) : pszIp[i] \in 0..9
  <2>1. 1 \in 1..4 /\ 2 \in 1..4 /\ 3 \in 1..4 /\ 4 \in 1..4
        /\ 1 + 1 = 2 /\ 2 + 1 = 3 /\ 3 + 1 = 4 /\ 4 + 1 = 5
    OBVIOUS
  <2> QED BY ONLY <2>1, <1>5, <1>6
<1>8. LegalAt(a, b, c)
  <2>1. a \in Nat /\ b \in Nat /\ c \in Nat
    BY <1>3
  <2>2. 2 <= a /\ a + 2 <= b /\ b + 2 <= c /\ c <= Len(pszIp) - 1
    BY <1>4, <1>7, <2>1
  <2>3. ASSUME NEW i \in 1..Len(pszIp), i \notin {a, b, c} PROVE pszIp[i] \in 0..9
    <3>1. \/ i \in (0 + 1)..(a - 1) \/ i \in (a + 1)..(b - 1) \/ i \in (b + 1)..(c - 1)
          \/ i \in (c + 1)..(Len(pszIp) + 1 - 1)
      BY ONLY <2>1, <2>3, <1>4
    <3> QED BY ONLY <1>7, <3>1
  <2> QED BY <1>3, <2>1, <2>2, <2>3 DEF LegalAt
<1>9. A!Parts(pszIp, d) = NumbersAt(a, b, c)
  <2>1. A!Parts(pszIp, d) =
          <<A!Number(pszIp, d[1] + 1, d[2] - 1), A!Number(pszIp, d[2] + 1, d[3] - 1),
            A!Number(pszIp, d[3] + 1, d[4] - 1), A!Number(pszIp, d[4] + 1, d[5] - 1)>>
    BY DEF A!Parts
  <2>2. 0 + 1 = 1 /\ (Len(pszIp) + 1) - 1 = Len(pszIp)
    BY <1>4
  <2> QED BY ONLY <2>1, <2>2, <1>5 DEF NumbersAt
<1> QED BY <1>3, <1>6, <1>8, <1>9

\* IsRightIpString refuses no legal address.
LEMMA LegalIsRight ==
  ASSUME pszIp \in Seq(0..11), NEW a, NEW b, NEW c, LegalAt(a, b, c)
  PROVE  A!IsRightIpString(pszIp)
<1>1. /\ a \in Nat /\ b \in Nat /\ c \in Nat /\ Len(pszIp) \in Nat
      /\ 2 <= a /\ a + 2 <= b /\ b + 2 <= c /\ c <= Len(pszIp) - 1
  BY DEF LegalAt
<1>2. \A i \in 1..Len(pszIp) : i \notin {a, b, c} => pszIp[i] \in 0..9
  BY DEF LegalAt
<1>3. Len(pszIp) >= 7
  BY ONLY <1>1
<1>4. ASSUME NEW i \in {a, b, c}
      PROVE  pszIp[i] = 10 /\ pszIp[i - 1] \in 0..9 /\ pszIp[i + 1] \in 0..9
  <2>1. /\ i - 1 \in 1..Len(pszIp) /\ i - 1 \notin {a, b, c}
        /\ i + 1 \in 1..Len(pszIp) /\ i + 1 \notin {a, b, c}
    BY ONLY <1>1, <1>4
  <2> QED BY <1>2, <2>1, <1>4 DEF LegalAt
<1> QED BY <1>2, <1>3, <1>4 DEF A!IsRightIpString, A!isdigit, A!Dot

\* Where the parts of a legal address end.
LEMMA LegalDots ==
  ASSUME pszIp \in Seq(0..11), NEW a, NEW b, NEW c, LegalAt(a, b, c)
  PROVE  /\ A!NextDot(1) = a
         /\ A!NextDot(a + 1) = b
         /\ A!NextDot(b + 1) = c
         /\ A!NextDot(c + 1) = 0
<1>1. /\ a \in Nat /\ b \in Nat /\ c \in Nat /\ Len(pszIp) \in Nat
      /\ 2 <= a /\ a + 2 <= b /\ b + 2 <= c /\ c <= Len(pszIp) - 1
  BY DEF LegalAt
<1>2. ASSUME NEW i \in 1..Len(pszIp), i \notin {a, b, c} PROVE pszIp[i] # 10
  <2>1. pszIp[i] \in 0..9
    BY <1>2 DEF LegalAt
  <2> QED BY <2>1
<1>3. pszIp[a] = 10 /\ pszIp[b] = 10 /\ pszIp[c] = 10
  BY DEF LegalAt
<1>4. A!NextDot(1) = a
  <2>1. 1 \in Nat \ {0} /\ a \in 1..Len(pszIp)
    BY <1>1
  <2>2. \A j \in 1..(a - 1) : j \in 1..Len(pszIp) /\ j \notin {a, b, c}
    BY ONLY <1>1
  <2>3. \A j \in 1..(a - 1) : pszIp[j] # 10
    BY ONLY <1>2, <2>2
  <2> QED BY <1>3, <2>1, <2>3, NextDotIs
<1>5. A!NextDot(a + 1) = b
  <2>1. a + 1 \in Nat \ {0} /\ b \in (a + 1)..Len(pszIp)
    BY <1>1
  <2>2. \A j \in (a + 1)..(b - 1) : j \in 1..Len(pszIp) /\ j \notin {a, b, c}
    BY ONLY <1>1
  <2>3. \A j \in (a + 1)..(b - 1) : pszIp[j] # 10
    BY ONLY <1>2, <2>2
  <2> QED BY <1>3, <2>1, <2>3, NextDotIs
<1>6. A!NextDot(b + 1) = c
  <2>1. b + 1 \in Nat \ {0} /\ c \in (b + 1)..Len(pszIp)
    BY <1>1
  <2>2. \A j \in (b + 1)..(c - 1) : j \in 1..Len(pszIp) /\ j \notin {a, b, c}
    BY ONLY <1>1
  <2>3. \A j \in (b + 1)..(c - 1) : pszIp[j] # 10
    BY ONLY <1>2, <2>2
  <2> QED BY <1>3, <2>1, <2>3, NextDotIs
<1>7. A!NextDot(c + 1) = 0
  <2>1. c + 1 \in Nat \ {0}
    BY <1>1
  <2>2. \A j \in (c + 1)..Len(pszIp) : j \in 1..Len(pszIp) /\ j \notin {a, b, c}
    BY ONLY <1>1
  <2>3. \A j \in (c + 1)..Len(pszIp) : pszIp[j] # 10
    BY ONLY <1>2, <2>2
  <2> QED BY <2>1, <2>3, NoNextDot
<1> QED BY <1>4, <1>5, <1>6, <1>7


\* A place more: what stays below P with a number below Base behind it stays below P * Base.
LEMMA PlaceBound ==
  ASSUME NEW B \in Nat, NEW P \in Nat, NEW x \in Nat, NEW y \in Nat, x < P, y < B
  PROVE  x * B + y \in Nat /\ x * B + y < P * B
<1>1. PICK q \in Nat : P = x + 1 + q
  <2>1. P - (x + 1) \in Nat /\ P = x + 1 + (P - (x + 1))
    OBVIOUS
  <2> QED BY <2>1
<1>2. P * B = x * B + B + q * B
  BY <1>1
<1>3. x * B \in Nat /\ q * B \in Nat
  OBVIOUS
<1> QED BY <1>2, <1>3

LEMMA Quotient ==
  ASSUME NEW B \in Nat, NEW q \in Nat, NEW r \in Nat, r < B
  PROVE  (q * B + r) \div B = q /\ (q * B + r) % B = r
<1>1. q * B + r \in Int
  OBVIOUS
<1>2. PICK v \in Int : v = q * B + r
  BY <1>1
<1>3. PICK k \in Int, s \in Int : k = v \div B /\ s = v % B
  OBVIOUS
<1>4. v = B * k + s /\ 0 <= s /\ s < B
  BY <1>3
<1>5. k = q
  <2>1. CASE k >= q + 1
    <3>1. PICK i \in Nat : k = q + 1 + i
      <4>1. k - (q + 1) \in Nat /\ k = q + 1 + (k - (q + 1))
        BY <2>1
      <4> QED BY <4>1
    <3>2. B * k = B * q + B + B * i
      BY <3>1
    <3>3. B * i \in Nat /\ B * q = q * B /\ q * B \in Nat
      OBVIOUS
    <3> QED BY <1>2, <1>4, <3>2, <3>3
  <2>2. CASE q >= k + 1
    <3>1. PICK i \in Nat : q = k + 1 + i
      <4>1. q - (k + 1) \in Nat /\ q = k + 1 + (q - (k + 1))
        BY <2>2
      <4> QED BY <4>1
    <3>2. q * B = B * k + B + B * i
      BY <3>1
    <3>3. B * i \in Nat /\ B * k \in Int
      OBVIOUS
    <3> QED BY <1>2, <1>4, <3>2, <3>3
  <2> QED BY <2>1, <2>2
<1>6. B * k = q * B
  BY <1>5
<1>7. s = r
  BY <1>2, <1>4, <1>6
<1> QED BY <1>2, <1>3, <1>5, <1>7

\* Four numbers of a byte, the first shifted the most.
LEMMA FourBytes ==
  ASSUME NEW x \in Nat, NEW y \in Nat, NEW z \in Nat, NEW w \in Nat,
         x < Base, y < Base, z < Base, w < Base
  PROVE  /\ ((x * Base + y) * Base + z) * Base + w \in 0..(A!Word - 1)
         /\ A!IpValue2IpString(((x * Base + y) * Base + z) * Base + w) = <<x, y, z, w>>
<1>1. PICK B \in Nat \ {0} : B = Base
  BY PartsAssumption DEF A!ConstantsAssumption
<1>2. PICK p \in Nat : p = x * B + y
  OBVIOUS
<1>3. PICK s \in Nat : s = p * B + z
  OBVIOUS
<1>4. PICK v \in Nat : v = s * B + w
  OBVIOUS
<1>5. PICK B2 \in Nat, B3 \in Nat, B4 \in Nat : B2 = B * B /\ B3 = B2 * B /\ B4 = B3 * B
  OBVIOUS
<1>6. p < B2 /\ s < B3 /\ v < B4
  <2>1. p < B2
    BY <1>1, <1>2, <1>5, PlaceBound
  <2>2. s < B3
    BY <1>1, <1>3, <1>5, <2>1, PlaceBound
  <2>3. v < B4
    BY <1>1, <1>4, <1>5, <2>2, PlaceBound
  <2> QED BY <2>1, <2>2, <2>3
<1>7. v % B = w /\ v \div B = s
  <2>1. w < B
    BY ONLY <1>1, w < Base
  <2>2. (s * B + w) \div B = s /\ (s * B + w) % B = w
    BY ONLY <2>1, B \in Nat \ {0}, s \in Nat, w \in Nat, Quotient
  <2> QED BY ONLY <1>4, <2>2
<1>8. s % B = z
  <2>1. z < B
    BY ONLY <1>1, z < Base
  <2>2. (p * B + z) % B = z
    BY ONLY <2>1, B \in Nat \ {0}, p \in Nat, z \in Nat, Quotient
  <2> QED BY ONLY <1>3, <2>2
<1>9. v \div B2 = p /\ p % B = y
  <2>1. z * B + w \in Nat /\ z * B + w < B2
    BY <1>1, <1>5, PlaceBound
  <2>2. PICK r \in Nat : r = z * B + w
    BY <2>1
  <2>3. v = p * B2 + r
    BY <1>3, <1>4, <1>5, <2>2
  <2>4. v \div B2 = p
    <3>1. r < B2
      BY ONLY <2>1, <2>2
    <3>2. (p * B2 + r) \div B2 = p
      BY ONLY <3>1, B2 \in Nat, p \in Nat, r \in Nat, Quotient
    <3> QED BY ONLY <2>3, <3>2
  <2>5. p % B = y
    <3>1. y < B
      BY ONLY <1>1, y < Base
    <3>2. (x * B + y) % B = y
      BY ONLY <3>1, B \in Nat \ {0}, x \in Nat, y \in Nat, Quotient
    <3> QED BY ONLY <1>2, <3>2
  <2> QED BY <2>4, <2>5
<1>10. v \div B3 = x
  <2>1. y * B + z \in Nat /\ y * B + z < B2
    BY <1>1, <1>5, PlaceBound
  <2>2. PICK r \in Nat : r = y * B + z
    BY <2>1
  <2>3. r * B + w \in Nat /\ r * B + w < B3
    BY <1>1, <1>5, <2>1, <2>2, PlaceBound
  <2>4. PICK u \in Nat : u = r * B + w
    BY <2>3
  <2>5. v = x * B3 + u
    BY <1>2, <1>3, <1>4, <1>5, <2>2, <2>4
  <2>6. u < B3
    BY ONLY <2>3, <2>4
  <2>7. (x * B3 + u) \div B3 = x
    BY ONLY <2>6, B3 \in Nat, x \in Nat, u \in Nat, Quotient
  <2> QED BY ONLY <2>5, <2>7
<1>11. v = ((x * Base + y) * Base + z) * Base + w
  BY <1>1, <1>2, <1>3, <1>4
<1>12. B2 = Base * Base /\ B3 = Base * Base * Base /\ A!Word = B4
  BY <1>1, <1>5 DEF A!Word
<1>13. v \in 0..(A!Word - 1)
  <2>1. v \in 0..(B4 - 1)
    BY ONLY <1>6, v \in Nat, B4 \in Nat
  <2> QED BY ONLY <2>1, <1>12
<1>14. A!IpValue2IpString(v) = <<v \div B3, (v \div B2) % B, (v \div B) % B, v % B>>
  BY ONLY <1>12, <1>1 DEF A!IpValue2IpString
<1>15. A!IpValue2IpString(v) = <<x, y, z, w>>
  BY ONLY <1>7, <1>8, <1>9, <1>10, <1>14
<1> QED BY ONLY <1>11, <1>13, <1>15


\* The numbers of the parts, and what atoi returns at each of them.
LEMMA LegalNumbers ==
  ASSUME pszIp \in Seq(0..11), NEW a, NEW b, NEW c, LegalAt(a, b, c)
  PROVE  \E x, y, z, w \in Nat :
           /\ NumbersAt(a, b, c) = <<x, y, z, w>>
           /\ A!Atoi(1) = x /\ A!Atoi(a + 1) = y /\ A!Atoi(b + 1) = z /\ A!Atoi(c + 1) = w
<1>1. /\ a \in Nat /\ b \in Nat /\ c \in Nat /\ Len(pszIp) \in Nat
      /\ 2 <= a /\ a + 2 <= b /\ b + 2 <= c /\ c <= Len(pszIp) - 1
  BY DEF LegalAt
<1>2. PICK x \in Nat : x = A!Number(pszIp, 1, a - 1)
  <2>1. 1 \in Nat \ {0} /\ a - 1 \in Nat /\ 1 <= (a - 1) + 1 /\ a - 1 <= Len(pszIp)
    BY ONLY <1>1
  <2> QED BY ONLY <2>1, NumberType, pszIp \in Seq(0..11)
<1>3. PICK y \in Nat : y = A!Number(pszIp, a + 1, b - 1)
  <2>1. a + 1 \in Nat \ {0} /\ b - 1 \in Nat /\ a + 1 <= (b - 1) + 1 /\ b - 1 <= Len(pszIp)
    BY ONLY <1>1
  <2> QED BY ONLY <2>1, NumberType, pszIp \in Seq(0..11)
<1>4. PICK z \in Nat : z = A!Number(pszIp, b + 1, c - 1)
  <2>1. b + 1 \in Nat \ {0} /\ c - 1 \in Nat /\ b + 1 <= (c - 1) + 1 /\ c - 1 <= Len(pszIp)
    BY ONLY <1>1
  <2> QED BY ONLY <2>1, NumberType, pszIp \in Seq(0..11)
<1>5. PICK w \in Nat : w = A!Number(pszIp, c + 1, Len(pszIp))
  <2>1. /\ c + 1 \in Nat \ {0} /\ Len(pszIp) \in Nat /\ c + 1 <= Len(pszIp) + 1
        /\ Len(pszIp) <= Len(pszIp)
    BY ONLY <1>1
  <2> QED BY ONLY <2>1, NumberType, pszIp \in Seq(0..11)
<1>6. a # 0 /\ b # 0 /\ c # 0
  BY ONLY <1>1
<1>7. A!Atoi(1) = x
  BY ONLY LegalDots, pszIp \in Seq(0..11), LegalAt(a, b, c), <1>2, <1>6 DEF A!Atoi
<1>8. A!Atoi(a + 1) = y
  BY ONLY LegalDots, pszIp \in Seq(0..11), LegalAt(a, b, c), <1>3, <1>6 DEF A!Atoi
<1>9. A!Atoi(b + 1) = z
  BY ONLY LegalDots, pszIp \in Seq(0..11), LegalAt(a, b, c), <1>4, <1>6 DEF A!Atoi
<1>10. A!Atoi(c + 1) = w
  BY ONLY LegalDots, pszIp \in Seq(0..11), LegalAt(a, b, c), <1>5, <1>6 DEF A!Atoi
<1>11. NumbersAt(a, b, c) = <<x, y, z, w>>
  BY ONLY <1>2, <1>3, <1>4, <1>5 DEF NumbersAt
<1> QED BY <1>7, <1>8, <1>9, <1>10, <1>11

\* What has been added up when the turn for a part begins, and at the end: the
\* parts read so far, each in its place, for a legal address.
SumIs(a, b, c, x, y, z, w) ==
  /\ addressPc = "check" => pBeg = 1 /\ ulIp = 0
  /\ addressPc = "parts" =>
       \/ pBeg = 1 /\ ulIp = 0
       \/ pBeg = a + 1 /\ ulIp = x * Base
       \/ pBeg = b + 1 /\ ulIp = (x * Base + y) * Base
       \/ pBeg = c + 1 /\ ulIp = ((x * Base + y) * Base + z) * Base
  /\ addressPc = "done" => ulIp = ((x * Base + y) * Base + z) * Base + w

AddressInv ==
  /\ A!TypeOK
  /\ \A a, b, c, x, y, z, w \in Nat :
       /\ LegalAt(a, b, c)
       /\ NumbersAt(a, b, c) = <<x, y, z, w>>
       /\ x < Base /\ y < Base /\ z < Base /\ w < Base
       => SumIs(a, b, c, x, y, z, w)

\* A word has a value, and what is taken modulo a word is one.
LEMMA WordType ==
  /\ Base \in Nat \ {0} /\ AddressTexts \subseteq Seq(0..11)
  /\ A!Word \in Nat \ {0}
  /\ \A n \in Nat : n % A!Word \in 0..(A!Word - 1)
<1>1. PICK B \in Nat \ {0} : B = Base
  BY PartsAssumption DEF A!ConstantsAssumption
<1>2. AddressTexts \subseteq Seq(0..11)
  BY PartsAssumption DEF A!ConstantsAssumption, A!Other
<1>3. B * B \in Nat \ {0} /\ B * B * B \in Nat \ {0} /\ B * B * B * B \in Nat \ {0}
  <2>1. \A i, j \in Nat \ {0} : i * j \in Nat \ {0}
    OBVIOUS
  <2> QED BY ONLY <2>1, B \in Nat \ {0}
<1>4. A!Word = B * B * B * B
  BY <1>1 DEF A!Word
<1>5. PICK W \in Nat \ {0} : W = A!Word
  BY ONLY <1>3, <1>4
<1>6. \A n \in Nat : n % W \in 0..(W - 1)
  BY ONLY W \in Nat \ {0}
<1> QED BY ONLY <1>1, <1>2, <1>5, <1>6, B \in Nat \ {0}

LEMMA AddressInvInit ==
  /\ A!Init => AddressInv
  /\ pszIp = <<>> /\ pBeg = 1 /\ ulIp = 0 /\ addressPc = "done" => AddressInv
<1>1. 0 \in 0..(A!Word - 1)
  <2>1. PICK W \in Nat \ {0} : W = A!Word
    BY WordType
  <2> QED BY ONLY <2>1, W \in Nat \ {0}
<1>2. ASSUME A!Init PROVE AddressInv
  <2>1. /\ pszIp \in Seq(0..11) /\ pBeg = 1 /\ ulIp = 0 /\ addressPc = "check"
    BY <1>2, WordType DEF A!Init
  <2>2. A!TypeOK
    BY <1>1, <2>1 DEF A!TypeOK, A!Other
  <2> QED BY <2>1, <2>2 DEF AddressInv, SumIs
<1>3. ASSUME pszIp = <<>>, pBeg = 1, ulIp = 0, addressPc = "done" PROVE AddressInv
  <2>1. A!TypeOK
    BY <1>1, <1>3 DEF A!TypeOK
  <2>2. Len(pszIp) = 0
    BY <1>3
  <2>3. \A a, b, c \in Nat : ~LegalAt(a, b, c)
    BY ONLY <2>2 DEF LegalAt
  <2> QED BY <2>1, <2>3 DEF AddressInv
<1> QED BY <1>2, <1>3


LEMMA AtoiType ==
  ASSUME pszIp \in Seq(0..11), NEW i \in Nat, i # 0, i <= Len(pszIp) + 1
  PROVE  A!Atoi(i) \in Nat
<1>1. Len(pszIp) \in Nat /\ i \in Nat \ {0}
  OBVIOUS
<1>2. PICK n : n = A!NextDot(i)
  OBVIOUS
<1>3. n = 0 \/ n \in i..Len(pszIp)
  BY <1>1, <1>2, NextDotType
<1>4. PICK e : e = IF n = 0 THEN Len(pszIp) ELSE n - 1
  OBVIOUS
<1>5. e \in Nat /\ i <= e + 1 /\ e <= Len(pszIp)
  BY ONLY <1>1, <1>3, <1>4, i <= Len(pszIp) + 1
<1>6. A!Number(pszIp, i, e) \in Nat
  BY <1>1, <1>5, NumberType
<1> QED BY ONLY <1>2, <1>4, <1>6 DEF A!Atoi

\* Each turn keeps the types: the address stays a word, the place inside the text.
LEMMA AddressTypesNext == A!TypeOK /\ [A!Next]_addressVars => A!TypeOK'
<1> SUFFICES ASSUME A!TypeOK, [A!Next]_addressVars PROVE A!TypeOK'
  OBVIOUS
<1>1. pszIp \in Seq(0..11) /\ pBeg \in 1..(Len(pszIp) + 1) /\ ulIp \in 0..(A!Word - 1)
  BY DEF A!TypeOK, A!Other
<1>2. Len(pszIp) \in Nat
  BY <1>1
<1>3. pBeg \in Nat /\ pBeg # 0 /\ pBeg <= Len(pszIp) + 1
  BY <1>1, <1>2
<1>4. PICK n \in Nat : n = A!Atoi(pBeg)
  BY <1>1, <1>3, AtoiType
<1>5. PICK u \in Nat : u = ulIp
  <2>1. PICK W \in Nat \ {0} : W = A!Word
    BY WordType
  <2>2. ulIp \in 0..(W - 1)
    BY <1>1, <2>1
  <2> QED BY <2>2
<1>6. PICK B \in Nat \ {0} : B = Base
  BY WordType
<1>7. u + n \in Nat /\ (u + n) * B \in Nat
  OBVIOUS
<1>8. (u + n) % A!Word \in 0..(A!Word - 1) /\ ((u + n) * B) % A!Word \in 0..(A!Word - 1)
  BY ONLY <1>7, WordType
<1>9. CASE A!Check
  <2>1. pszIp' = pszIp /\ pBeg' = pBeg /\ ulIp' = ulIp /\ addressPc' \in {"parts", "done"}
    BY <1>9 DEF A!Check
  <2> QED BY ONLY <1>1, <2>1 DEF A!TypeOK, A!Other
<1>10. CASE A!Part
  <2>1. /\ pszIp' = pszIp /\ ulIp' = ((u + n) * B) % A!Word /\ addressPc' = "parts"
        /\ A!NextDot(pBeg) # 0 /\ pBeg' = A!NextDot(pBeg) + 1
    BY <1>4, <1>5, <1>6, <1>10 DEF A!Part
  <2>2. A!NextDot(pBeg) \in pBeg..Len(pszIp)
    BY <1>1, <1>3, <2>1, NextDotType
  <2>3. pBeg' \in 1..(Len(pszIp) + 1)
    BY ONLY <1>2, <1>3, <2>1, <2>2
  <2> QED BY ONLY <1>1, <1>8, <2>1, <2>3 DEF A!TypeOK, A!Other
<1>11. CASE A!LastPart
  <2>1. /\ pszIp' = pszIp /\ ulIp' = (u + n) % A!Word /\ addressPc' = "done"
        /\ pBeg' = pBeg
    BY <1>4, <1>5, <1>11 DEF A!LastPart
  <2> QED BY ONLY <1>1, <1>8, <2>1 DEF A!TypeOK, A!Other
<1>12. CASE UNCHANGED addressVars
  BY <1>12 DEF addressVars, A!TypeOK
<1> QED BY <1>9, <1>10, <1>11, <1>12 DEF A!Next

\* Each turn adds one part of a legal address, in its place.
LEMMA SumNext ==
  ASSUME pszIp \in Seq(0..11), [A!Next]_addressVars,
         NEW a \in Nat, NEW b \in Nat, NEW c \in Nat, LegalAt(a, b, c),
         NEW x \in Nat, NEW y \in Nat, NEW z \in Nat, NEW w \in Nat,
         NumbersAt(a, b, c) = <<x, y, z, w>>,
         x < Base, y < Base, z < Base, w < Base,
         addressPc \in {"check", "parts", "done"},
         SumIs(a, b, c, x, y, z, w)
  PROVE  SumIs(a, b, c, x, y, z, w)'
<1>1. A!Atoi(1) = x /\ A!Atoi(a + 1) = y /\ A!Atoi(b + 1) = z /\ A!Atoi(c + 1) = w
  BY LegalNumbers
<1>2. /\ A!NextDot(1) = a /\ A!NextDot(a + 1) = b /\ A!NextDot(b + 1) = c
      /\ A!NextDot(c + 1) = 0
  BY LegalDots
<1>3. a # 0 /\ b # 0 /\ c # 0 /\ a < b /\ b < c
  BY DEF LegalAt
<1>4. PICK B \in Nat \ {0} : B = Base
  BY WordType
<1>5. PICK s1 \in Nat, s2 \in Nat, s3 \in Nat, s4 \in Nat :
        /\ s1 = x * B /\ s2 = (x * B + y) * B /\ s3 = ((x * B + y) * B + z) * B
        /\ s4 = ((x * B + y) * B + z) * B + w
  <2>1. \A i, j \in Nat : (i + j) * B \in Nat /\ i * B \in Nat
    OBVIOUS
  <2>2. PICK p \in Nat : p = x * B
    BY <2>1
  <2>3. PICK q \in Nat : q = (p + y) * B
    BY <2>1
  <2>4. PICK r \in Nat : r = (q + z) * B
    BY <2>1
  <2>5. r + w \in Nat
    OBVIOUS
  <2> QED BY ONLY <2>2, <2>3, <2>4, <2>5
<1>6. /\ (0 + x) * B = s1 /\ (s1 + y) * B = s2 /\ (s2 + z) * B = s3 /\ s3 + w = s4
  <2>1. 0 + x = x
    OBVIOUS
  <2> QED BY ONLY <1>5, <2>1
<1>7. PICK W \in Nat \ {0} : W = A!Word
  BY WordType
<1>8. s4 < W
  <2>1. s4 \in 0..(A!Word - 1)
    BY <1>4, <1>5, FourBytes
  <2>2. s4 \in 0..(W - 1)
    BY ONLY <1>7, <2>1
  <2> QED BY ONLY <2>2, s4 \in Nat, W \in Nat \ {0}
<1>9. s1 <= s2 /\ s2 <= s3 /\ s3 <= s4
  <2>1. \A i \in Nat : i <= i * B
    <3>1. PICK j \in Nat : B = j + 1
      <4>1. B - 1 \in Nat /\ B = (B - 1) + 1
        OBVIOUS
      <4> QED BY <4>1
    <3>2. \A i \in Nat : i * B = i * j + i /\ i * j \in Nat
      BY ONLY <3>1, j \in Nat
    <3> QED BY <3>2
  <2>2. s1 + y <= s2 /\ s2 + z <= s3
    BY ONLY <1>6, <2>1, s1 \in Nat, s2 \in Nat, y \in Nat, z \in Nat
  <2> QED BY ONLY <1>6, <2>2, s1 \in Nat, s2 \in Nat, s3 \in Nat, s4 \in Nat,
                  y \in Nat, z \in Nat, w \in Nat
<1>10. s1 % W = s1 /\ s2 % W = s2 /\ s3 % W = s3 /\ s4 % W = s4
  BY ONLY <1>8, <1>9, s1 \in Nat, s2 \in Nat, s3 \in Nat, s4 \in Nat, W \in Nat \ {0}
<1> DEFINE Sum(place, value) ==
             \/ place = 1 /\ value = 0
             \/ place = a + 1 /\ value = s1
             \/ place = b + 1 /\ value = s2
             \/ place = c + 1 /\ value = s3
<1>11. /\ addressPc = "check" => pBeg = 1 /\ ulIp = 0
       /\ addressPc = "parts" => Sum(pBeg, ulIp)
       /\ addressPc = "done" => ulIp = s4
  BY <1>4, <1>5 DEF SumIs
<1>12. ASSUME addressPc' = "check" => pBeg' = 1 /\ ulIp' = 0,
              addressPc' = "parts" => Sum(pBeg', ulIp'),
              addressPc' = "done" => ulIp' = s4
       PROVE  SumIs(a, b, c, x, y, z, w)'
  BY <1>4, <1>5, <1>12 DEF SumIs
<1>13. CASE A!Check
  <2>1. A!IsRightIpString(pszIp)
    BY LegalIsRight
  <2>2. addressPc = "check" /\ addressPc' = "parts" /\ pBeg' = pBeg /\ ulIp' = ulIp
    BY <1>13, <2>1 DEF A!Check
  <2>3. Sum(pBeg', ulIp')
    BY <1>11, <2>2
  <2> QED BY ONLY <1>12, <2>2, <2>3
<1>14. CASE A!Part
  <2>1. /\ addressPc = "parts" /\ addressPc' = "parts" /\ A!NextDot(pBeg) # 0
        /\ ulIp' = ((ulIp + A!Atoi(pBeg)) * B) % W /\ pBeg' = A!NextDot(pBeg) + 1
    BY <1>4, <1>7, <1>14 DEF A!Part
  <2>2. Sum(pBeg', ulIp')
    <3>1. CASE pBeg = 1 /\ ulIp = 0
      BY ONLY <1>1, <1>2, <1>6, <1>10, <2>1, <3>1
    <3>2. CASE pBeg = a + 1 /\ ulIp = s1
      BY ONLY <1>1, <1>2, <1>6, <1>10, <2>1, <3>2
    <3>3. CASE pBeg = b + 1 /\ ulIp = s2
      BY ONLY <1>1, <1>2, <1>6, <1>10, <2>1, <3>3
    <3>4. CASE pBeg = c + 1 /\ ulIp = s3
      BY ONLY <1>2, <2>1, <3>4
    <3> QED BY ONLY <1>11, <2>1, <3>1, <3>2, <3>3, <3>4
  <2> QED BY ONLY <1>12, <2>1, <2>2
<1>15. CASE A!LastPart
  <2>1. /\ addressPc = "parts" /\ addressPc' = "done" /\ A!NextDot(pBeg) = 0
        /\ ulIp' = (ulIp + A!Atoi(pBeg)) % W
    BY <1>7, <1>15 DEF A!LastPart
  <2>2. pBeg = c + 1 /\ ulIp = s3
    BY ONLY <1>2, <1>3, <1>11, <2>1
  <2>3. ulIp' = s4
    BY ONLY <1>1, <1>6, <1>10, <2>1, <2>2
  <2> QED BY ONLY <1>12, <2>1, <2>3
<1>16. CASE UNCHANGED addressVars
  <2>1. addressPc' = addressPc /\ pBeg' = pBeg /\ ulIp' = ulIp
    BY <1>16 DEF addressVars
  <2> QED BY ONLY <1>11, <1>12, <2>1
<1> QED BY <1>13, <1>14, <1>15, <1>16 DEF A!Next

LEMMA AddressInvNext == AddressInv /\ [A!Next]_addressVars => AddressInv'
<1> SUFFICES ASSUME AddressInv, [A!Next]_addressVars PROVE AddressInv'
  OBVIOUS
<1>1. A!TypeOK /\ A!TypeOK'
  BY AddressTypesNext DEF AddressInv
<1>2. pszIp \in Seq(0..11) /\ addressPc \in {"check", "parts", "done"}
  BY <1>1 DEF A!TypeOK, A!Other
<1>3. pszIp' = pszIp
  BY DEF A!Next, A!Check, A!Part, A!LastPart, addressVars
<1>4. ASSUME NEW a \in Nat, NEW b \in Nat, NEW c \in Nat,
             NEW x \in Nat, NEW y \in Nat, NEW z \in Nat, NEW w \in Nat,
             LegalAt(a, b, c)', NumbersAt(a, b, c)' = <<x, y, z, w>>,
             x < Base, y < Base, z < Base, w < Base
      PROVE  SumIs(a, b, c, x, y, z, w)'
  <2>1. LegalAt(a, b, c)
    BY ONLY <1>3, LegalAt(a, b, c)' DEF LegalAt
  <2>2. NumbersAt(a, b, c) = <<x, y, z, w>>
    BY ONLY <1>3, NumbersAt(a, b, c)' = <<x, y, z, w>> DEF NumbersAt
  <2>3. SumIs(a, b, c, x, y, z, w)
    BY <1>4, <2>1, <2>2 DEF AddressInv
  <2> QED BY <1>2, <1>4, <2>1, <2>2, <2>3, SumNext
<1> QED BY <1>1, <1>4 DEF AddressInv

\* What has been added up prints as the numbers of the parts.
LEMMA AddressInvRoundTrips == AddressInv => A!LegalTextsRoundTrip
<1> SUFFICES ASSUME AddressInv, addressPc = "done", NEW d \in A!Limits(pszIp),
                    A!Legal(pszIp, d)
             PROVE  A!IpValue2IpString(ulIp) = A!Parts(pszIp, d)
  BY DEF A!LegalTextsRoundTrip
<1>1. pszIp \in Seq(0..11)
  BY DEF AddressInv, A!TypeOK, A!Other
<1>2. PICK a \in Nat, b \in Nat, c \in Nat :
        /\ LegalAt(a, b, c)
        /\ A!Parts(pszIp, d) = NumbersAt(a, b, c)
        /\ \A k \in 1..4 : NumbersAt(a, b, c)[k] < Base
  BY <1>1, LegalMeans
<1>3. PICK x \in Nat, y \in Nat, z \in Nat, w \in Nat :
        NumbersAt(a, b, c) = <<x, y, z, w>>
  BY <1>1, <1>2, LegalNumbers
<1>4. x < Base /\ y < Base /\ z < Base /\ w < Base
  BY ONLY <1>2, <1>3
<1>5. SumIs(a, b, c, x, y, z, w)
  BY <1>2, <1>3, <1>4 DEF AddressInv
<1>6. ulIp = ((x * Base + y) * Base + z) * Base + w
  BY <1>5 DEF SumIs
<1>7. A!IpValue2IpString(ulIp) = <<x, y, z, w>>
  BY <1>4, <1>6, FourBytes
<1> QED BY <1>2, <1>3, <1>7


-----------------------------------------------------------------------------
(* The locator.                                                            *)

\* The invariants of the three parts; a part that is idle has nothing to decode or to add up.
LocatorInv ==
  /\ part \in {"search", "record", "address"}
  /\ SearchInv
  /\ R!TypeOK
  /\ part = "record" => RecordInv
  /\ AddressInv

LEMMA SearchInvIdle ==
  ASSUME index = << 0 >>, ipValue = 0, pc = "done",
         indexLeft = IndexStart, indexRight = IndexStart, indexMid = IndexStart
  PROVE  SearchInv
<1>1. 0 \in 0..MaxIp
  BY MaxIpAssumption
<1>2. index \in Seq(0..MaxIp) /\ Len(index) = 1
  BY <1>1
<1>3. 1 \in Entries
  BY <1>2 DEF Entries
<1>4. OffsetOf(1) = IndexStart /\ 1 + ((1 - 1) \div 2) = 1
  BY StartAssumption DEF OffsetOf, INDEX_LENGTH
<1>5. \E a, b \in Entries :
        /\ a <= b
        /\ indexLeft = OffsetOf(a) /\ indexRight = OffsetOf(b)
        /\ indexMid = OffsetOf(a + ((b - a) \div 2))
        /\ a = 1 \/ index[a] <= ipValue
        /\ b = Len(index) \/ ipValue < index[b]
        /\ pc = "done" => b <= a + 1
  <2> WITNESS 1 \in Entries, 1 \in Entries
  <2> QED BY <1>2, <1>4
<1> QED BY <1>1, <1>2, <1>5 DEF SearchInv

LEMMA RecordTypesIdle ==
  ASSUME file = <<>>, recordPc = "done", strCountry = <<>>, strLocation = <<>>,
         ulLocationOffset = 0, behind = FALSE, pos = 0, ulCount = 1
  PROVE  R!TypeOK
<1>1. file \in Seq(R!Byte) /\ strCountry \in Seq(R!Byte) /\ strLocation \in Seq(R!Byte)
  <2>1. <<>> \in Seq(R!Byte)
    OBVIOUS
  <2> QED BY ONLY <2>1, file = <<>>, strCountry = <<>>, strLocation = <<>>
<1>2. ulLocationOffset \in Nat /\ pos \in Nat /\ ulCount \in Nat \ {0}
  BY ONLY ulLocationOffset = 0, pos = 0, ulCount = 1
<1> QED BY ONLY <1>1, <1>2, recordPc = "done", behind = FALSE DEF R!TypeOK

LEMMA LocatorInvInit == LocatorInit => LocatorInv
<1> SUFFICES ASSUME LocatorInit PROVE LocatorInv
  OBVIOUS
<1>1. part \in {"search", "record", "address"}
  BY DEF LocatorInit
<1>2. SearchInv
  <2>1. CASE part = "search"
    BY <2>1, SearchInvInit DEF LocatorInit
  <2>2. CASE part # "search"
    BY <2>2, SearchInvIdle DEF LocatorInit
  <2> QED BY <2>1, <2>2
<1>3. R!TypeOK /\ (part = "record" => RecordInv)
  <2>1. CASE part = "record"
    <3>1. R!Init
      BY <2>1 DEF LocatorInit
    <3> QED BY <3>1, RecordInvInit, RecordTypesInit
  <2>2. CASE part # "record"
    BY <2>2, RecordTypesIdle DEF LocatorInit
  <2> QED BY <2>1, <2>2
<1>4. AddressInv
  <2>1. CASE part = "address"
    BY <2>1, AddressInvInit DEF LocatorInit
  <2>2. CASE part # "address"
    BY <2>2, AddressInvInit DEF LocatorInit
  <2> QED BY <2>1, <2>2
<1> QED BY <1>1, <1>2, <1>3, <1>4 DEF LocatorInv

LEMMA LocatorInvNext == LocatorInv /\ [LocatorNext]_locatorVars => LocatorInv'
<1> SUFFICES ASSUME LocatorInv, [LocatorNext]_locatorVars PROVE LocatorInv'
  OBVIOUS
<1>1. part' = part
  BY DEF LocatorNext, locatorVars
<1>2. [Next]_vars
  BY DEF LocatorNext, locatorVars
<1>3. [R!Next]_recordVars
  BY DEF LocatorNext, locatorVars
<1>4. [A!Next]_addressVars
  BY DEF LocatorNext, locatorVars
<1>5. SearchInv'
  BY <1>2, SearchInvNext DEF LocatorInv
<1>6. R!TypeOK'
  BY <1>3, RecordTypesNext DEF LocatorInv
<1>7. part = "record" => RecordInv'
  BY <1>3, RecordInvNext DEF LocatorInv
<1>8. AddressInv'
  BY <1>4, AddressInvNext DEF LocatorInv
<1> QED BY <1>1, <1>5, <1>6, <1>7, <1>8 DEF LocatorInv

LEMMA LocatorInvAlways == LocatorSpec => []LocatorInv
<1> QED BY LocatorInvInit, LocatorInvNext, PTL DEF LocatorSpec

\* SearchIp: the three offsets are always those of entries, so that GetValue4 never reads
\* across two of them; GetAddressByOffset: what has been read is bytes, and an offset a
\* number; IpString2IpValue: the address stays a word and the place inside the text.
THEOREM TypesAlwaysOK == LocatorSpec => []TypesOK
<1>1. SearchInv => TypeOK
  <2> SUFFICES ASSUME SearchInv PROVE TypeOK
    OBVIOUS
  <2>1. PICK a, b \in Entries :
          /\ a <= b
          /\ indexLeft = OffsetOf(a) /\ indexRight = OffsetOf(b)
          /\ indexMid = OffsetOf(a + ((b - a) \div 2))
    BY DEF SearchInv
  <2>2. Len(index) \in Nat /\ index \in Seq(0..MaxIp)
    BY LenProperties DEF SearchInv
  <2>3. a + ((b - a) \div 2) \in Entries
    <3>1. a \in Nat \ {0} /\ b \in Nat /\ b <= Len(index)
      BY <2>2 DEF Entries
    <3>2. (b - a) \div 2 \in Nat /\ (b - a) \div 2 <= b - a
      BY <2>1, <3>1
    <3>3. a + ((b - a) \div 2) \in Nat \ {0} /\ a + ((b - a) \div 2) <= b
      BY <3>1, <3>2
    <3> QED  BY <2>2, <3>1, <3>3 DEF Entries
  <2>4. index # <<>>
    <3>1. Len(index) # 0
      BY <2>2 DEF Entries
    <3> QED  BY <3>1
  <2> QED  BY <2>1, <2>2, <2>3, <2>4 DEF SearchInv, TypeOK
<1>2. LocatorInv => TypesOK
  BY <1>1 DEF LocatorInv, AddressInv, TypesOK
<1> QED BY <1>2, LocatorInvAlways, PTL

\* SearchIp returns the entry that covers the address, in an index of any
\* length and for any address from the first entry's to just before the last
\* one's; nothing but the loop's own comparisons is needed for it, not even
\* that the index is sorted.
THEOREM SearchFindsEntry == LocatorSpec => []FindsEntry
<1>1. LocatorInv => FindsEntry
  BY SearchInvFinds DEF LocatorInv
<1> QED BY <1>1, LocatorInvAlways, PTL

\* GetAddressByOffset returns the country of every record, through any redirection, and its
\* area where that is inline or redirected with 0x02, for texts of any length.
THEOREM RecordAlwaysDecoded == LocatorSpec => []DecodesRecord
<1>1. LocatorInv => DecodesRecord
  BY RecordInvDecodes DEF LocatorInv, DecodesRecord
<1> QED BY <1>1, LocatorInvAlways, PTL

\* IpString2IpValue accepts every legal address, and its value prints as the same four
\* numbers, whatever the texts: leading zeros are read through.
THEOREM AddressAlwaysRoundTrips == LocatorSpec => []LegalTextsRoundTrip
<1>1. LocatorInv => LegalTextsRoundTrip
  BY AddressInvRoundTrips DEF LocatorInv, LegalTextsRoundTrip
<1> QED BY <1>1, LocatorInvAlways, PTL
=============================================================================
