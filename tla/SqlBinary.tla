----------------------------- MODULE SqlBinary ------------------------------
(***************************************************************************)
(* CppSQLite3Binary, which keeps a blob either as its bytes or as the text *)
(* that can stand in a statement, in one buffer, and the encoder below it  *)
(* (sqlite3_encode_binary, sqlite3_decode_binary).  The text has neither   *)
(* the byte 0 nor the quote: its first byte is an offset taken from every  *)
(* byte, and what becomes 0, 1 or a quote is escaped with a 1.  The code   *)
(* has W = 256 and Quote = 39.  Unused room in the buffer is not modelled: *)
(* m_buf is what has been written of it, without the 0 that ends a text.   *)
(***************************************************************************)
EXTENDS Integers, Sequences, FiniteSets

CONSTANTS
  W,       \* the number of bytes
  Quote,
  MaxLen,      \* the longest blob of the runs, and the longest text of no form
  MaxReplaced  \* the longest blob that another replaces, or that is read behind a buffer

ASSUME BytesAssumption ==
  /\ W \in Nat /\ W > 5 /\ Quote \in 4..(W - 1)
  /\ MaxLen \in Nat /\ MaxReplaced \in Nat

Byte == 0..(W - 1)
Offsets == 1..(W - 1) \ {Quote}
Blobs == UNION {[1..n -> Byte] : n \in 0..MaxLen}

VARIABLES
  mpBuf,       \* <<>> or the buffer's content; UNSET when it is NULL
  mnBinaryLen, \* the length of the bytes
  mnBufferLen, \* what was allocated
  mbEncoded,
  value        \* the blob the program has put in

vars == <<mpBuf, mnBinaryLen, mnBufferLen, mbEncoded, value>>

UNSET == <<-1>>
ILL == <<-2>> \* the value of a text that is not of the format

-----------------------------------------------------------------------------
\* sqlite3_encode_binary: how many bytes of d the offset e makes 0, 1 or a quote.
Escapes(d, e) == Cardinality({i \in 1..Len(d) : (d[i] - e) % W \in {0, 1, Quote}})

\* The first offset with the fewest escapes.
Offset(d) ==
  CHOOSE e \in Offsets :
    \A f \in Offsets :
      Escapes(d, e) < Escapes(d, f) \/ (Escapes(d, e) = Escapes(d, f) /\ e <= f)

\* Mutant of Escaped: the escape byte is itself not escaped.
EscapedNotOne(c) == IF c = 0 THEN <<1, 1>> ELSE IF c = Quote THEN <<1, 3>> ELSE <<c>>

Escaped(c) ==
  IF c = 0 THEN <<1, 1>> ELSE IF c = 1 THEN <<1, 2>> ELSE IF c = Quote THEN <<1, 3>> ELSE <<c>>

\* The text of the first i bytes for each i, from the offset alone on.
EncodedWith(d, e) ==
  LET text[i \in 0..Len(d)] ==
        IF i = 0 THEN <<e>> ELSE text[i - 1] \o Escaped((d[i] - e) % W)
  IN text[Len(d)]

\* A blob of no bytes becomes "x", whose decoding is empty whatever the letter.
Encode(d) == IF Len(d) = 0 THEN <<1>> ELSE EncodedWith(d, Offset(d))

\* Mutant of DecodeStep: the sum with the offset is not taken modulo W.
DecodeStepWide(st, c, e) ==
  CASE st.at \in {"end", "bad"} -> st
    [] st.at = "text" /\ c = 0 -> [st EXCEPT !.at = "end"]
    [] st.at = "text" /\ c = 1 -> [st EXCEPT !.at = "escape"]
    [] st.at = "text" /\ c \notin {0, 1} -> [st EXCEPT !.out = Append(@, c + e)]
    [] st.at = "escape" /\ c \in {1, 2, 3} ->
         [at |-> "text", out |-> Append(st.out, <<0, 1, Quote>>[c] + e)]
    [] st.at = "escape" /\ c \notin {1, 2, 3} -> [st EXCEPT !.at = "bad"]

\* One byte of sqlite3_decode_binary's walk over the text after the offset; at is where the
\* walk is.  It never writes ahead of what it reads, so that it can work in place.
DecodeStep(st, c, e) ==
  CASE st.at \in {"end", "bad"} -> st
    [] st.at = "text" /\ c = 0 -> [st EXCEPT !.at = "end"]
    [] st.at = "text" /\ c = 1 -> [st EXCEPT !.at = "escape"]
    [] st.at = "text" /\ c \notin {0, 1} -> [st EXCEPT !.out = Append(@, (c + e) % W)]
    [] st.at = "escape" /\ c \in {1, 2, 3} ->
         [at |-> "text", out |-> Append(st.out, (<<0, 1, Quote>>[c] + e) % W)]
    [] st.at = "escape" /\ c \notin {1, 2, 3} -> [st EXCEPT !.at = "bad"]

Walk(t) ==
  LET st[i \in 0..(Len(t) - 1)] ==
        IF i = 0 THEN [at |-> "text", out |-> <<>>] ELSE DecodeStep(st[i - 1], t[i + 1], t[1])
  IN st[Len(t) - 1]

Decode(t) == DecodeStep(Walk(t), 0, t[1])

\* The texts of the format, an offset, then bytes and escapes; and others, the empty one
\* included, which setEncoded takes all the same.
WellFormed == {EncodedWith(d, e) : d \in Blobs, e \in Offsets}
Texts == WellFormed \cup UNION {[1..n -> Byte \ {0}] : n \in 0..MaxLen}

-----------------------------------------------------------------------------
TypeOK ==
  /\ mpBuf \in Seq(Byte) \cup {UNSET}
  /\ value \in Blobs \cup {UNSET, ILL}
  /\ mnBinaryLen \in Nat \cup {-1} /\ mnBufferLen \in Nat
  /\ mbEncoded \in BOOLEAN
  /\ mpBuf = UNSET <=> value = UNSET

Init ==
  /\ mpBuf = UNSET /\ value = UNSET
  /\ mnBinaryLen = 0 /\ mnBufferLen = 0
  /\ mbEncoded = FALSE

\* setBinary, and allocBuffer followed by the caller's own filling of the buffer.
setBinary(d) ==
  /\ mpBuf' = d /\ value' = d
  /\ mnBinaryLen' = Len(d)
  /\ mnBufferLen' = 3 + ((W + 1) * Len(d)) \div (W - 2)
  /\ mbEncoded' = FALSE

setEncoded(t) ==
  /\ mpBuf' = t /\ value' = IF t \in WellFormed THEN Decode(t).out ELSE ILL
  /\ mnBinaryLen' = IF mpBuf = UNSET THEN mnBinaryLen ELSE 0
  /\ mnBufferLen' = Len(t) + 1
  /\ mbEncoded' = TRUE

getEncoded ==
  /\ mpBuf # UNSET
  /\ ~mbEncoded
  /\ mpBuf' = Encode(mpBuf)
  /\ mbEncoded' = TRUE
  /\ UNCHANGED <<mnBinaryLen, mnBufferLen, value>>

\* What decoding in place gives.  In an empty text the 0 at its end is taken for the offset,
\* and the walk goes on behind the buffer, through whatever is there.
Decodings ==
  IF mpBuf = <<>>
  THEN [at : {"end", "bad"}, out : {d \in Blobs : Len(d) <= MaxReplaced}]
  ELSE {Decode(mpBuf)}

\* A text of a wrong form throws, and has been overwritten up to there.
getBinary ==
  /\ mpBuf # UNSET
  /\ mbEncoded
  /\ \E d \in Decodings :
       IF d.at = "bad"
       THEN /\ mpBuf' = d.out \o SubSeq(mpBuf, Len(d.out) + 1, Len(mpBuf))
            /\ mnBinaryLen' = -1
            /\ UNCHANGED mbEncoded
       ELSE /\ mpBuf' = d.out
            /\ mnBinaryLen' = Len(d.out)
            /\ mbEncoded' = FALSE
  /\ UNCHANGED <<mnBufferLen, value>>

\* clear, which leaves mbEncoded as it is.
clear ==
  /\ mpBuf # UNSET
  /\ mpBuf' = UNSET /\ value' = UNSET
  /\ mnBinaryLen' = 0 /\ mnBufferLen' = 0
  /\ UNCHANGED mbEncoded

Next ==
  \/ /\ Len(value) <= MaxReplaced
     /\ \/ \E d \in Blobs : setBinary(d)
        \/ \E t \in Texts : setEncoded(t)
  \/ getEncoded \/ getBinary \/ clear

Spec == Init /\ [][Next]_vars

-----------------------------------------------------------------------------
Known == value \notin {UNSET, ILL}

\* The object keeps the blob it was given through any sequence of conversions: its bytes
\* are the blob, its text decodes to it.
BlobKept ==
  Known => IF mbEncoded THEN Decode(mpBuf) = [at |-> "end", out |-> value]
                        ELSE mpBuf = value /\ mnBinaryLen = Len(value)

\* allocBuffer's 3 + 257 * n / 254 bytes, and those of a text given to setEncoded, are
\* enough for what getEncoded writes there later, the 0 at its end included.
BufferHolds == Known => Len(mpBuf) + (IF mbEncoded THEN 1 ELSE 0) <= mnBufferLen

\* encode.c: the text of getEncoded can stand between quotes: it has no quote and no 0.
TextIsQuotable == Known /\ mbEncoded => \A i \in 1..Len(mpBuf) : mpBuf[i] \notin {0, Quote}
=============================================================================
