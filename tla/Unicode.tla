------------------------------- MODULE Unicode -------------------------------
(***************************************************************************)
(* nodec::unicode (unicode.hpp, unicode.cpp): conversions between UTF-8,   *)
(* UTF-16 and UTF-32. One step converts one code point, as the loops do.   *)
(*                                                                         *)
(* A uint32_t beyond 2^31 is the negative number with the same bits. The   *)
(* unit after the last of a text is read as the null that ends a string.   *)
(***************************************************************************)
EXTENDS Integers, Sequences

CONSTANTS
  Points,    \* code points that legal texts are made of (bound)
  MaxPoints, \* the length of those (bound)
  Units,     \* by encoding, units that other texts are made of (bound)
  MaxLength  \* by encoding, the length of those (bound)

Encodings == {8, 16, 32}
Conversions == {<<8, 16>>, <<8, 32>>, <<16, 8>>, <<16, 32>>, <<32, 8>>, <<32, 16>>}

VARIABLES
  conversion,  \* the encodings it goes from and to
  strict,      \* strict
  text,        \* string: all units of the source
  src,         \* what is left of it
  dst,         \* what is written
  status,      \* "converting", "done" or "threw"
  legal        \* {the code points of text}, or {}  (history)

input == <<conversion, strict, text, legal>>
vars == <<input, src, dst, status>>

from == conversion[1]
to == conversion[2]

-----------------------------------------------------------------------------
(* One code point *)

\* A code point, and how many units it took: none by an exception.
Char(c, units) == [c |-> c, units |-> units]
Throws == Char(0, 0)

check_strict(units) == IF strict THEN Throws ELSE Char(\hFFFD, units)

IsHigh(u) == \hD800 <= u /\ u <= \hDBFF
IsLow(u) == \hDC00 <= u /\ u <= \hDFFF

\* Bytes that follow a first byte.
UTF8_BYTES(byte) ==
  IF byte < \hC0 THEN 0 ELSE IF byte < \hE0 THEN 1 ELSE IF byte < \hF0 THEN 2
  ELSE IF byte < \hF8 THEN 3 ELSE IF byte < \hFC THEN 4 ELSE 5

\* What the marks of the bytes add up to, modulo 2^32.
UTF8_OFFSETS == <<0, \h3080, \hE2080, \h3C82080, -\h5F7DF80, -\h7DF7DF80>>

\* c << 6
Shifted(c) ==
  LET low == c % (2 ^ 26) IN (IF low < 2 ^ 25 THEN low ELSE low - 2 ^ 26) * 64

\* n bytes shifted together, from c: the cases that fall through.
Joined(c, s, n) ==
  LET c1 == Shifted(c) + s[1]
      c2 == Shifted(c1) + s[2]
      c3 == Shifted(c2) + s[3]
      c4 == Shifted(c3) + s[4]
  IN IF n = 1 THEN c1 ELSE IF n = 2 THEN c2 ELSE IF n = 3 THEN c3 ELSE c4

code_point_utf8to32(s) ==
  LET bytes == UTF8_BYTES(s[1])
      used == IF bytes < 4 THEN bytes + 1 ELSE 4
      start == IF bytes < 4 THEN Char(0, used) ELSE check_strict(used)
  IN IF bytes >= Len(s) \/ start = Throws THEN Throws
     ELSE Char(Joined(start.c, s, used) - UTF8_OFFSETS[bytes + 1], used)

code_point_utf16to32(s) ==
  LET next == IF Len(s) > 1 THEN s[2] ELSE 0 IN
  IF IsHigh(s[1])
  THEN IF IsLow(next)
       THEN Char((s[1] - \hD800) * 1024 + (next - \hDC00) + \h10000, 2)
       ELSE check_strict(2)
  ELSE IF IsLow(s[1]) THEN check_strict(1) ELSE Char(s[1], 1)

\* The units written for c, or in its place: none by an exception.
code_point_utf32to16(c) ==
  LET one == IF 0 <= c /\ c <= \hFFFF /\ ~ (\hD800 <= c /\ c <= \hDC00)
             THEN Char(c, 1) ELSE check_strict(1)
  IN IF \hFFFF < c /\ c <= \h10FFFF
     THEN <<\hD800 + ((c - \h10000) \div 1024), \hDC00 + ((c - \h10000) % 1024)>>
     ELSE IF one = Throws THEN <<>> ELSE <<one.c>>

FIRST_BYTE_MARK == <<0, \hC0, \hE0, \hF0>>

\* The bytes a code point takes.
BytesFor(c) ==
  IF c < \h80 THEN 1 ELSE IF c < \h800 THEN 2 ELSE IF c < \h10000 THEN 3 ELSE 4

\* Its bits in n bytes, the first with its mark: the cases that fall through,
\* from the last byte to the first.
BytesOf(c, n) ==
  [i \in 1 .. n |-> IF i = 1 THEN FIRST_BYTE_MARK[n] + (c \div 64 ^ (n - 1))
                    ELSE \h80 + ((c \div 64 ^ (n - i)) % 64)]

\* c, or what is written in its place.
InSpace(c) == IF 0 <= c /\ c <= \h10FFFF THEN Char(c, 1) ELSE check_strict(1)

code_point_utf32to8(c, room) ==
  LET char == InSpace(c)
      bytes == BytesFor(char.c)
  IN IF char = Throws \/ bytes > room THEN <<>> ELSE BytesOf(char.c, bytes)

-----------------------------------------------------------------------------
(* Texts *)

\* Units of the buffer to_wide() or to_narrow() allocates.
AsManyUnits == Len(text)                                           \* defect
dstlen == IF from < to THEN Len(text) ELSE 4 * Len(text)

Decoded ==
  CASE from = 8 -> code_point_utf8to32(src)
    [] from = 16 -> code_point_utf16to32(src)
    [] from = 32 -> Char(src[1], 1)

Encoded(c) ==
  CASE to = 8 -> code_point_utf32to8(c, dstlen - Len(dst))
    [] to = 16 -> code_point_utf32to16(c)
    [] to = 32 -> <<c>>

InLoop == status = "converting"

Convert ==
  /\ InLoop /\ src # <<>> /\ Len(dst) < dstlen
  /\ IF Decoded = Throws \/ Encoded(Decoded.c) = <<>>
     THEN status' = "threw" /\ UNCHANGED <<src, dst>>
     ELSE /\ src' = SubSeq(src, Decoded.units + 1, Len(src))
          /\ dst' = dst \o Encoded(Decoded.c)
          /\ UNCHANGED status
  /\ UNCHANGED input

Finish ==
  /\ InLoop /\ (src = <<>> \/ Len(dst) >= dstlen)
  /\ status' = "done"
  /\ UNCHANGED <<input, src, dst>>

-----------------------------------------------------------------------------
(* The encodings, by the tables of unicode.cpp *)

Scalar(c) == c \in Nat /\ c <= \h10FFFF /\ ~ IsHigh(c) /\ ~ IsLow(c)

Utf8(c) ==
  LET Follow(x) == 128 + (x % 64) IN
  IF c < \h80 THEN <<c>>
  ELSE IF c < \h800 THEN <<192 + (c \div 64), Follow(c)>>
  ELSE IF c < \h10000 THEN <<224 + (c \div 64 ^ 2), Follow(c \div 64), Follow(c)>>
  ELSE <<240 + (c \div 64 ^ 3), Follow(c \div 64 ^ 2), Follow(c \div 64), Follow(c)>>

Utf16(c) ==
  IF c < \h10000 THEN <<c>>
  ELSE <<\hD800 + ((c - \h10000) \div \h400), \hDC00 + ((c - \h10000) % \h400)>>

InUnits(encoding, c) ==
  CASE encoding = 8 -> Utf8(c)
    [] encoding = 16 -> Utf16(c)
    [] encoding = 32 -> <<c>>

\* A sequence of code points in an encoding.
InEncoding(encoding, points) ==
  LET upto[n \in 0 .. Len(points)] ==
        IF n = 0 THEN <<>> ELSE upto[n - 1] \o InUnits(encoding, points[n])
  IN upto[Len(points)]

UnitsOf(encoding) ==
  CASE encoding = 8 -> {u \in Nat : u <= \hFF}
    [] encoding = 16 -> {u \in Nat : u <= \hFFFF}
    [] encoding = 32 -> Int

UnicodeAssumption ==
  /\ MaxPoints \in Nat /\ \A c \in Points : Scalar(c)
  /\ \A encoding \in Encodings :
       Units[encoding] \subseteq UnitsOf(encoding) /\ MaxLength[encoding] \in Nat

LegalTexts == UNION {[1 .. n -> Points] : n \in 0 .. MaxPoints}
AnyTexts(encoding) ==
  UNION {[1 .. n -> Units[encoding]] : n \in 1 .. MaxLength[encoding]}

Init ==
  /\ conversion \in Conversions /\ strict \in BOOLEAN
  /\ \/ \E points \in LegalTexts :
          legal = {points} /\ text = InEncoding(from, points)
     \/ legal = {} /\ text \in AnyTexts(from)
  /\ src = text /\ dst = <<>> /\ status = "converting"

Next == Convert \/ Finish

Spec == Init /\ [][Next]_vars

-----------------------------------------------------------------------------
\* A text of Unicode scalars is converted to the encoding of the same
\* scalars, strictly or not, and is never refused.
LegalExact ==
  \A points \in legal :
    /\ status # "threw"
    /\ status = "done" => dst = InEncoding(to, points)

\* A strict conversion from UTF-16 to UTF-32 refuses every surrogate without
\* its other half: what it returns encodes, back in UTF-16, to the source.
StrictFrom16 ==
  conversion = <<16, 32>> /\ strict /\ status = "done" =>
    (\A i \in DOMAIN dst : Scalar(dst[i])) /\ InEncoding(16, dst) = text

\* The buffer allocated before the conversion holds what is written, for
\* legal texts and all others, although the pair of code_point_utf32to16()
\* is written without a check that both units fit.
BufferHolds == Len(dst) <= dstlen

ConversionExact == LegalExact /\ StrictFrom16 /\ BufferHolds
=============================================================================
