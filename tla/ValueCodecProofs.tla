-------------------------- MODULE ValueCodecProofs --------------------------
(***************************************************************************)
(* What holds of ValueCodec for bytes of any even number of values, 256    *)
(* included, and strings of any length.                                    *)
(***************************************************************************)
EXTENDS ValueCodec, TLAPS

USE BaseAssumption, MaxLengthAssumption

-----------------------------------------------------------------------------
(* Quotients and remainders *)

\* A number is its quotient times the divisor, plus its remainder.
LEMMA Division ==
  ASSUME NEW n \in Int, NEW d \in Nat, d > 0
  PROVE  \E q \in Int, r \in 0 .. d - 1 : q = n \div d /\ r = n % d /\ n = d * q + r
<1>1. PICK q \in Int : q = n \div d
  OBVIOUS
<1>2. PICK r \in 0 .. d - 1 : r = n % d
  OBVIOUS
<1>3. n - d * q = r
  BY <1>1, <1>2
<1>4. d * q \in Int /\ n = d * q + r
  BY <1>3
<1> QED
  BY <1>1, <1>2, <1>4

\* Only the quotient is the quotient.
LEMMA Quotient ==
  ASSUME NEW n \in Int, NEW d \in Nat, d > 0, NEW p \in Int,
         d * p <= n, n < d * p + d
  PROVE  n \div d = p /\ n % d = n - d * p
<1>1. PICK q \in Int, r \in 0 .. d - 1 : q = n \div d /\ r = n % d /\ n = d * q + r
  BY Division
<1>2. d * p \in Int /\ d * q \in Int
  OBVIOUS
<1>3. d * p < d * q + d /\ d * q < d * p + d
  BY <1>1, <1>2
<1>4. d * q + d = d * (q + 1) /\ d * p + d = d * (p + 1)
  OBVIOUS
<1>5. p < q + 1 /\ q < p + 1
  BY <1>3, <1>4
<1>6. p = q
  BY <1>5
<1> QED
  BY <1>1, <1>2, <1>6

\* Dividing twice is dividing by the product.
LEMMA DivideTwice ==
  ASSUME NEW n \in Nat, NEW c \in Nat, c > 0, NEW d \in Nat, d > 0
  PROVE  (n \div c) \div d = n \div (c * d)
<1>1. PICK m \in Int, r \in 0 .. c - 1 : m = n \div c /\ n = c * m + r
  BY Division
<1>2. PICK q \in Int, s \in 0 .. d - 1 : q = m \div d /\ m = d * q + s
  BY Division
<1>3. c * m = (c * d) * q + c * s /\ c * s \in Nat /\ c * s <= c * (d - 1)
  BY <1>2
<1>4. c * (d - 1) = c * d - c /\ c * d \in Nat /\ c * d > 0 /\ (c * d) * q \in Int /\ c * m \in Int
  OBVIOUS
<1>5. (c * d) * q <= n /\ n < (c * d) * q + c * d
  BY <1>1, <1>3, <1>4
<1>6. n \div (c * d) = q
  BY <1>4, <1>5, Quotient
<1> QED
  BY <1>1, <1>2, <1>6

-----------------------------------------------------------------------------
(* Bytes of numbers *)

Byte    == 0 .. Base - 1
Widths  == {1, 2, 4}

\* The powers of Base, and what halves them.
LEMMA Powers ==
  /\ Power[0] = 1 /\ Power[1] = Base /\ Power[2] = Base * Base
  /\ Power[3] = Base * Base * Base /\ Power[4] = (Base * Base) * (Base * Base)
  /\ \A k \in 0 .. 4 : Power[k] \in Nat /\ Power[k] > 0
  /\ \A w \in Widths : \E half \in Nat : half > 0 /\ half = Power[w] \div 2 /\ Power[w] = 2 * half
<1>1. /\ Power[0] = 1 /\ Power[1] = Base /\ Power[2] = Base * Base
      /\ Power[3] = Base * Base * Base /\ Power[4] = (Base * Base) * (Base * Base)
  BY DEF Power
<1>2. Base * Base \in Nat /\ Base * Base > 0
  OBVIOUS
<1>3. Base * Base * Base \in Nat /\ Base * Base * Base > 0
  BY <1>2
<1>4. (Base * Base) * (Base * Base) \in Nat /\ (Base * Base) * (Base * Base) > 0
  BY <1>2
<1>5. \A k \in 0 .. 4 : Power[k] \in Nat /\ Power[k] > 0
  <2>1. \A k \in 0 .. 4 : k \in {0, 1, 2, 3, 4}
    OBVIOUS
  <2> QED
    BY <1>1, <1>2, <1>3, <1>4, <2>1
<1>6. PICK h \in Nat : Base = 2 * h /\ h > 0
  <2>1. Base \div 2 \in Nat /\ Base = 2 * (Base \div 2)
    OBVIOUS
  <2> QED
    BY <2>1
<1>7. ASSUME NEW x \in Nat, x > 0
      PROVE  \E half \in Nat : half > 0 /\ half = (Base * x) \div 2 /\ Base * x = 2 * half
  <2>1. Base * x = 2 * (h * x) /\ h * x \in Nat /\ h * x > 0
    BY <1>6, <1>7
  <2>2. (2 * (h * x)) \div 2 = h * x
    BY <2>1
  <2> QED
    BY <2>1, <2>2
<1>8. \A w \in Widths : \E half \in Nat : half > 0 /\ half = Power[w] \div 2 /\ Power[w] = 2 * half
  <2>1. Power[1] = Base * 1 /\ Power[2] = Base * Base /\ Power[4] = Base * (Base * Base * Base)
    BY <1>1
  <2>2. \E x \in Nat : x > 0 /\ Power[1] = Base * x
    BY <2>1
  <2>3. \E x \in Nat : x > 0 /\ Power[2] = Base * x
    BY <2>1
  <2>4. \E x \in Nat : x > 0 /\ Power[4] = Base * x
    BY <1>3, <2>1
  <2>5. ASSUME NEW w \in Widths
        PROVE  \E half \in Nat : half > 0 /\ half = Power[w] \div 2 /\ Power[w] = 2 * half
    <3>1. PICK x \in Nat : x > 0 /\ Power[w] = Base * x
      BY <2>2, <2>3, <2>4 DEF Widths
    <3> QED
      BY <1>7, <3>1
  <2> QED
    BY <2>5
<1> QED
  BY <1>1, <1>5, <1>8

\* The bytes of a number are bytes.
LEMMA BytesType ==
  ASSUME NEW n \in Nat, NEW w \in Widths
  PROVE  Bytes(n, w) \in [1 .. w -> Byte] /\ Len(Bytes(n, w)) = w
<1>1. \A k \in 1 .. w : k - 1 \in 0 .. 4
  BY DEF Widths
<1>2. \A d \in Nat : d > 0 => n \div d \in Int /\ (n \div d) % Base \in Byte
  BY DEF Byte
<1>3. \A k \in 1 .. w : (n \div Power[k - 1]) % Base \in Byte
  BY <1>1, <1>2, Powers
<1>4. Bytes(n, w) \in [1 .. w -> Byte]
  BY <1>3 DEF Bytes
<1> QED
  BY <1>4 DEF Widths

\* A number that fits is read back from its bytes.
LEMMA NumberOfBytes ==
  ASSUME NEW w \in Widths, NEW n \in 0 .. Power[w] - 1
  PROVE  Number(Bytes(n, w)) = n
<1>0. n \in Nat /\ n < Power[w]
  BY Powers DEF Widths
<1>a. Len(Bytes(n, w)) = w /\ n \div 1 = n
  BY <1>0, BytesType
<1>1. PICK m \in Int, d \in Byte : m = n \div Base /\ d = n % Base /\ n = Base * m + d
  BY <1>0, Division DEF Byte
<1>2. PICK m2 \in Int, d2 \in Byte : m2 = m \div Base /\ d2 = m % Base /\ m = Base * m2 + d2
  BY Division DEF Byte
<1>3. PICK m3 \in Int, d3 \in Byte : m3 = m2 \div Base /\ d3 = m2 % Base /\ m2 = Base * m3 + d3
  BY Division DEF Byte
<1>4. m2 = n \div Power[2] /\ m3 = n \div Power[3]
  <2>1. (n \div Base) \div Base = n \div (Base * Base)
    BY <1>0, DivideTwice
  <2>2. Power[2] \in Nat /\ Power[2] > 0
    BY Powers
  <2>3. (n \div Power[2]) \div Base = n \div (Power[2] * Base)
    BY <1>0, <2>2, DivideTwice
  <2>4. Power[2] = Base * Base /\ Power[3] = Power[2] * Base
    BY Powers
  <2> QED
    BY <1>1, <1>2, <1>3, <2>1, <2>3, <2>4
<1>5. CASE w = 1
  <2>1. Bytes(n, 1)[1] = d
    BY <1>a, <1>1, Powers DEF Bytes
  <2>2. d = n
    BY <1>0, <1>1, <1>5, Powers
  <2> QED
    BY <1>a, <1>5, <2>1, <2>2 DEF Number
<1>6. CASE w = 2
  <2>a. Bytes(n, 2)[1] = (n \div Power[0]) % Base /\ Bytes(n, 2)[2] = (n \div Power[1]) % Base
    BY DEF Bytes
  <2>1. Bytes(n, 2)[1] = d /\ Bytes(n, 2)[2] = d2
    BY <1>a, <1>1, <1>2, <2>a, Powers
  <2>2. m \in 0 .. Base - 1
    BY <1>0, <1>1, <1>6, Powers
  <2>3. d2 = m
    BY <1>2, <2>2
  <2>4. Base * m \in Int /\ n = d + Base * m
    BY <1>1 DEF Byte
  <2>5. Number(Bytes(n, 2)) = Pair(d, d2)
    BY <1>a, <1>6, <2>1 DEF Number
  <2> QED
    BY <1>6, <2>3, <2>4, <2>5 DEF Pair
<1>7. CASE w = 4
  <2>1. /\ Bytes(n, 4)[1] = d /\ Bytes(n, 4)[2] = d2 /\ Bytes(n, 4)[3] = d3
        /\ Bytes(n, 4)[4] = m3 % Base
    BY <1>a, <1>1, <1>2, <1>3, <1>4, Powers DEF Bytes
  <2>2. m2 \in 0 .. Base * Base - 1
    BY <1>0, <1>4, <1>7, Powers
  <2>3. m3 \in 0 .. Base - 1
    BY <1>3, <2>2
  <2>4. m3 % Base = m3 /\ m2 = d3 + Base * m3
    BY <1>3, <2>3 DEF Byte
  <2>5. /\ Base * (Base * m2 + d2) = (Base * Base) * m2 + Base * d2
        /\ (Base * Base) * m2 \in Int /\ Base * d2 \in Int /\ d \in Int
    BY DEF Byte
  <2>6. n = (d + Base * d2) + (Base * Base) * m2
    <3>1. Base * m = Base * (Base * m2 + d2) /\ n = Base * m + d
      BY <1>1, <1>2
    <3> QED
      BY <2>5, <3>1
  <2>7. Number(Bytes(n, 4)) = Pair(d, d2) + Power[2] * Pair(d3, m3)
    BY <1>a, <1>7, <2>1, <2>4 DEF Number
  <2> QED
    BY <1>7, <2>4, <2>6, <2>7, Powers DEF Pair
<1> QED
  BY <1>5, <1>6, <1>7 DEF Widths

\* Two's complement: a number of a signed type is read back from its remainder.
LEMMA SignedOfRemainder ==
  ASSUME NEW w \in Widths,
         NEW v \in SignedRange(w)
  PROVE  v % Power[w] \in 0 .. Power[w] - 1 /\ SignedOf(v % Power[w], w) = v
<1>1. PICK h \in Nat : h > 0 /\ h = Power[w] \div 2 /\ Power[w] = 2 * h
  BY Powers
<1>2. v \in -h .. h - 1
  BY <1>1 DEF SignedRange
<1>3. CASE v >= 0
  <2>1. v % (2 * h) = v
    BY <1>1, <1>2, <1>3
  <2> QED
    BY <1>1, <1>2, <1>3, <2>1 DEF SignedOf
<1>4. CASE v < 0
  <2>1. v % (2 * h) = v + 2 * h
    BY <1>1, <1>2, <1>4
  <2> QED
    BY <1>1, <1>2, <1>4, <2>1 DEF SignedOf
<1> QED
  BY <1>2, <1>3, <1>4

-----------------------------------------------------------------------------
(* Texts *)

\* The least and the greatest element of a set.
LEMMA MinIs ==
  ASSUME NEW S \in SUBSET Int, NEW m \in S, \A x \in S : m <= x
  PROVE  Min(S) = m
<1>1. Min(S) \in S /\ \A x \in S : Min(S) <= x
  BY Zenon DEF Min
<1>2. m \in Int /\ Min(S) \in Int /\ m <= Min(S) /\ Min(S) <= m
  BY <1>1
<1> QED
  BY <1>2

LEMMA MaxIs ==
  ASSUME NEW S \in SUBSET Int, NEW m \in S, \A x \in S : x <= m
  PROVE  Max(S) = m
<1>1. Max(S) \in S /\ \A x \in S : Max(S) >= x
  BY Zenon DEF Max
<1>2. m \in Int /\ Max(S) \in Int /\ m <= Max(S) /\ Max(S) <= m
  BY <1>1
<1> QED
  BY <1>2

\* A text that is padded to the length of the variable has that length.
LEMMA PaddedType ==
  ASSUME NEW n \in Nat, NEW text \in Seq(Chars)
  PROVE  Padded(text, n) \in [1 .. n -> Chars] /\ Len(Padded(text, n)) = n
<1>1. \A k \in 1 .. n : k <= Len(text) => text[k] \in Chars
  OBVIOUS
<1>2. Padded(text, n) \in [1 .. n -> Chars]
  BY <1>1 DEF Padded, Chars
<1> QED
  BY <1>2

\* Trimmed of blanks and cut at the first NUL, the padded text is the text.
LEMMA PaddedReadsBack ==
  ASSUME NEW n \in Nat, n > 0, NEW text \in Seq(Chars), Clean(text), Len(text) <= n
  PROVE  UpToNul(TrimSpace(Padded(text, n))) = text
<1> DEFINE padded == Padded(text, n)
           solid  == {k \in DOMAIN padded : padded[k] # "blank"}
           nuls   == {k \in DOMAIN padded : padded[k] = "nul"}
           len    == Len(text)
<1>1. /\ padded \in Seq(Chars) /\ DOMAIN padded = 1 .. n /\ Len(padded) = n
      /\ \A k \in 1 .. n : padded[k] = IF k <= len THEN text[k] ELSE "nul"
  BY PaddedType DEF Padded
<1>2. len \in Nat /\ len <= n /\ DOMAIN text = 1 .. len /\ text = [k \in 1 .. len |-> text[k]]
  OBVIOUS
<1>3. 1 \in solid /\ n \in solid
  BY <1>1, <1>2 DEF Clean
<1>4. TrimSpace(padded) = SubSeq(padded, 1, n)
  <2>1. Min(solid) = 1 /\ Max(solid) = n
    <3>1. solid \in SUBSET Int /\ \A k \in solid : 1 <= k /\ k <= n
      BY <1>1
    <3> HIDE DEF solid
    <3> QED
      BY <1>3, <3>1, MinIs, MaxIs
  <2> QED
    BY <1>3, <2>1 DEF TrimSpace
<1>5. TrimSpace(padded) = padded
  BY <1>1, <1>4
<1>6. Min(nuls \cup {n + 1}) = len + 1
  <2>1. \A k \in nuls : k \in Int /\ k >= len + 1
    BY <1>1, <1>2 DEF Clean
  <2>2. len + 1 \in nuls \cup {n + 1}
    BY <1>1, <1>2
  <2>3. nuls \cup {n + 1} \in SUBSET Int /\ \A k \in nuls \cup {n + 1} : len + 1 <= k
    BY <1>2, <2>1
  <2> HIDE DEF nuls
  <2> QED
    BY <2>2, <2>3, MinIs
<1>7. UpToNul(padded) = SubSeq(padded, 1, len)
  <2>1. UpToNul(padded) = SubSeq(padded, 1, Min(nuls \cup {Len(padded) + 1}) - 1)
    BY DEF UpToNul
  <2>2. Len(padded) = n
    BY <1>1
  <2> HIDE DEF nuls, padded, len
  <2>3. Min(nuls \cup {Len(padded) + 1}) = len + 1
    BY <1>6, <2>2
  <2>4. (len + 1) - 1 = len
    BY <1>2
  <2> QED
    BY <2>1, <2>3, <2>4
<1>8. SubSeq(padded, 1, len) = text
  BY <1>1, <1>2
<1> QED
  BY <1>5, <1>7, <1>8

-----------------------------------------------------------------------------
(* Types and what they stand for *)

Numeric == UnsignedTypes \cup SignedTypes

\* The types there are, and their widths.
LEMMA TheTypes ==
  /\ UnsignedTypes = {"BYTE", "USINT", "WORD", "UINT", "DWORD", "UDINT"}
  /\ SignedTypes = {"SINT", "INT", "DINT"}
  /\ Aliases = {"E_Mode", "T_Long"} /\ datatypes["E_Mode"] = "INT" /\ datatypes["T_Long"] = "TIME"
BY DEF UnsignedTypes, SignedTypes, Unsigned, Signed, Aliases, datatypes

\* The widths the code has.
LEMMA TheWidths ==
  ASSUME NEW type
  PROVE  /\ type \in Numeric => Width(type) \in Widths
         /\ type = "BOOL" => Width(type) = 1
         /\ type \in Times => Width(type) = 4
BY TheTypes DEF Numeric, Width, Widths, Times, Unsigned, Signed

\* The widths of the numbers, type by type.
LEMMA WidthOf ==
  /\ \A t \in {"BYTE", "USINT", "SINT"}   : Width(t) = 1
  /\ \A t \in {"UINT", "WORD", "INT"}     : Width(t) = 2
  /\ \A t \in {"UDINT", "DWORD", "DINT"}  : Width(t) = 4
<1>1. /\ Unsigned["BYTE"] = 1 /\ Unsigned["USINT"] = 1 /\ Unsigned["UINT"] = 2
      /\ Unsigned["WORD"] = 2 /\ Unsigned["UDINT"] = 4 /\ Unsigned["DWORD"] = 4
      /\ Signed["SINT"] = 1 /\ Signed["INT"] = 2 /\ Signed["DINT"] = 4
  BY DEF Unsigned, Signed
<1>2. \A t \in UnsignedTypes : Width(t) = Unsigned[t]
  BY TheTypes DEF Width, Times
<1>3. \A t \in SignedTypes : Width(t) = Signed[t]
  BY TheTypes DEF Width, Times
<1> QED
  BY <1>1, <1>2, <1>3, TheTypes

\* The numbers each branch of writeToNode takes.
LEMMA TakenOf ==
  /\ \A t \in {"BYTE", "USINT"}  : Taken(t) = UnsignedRange(1)
  /\ \A t \in {"UINT", "WORD"}   : Taken(t) = UnsignedRange(2)
  /\ \A t \in {"UDINT", "DWORD"} : Taken(t) = UnsignedRange(4)
  /\ Taken("SINT") = SignedRange(1) /\ Taken("INT") = SignedRange(2) /\ Taken("DINT") = SignedRange(4)
<1>1. 8 \div 8 = 1 /\ 16 \div 8 = 2 /\ 32 \div 8 = 4
  OBVIOUS
<1>2. /\ ParseUint(8) = UnsignedRange(1) /\ ParseUint(16) = UnsignedRange(2)
      /\ ParseUint(32) = UnsignedRange(4) /\ ParseInt(8) = SignedRange(1)
      /\ ParseInt(16) = SignedRange(2) /\ ParseInt(32) = SignedRange(4)
  BY <1>1 DEF ParseUint, ParseInt
<1>3. /\ \A t \in {"BYTE", "USINT"}  : Taken(t) = ParseUint(8)
      /\ \A t \in {"UINT", "WORD"}   : Taken(t) = ParseUint(16)
      /\ \A t \in {"UDINT", "DWORD"} : Taken(t) = ParseUint(32)
      /\ Taken("SINT") = ParseInt(8) /\ Taken("INT") = ParseInt(16) /\ Taken("DINT") = ParseInt(32)
  BY DEF Taken
<1> QED
  BY <1>2, <1>3

\* Branch by branch, writeToNode takes the numbers of the PLC's type and sends as
\* many bytes as it has, and parse asks for as many and sees the sign it has.
LEMMA TheBranches ==
  ASSUME NEW type \in Numeric
  PROVE  /\ Taken(type) = RangeOf(type)
         /\ Sent(type) = Width(type) /\ Needed(type) = Width(type)
         /\ type \in ReadSigned <=> type \notin UnsignedTypes
<1>1. CASE type \in {"BYTE", "USINT"}
  <2>1. Taken(type) = UnsignedRange(1) /\ Width(type) = 1 /\ type \in UnsignedTypes
    BY <1>1, TakenOf, WidthOf, TheTypes
  <2>2. Sent(type) = 1 /\ type \notin ReadSigned
    BY <1>1 DEF Sent, ReadSigned
  <2>3. Needed(type) = 1
    BY <1>1 DEF Needed, Times
  <2> QED
    BY <2>1, <2>2, <2>3 DEF RangeOf
<1>2. CASE type \in {"UINT", "WORD"}
  <2>1. Taken(type) = UnsignedRange(2) /\ Width(type) = 2 /\ type \in UnsignedTypes
    BY <1>2, TakenOf, WidthOf, TheTypes
  <2>2. Sent(type) = 2 /\ type \notin ReadSigned
    BY <1>2 DEF Sent, ReadSigned
  <2>3. Needed(type) = 2
    BY <1>2 DEF Needed, Times
  <2> QED
    BY <2>1, <2>2, <2>3 DEF RangeOf
<1>3. CASE type \in {"UDINT", "DWORD"}
  <2>1. Taken(type) = UnsignedRange(4) /\ Width(type) = 4 /\ type \in UnsignedTypes
    BY <1>3, TakenOf, WidthOf, TheTypes
  <2>2. Sent(type) = 4 /\ type \notin ReadSigned
    BY <1>3 DEF Sent, ReadSigned
  <2>3. Needed(type) = 4
    BY <1>3 DEF Needed, Times
  <2> QED
    BY <2>1, <2>2, <2>3 DEF RangeOf
<1>4. CASE type \in SignedTypes
  <2>1. type \notin UnsignedTypes /\ RangeOf(type) = SignedRange(Width(type))
    BY <1>4, TheTypes DEF RangeOf
  <2>2. Taken(type) = SignedRange(Width(type))
    BY <1>4, TakenOf, WidthOf, TheTypes
  <2>3. Sent(type) = Width(type) /\ type \in ReadSigned
    BY <1>4, WidthOf, TheTypes DEF Sent, ReadSigned
  <2>4. Needed(type) = Width(type)
    BY <1>4, WidthOf, TheTypes DEF Needed, Times
  <2> QED
    BY <2>1, <2>2, <2>3, <2>4
<1> QED
  BY <1>1, <1>2, <1>3, <1>4, TheTypes DEF Numeric

\* An alias stands for a type, and a type for itself.
LEMMA TheAliases ==
  ASSUME NEW type
  PROVE  /\ type \in Aliases => Resolved(type) \in {"INT", "TIME"}
         /\ type \in Numeric \cup {"BOOL", "STRING"} \cup Times => Resolved(type) = type
BY TheTypes DEF Numeric, Resolved, Times

\* A symbol has one of the types, and a text a length.
LEMMA SymbolType ==
  ASSUME symbol \in Declared
  PROVE  /\ symbol.type \in Numeric \cup {"BOOL", "STRING"} \cup Times \cup Aliases
         /\ symbol.type = "STRING" => symbol.length \in Nat /\ symbol.length > 0
<1>1. CASE symbol \in [type : Numeric \cup {"BOOL"} \cup Times \cup Aliases, length : {0}]
  BY <1>1, TheTypes DEF Numeric, Times
<1>2. CASE symbol \in [type : {"STRING"}, length : 1 .. MaxLength]
  BY <1>2
<1> QED
  BY <1>1, <1>2 DEF Declared, Numeric

\* What writeToNode makes of a value, by type.
LEMMA Written ==
  ASSUME NEW value, symbol \in Declared
  PROVE  LET type == Resolved(symbol.type) IN
         /\ type \in Numeric => writeToNode(symbol, value) = EncodeNumber(type, value)
         /\ type = "STRING" => writeToNode(symbol, value) = <<"ok", Padded(value, symbol.length)>>
         /\ type = "BOOL" => writeToNode(symbol, value) =
              IF value \in Truthy \cup Falsy THEN <<"ok", <<IF value \in Truthy THEN 1 ELSE 0>> >>
                                              ELSE Refused
         /\ type \in Times => writeToNode(symbol, value) = Refused
BY TheTypes DEF writeToNode, Numeric, parseableTypes, Times

\* What is written to a number is a number.
LEMMA NumericValues ==
  ASSUME NEW type \in Numeric, NEW value \in Values(type)
  PROVE  value \in Int
<1>1. type \notin {"BOOL", "STRING"}
  BY TheTypes DEF Numeric
<1> QED
  BY <1>1, Powers DEF Values

\* A number that writeToNode takes is one of the type, and its bytes are those
\* of the type's width and give it back.
LEMMA NumberWritten ==
  ASSUME NEW type \in Numeric, NEW value \in Int, NEW bytes,
         EncodeNumber(type, value) = <<"ok", bytes>>
  PROVE  /\ value \in RangeOf(type)
         /\ bytes \in [1 .. Width(type) -> Byte] /\ Len(bytes) = Width(type)
         /\ value = IF type \in UnsignedTypes THEN Number(bytes)
                                              ELSE SignedOf(Number(bytes), Width(type))
<1> DEFINE w == Width(type)
           n == value % Power[w]
<1>1. w \in Widths /\ Power[w] \in Nat /\ Power[w] > 0
  BY TheWidths, Powers DEF Widths
<1>2. value \in RangeOf(type) /\ bytes = Bytes(n, w)
  BY TheBranches DEF EncodeNumber, Refused
<1>3. CASE type \in UnsignedTypes
  <2>1. value \in 0 .. Power[w] - 1
    BY <1>2, <1>3 DEF RangeOf, UnsignedRange
  <2>2. n = value
    BY <1>1, <2>1
  <2> QED
    BY <1>1, <1>2, <1>3, <2>1, <2>2, BytesType, NumberOfBytes
<1>4. CASE type \notin UnsignedTypes
  <2>1. value \in SignedRange(w)
    BY <1>2, <1>4 DEF RangeOf
  <2>2. n \in 0 .. Power[w] - 1 /\ SignedOf(n, w) = value
    BY <1>1, <2>1, SignedOfRemainder
  <2>3. n \in Nat /\ Number(Bytes(n, w)) = n
    BY <1>1, <2>2, NumberOfBytes
  <2> QED
    BY <1>1, <1>2, <1>4, <2>2, <2>3, BytesType
<1> QED
  BY <1>3, <1>4

-----------------------------------------------------------------------------
(* The inductive invariant *)

\* A variable begins as zeros.
LEMMA InvInit == Init => Inv
<1> SUFFICES ASSUME Init PROVE Inv
  OBVIOUS
<1>1. symbol \in Declared /\ memory = Zeros(symbol) /\ told = <<>>
  BY DEF Init
<1>2. CASE symbol.type = "STRING"
  <2>1. Zeros(symbol) = Padded(<<>>, symbol.length) /\ <<>> \in Seq(Chars)
    BY <1>2 DEF Zeros
  <2> QED
    BY <1>1, <1>2, <2>1, SymbolType, PaddedType DEF Inv, TypeOK, BytesOfTold
<1>3. CASE symbol.type # "STRING"
  BY <1>1, <1>3 DEF Inv, TypeOK, BytesOfTold, Zeros
<1> QED
  BY <1>2, <1>3

\* A value that is written leaves bytes of the variable's type.
LEMMA InvWrite ==
  ASSUME Inv, NEW value \in Values(Resolved(symbol.type)), Write(value)
  PROVE  Inv'
<1> DEFINE type == Resolved(symbol.type)
<1>0. /\ symbol \in Declared /\ symbol' = symbol /\ told' = <<value>>
      /\ writeToNode(symbol, value) # Refused /\ memory' = writeToNode(symbol, value)[2]
  BY DEF Inv, TypeOK, Write
<1>1. type \in Numeric \cup {"BOOL", "STRING"} \cup Times /\ (type = "STRING" <=> symbol.type = "STRING")
  BY <1>0, SymbolType, TheAliases, TheTypes DEF Numeric, Times
<1>2. ASSUME NEW bytes, writeToNode(symbol, value) = <<"ok", bytes>>,
             IF type = "STRING" THEN bytes \in [1 .. symbol.length -> Chars]
                                ELSE bytes \in [1 .. Width(type) -> Byte]
      PROVE  Inv'
  BY <1>0, <1>1, <1>2 DEF Inv, TypeOK, BytesOfTold, Byte
<1>3. CASE type \in Numeric
  <2>1. value \in Int
    BY <1>3, NumericValues
  <2>2. writeToNode(symbol, value) = <<"ok", Bytes(value % Power[Width(type)], Width(type))>>
    BY <1>0, <1>3, Written, TheBranches DEF EncodeNumber
  <2>3. EncodeNumber(type, value) = <<"ok", Bytes(value % Power[Width(type)], Width(type))>>
    BY <1>0, <1>3, <2>2, Written
  <2>4. Bytes(value % Power[Width(type)], Width(type)) \in [1 .. Width(type) -> Byte]
    BY <1>3, <2>1, <2>3, NumberWritten
  <2> QED
    BY <1>2, <1>3, <2>2, <2>4, TheTypes DEF Numeric
<1>4. CASE type = "STRING"
  <2>1. value \in Seq(Chars)
    BY <1>4, TheTypes DEF Values, Texts
  <2>2. Padded(value, symbol.length) \in [1 .. symbol.length -> Chars]
    BY <1>0, <1>1, <1>4, <2>1, PaddedType, SymbolType
  <2> QED
    BY <1>0, <1>2, <1>4, <2>2, Written
<1>5. CASE type = "BOOL"
  <2> DEFINE bit == IF value \in Truthy THEN 1 ELSE 0
  <2>1. writeToNode(symbol, value) = <<"ok", <<bit>> >>
    BY <1>0, <1>5, Written
  <2>2. <<bit>> \in [1 .. 1 -> Byte]
    BY DEF Byte
  <2> QED
    BY <1>2, <1>5, <2>1, <2>2, TheWidths
<1>6. CASE type \in Times
  BY <1>0, <1>6, Written
<1> QED
  BY <1>1, <1>3, <1>4, <1>5, <1>6

\* Every step.
LEMMA InvNext == Inv /\ [Next]_vars => Inv'
<1> SUFFICES ASSUME Inv, [Next]_vars PROVE Inv'
  OBVIOUS
<1>1. CASE UNCHANGED vars
  BY <1>1 DEF vars, Inv, TypeOK, BytesOfTold
<1>2. ASSUME NEW value \in Values(Resolved(symbol.type)), WriteRefused(value) PROVE Inv'
  BY <1>2 DEF WriteRefused, vars, Inv, TypeOK, BytesOfTold
<1> QED
  BY <1>1, <1>2, InvWrite DEF Next

\* The bytes of a variable are of its type, and are those that writeToNode made
\* of the last value it took.
THEOREM Invariance == Spec => []Inv
BY InvInit, InvNext, PTL DEF Spec

-----------------------------------------------------------------------------
(* What is written is what is read *)

\* A number or a truth value that WriteToSymbol took is read back, for every
\* type, sign and width.
THEOREM NumbersAreReadBack == Spec => []NumbersReadBack
<1>1. Inv => NumbersReadBack
  <2> SUFFICES ASSUME Inv, symbol.type \in parseableTypes \ {"STRING"}, told # <<>>
               PROVE  parse(symbol, memory) = <<"ok", Shown(symbol.type, told[1])>>
    BY DEF NumbersReadBack
  <2> DEFINE type == symbol.type
  <2>1. /\ symbol \in Declared /\ type \in Numeric \cup {"BOOL"} /\ Resolved(type) = type
        /\ told[1] \in Values(type) /\ writeToNode(symbol, told[1]) = <<"ok", memory>>
    BY TheAliases, TheTypes DEF Inv, TypeOK, BytesOfTold, parseableTypes, Numeric
  <2>2. CASE type \in Numeric
    <3>a. told[1] \in Int
      BY <2>1, <2>2, NumericValues
    <3>1. EncodeNumber(type, told[1]) = <<"ok", memory>>
      BY <2>1, <2>2, Written
    <3>2. /\ Len(memory) = Width(type)
          /\ told[1] = IF type \in UnsignedTypes THEN Number(memory)
                                                 ELSE SignedOf(Number(memory), Width(type))
      BY <2>2, <3>a, <3>1, NumberWritten
    <3>3. /\ Len(memory) = Needed(type) /\ Needed(type) = Width(type)
          /\ type \in ReadSigned <=> type \notin UnsignedTypes
      BY <2>2, <3>2, TheBranches
    <3>4. type \notin {"STRING", "BOOL"} \cup Times /\ type \in parsedTypes
      BY <2>1, <2>2, TheTypes DEF parsedTypes, Numeric, Times
    <3>5. parse(symbol, memory) = <<"ok", IF type \in ReadSigned
                                          THEN SignedOf(Number(memory), Needed(type))
                                          ELSE Number(memory)>>
      BY <3>3, <3>4 DEF parse
    <3> QED
      BY <3>2, <3>3, <3>4, <3>5 DEF Shown
  <2>3. CASE type = "BOOL"
    <3>1. told[1] \in Truthy \cup Falsy /\ memory = <<IF told[1] \in Truthy THEN 1 ELSE 0>>
      BY <2>1, <2>3, Written DEF Refused
    <3>2. Len(memory) = 1 /\ memory[1] = IF told[1] \in Truthy THEN 1 ELSE 0
      BY <3>1
    <3>3. "BOOL" \in parsedTypes /\ Needed("BOOL") = 1
      BY DEF parsedTypes, parseableTypes, Needed, Times
    <3>4. parse(symbol, memory) = <<"ok", IF memory[1] > 0 THEN "True" ELSE "False">>
      BY <2>3, <3>2, <3>3 DEF parse, Times, ReadSigned
    <3> QED
      BY <2>3, <3>2, <3>4 DEF Shown
  <2> QED
    BY <2>1, <2>2, <2>3
<1> QED
  BY <1>1, Invariance, PTL

\* A text that fits, holds no NUL and neither starts nor ends with a blank is
\* read back.
THEOREM StringsAreReadBack == Spec => []StringsReadBack
<1>1. Inv => StringsReadBack
  <2> SUFFICES ASSUME Inv, symbol.type = "STRING", told # <<>>,
                      Clean(told[1]), Len(told[1]) <= symbol.length
               PROVE  parse(symbol, memory) = <<"ok", told[1]>>
    BY DEF StringsReadBack
  <2>1. /\ symbol \in Declared /\ Resolved(symbol.type) = "STRING"
        /\ told[1] \in Values("STRING") /\ writeToNode(symbol, told[1]) = <<"ok", memory>>
    BY TheAliases DEF Inv, TypeOK, BytesOfTold
  <2>2. memory = Padded(told[1], symbol.length)
    BY <2>1, Written
  <2>3. told[1] \in Seq(Chars) /\ symbol.length \in Nat /\ symbol.length > 0
    BY <2>1, SymbolType DEF Values, Texts
  <2>4. UpToNul(TrimSpace(memory)) = told[1]
    BY <2>2, <2>3, PaddedReadsBack
  <2>5. "STRING" \in parsedTypes /\ "STRING" \notin Numeric \cup Times
    BY TheTypes DEF parsedTypes, parseableTypes, Numeric, Times
  <2>6. parse(symbol, memory) = <<"ok", UpToNul(TrimSpace(memory))>>
    BY <2>5 DEF parse, Times, ReadSigned
  <2> QED
    BY <2>4, <2>6
<1> QED
  BY <1>1, Invariance, PTL

\* A number that the PLC's type does not have is never taken, of an alias neither:
\* each branch asks strconv for the sign and the width of the type it is for.
THEOREM ValuesAreOfTheType == Spec => []OnlyValuesOfTheType
<1>1. Inv => OnlyValuesOfTheType
  <2> SUFFICES ASSUME Inv, told # <<>>, symbol.type \in Aliases \cup Numeric
               PROVE  told[1] \in RangeOf(Resolved(symbol.type))
    BY DEF OnlyValuesOfTheType, Numeric
  <2> DEFINE type == Resolved(symbol.type)
  <2>1. /\ symbol \in Declared /\ type \in Numeric \cup Times
        /\ told[1] \in Values(type) /\ writeToNode(symbol, told[1]) = <<"ok", memory>>
    BY TheAliases, TheTypes DEF Inv, TypeOK, BytesOfTold, Numeric, Times
  <2>2. type \notin Times
    BY <2>1, Written DEF Refused
  <2>3. told[1] \in Int
    BY <2>1, <2>2, NumericValues
  <2>4. EncodeNumber(type, told[1]) = <<"ok", memory>>
    BY <2>1, <2>2, Written
  <2> QED
    BY <2>1, <2>2, <2>3, <2>4, NumberWritten
<1> QED
  BY <1>1, Invariance, PTL
=============================================================================
