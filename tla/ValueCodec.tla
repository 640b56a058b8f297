----------------------------- MODULE ValueCodec -----------------------------
(***************************************************************************)
(* writeToNode and parse (readWriter.go): the text of a value to the bytes *)
(* of a PLC variable and back.  The variable is the state: its declared    *)
(* type, its bytes, and the last value a caller was told was written.      *)
(*                                                                         *)
(* Bytes have Base values instead of 256, so that every value of every     *)
(* width is checked.  Characters are classes: a blank, a NUL, a letter.    *)
(* REAL and LREAL, whose conversion is the library's, are left out.        *)
(***************************************************************************)
EXTENDS Integers, Sequences, FiniteSetsExt

CONSTANTS Base,         \* values of a byte
          MaxLength     \* bound: declared length of a STRING

ASSUME BaseAssumption == Base \in Nat /\ Base >= 2 /\ Base % 2 = 0
ASSUME MaxLengthAssumption == MaxLength \in Nat \ {0}

\* The types of the PLC: their widths in bytes, and below the numbers they have.
Unsigned == [BYTE |-> 1, USINT |-> 1, WORD |-> 2, UINT |-> 2, DWORD |-> 4, UDINT |-> 4]
Signed   == [SINT |-> 1, INT |-> 2, DINT |-> 4]
Times    == {"TIME", "TOD", "DATE", "DT"}

UnsignedTypes == DOMAIN Unsigned
SignedTypes   == DOMAIN Signed

\* The types writeToNode converts, and those parse does.
parseableTypes == {"BOOL", "BYTE", "USINT", "UINT", "WORD", "UDINT", "DWORD", "SINT", "INT", "DINT",
                   "STRING"}
parsedTypes    == parseableTypes \cup Times

Width(type) == CASE type \in UnsignedTypes -> Unsigned[type]
                 [] type \in SignedTypes   -> Signed[type]
                 [] type = "BOOL"          -> 1
                 [] type \in Times         -> 4

\* datatypes: names the PLC program gave to other types (an enumeration, a
\* subrange), and the type each stands for.
datatypes == [E_Mode |-> "INT", T_Long |-> "TIME"]

Aliases == DOMAIN datatypes
Chars   == {"blank", "nul", "letter"}

Texts(n) == UNION {[1 .. k -> Chars] : k \in 0 .. n}

VARIABLES symbol,     \* [type, length] as declared
          memory,     \* its bytes
          told        \* the last value WriteToSymbol took

vars == <<symbol, memory, told>>

-----------------------------------------------------------------------------
(* Bytes of integers, least significant first *)

\* Power[k] is Base^k.
Power == [k \in 0 .. 4 |-> CASE k = 0 -> 1
                             [] k = 1 -> Base
                             [] k = 2 -> Base * Base
                             [] k = 3 -> Base * Base * Base
                             [] k = 4 -> (Base * Base) * (Base * Base)]

Bytes(n, width)  == [k \in 1 .. width |-> (n \div Power[k - 1]) % Base]
Pair(low, high)  == low + Base * high
Number(bytes)    == CASE Len(bytes) = 1 -> bytes[1]
                      [] Len(bytes) = 2 -> Pair(bytes[1], bytes[2])
                      [] Len(bytes) = 4 -> Pair(bytes[1], bytes[2])
                                             + Power[2] * Pair(bytes[3], bytes[4])
SignedOf(n, width) == IF n >= Power[width] \div 2 THEN n - Power[width] ELSE n

\* The numbers that have so many bytes, with or without a sign.
UnsignedRange(width) == 0 .. Power[width] - 1
SignedRange(width)   == -(Power[width] \div 2) .. (Power[width] \div 2) - 1

RangeOf(type) == IF type \in UnsignedTypes THEN UnsignedRange(Width(type)) ELSE SignedRange(Width(type))

-----------------------------------------------------------------------------
(* Strings *)

\* Faulty: everything after the text is kept, or nothing is trimmed off it.
KeepAll(text) == text

\* The text before the first NUL.
UpToNul(text) == LET nuls == {k \in DOMAIN text : text[k] = "nul"}
                 IN  SubSeq(text, 1, Min(nuls \cup {Len(text) + 1}) - 1)

\* bytes.TrimSpace, for which a NUL is no space.
TrimSpace(text) == LET solid == {k \in DOMAIN text : text[k] # "blank"}
                   IN  IF solid = {} THEN <<>> ELSE SubSeq(text, Min(solid), Max(solid))

\* Faulty: only the text is sent, not the whole variable.
Unpadded(text, n) == IF Len(text) > n THEN SubSeq(text, 1, n) ELSE text

Padded(text, n) == [k \in 1 .. n |-> IF k <= Len(text) THEN text[k] ELSE "nul"]

-----------------------------------------------------------------------------
(* writeToNode: <<"ok", bytes>> or <<"error">> *)

Refused == <<"error">>

\* An alias is looked up once.
Resolved(type) == IF type \in Aliases THEN datatypes[type] ELSE type

\* strconv.ParseUint and ParseInt take the numbers that fit the bitSize they are
\* given, branch by branch; the switch does not know the width of the variable.
ParseUint(bits) == UnsignedRange(bits \div 8)
ParseInt(bits)  == SignedRange(bits \div 8)

\* Faulty: an INT is parsed as if it were a DINT.
TakenAsWide(type) == CASE type \in {"BYTE", "USINT"}  -> ParseUint(8)
                       [] type \in {"UINT", "WORD"}   -> ParseUint(16)
                       [] type \in {"UDINT", "DWORD"} -> ParseUint(32)
                       [] type = "SINT"               -> ParseInt(8)
                       [] type \in {"INT", "DINT"}    -> ParseInt(32)

Taken(type) == CASE type \in {"BYTE", "USINT"}  -> ParseUint(8)
                 [] type \in {"UINT", "WORD"}   -> ParseUint(16)
                 [] type \in {"UDINT", "DWORD"} -> ParseUint(32)
                 [] type = "SINT"               -> ParseInt(8)
                 [] type = "INT"                -> ParseInt(16)
                 [] type = "DINT"               -> ParseInt(32)

\* The bytes of the Go type the number is then converted to and written as.
Sent(type) == CASE type \in {"BYTE", "USINT", "SINT"}  -> 1
                [] type \in {"UINT", "WORD", "INT"}    -> 2
                [] type \in {"UDINT", "DWORD", "DINT"} -> 4

\* Faulty: a number too large for the type is cut to its width.
EncodeWrapped(type, value) == <<"ok", Bytes(value % Power[Sent(type)], Sent(type))>>

EncodeNumber(type, value) ==
  IF value \in Taken(type) THEN <<"ok", Bytes(value % Power[Sent(type)], Sent(type))>> ELSE Refused

\* The texts strconv.ParseBool takes.
Truthy == {"1", "t", "T", "true", "TRUE", "True"}
Falsy  == {"0", "f", "F", "false", "FALSE", "False"}

writeToNode(sym, value) ==
  LET type == Resolved(sym.type)
  IN  CASE type \notin parseableTypes -> Refused
        [] type = "BOOL"   -> IF value \in Truthy \cup Falsy
                                THEN <<"ok", <<IF value \in Truthy THEN 1 ELSE 0>> >> ELSE Refused
        [] type = "STRING" -> <<"ok", Padded(value, sym.length)>>
        [] OTHER           -> EncodeNumber(type, value)

-----------------------------------------------------------------------------
(* parse of a symbol without children, over the bytes of the symbol alone: *)
(* <<"ok", value>> or <<"error">>.  The alias is not looked up here.       *)

\* The size a branch insists on, and the branches that read a signed Go type.
Needed(type) == CASE type \in {"BOOL", "BYTE", "USINT", "SINT"}        -> 1
                  [] type \in {"UINT", "WORD", "INT"}                  -> 2
                  [] type \in {"UDINT", "DWORD", "DINT"} \cup Times    -> 4
ReadSigned == {"SINT", "INT", "DINT"}

parse(sym, data) ==
  LET type == sym.type
  IN  CASE type \notin parsedTypes -> Refused
        [] type = "STRING" -> <<"ok", UpToNul(TrimSpace(data))>>
        [] type # "STRING" /\ Len(data) # Needed(type) -> Refused
        [] type = "BOOL"  -> <<"ok", IF data[1] > 0 THEN "True" ELSE "False">>
        [] type \in Times -> <<"ok", "time of day">>
        [] type \in ReadSigned -> <<"ok", SignedOf(Number(data), Needed(type))>>
        [] OTHER          -> <<"ok", Number(data)>>

-----------------------------------------------------------------------------
(* A variable and those who write it *)

Declared == [type : UnsignedTypes \cup SignedTypes \cup {"BOOL"} \cup Times \cup Aliases, length : {0}]
              \cup [type : {"STRING"}, length : 1 .. MaxLength]

\* Texts of numbers around every bound, of the truth values, and of strings
\* up to one character too long.
Values(type) == CASE type = "BOOL"   -> Truthy \cup Falsy \cup {"neither"}
                  [] type = "STRING" -> Texts(MaxLength + 1)
                  [] OTHER           -> -Power[4] .. Power[4] + 1

Zeros(sym) == IF sym.type = "STRING" THEN Padded(<<>>, sym.length)
              ELSE [k \in 1 .. Width(Resolved(sym.type)) |-> 0]

Init == /\ symbol \in Declared
        /\ memory = Zeros(symbol)
        /\ told = <<>>

\* WriteToSymbol of a value writeToNode converts, executed by the device.
Write(value) == /\ writeToNode(symbol, value) # Refused
                /\ memory' = writeToNode(symbol, value)[2]
                /\ told' = <<value>>
                /\ UNCHANGED symbol

\* WriteToSymbol of any other value sends nothing.
WriteRefused(value) == /\ writeToNode(symbol, value) = Refused
                       /\ UNCHANGED vars

Next == \E value \in Values(Resolved(symbol.type)) : Write(value) \/ WriteRefused(value)

Spec == Init /\ [][Next]_vars

-----------------------------------------------------------------------------
(* Properties *)

TypeOK == /\ symbol \in Declared
          /\ IF symbol.type = "STRING" THEN memory \in [1 .. symbol.length -> Chars]
             ELSE memory \in [1 .. Width(Resolved(symbol.type)) -> 0 .. Base - 1]

\* Reading a number gives back what was last written, for every type, sign and
\* width; reading a truth value gives its name, whatever text it was written as.
Shown(type, value) == IF type # "BOOL" THEN value
                      ELSE IF value \in Truthy THEN "True" ELSE "False"
NumbersReadBack ==
  symbol.type \in (parseableTypes \ {"STRING"}) /\ told # <<>> =>
    parse(symbol, memory) = <<"ok", Shown(symbol.type, told[1])>>

\* Reading a string gives back what was written if that fits, holds no NUL
\* and neither starts nor ends with a blank.
Clean(text) == /\ text # <<>> => text[1] # "blank" /\ text[Len(text)] # "blank"
               /\ \A k \in DOMAIN text : text[k] # "nul"
StringsReadBack ==
  symbol.type = "STRING" /\ told # <<>> =>
    (Clean(told[1]) /\ Len(told[1]) <= symbol.length => parse(symbol, memory) = <<"ok", told[1]>>)

\* A number that the PLC's type does not have is refused, never cut to the width
\* of the type: the bitSize of every branch agrees with the type it is for.
OnlyValuesOfTheType ==
  told # <<>> /\ symbol.type \in Aliases \cup UnsignedTypes \cup SignedTypes
    => told[1] \in RangeOf(Resolved(symbol.type))

\* What these rest on: the bytes of the variable are those that writeToNode made
\* of the last value it took.
BytesOfTold ==
  told # <<>> => /\ told[1] \in Values(Resolved(symbol.type))
                 /\ writeToNode(symbol, told[1]) = <<"ok", memory>>

Inv == TypeOK /\ BytesOfTold
=============================================================================
