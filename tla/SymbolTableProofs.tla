-------------------------- MODULE SymbolTableProofs --------------------------
(***************************************************************************)
(* What holds of SymbolTable for every upload of a well-formed device:     *)
(* any number of variables, types nested to any depth, any bounds.         *)
(***************************************************************************)
EXTENDS SymbolTable, SequenceTheorems, TLAPS

USE WordAssumption, UploadsAssumption

Level == [LBound : 0 .. Word - 1, Elements : 0 .. Word - 1]

-----------------------------------------------------------------------------
(* Bounds and sizes *)

\* A number is its quotient times the divisor, plus its remainder.
LEMMA Division ==
  ASSUME NEW n \in Int, NEW d \in Nat, d > 0
  PROVE  \E q \in Int, r \in 0 .. d - 1 : q = n \div d /\ r = n % d /\ n = d * q + r
<1>1. PICK q \in Int : q = n \div d
  OBVIOUS
<1>2. PICK r \in 0 .. d - 1 : r = n % d
  OBVIOUS
<1>3. n - d * q = r
  BY <1>1, <1>2
<1>4. d * q \in Int /\ n = d * q + r
  BY <1>3
<1> QED
  BY <1>1, <1>2, <1>4

\* What is made of equal parts is divided into them.
LEMMA EqualParts ==
  ASSUME NEW each \in Nat, NEW n \in Nat, n > 0
  PROVE  (each * n) \div n = each
<1>1. each * n \in Nat
  OBVIOUS
<1>2. PICK q \in Int, r \in 0 .. n - 1 : q = (each * n) \div n /\ each * n = n * q + r
  BY <1>1, Division
<1>3. n * q \in Int /\ n * (each - q) = r /\ n * (each - q) < n * 1
  BY <1>2
<1>4. each - q < 1 /\ each - q >= 0
  BY <1>3
<1> QED
  BY <1>2, <1>4

\* The indices that the loop of makeArrayChilds passes are within the bounds,
\* and are all of them if the upper one does not wrap.
LEMMA IndicesWithinBounds ==
  ASSUME NEW level \in Level
  PROVE  /\ \A i \in Indices(level) : /\ i \in 0 .. Word - 1
                                      /\ i - level.LBound \in 0 .. level.Elements - 1
         /\ level.LBound + level.Elements < Word
              => Indices(level) = level.LBound .. level.LBound + level.Elements - 1
<1> DEFINE l == level.LBound
           e == level.Elements
<1>1. l \in 0 .. Word - 1 /\ e \in 0 .. Word - 1 /\ l + e \in Nat
  BY DEF Level
<1>2. Indices(level) = l .. ((l + e) % Word) - 1
  BY DEF Indices
<1> HIDE DEF l, e
<1>n. PICK n \in Int : n = l + e
  BY <1>1
<1>p. PICK q \in Int, r \in 0 .. Word - 1 : r = n % Word /\ n = Word * q + r
  BY Division
<1>3. Indices(level) = l .. r - 1 /\ l + e = Word * q + r
  BY <1>n, <1>p, <1>2
<1>4. Word * q >= 0
  <2>1. SUFFICES ASSUME q <= -1 PROVE FALSE
    BY <1>3
  <2>2. Word * q <= Word * (-1)
    BY <2>1
  <2> QED
    BY <2>2, <1>1, <1>3
<1>5. r <= l + e /\ Word * q \in Int
  BY <1>1, <1>3, <1>4
<1>6. l + e < Word => r = l + e
  <2>1. SUFFICES ASSUME l + e < Word PROVE r = l + e
    OBVIOUS
  <2>2. Word * q < Word * 1
    BY <2>1, <1>3, <1>5
  <2>3. q < 1
    BY <2>2
  <2>4. q >= 0
    BY <1>4
  <2>5. q = 0
    BY <2>3, <2>4
  <2> QED
    BY <2>5, <1>1, <1>3
<1>7. \A i \in l .. r - 1 : i \in 0 .. Word - 1 /\ i - l \in 0 .. e - 1
  BY <1>1, <1>5
<1>8. \A i \in Indices(level) : i \in 0 .. Word - 1 /\ i - l \in 0 .. e - 1
  BY <1>3, <1>7
<1>9. ASSUME l + e < Word PROVE Indices(level) = l .. l + e - 1
  <2>1. r = l + e
    BY <1>6, <1>9
  <2> QED
    BY <1>1, <1>3, <2>1
<1> QED
  BY <1>8, <1>9 DEF l, e

-----------------------------------------------------------------------------
(* The children of a symbol *)

Parts == [name : Segments, type : DataTypes, size : Nat, offs : Nat]

\* The elements the client makes of an array: of the size they have in the
\* device, one after the other, inside the array.
LEMMA Elements ==
  ASSUME NEW u \in Uploads, NEW t, IsArray(t, u.types),
         NEW s \in Childs(t, u.types)
  PROVE  LET array == u.types[t]
             level == array.dims[1]
         IN  \E i \in Indices(level) :
               /\ i \in 0 .. Word - 1 /\ i - level.LBound \in 0 .. level.Elements - 1
               /\ s = [name |-> <<"", i>>, type |-> array.base, size |-> array.each,
                       offs |-> array.each * (i - level.LBound)]
<1> DEFINE array == u.types[t]
           level == array.dims[1]
<1>1. WellFormedType(array, u.types) /\ array.dims # <<>> /\ t \in DOMAIN u.types
  BY UploadsAssumption DEF WellFormed, IsArray
<1>2. array.dims \in Seq(Level)
  BY <1>1 DEF WellFormedType, Level
<1> HIDE DEF array
<1>3. level \in Level
  BY <1>1, <1>2
<1>4. array.each \in Nat /\ array.size = array.each * level.Elements
  BY <1>1 DEF WellFormedType
<1>5. s \in makeArrayChilds(array.dims, array.base, array.size)
  BY <1>1 DEF Childs, array
<1>6. PICK i \in Indices(level) :
        s = [name |-> <<"", i>>, type |-> array.base, size |-> array.size \div level.Elements,
             offs |-> (array.size \div level.Elements) * (i - level.LBound)]
  BY <1>5 DEF makeArrayChilds
<1>7. i \in 0 .. Word - 1 /\ i - level.LBound \in 0 .. level.Elements - 1
  BY <1>3, IndicesWithinBounds
<1>8. level.Elements \in Nat /\ level.Elements > 0
  BY <1>3, <1>7 DEF Level
<1>9. array.size \div level.Elements = array.each
  BY <1>4, <1>8, EqualParts
<1> QED
  BY <1>6, <1>7, <1>9, Zenon DEF array

\* The other way round: whatever index the loop passes has its element.
LEMMA ElementOfIndex ==
  ASSUME NEW u \in Uploads, NEW t, IsArray(t, u.types),
         NEW i \in Indices(u.types[t].dims[1])
  PROVE  [name |-> <<"", i>>, type |-> u.types[t].base, size |-> u.types[t].each,
          offs |-> u.types[t].each * (i - u.types[t].dims[1].LBound)] \in Childs(t, u.types)
<1> DEFINE level == u.types[t].dims[1]
           each  == u.types[t].size \div level.Elements
           part  == [name |-> <<"", i>>, type |-> u.types[t].base, size |-> each,
                     offs |-> each * (i - level.LBound)]
<1>1. part \in Childs(t, u.types)
  BY Zenon DEF Childs, makeArrayChilds, IsArray
<1>2. PICK j \in Indices(level) :
        part = [name |-> <<"", j>>, type |-> u.types[t].base, size |-> u.types[t].each,
                offs |-> u.types[t].each * (j - level.LBound)]
  BY <1>1, Elements, Zenon
<1>3. part.name = <<"", i>> /\ part.name = <<"", j>>
  BY <1>2
<1>4. i = j
  BY <1>3
<1> QED
  BY <1>1, <1>2, <1>4

\* The children of a type have types, sizes and offsets, lie inside it, and
\* hold the fields of their own type.
LEMMA ChildsType ==
  ASSUME NEW u \in Uploads, NEW t \in DOMAIN u.types, NEW s \in Childs(t, u.types)
  PROVE  /\ s \in Parts
         /\ s.offs + s.size <= u.types[t].size
         /\ s.type \in DOMAIN u.types => u.types[s.type].size <= s.size
<1>1. WellFormedType(u.types[t], u.types)
  BY UploadsAssumption DEF WellFormed
<1>2. CASE IsArray(t, u.types)
  <2> DEFINE array == u.types[t]
             level == array.dims[1]
  <2>1. PICK i \in 0 .. Word - 1 :
          /\ i - level.LBound \in 0 .. level.Elements - 1
          /\ s = [name |-> <<"", i>>, type |-> array.base, size |-> array.each,
                  offs |-> array.each * (i - level.LBound)]
    BY <1>2, Elements
  <2>2. array.dims # <<>> /\ array.each \in Nat /\ array.size = array.each * level.Elements
        /\ array.base \in DataTypes
        /\ (array.base \in DOMAIN u.types => u.types[array.base].size <= array.each)
    BY <1>1, <1>2 DEF WellFormedType, IsArray
  <2>s. array.dims \in Seq(Level)
    BY <1>1 DEF WellFormedType, Level
  <2>3. level \in Level
    BY <2>s, <2>2
  <2>4. PICK l \in Nat, n \in Nat, e \in Nat :
          l = level.LBound /\ n = level.Elements /\ e = array.each
    BY <2>2, <2>3 DEF Level
  <2> HIDE DEF array, level
  <2>5. PICK k \in 0 .. n - 1 : k = i - l
    BY <2>1, <2>4
  <2>6. e * k \in Nat /\ e * k + e <= e * n
    <3>1. e * (k + 1) <= e * n
      BY <2>5
    <3>2. e * (k + 1) = e * k + e
      OBVIOUS
    <3> QED
      BY <3>1, <3>2
  <2>7. s.name = <<"", i>> /\ s.type = array.base /\ s.size = e /\ s.offs = e * k
    BY <2>1, <2>4, <2>5
  <2>8. s \in Parts
    BY <2>1, <2>2, <2>4, <2>5, <2>6 DEF Parts, Segments
  <2>9. array.size = e * n
    BY <2>2, <2>4
  <2>10. s.offs + s.size <= array.size
    BY <2>6, <2>7, <2>9
  <2> QED
    BY <2>2, <2>4, <2>7, <2>8, <2>10 DEF array
<1>3. CASE ~IsArray(t, u.types)
  <2>1. PICK f \in u.types[t].fields :
          s = [name |-> <<f.name>>, type |-> f.type, size |-> f.size, offs |-> f.offs]
    BY <1>3 DEF Childs, fieldChilds
  <2>2. f \in [name : Names, type : DataTypes, offs : Nat, size : Nat]
        /\ f.offs + f.size <= u.types[t].size /\ Sized(f.type, f.size, u.types)
    BY <1>1 DEF WellFormedType
  <2>3. s \in Parts
    BY <2>1, <2>2 DEF Parts, Segments
  <2> QED
    BY <2>1, <2>2, <2>3 DEF Sized
<1> QED
  BY <1>2, <1>3

\* Symbols that have room for what is inside them.
Fits(s, u) == s.DataType \in DOMAIN u.types => u.types[s.DataType].size <= s.Length

LEMMA VariableType ==
  ASSUME NEW u \in Uploads, NEW k \in 1 .. Len(u.symbols)
  PROVE  addSymbol(u.symbols[k]) \in Symbol /\ Fits(addSymbol(u.symbols[k]), u)
<1>1. WellFormed(u)
  BY UploadsAssumption
<1>s. u.symbols \in Seq([name : Names, type : DataTypes, size : Nat, at : Nat])
  BY <1>1 DEF WellFormed
<1>2. u.symbols[k] \in [name : Names, type : DataTypes, size : Nat, at : Nat]
  BY <1>s, ElementOfSeq
<1>3. Sized(u.symbols[k].type, u.symbols[k].size, u.types)
  BY <1>1 DEF WellFormed
<1>4. <<u.symbols[k].name>> \in Segments
  BY <1>2 DEF Segments
<1>5. << <<u.symbols[k].name>> >> \in Seq(Segments) \ {<<>>}
  BY <1>4
<1>6. addSymbol(u.symbols[k]) \in Symbol
  BY <1>2, <1>4, <1>5 DEF addSymbol, Symbol
<1>7. u.symbols[k].type \in DOMAIN u.types => u.types[u.symbols[k].type].size <= u.symbols[k].size
  <2>1. SUFFICES ASSUME u.symbols[k].type \in DOMAIN u.types
                 PROVE  u.types[u.symbols[k].type].size <= u.symbols[k].size
    OBVIOUS
  <2>2. u.types[u.symbols[k].type].size = u.symbols[k].size
    BY <1>3, <2>1 DEF Sized
  <2> QED
    BY <1>2, <2>2
<1> QED
  BY <1>6, <1>7 DEF addSymbol, Fits

\* What a child takes from its parent and from the type of that.
LEMMA ChildOf ==
  ASSUME NEW u \in Uploads, NEW p \in Symbol, NEW c \in addOffset(p, u.types)
  PROVE  /\ p.DataType \in DOMAIN u.types
         /\ \E s \in Childs(p.DataType, u.types) :
              /\ s \in Parts
              /\ c = [Name |-> s.name, FullName |-> Path(p, s.name), DataType |-> s.type,
                      Length |-> s.size, at |-> p.at + s.offs]
<1>1. PICK s \in Childs(p.DataType, u.types) :
        c = [Name |-> s.name, FullName |-> Path(p, s.name), DataType |-> s.type,
             Length |-> s.size, at |-> p.at + s.offs]
  BY DEF addOffset
<1>2. p.DataType \in DOMAIN u.types
  BY DEF Childs
<1> QED
  BY <1>1, <1>2, ChildsType

\* The name of a child: after its parent's full name, or after the last segment of it.
LEMMA PathType ==
  ASSUME NEW p \in Symbol, NEW name \in Segments
  PROVE  Path(p, name) \in Seq(Segments) \ {<<>>} /\ Len(Path(p, name)) >= 2
<1>1. p.Name \in Segments /\ p.FullName \in Seq(Segments) /\ p.FullName # <<>>
  BY DEF Symbol
<1>2. Len(p.FullName) >= 1
  BY <1>1
<1>3. CASE IsIndex(name)
  BY <1>1, <1>3 DEF Path
<1>4. CASE ~IsIndex(name)
  BY <1>1, <1>2, <1>4 DEF Path
<1> QED
  BY <1>3, <1>4

\* A child is a symbol, with room for its own children; its name is a longer
\* one than that of any variable.
LEMMA ChildType ==
  ASSUME NEW u \in Uploads, NEW p \in Symbol, NEW c \in addOffset(p, u.types)
  PROVE  c \in Symbol /\ Fits(c, u) /\ Len(c.FullName) >= 2
<1>1. PICK s \in Childs(p.DataType, u.types) :
        /\ p.DataType \in DOMAIN u.types /\ s \in Parts
        /\ c = [Name |-> s.name, FullName |-> Path(p, s.name), DataType |-> s.type,
                Length |-> s.size, at |-> p.at + s.offs]
  BY ChildOf
<1>2. s.name \in Segments /\ s.type \in DataTypes /\ s.size \in Nat /\ s.offs \in Nat /\ p.at \in Nat
  BY <1>1 DEF Parts, Symbol
<1>3. Path(p, s.name) \in Seq(Segments) \ {<<>>} /\ Len(Path(p, s.name)) >= 2
  BY <1>2, PathType
<1>4. c \in Symbol
  BY <1>1, <1>2, <1>3 DEF Symbol
<1>5. s.type \in DOMAIN u.types => u.types[s.type].size <= s.size
  BY <1>1, ChildsType
<1> QED
  BY <1>1, <1>3, <1>4, <1>5 DEF Fits

\* A child's bytes are bytes of its parent.
LEMMA ChildInside ==
  ASSUME NEW u \in Uploads, NEW p \in Symbol, Fits(p, u), NEW c \in addOffset(p, u.types)
  PROVE  Bytes(c) \subseteq Bytes(p)
<1>1. PICK s \in Childs(p.DataType, u.types) :
        /\ p.DataType \in DOMAIN u.types /\ s \in Parts
        /\ c = [Name |-> s.name, FullName |-> Path(p, s.name), DataType |-> s.type,
                Length |-> s.size, at |-> p.at + s.offs]
  BY ChildOf
<1>2. s.offs + s.size <= u.types[p.DataType].size
  BY <1>1, ChildsType
<1>3. u.types[p.DataType].size <= p.Length
  BY <1>1 DEF Fits
<1>4. WellFormedType(u.types[p.DataType], u.types)
  BY <1>1, UploadsAssumption DEF WellFormed
<1>5. s.offs \in Nat /\ s.size \in Nat /\ p.at \in Nat /\ p.Length \in Nat
      /\ u.types[p.DataType].size \in Nat
  BY <1>1, <1>4 DEF Parts, Symbol, WellFormedType
<1>6. c.at = p.at + s.offs /\ c.Length = s.size
  BY <1>1
<1>7. s.offs + s.size <= p.Length
  BY <1>2, <1>3, <1>5
<1> QED
  BY <1>5, <1>6, <1>7 DEF Bytes

\* No two elements of an array share a byte.
LEMMA ElementsApart ==
  ASSUME NEW u \in Uploads, NEW p \in Symbol, IsArray(p.DataType, u.types),
         NEW c \in addOffset(p, u.types), NEW d \in addOffset(p, u.types), c # d
  PROVE  Bytes(c) \cap Bytes(d) = {}
<1> DEFINE array == u.types[p.DataType]
           level == array.dims[1]
           Part(i) == [name |-> <<"", i>>, type |-> array.base, size |-> array.each,
                       offs |-> array.each * (i - level.LBound)]
<1>1. WellFormedType(array, u.types) /\ array.dims # <<>>
  BY UploadsAssumption DEF WellFormed, IsArray
<1>2. array.dims \in Seq(Level) /\ array.each \in Nat
  BY <1>1 DEF WellFormedType, Level
<1>3. level \in Level
  BY <1>1, <1>2
<1>4. PICK l \in Nat, e \in Nat : l = level.LBound /\ e = array.each
  <2> HIDE DEF level, array
  <2>1. level.LBound \in Nat
    BY <1>3 DEF Level
  <2> QED
    BY <1>2, <2>1
<1>5. ASSUME NEW s \in Childs(p.DataType, u.types)
      PROVE  \E i \in 0 .. Word - 1 : s = Part(i)
  BY Elements
<1>6. PICK i \in 0 .. Word - 1 :
        c = [Name |-> Part(i).name, FullName |-> Path(p, Part(i).name), DataType |-> Part(i).type,
             Length |-> Part(i).size, at |-> p.at + Part(i).offs]
  BY <1>5, Zenon DEF addOffset
<1>7. PICK j \in 0 .. Word - 1 :
        d = [Name |-> Part(j).name, FullName |-> Path(p, Part(j).name), DataType |-> Part(j).type,
             Length |-> Part(j).size, at |-> p.at + Part(j).offs]
  BY <1>5, Zenon DEF addOffset
<1>8. i # j
  BY <1>6, <1>7
<1>9. /\ c.at = p.at + array.each * (i - level.LBound) /\ c.Length = array.each
      /\ d.at = p.at + array.each * (j - level.LBound) /\ d.Length = array.each
  BY <1>6, <1>7
<1> HIDE DEF array, level, Part
<1>10. c.at = p.at + e * (i - l) /\ c.Length = e /\ d.at = p.at + e * (j - l) /\ d.Length = e
  BY <1>4, <1>9
<1>11. p.at \in Nat
  BY DEF Symbol
<1>12. ASSUME NEW m \in 0 .. Word - 1, NEW n \in 0 .. Word - 1, m < n
       PROVE  /\ p.at + e * (m - l) \in Int /\ p.at + e * (n - l) \in Int
              /\ p.at + e * (m - l) + e <= p.at + e * (n - l)
  <2>1. e * (m - l) \in Int /\ e * (n - l) \in Int /\ (m - l) + 1 <= n - l
    BY <1>12
  <2>2. e * ((m - l) + 1) <= e * (n - l)
    BY <2>1
  <2>3. e * ((m - l) + 1) = e * (m - l) + e
    OBVIOUS
  <2> QED
    BY <2>1, <2>2, <2>3, <1>11
<1>13. CASE i < j
  <2>1. c.at \in Int /\ d.at \in Int /\ c.at + e <= d.at
    BY <1>10, <1>12, <1>13
  <2> QED
    BY <2>1, <1>10 DEF Bytes
<1>14. CASE j < i
  <2>1. c.at \in Int /\ d.at \in Int /\ d.at + e <= c.at
    BY <1>10, <1>12, <1>14
  <2> QED
    BY <2>1, <1>10 DEF Bytes
<1> QED
  BY <1>8, <1>13, <1>14

-----------------------------------------------------------------------------
(* The invariant *)

\* The operations of the table extend it: no step replaces what is filed.
Extends == /\ DOMAIN symbols \subseteq DOMAIN symbols'
           /\ \A n \in DOMAIN symbols : symbols'[n] = symbols[n]

LEMMA InvInit == Init => Inv
<1>1. SUFFICES ASSUME Init PROVE Inv
  OBVIOUS
<1>2. upload \in Uploads /\ count = 0 /\ symbols = <<>> /\ pending = <<>>
  BY <1>1 DEF Init
<1>3. DOMAIN symbols = {} /\ DOMAIN pending = {}
  BY <1>2
<1>4. Len(upload.symbols) \in Nat
  BY <1>2 DEF WellFormed
<1>5. TypeOK
  BY <1>2, <1>3, <1>4 DEF TypeOK
<1>6. Filed /\ VariablesFiled /\ NoneForgotten
  BY <1>2, <1>3 DEF Filed, VariablesFiled, NoneForgotten
<1> QED
  BY <1>5, <1>6 DEF Inv

\* What is filed under a new name is added to the table.
LEMMA Filing ==
  ASSUME TypeOK, NEW s \in Symbol, s.FullName \notin DOMAIN symbols, symbols' = With(s)
  PROVE  /\ Extends /\ symbols' \in [DOMAIN symbols' -> Symbol]
         /\ DOMAIN symbols' = DOMAIN symbols \cup {s.FullName} /\ symbols'[s.FullName] = s
<1>1. symbols \in [DOMAIN symbols -> Symbol]
  BY DEF TypeOK
<1>2. DOMAIN symbols' = DOMAIN symbols \cup {s.FullName} /\ symbols'[s.FullName] = s
  BY DEF With
<1>3. \A n \in DOMAIN symbols : symbols'[n] = symbols[n]
  BY DEF With
<1>4. \A n \in DOMAIN symbols' : symbols'[n] \in Symbol
  BY <1>1, <1>2, <1>3
<1>5. symbols' = [n \in DOMAIN symbols' |-> symbols'[n]]
  BY DEF With
<1> QED
  BY <1>2, <1>3, <1>4, <1>5 DEF Extends

LEMMA InvParseSymbol == Inv /\ ParseSymbol => Inv'
<1>1. SUFFICES ASSUME Inv, ParseSymbol PROVE Inv'
  OBVIOUS
<1> DEFINE k == count + 1
           s == addSymbol(upload.symbols[k])
<1>2. /\ pending = <<>> /\ count < Len(upload.symbols) /\ count' = k /\ symbols' = With(s)
      /\ pending' = <<addOffset(s, upload.types)>> /\ upload' = upload
  BY <1>1 DEF ParseSymbol
<1>3. TypeOK /\ Filed /\ VariablesFiled /\ NoneForgotten
  BY <1>1 DEF Inv
<1>4. upload \in Uploads /\ count \in Nat /\ Len(upload.symbols) \in Nat
  BY <1>3 DEF TypeOK, WellFormed
<1>5. k \in 1 .. Len(upload.symbols)
  BY <1>2, <1>4
<1>6. s \in Symbol /\ s.FullName = << <<upload.symbols[k].name>> >>
  BY <1>4, <1>5, VariableType DEF addSymbol
<1>7. \A p \in DOMAIN symbols : symbols[p] \in Symbol
  BY <1>3 DEF TypeOK
<1>8. s.FullName \notin DOMAIN symbols
  <2>1. SUFFICES ASSUME s.FullName \in DOMAIN symbols PROVE FALSE
    OBVIOUS
  <2>2. symbols[s.FullName].FullName = s.FullName
    BY <1>3, <2>1 DEF Filed
  <2>3. CASE ChildOfFiled(symbols[s.FullName])
    <3>1. PICK p \in DOMAIN symbols : symbols[s.FullName] \in addOffset(symbols[p], upload.types)
      BY <2>3 DEF ChildOfFiled
    <3>2. Len(s.FullName) >= 2
      BY <1>4, <1>7, <2>2, <3>1, ChildType
    <3> QED
      BY <1>6, <3>2
  <2>4. ASSUME NEW j \in 1 .. count, symbols[s.FullName] = addSymbol(upload.symbols[j])
        PROVE  FALSE
    <3>1. upload.symbols[j].name = upload.symbols[k].name
      BY <1>6, <2>2, <2>4 DEF addSymbol
    <3>2. j \in 1 .. Len(upload.symbols)
      BY <1>2, <1>4
    <3>3. j = k
      BY <1>4, <1>5, <3>1, <3>2, UploadsAssumption DEF WellFormed
    <3> QED
      BY <1>4, <3>3
  <2> QED
    BY <1>3, <2>1, <2>3, <2>4 DEF Filed
<1> HIDE DEF s
<1>9. /\ Extends /\ symbols' \in [DOMAIN symbols' -> Symbol]
      /\ DOMAIN symbols' = DOMAIN symbols \cup {s.FullName} /\ symbols'[s.FullName] = s
  BY <1>2, <1>3, <1>6, <1>8, Filing
<1>10. addOffset(s, upload.types) \in SUBSET Symbol
  BY <1>4, <1>6, ChildType
<1>11. DOMAIN pending = {} /\ DOMAIN pending' = {1} /\ pending'[1] = addOffset(s, upload.types)
  BY <1>2
<1>12. TypeOK'
  <2>1. pending' \in Seq(SUBSET Symbol)
    BY <1>2, <1>10
  <2>2. count' \in 0 .. Len(upload'.symbols) /\ upload' \in Uploads
    BY <1>2, <1>4
  <2> QED
    BY <1>9, <2>1, <2>2 DEF TypeOK
<1>13. Filed'
  <2>1. ASSUME NEW n \in DOMAIN symbols'
        PROVE  /\ symbols'[n].FullName = n
               /\ \/ \E j \in 1 .. count' : symbols'[n] = addSymbol(upload'.symbols[j])
                  \/ \E p \in DOMAIN symbols' : symbols'[n] \in addOffset(symbols'[p], upload'.types)
    <3>1. CASE n = s.FullName
      BY <1>2, <1>4, <1>9, <3>1 DEF s
    <3>2. CASE n \in DOMAIN symbols
      <4>1. symbols'[n] = symbols[n] /\ symbols[n].FullName = n
        BY <1>3, <1>9, <3>2 DEF Extends, Filed
      <4>2. CASE ChildOfFiled(symbols[n])
        BY <1>2, <1>9, <4>1, <4>2 DEF ChildOfFiled, Extends
      <4>3. CASE \E j \in 1 .. count : symbols[n] = addSymbol(upload.symbols[j])
        BY <1>2, <1>4, <4>1, <4>3
      <4> QED
        BY <1>3, <3>2, <4>2, <4>3 DEF Filed
    <3> QED
      BY <1>9, <3>1, <3>2
  <2>2. ASSUME NEW c \in pending'[1]
        PROVE  \E p \in DOMAIN symbols' : c \in addOffset(symbols'[p], upload'.types)
    BY <1>2, <1>9, <1>11
  <2> QED
    BY <1>11, <2>1, <2>2 DEF Filed, ChildOfFiled
<1>14. VariablesFiled'
  <2>1. ASSUME NEW j \in 1 .. count'
        PROVE  /\ addSymbol(upload.symbols[j]).FullName \in DOMAIN symbols'
               /\ symbols'[addSymbol(upload.symbols[j]).FullName] = addSymbol(upload.symbols[j])
    <3>1. CASE j = k
      BY <1>9, <3>1 DEF s
    <3>2. CASE j \in 1 .. count
      BY <1>3, <1>9, <3>2 DEF VariablesFiled, Extends
    <3> QED
      BY <1>2, <1>4, <3>1, <3>2
  <2> QED
    BY <1>2, <2>1 DEF VariablesFiled
<1>15. NoneForgotten'
  <2>1. ASSUME NEW n \in DOMAIN symbols', NEW c \in addOffset(symbols'[n], upload.types)
        PROVE  c.FullName \in DOMAIN symbols' \/ c \in pending'[1]
    <3>1. CASE n = s.FullName
      BY <1>9, <1>11, <2>1, <3>1
    <3>2. CASE n \in DOMAIN symbols
      <4>1. symbols'[n] = symbols[n]
        BY <1>9, <3>2 DEF Extends
      <4>2. c.FullName \in DOMAIN symbols
        BY <1>3, <1>11, <2>1, <3>2, <4>1 DEF NoneForgotten
      <4> QED
        BY <1>9, <4>2 DEF Extends
    <3> QED
      BY <1>9, <3>1, <3>2
  <2> QED
    BY <1>2, <1>11, <2>1 DEF NoneForgotten
<1> QED
  BY <1>12, <1>13, <1>14, <1>15 DEF Inv

\* The stack of addChilds, with one child taken from the innermost call.
LEMMA Rest ==
  ASSUME NEW S, NEW stack \in Seq(S), stack # <<>>, NEW top \in S
  PROVE  LET rest == <<top>> \o Tail(stack) IN
           /\ rest \in Seq(S) /\ DOMAIN rest = DOMAIN stack /\ 1 \in DOMAIN stack
           /\ rest[1] = top /\ \A k \in DOMAIN stack : k # 1 => rest[k] = stack[k]
<1>1. Tail(stack) \in Seq(S) /\ Len(stack) \in Nat /\ Len(stack) >= 1
      /\ Len(Tail(stack)) = Len(stack) - 1 /\ DOMAIN stack = 1 .. Len(stack)
  OBVIOUS
<1>2. \A k \in 1 .. Len(stack) - 1 : Tail(stack)[k] = stack[k + 1]
  OBVIOUS
<1> DEFINE rest == <<top>> \o Tail(stack)
<1>3. rest \in Seq(S) /\ Len(rest) = Len(stack) /\ rest[1] = top
  BY <1>1
<1>4. ASSUME NEW k \in 2 .. Len(stack) PROVE rest[k] = stack[k]
  BY <1>1, <1>2
<1> QED
  BY <1>1, <1>3, <1>4

LEMMA InvAddChild ==
  ASSUME NEW child, Inv, AddChild(child)
  PROVE  Inv'
<1> DEFINE rest  == <<Head(pending) \ {child}>> \o Tail(pending)
           below == addOffset(child, upload.types)
<1>1. TypeOK /\ Filed /\ VariablesFiled /\ NoneForgotten
  BY DEF Inv
<1>2. pending # <<>> /\ child \in Head(pending) /\ upload' = upload /\ count' = count
  BY DEF AddChild
<1>3. pending \in Seq(SUBSET Symbol) /\ upload \in Uploads /\ symbols \in [DOMAIN symbols -> Symbol]
  BY <1>1 DEF TypeOK
<1>4. Head(pending) \in SUBSET Symbol /\ Head(pending) = pending[1]
  BY <1>2, <1>3
<1>5. Head(pending) \ {child} \in SUBSET Symbol
  BY <1>4
<1>6. /\ rest \in Seq(SUBSET Symbol) /\ DOMAIN rest = DOMAIN pending /\ 1 \in DOMAIN pending
      /\ rest[1] = pending[1] \ {child} /\ \A k \in DOMAIN pending : k # 1 => rest[k] = pending[k]
  BY <1>2, <1>3, <1>4, <1>5, Rest
<1>7. child \in Symbol /\ child \in pending[1]
  BY <1>2, <1>4
<1>8. \A k \in DOMAIN pending : rest[k] \subseteq pending[k]
  BY <1>6
<1>9. \A k \in DOMAIN pending : \A c \in pending[k] : c # child => c \in rest[k]
  BY <1>6
<1>10. below \in SUBSET Symbol
  BY <1>3, <1>7, ChildType
<1>11. CASE child.FullName \in DOMAIN symbols
  <2>1. pending' = rest /\ symbols' = symbols
    BY <1>11 DEF AddChild
  <2>2. TypeOK' /\ VariablesFiled'
    BY <1>1, <1>2, <1>6, <2>1 DEF TypeOK, VariablesFiled
  <2> HIDE DEF rest
  <2>3. Filed'
    BY <1>1, <1>2, <1>6, <1>8, <2>1 DEF Filed, ChildOfFiled
  <2>4. NoneForgotten'
    <3>1. ASSUME NEW n \in DOMAIN symbols, NEW c \in addOffset(symbols[n], upload.types)
          PROVE  c.FullName \in DOMAIN symbols \/ \E k \in DOMAIN pending : c \in rest[k]
      BY <1>1, <1>9, <1>11 DEF NoneForgotten
    <3> QED
      BY <1>2, <1>6, <2>1, <3>1 DEF NoneForgotten
  <2> QED
    BY <2>2, <2>3, <2>4 DEF Inv
<1>12. CASE child.FullName \notin DOMAIN symbols
  <2>1. pending' = <<below>> \o rest /\ symbols' = With(child)
    BY <1>12 DEF AddChild
  <2>2. /\ Extends /\ symbols' \in [DOMAIN symbols' -> Symbol]
        /\ DOMAIN symbols' = DOMAIN symbols \cup {child.FullName}
        /\ symbols'[child.FullName] = child
    BY <1>1, <1>7, <1>12, <2>1, Filing
  <2> HIDE DEF rest, below
  <2>3. /\ pending' \in Seq(SUBSET Symbol) /\ 1 \in DOMAIN pending' /\ pending'[1] = below
        /\ \A k \in DOMAIN pending' :
             k # 1 => k - 1 \in DOMAIN rest /\ pending'[k] = rest[k - 1]
        /\ \A k \in DOMAIN rest : k + 1 \in DOMAIN pending' /\ pending'[k + 1] = rest[k]
    <3>1. Len(rest) \in Nat /\ DOMAIN rest = 1 .. Len(rest) /\ <<below>> \in Seq(SUBSET Symbol)
      BY <1>6, <1>10
    <3>2. pending' \in Seq(SUBSET Symbol) /\ Len(pending') = Len(rest) + 1 /\ pending'[1] = below
      BY <1>6, <2>1, <3>1
    <3>3. \A k \in 2 .. Len(rest) + 1 : pending'[k] = rest[k - 1]
      BY <1>6, <2>1, <3>1
    <3>4. DOMAIN pending' = 1 .. Len(rest) + 1
      BY <3>1, <3>2
    <3>5. ASSUME NEW k \in DOMAIN pending', k # 1
          PROVE  k - 1 \in DOMAIN rest /\ pending'[k] = rest[k - 1]
      BY <3>1, <3>3, <3>4, <3>5
    <3>6. ASSUME NEW k \in DOMAIN rest
          PROVE  k + 1 \in DOMAIN pending' /\ pending'[k + 1] = rest[k]
      <4>1. k + 1 \in 2 .. Len(rest) + 1 /\ (k + 1) - 1 = k
        BY <3>1
      <4> QED
        BY <3>1, <3>3, <3>4, <4>1
    <3>7. 1 \in DOMAIN pending'
      BY <3>1, <3>4
    <3> QED
      BY <3>2, <3>5, <3>6, <3>7
  <2>4. TypeOK'
    BY <1>1, <1>2, <2>2, <2>3 DEF TypeOK
  <2>5. VariablesFiled'
    BY <1>1, <1>2, <2>2 DEF VariablesFiled, Extends
  <2>6. ASSUME NEW c, ChildOfFiled(c)
        PROVE  \E p \in DOMAIN symbols' : c \in addOffset(symbols'[p], upload.types)
    BY <2>2, <2>6 DEF ChildOfFiled, Extends
  <2>7. ChildOfFiled(child)
    BY <1>1, <1>6, <1>7 DEF Filed
  <2>8. Filed'
    <3>1. ASSUME NEW n \in DOMAIN symbols'
          PROVE  /\ symbols'[n].FullName = n
                 /\ \/ \E j \in 1 .. count : symbols'[n] = addSymbol(upload.symbols[j])
                    \/ \E p \in DOMAIN symbols' : symbols'[n] \in addOffset(symbols'[p], upload.types)
      <4>1. CASE n = child.FullName
        BY <2>2, <2>6, <2>7, <4>1
      <4>2. CASE n \in DOMAIN symbols
        <5>1. symbols'[n] = symbols[n]
          BY <2>2, <4>2 DEF Extends
        <5> QED
          BY <1>1, <2>6, <4>2, <5>1 DEF Filed
      <4> QED
        BY <2>2, <4>1, <4>2
    <3>2. ASSUME NEW k \in DOMAIN pending', NEW c \in pending'[k]
          PROVE  \E p \in DOMAIN symbols' : c \in addOffset(symbols'[p], upload.types)
      <4>1. CASE k = 1
        BY <2>2, <2>3, <3>2, <4>1 DEF below
      <4>2. CASE k # 1
        <5>1. k - 1 \in DOMAIN pending /\ c \in pending[k - 1]
          BY <1>6, <1>8, <2>3, <3>2, <4>2
        <5>2. ChildOfFiled(c)
          BY <1>1, <5>1 DEF Filed
        <5> QED
          BY <2>6, <5>2
      <4> QED
        BY <4>1, <4>2
    <3> QED
      BY <1>2, <3>1, <3>2 DEF Filed, ChildOfFiled
  <2>9. NoneForgotten'
    <3>1. ASSUME NEW n \in DOMAIN symbols', NEW c \in addOffset(symbols'[n], upload.types)
          PROVE  c.FullName \in DOMAIN symbols' \/ \E k \in DOMAIN pending' : c \in pending'[k]
      <4>1. CASE n = child.FullName
        BY <2>2, <2>3, <3>1, <4>1 DEF below
      <4>2. CASE n \in DOMAIN symbols
        <5>1. symbols'[n] = symbols[n] /\ DOMAIN symbols \subseteq DOMAIN symbols'
          BY <2>2, <4>2 DEF Extends
        <5>2. c.FullName \in DOMAIN symbols \/ \E k \in DOMAIN pending : c \in pending[k]
          BY <1>1, <3>1, <4>2, <5>1 DEF NoneForgotten
        <5>3. CASE c = child
          BY <2>2, <5>3
        <5>4. ASSUME NEW k \in DOMAIN pending, c \in pending[k], c # child
              PROVE  \E j \in DOMAIN pending' : c \in pending'[j]
          BY <1>6, <1>9, <2>3, <5>4
        <5> QED
          BY <5>1, <5>2, <5>3, <5>4
      <4> QED
        BY <2>2, <4>1, <4>2
    <3> QED
      BY <1>2, <3>1 DEF NoneForgotten
  <2> QED
    BY <2>4, <2>5, <2>8, <2>9 DEF Inv
<1> QED
  BY <1>11, <1>12

LEMMA InvAddChildsReturns == Inv /\ AddChildsReturns => Inv'
<1>1. SUFFICES ASSUME Inv, AddChildsReturns PROVE Inv'
  OBVIOUS
<1>2. TypeOK /\ Filed /\ VariablesFiled /\ NoneForgotten
  BY <1>1 DEF Inv
<1>3. /\ pending # <<>> /\ Head(pending) = {} /\ pending' = Tail(pending)
      /\ upload' = upload /\ count' = count /\ symbols' = symbols
  BY <1>1 DEF AddChildsReturns
<1>4. pending \in Seq(SUBSET Symbol)
  BY <1>2 DEF TypeOK
<1>5. /\ pending' \in Seq(SUBSET Symbol) /\ Len(pending) \in Nat /\ Len(pending') = Len(pending) - 1
      /\ \A k \in 1 .. Len(pending) - 1 : pending'[k] = pending[k + 1]
      /\ DOMAIN pending = 1 .. Len(pending) /\ pending[1] = {}
  BY <1>3, <1>4
<1>6. DOMAIN pending' = 1 .. Len(pending) - 1
  BY <1>5
<1>7. TypeOK' /\ VariablesFiled'
  BY <1>2, <1>3, <1>5 DEF TypeOK, VariablesFiled
<1>8. ASSUME NEW k \in DOMAIN pending'
      PROVE  k + 1 \in DOMAIN pending /\ pending'[k] = pending[k + 1]
  BY <1>5, <1>6
<1>9. Filed'
  BY <1>2, <1>3, <1>8 DEF Filed, ChildOfFiled
<1>10. ASSUME NEW k \in DOMAIN pending, NEW c \in pending[k]
       PROVE  \E j \in DOMAIN pending' : c \in pending'[j]
  <2>1. k # 1
    BY <1>5, <1>10
  <2>2. k - 1 \in DOMAIN pending' /\ (k - 1) + 1 = k
    BY <1>5, <1>6, <2>1
  <2> QED
    BY <1>8, <1>10, <2>2
<1>11. NoneForgotten'
  BY <1>2, <1>3, <1>10 DEF NoneForgotten
<1> QED
  BY <1>7, <1>9, <1>11 DEF Inv

LEMMA InvNext == Inv /\ [Next]_vars => Inv'
<1>1. SUFFICES ASSUME Inv, [Next]_vars PROVE Inv'
  OBVIOUS
<1>2. CASE UNCHANGED vars
  BY <1>1, <1>2 DEF vars, Inv, TypeOK, Filed, ChildOfFiled, VariablesFiled, NoneForgotten
<1>3. CASE ParseSymbol
  BY <1>1, <1>3, InvParseSymbol
<1>4. CASE AddChildsReturns
  BY <1>1, <1>4, InvAddChildsReturns
<1>5. ASSUME NEW child, AddChild(child) PROVE Inv'
  BY <1>1, <1>5, InvAddChild
<1> QED
  BY <1>1, <1>2, <1>3, <1>4, <1>5 DEF Next

\* What the table holds always comes from the upload: each symbol stands under
\* its own name and is a variable or the child of another, no variable that was
\* parsed is replaced, no child is forgotten (addChilds, addSymbol, addOffset).
THEOREM Invariance == Spec => []Inv
<1>1. Init => Inv
  BY InvInit
<1>2. Inv /\ [Next]_vars => Inv'
  BY InvNext
<1> QED
  BY <1>1, <1>2, PTL DEF Spec

-----------------------------------------------------------------------------
(* What it means for a reader of the table *)

\* All that is in the table has room for its children.
LEMMA FiledFits ==
  ASSUME Inv, NEW n \in DOMAIN symbols
  PROVE  symbols[n] \in Symbol /\ Fits(symbols[n], upload)
<1>1. TypeOK /\ Filed
  BY DEF Inv
<1>2. /\ upload \in Uploads /\ count \in 0 .. Len(upload.symbols) /\ Len(upload.symbols) \in Nat
      /\ \A p \in DOMAIN symbols : symbols[p] \in Symbol
  BY <1>1 DEF TypeOK, WellFormed
<1>3. CASE ChildOfFiled(symbols[n])
  BY <1>2, <1>3, ChildType DEF ChildOfFiled
<1>4. ASSUME NEW k \in 1 .. count, symbols[n] = addSymbol(upload.symbols[k])
      PROVE  Fits(symbols[n], upload)
  <2>1. k \in 1 .. Len(upload.symbols)
    BY <1>2
  <2> QED
    BY <1>2, <1>4, <2>1, VariableType
<1> QED
  BY <1>1, <1>2, <1>3, <1>4 DEF Filed

\* parse hands each child bytes of its parent, and no two elements of an array
\* the same ones: whatever the bounds, and however deep the types are nested.
THEOREM ChildrenHaveTheirBytes == Spec => []ChildrenShareOut
<1>1. ASSUME Inv PROVE ChildrenShareOut
  <2>1. upload \in Uploads
    BY <1>1 DEF Inv, TypeOK
  <2>2. ASSUME NEW n \in DOMAIN symbols
        PROVE  LET childs == addOffset(symbols[n], upload.types) IN
                 /\ \A c \in childs : Bytes(c) \subseteq Bytes(symbols[n])
                 /\ IsArray(symbols[n].DataType, upload.types)
                      => \A c, d \in childs : c # d => Bytes(c) \cap Bytes(d) = {}
    <3>1. symbols[n] \in Symbol /\ Fits(symbols[n], upload)
      BY <1>1, FiledFits
    <3> QED
      BY <2>1, <3>1, ChildInside, ElementsApart
  <2> QED
    BY <2>2 DEF ChildrenShareOut
<1> QED
  BY <1>1, Invariance, PTL

\* addChilds leaves out a child only when its name is taken.
THEOREM NoChildIsForgotten == Spec => []MissingOnlyIfTaken
<1>1. ASSUME Inv PROVE MissingOnlyIfTaken
  BY <1>1 DEF Inv, NoneForgotten, MissingOnlyIfTaken, Parsed
<1> QED
  BY <1>1, Invariance, PTL

\* What stands under a name longer than a variable's is the child that some
\* symbol of the table gave this name.
LEMMA Parent ==
  ASSUME Inv, NEW path \in DOMAIN symbols, Len(path) >= 2
  PROVE  \E q \in DOMAIN symbols : \E t \in Childs(symbols[q].DataType, upload.types) :
           /\ t.name \in Segments /\ path = Path(symbols[q], t.name)
           /\ symbols[q].DataType \in DOMAIN upload.types
           /\ symbols[path] = [Name |-> t.name, FullName |-> path, DataType |-> t.type,
                               Length |-> t.size, at |-> symbols[q].at + t.offs]
<1>1. TypeOK /\ Filed /\ upload \in Uploads /\ \A q \in DOMAIN symbols : symbols[q] \in Symbol
  BY DEF Inv, TypeOK
<1>2. symbols[path].FullName = path
  BY <1>1 DEF Filed
<1>3. ChildOfFiled(symbols[path])
  <2>1. ASSUME NEW k \in 1 .. count, symbols[path] = addSymbol(upload.symbols[k]) PROVE FALSE
    <3>1. path = << <<upload.symbols[k].name>> >>
      BY <1>2, <2>1 DEF addSymbol
    <3> QED
      BY <3>1
  <2> QED
    BY <1>1, <2>1 DEF Filed
<1>4. PICK q \in DOMAIN symbols : symbols[path] \in addOffset(symbols[q], upload.types)
  BY <1>3 DEF ChildOfFiled
<1>5. PICK t \in Childs(symbols[q].DataType, upload.types) :
        /\ symbols[q].DataType \in DOMAIN upload.types /\ t \in Parts
        /\ symbols[path] = [Name |-> t.name, FullName |-> Path(symbols[q], t.name),
                            DataType |-> t.type, Length |-> t.size, at |-> symbols[q].at + t.offs]
  BY <1>1, <1>4, ChildOf
<1>6. t.name \in Segments /\ path = Path(symbols[q], t.name)
  BY <1>2, <1>5 DEF Parts
<1> QED
  BY <1>5, <1>6

\* Fields and elements are told apart by their segments.
LEMMA FieldOrElement ==
  ASSUME NEW u \in Uploads, NEW T \in DOMAIN u.types, NEW t \in Childs(T, u.types)
  PROVE  /\ IsArray(T, u.types) => \E i \in 0 .. Word - 1 : t.name = <<"", i>>
         /\ ~IsArray(T, u.types) => \E f \in u.types[T].fields :
              t = [name |-> <<f.name>>, type |-> f.type, size |-> f.size, offs |-> f.offs]
<1>1. CASE IsArray(T, u.types)
  <2>1. PICK i \in 0 .. Word - 1 :
          t = [name |-> <<"", i>>, type |-> u.types[T].base, size |-> u.types[T].each,
               offs |-> u.types[T].each * (i - u.types[T].dims[1].LBound)]
    BY <1>1, Elements
  <2> QED
    BY <1>1, <2>1
<1>2. CASE ~IsArray(T, u.types)
  BY <1>2 DEF Childs, fieldChilds
<1> QED
  BY <1>1, <1>2

\* A child of what is in the table: its name is taken once all is parsed.
LEMMA ChildIsFiled ==
  ASSUME Inv, Parsed, NEW n \in DOMAIN symbols, NEW t \in Childs(symbols[n].DataType, upload.types)
  PROVE  Path(symbols[n], t.name) \in DOMAIN symbols
<1> DEFINE c == [Name |-> t.name, FullName |-> Path(symbols[n], t.name), DataType |-> t.type,
                 Length |-> t.size, at |-> symbols[n].at + t.offs]
<1>1. c \in addOffset(symbols[n], upload.types)
  BY DEF addOffset
<1>2. pending = <<>> /\ NoneForgotten
  BY DEF Parsed, Inv
<1>3. c.FullName \in DOMAIN symbols
  BY <1>1, <1>2 DEF NoneForgotten
<1> QED
  BY <1>3

LEMMA FieldsResolve ==
  ASSUME Inv, Parsed, NEW n \in DOMAIN symbols, symbols[n].DataType \in DOMAIN upload.types,
         NEW f \in upload.types[symbols[n].DataType].fields
  PROVE  Right(Append(n, <<f.name>>), f.type, symbols[n].at + f.offs, f.size)
<1> DEFINE T    == symbols[n].DataType
           part == [name |-> <<f.name>>, type |-> f.type, size |-> f.size, offs |-> f.offs]
           path == Append(n, <<f.name>>)
<1>1. Filed /\ upload \in Uploads /\ \A q \in DOMAIN symbols : symbols[q] \in Symbol
  BY DEF Inv, TypeOK
<1>2. \A q \in DOMAIN symbols : symbols[q].FullName = q /\ q \in Seq(Segments) /\ Len(q) >= 1
  <2>1. SUFFICES ASSUME NEW q \in DOMAIN symbols
                 PROVE  symbols[q].FullName = q /\ q \in Seq(Segments) /\ Len(q) >= 1
    OBVIOUS
  <2>2. symbols[q].FullName = q
    BY <1>1 DEF Filed
  <2>3. q \in Seq(Segments) /\ q # <<>>
    BY <1>1, <2>2 DEF Symbol
  <2> QED
    BY <2>2, <2>3
<1>3. WellFormedType(upload.types[T], upload.types)
  BY <1>1 DEF WellFormed
<1>4. ~IsArray(T, upload.types) /\ f.name \in Names
      /\ \A g \in upload.types[T].fields : g.name = f.name => g = f
  <2>1. upload.types[T].fields # {} /\ upload.types[T].dims = <<>>
    BY <1>3 DEF WellFormedType
  <2>2. upload.types[T].fields \subseteq [name : Names, type : DataTypes, offs : Nat, size : Nat]
    BY <1>3 DEF WellFormedType
  <2>3. \A g \in upload.types[T].fields : g.name = f.name => g = f
    BY <1>3 DEF WellFormedType
  <2> QED
    BY <2>1, <2>2, <2>3 DEF IsArray
<1>5. part \in Childs(T, upload.types)
  BY <1>4 DEF Childs, fieldChilds
<1>6. <<f.name>> \in Segments /\ ~IsIndex(<<f.name>>)
  BY <1>4 DEF Segments, IsIndex
<1>7. path = Path(symbols[n], <<f.name>>)
  BY <1>2, <1>6 DEF Path
<1>8. path \in DOMAIN symbols
  BY <1>5, <1>7, ChildIsFiled
<1>9. Len(path) = Len(n) + 1 /\ Len(path) >= 2 /\ path[Len(path)] = <<f.name>>
  BY <1>2, <1>6
<1>p. PICK q \in DOMAIN symbols : \E t \in Childs(symbols[q].DataType, upload.types) :
         /\ t.name \in Segments /\ path = Path(symbols[q], t.name)
         /\ symbols[q].DataType \in DOMAIN upload.types
         /\ symbols[path] = [Name |-> t.name, FullName |-> path, DataType |-> t.type,
                             Length |-> t.size, at |-> symbols[q].at + t.offs]
  BY <1>8, <1>9, Parent
<1>10. PICK t \in Childs(symbols[q].DataType, upload.types) :
         /\ t.name \in Segments /\ path = Path(symbols[q], t.name)
         /\ symbols[q].DataType \in DOMAIN upload.types
         /\ symbols[path] = [Name |-> t.name, FullName |-> path, DataType |-> t.type,
                             Length |-> t.size, at |-> symbols[q].at + t.offs]
  BY <1>p
<1> HIDE DEF path
<1>11. ~IsIndex(t.name)
  <2>1. SUFFICES ASSUME IsIndex(t.name) PROVE FALSE
    OBVIOUS
  <2>2. path = <<symbols[q].Name, t.name>>
    BY <1>10, <2>1 DEF Path
  <2>3. t.name = <<f.name>>
    BY <1>9, <2>2
  <2> QED
    BY <1>6, <2>1, <2>3
<1>12. path = Append(q, t.name)
  BY <1>2, <1>10, <1>11 DEF Path
<1>13. q = n /\ t.name = <<f.name>>
  BY <1>2, <1>6, <1>10, <1>12, AppendInjective DEF path
<1>14. t = part
  <2>1. PICK g \in upload.types[T].fields :
          t = [name |-> <<g.name>>, type |-> g.type, size |-> g.size, offs |-> g.offs]
    BY <1>1, <1>4, <1>10, <1>13, FieldOrElement
  <2>2. g.name = f.name
    BY <1>13, <2>1
  <2> QED
    BY <1>4, <2>1, <2>2
<1>15. symbols[path].DataType = f.type /\ symbols[path].at = symbols[n].at + f.offs
       /\ symbols[path].Length = f.size
  BY <1>10, <1>13, <1>14
<1> QED
  BY <1>8, <1>15 DEF Right, path

\* What is called as a variable that shares its name with no field is this variable.
LEMMA NamedAsVariable ==
  ASSUME Inv, NEW k \in 1 .. count, WellNamed(upload.symbols[k]), NEW q \in DOMAIN symbols,
         symbols[q].Name = <<upload.symbols[k].name>>
  PROVE  symbols[q] = addSymbol(upload.symbols[k])
<1>1. TypeOK /\ Filed /\ upload \in Uploads /\ \A p \in DOMAIN symbols : symbols[p] \in Symbol
  BY DEF Inv, TypeOK
<1>2. count \in 0 .. Len(upload.symbols) /\ Len(upload.symbols) \in Nat
  BY <1>1 DEF TypeOK, WellFormed
<1>3. ~ChildOfFiled(symbols[q])
  <2>1. SUFFICES ASSUME ChildOfFiled(symbols[q]) PROVE FALSE
    OBVIOUS
  <2>2. PICK p \in DOMAIN symbols : symbols[q] \in addOffset(symbols[p], upload.types)
    BY <2>1 DEF ChildOfFiled
  <2>3. PICK t \in Childs(symbols[p].DataType, upload.types) :
          symbols[p].DataType \in DOMAIN upload.types /\ symbols[q].Name = t.name
    BY <1>1, <2>2, ChildOf
  <2>4. CASE IsArray(symbols[p].DataType, upload.types)
    <3>1. PICK i \in 0 .. Word - 1 : t.name = <<"", i>>
      BY <1>1, <2>3, <2>4, FieldOrElement
    <3>2. <<upload.symbols[k].name>> = <<"", i>>
      BY <2>3, <3>1
    <3> QED
      BY <3>2
  <2>5. CASE ~IsArray(symbols[p].DataType, upload.types)
    <3>1. PICK f \in upload.types[symbols[p].DataType].fields :
            t = [name |-> <<f.name>>, type |-> f.type, size |-> f.size, offs |-> f.offs]
      BY <1>1, <2>3, <2>5, FieldOrElement
    <3>2. f.name = upload.symbols[k].name
      BY <2>3, <3>1
    <3> QED
      BY <2>3, <3>2 DEF WellNamed
  <2> QED
    BY <2>4, <2>5
<1>4. PICK j \in 1 .. count : symbols[q] = addSymbol(upload.symbols[j])
  BY <1>1, <1>3 DEF Filed
<1>5. upload.symbols[j].name = upload.symbols[k].name
  BY <1>4 DEF addSymbol
<1>6. j \in 1 .. Len(upload.symbols) /\ k \in 1 .. Len(upload.symbols)
  BY <1>2
<1>7. j = k
  BY <1>1, <1>5, <1>6 DEF WellFormed
<1> QED
  BY <1>4, <1>7

LEMMA ElementsResolve ==
  ASSUME Inv, Parsed, NEW k \in 1 .. Len(upload.symbols), WellNamed(upload.symbols[k]),
         NEW j \in 0 .. upload.types[upload.symbols[k].type].dims[1].Elements - 1
  PROVE  LET item == upload.symbols[k]
             array == upload.types[item.type]
         IN  Right(<< <<item.name>>, <<"", array.dims[1].LBound + j>> >>, array.base,
                   item.at + j * array.each, array.each)
<1> DEFINE item  == upload.symbols[k]
           array == upload.types[item.type]
           level == array.dims[1]
           i     == level.LBound + j
           part  == [name |-> <<"", i>>, type |-> array.base, size |-> array.each,
                     offs |-> array.each * (i - level.LBound)]
           n     == << <<item.name>> >>
           path  == << <<item.name>>, <<"", i>> >>
<1>1. TypeOK /\ Filed /\ upload \in Uploads /\ k \in 1 .. count /\ VariablesFiled
  BY DEF Inv, TypeOK, Parsed
<1>i. WellNamed(item) /\ j \in 0 .. level.Elements - 1
  OBVIOUS
<1> HIDE DEF item, array, level, i, part, n, path
<1>2. n \in DOMAIN symbols /\ symbols[n] = addSymbol(item)
  BY <1>1 DEF VariablesFiled, addSymbol, n, item
<1>3. symbols[n].Name = <<item.name>> /\ symbols[n].DataType = item.type /\ symbols[n].at = item.at
  BY <1>2 DEF addSymbol
<1>4. IsArray(item.type, upload.types) /\ level.LBound < Word \div 2
  BY <1>i DEF WellNamed, level, array
<1>5. WellFormedType(array, upload.types) /\ array.dims # <<>>
  BY <1>1, <1>4 DEF WellFormed, IsArray, array
<1>6. array.dims \in Seq(Level) /\ array.each \in Nat
      /\ level.LBound + level.Elements <= Word \div 2
  BY <1>4, <1>5 DEF WellFormedType, Level, level
<1>7. level \in Level
  BY <1>5, <1>6 DEF level
<1>8. level.LBound \in Nat /\ level.Elements \in Nat
  BY <1>7 DEF Level
<1>9. i \in Indices(level) /\ i - level.LBound = j
  <2>1. level.LBound + level.Elements < Word
    <3>1. Word \div 2 < Word /\ Word \div 2 \in Int
      OBVIOUS
    <3>2. level.LBound + level.Elements <= Word \div 2
      BY <1>6
    <3> QED
      BY <1>8, <3>1, <3>2
  <2>2. Indices(level) = level.LBound .. level.LBound + level.Elements - 1
    BY <1>7, <2>1, IndicesWithinBounds
  <2>3. j \in 0 .. level.Elements - 1
    BY <1>i
  <2>4. level.LBound + j \in level.LBound .. level.LBound + level.Elements - 1
    BY <1>8, <2>3
  <2>5. (level.LBound + j) - level.LBound = j
    BY <1>8, <2>3
  <2> QED
    BY <2>2, <2>4, <2>5 DEF i
<1>10. part \in Childs(item.type, upload.types)
  BY <1>1, <1>4, <1>9, ElementOfIndex, Zenon DEF part, level, array
<1>11. Path(symbols[n], part.name) = path
  <2>1. IsIndex(<<"", i>>) /\ part.name = <<"", i>>
    BY DEF IsIndex, part
  <2> QED
    BY <1>3, <2>1 DEF Path, path
<1>12. path \in DOMAIN symbols
  BY <1>2, <1>3, <1>10, <1>11, ChildIsFiled, Zenon
<1>g. Len(path) >= 2
  BY DEF path
<1>l. Len(path) = 2 /\ path[1] = <<item.name>> /\ path[2] = <<"", i>>
  BY DEF path
<1>13. PICK q \in DOMAIN symbols : \E t \in Childs(symbols[q].DataType, upload.types) :
         /\ t.name \in Segments /\ path = Path(symbols[q], t.name)
         /\ symbols[q].DataType \in DOMAIN upload.types
         /\ symbols[path] = [Name |-> t.name, FullName |-> path, DataType |-> t.type,
                             Length |-> t.size, at |-> symbols[q].at + t.offs]
  BY <1>12, <1>g, Parent
<1>14. PICK t \in Childs(symbols[q].DataType, upload.types) :
         /\ t.name \in Segments /\ path = Path(symbols[q], t.name)
         /\ symbols[path] = [Name |-> t.name, FullName |-> path, DataType |-> t.type,
                             Length |-> t.size, at |-> symbols[q].at + t.offs]
  BY <1>13
<1>15. symbols[q].FullName \in Seq(Segments)
  BY <1>1 DEF TypeOK, Symbol
<1>16. IsIndex(t.name)
  <2>1. SUFFICES ASSUME ~IsIndex(t.name) PROVE FALSE
    OBVIOUS
  <2>2. path = Append(symbols[q].FullName, t.name)
    BY <1>14, <2>1 DEF Path
  <2>3. path[Len(path)] = t.name
    BY <1>14, <1>15, <2>2, AppendProperties
  <2>4. t.name = <<"", i>>
    BY <1>l, <2>3
  <2> QED
    BY <2>1, <2>4 DEF IsIndex
<1>17. path = <<symbols[q].Name, t.name>>
  BY <1>14, <1>16 DEF Path
<1>18. symbols[q].Name = <<item.name>> /\ t.name = <<"", i>>
  BY <1>17, <1>l
<1>19. symbols[q] = addSymbol(item)
  BY <1>1, <1>i, <1>18, NamedAsVariable DEF item
<1>20. symbols[q].DataType = item.type /\ symbols[q].at = item.at
  BY <1>19 DEF addSymbol
<1>21. PICK m \in Indices(level) :
         t = [name |-> <<"", m>>, type |-> array.base, size |-> array.each,
              offs |-> array.each * (m - level.LBound)]
  <2>1. t \in Childs(item.type, upload.types)
    BY <1>14, <1>20
  <2> QED
    BY <1>1, <1>4, <2>1, Elements, Zenon DEF level, array
<1>22. m = i
  <2>1. <<"", m>> = <<"", i>>
    BY <1>18, <1>21
  <2> QED
    BY <2>1
<1>23. array.each * (m - level.LBound) = j * array.each
  <2>1. m - level.LBound = j
    BY <1>9, <1>22
  <2>2. array.each \in Nat /\ j \in Int
    BY <1>i, <1>6, <1>8
  <2>3. array.each * j = j * array.each
    BY <2>2
  <2> QED
    BY <2>1, <2>3
<1>24. symbols[path].DataType = array.base /\ symbols[path].at = item.at + j * array.each
       /\ symbols[path].Length = array.each
  <2>1. t.type = array.base /\ t.size = array.each /\ t.offs = array.each * (m - level.LBound)
    BY <1>21
  <2>2. symbols[path].DataType = t.type /\ symbols[path].Length = t.size
        /\ symbols[path].at = symbols[q].at + t.offs
    BY <1>14
  <2> QED
    BY <1>20, <1>23, <2>1, <2>2
<1> QED
  BY <1>12, <1>24, Zenon DEF Right, path, i, level, array, item

\* Once all is parsed the table resolves the names of the device: a variable, a
\* field of whatever is in the table, an element of a variable stand for their
\* own bytes and type, whatever was filed under the same names before or after
\* (ParseUploadSymbolInfoSymbols, addChilds).
THEOREM DeviceNamesResolve == Spec => []NamesResolve
<1>1. ASSUME Inv PROVE NamesResolve
  <2>1. SUFFICES ASSUME Parsed PROVE NamesResolve
    BY Zenon DEF NamesResolve
  <2>2. ASSUME NEW k \in 1 .. Len(upload.symbols)
        PROVE  LET item == upload.symbols[k] IN Right(<< <<item.name>> >>, item.type, item.at, item.size)
    <3>1. k \in 1 .. count /\ VariablesFiled
      BY <1>1, <2>1 DEF Inv, Parsed
    <3> DEFINE path == << <<upload.symbols[k].name>> >>
    <3>2. path \in DOMAIN symbols /\ symbols[path] = addSymbol(upload.symbols[k])
      BY <3>1 DEF VariablesFiled, addSymbol
    <3> QED
      BY <3>2 DEF Right, addSymbol
  <2> QED
    BY <1>1, <2>1, <2>2, ElementsResolve, FieldsResolve, Zenon DEF NamesResolve
<1> QED
  BY <1>1, Invariance, PTL

=============================================================================
