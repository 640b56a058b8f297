----------------------------- MODULE SymbolTable -----------------------------
(***************************************************************************)
(* How the client builds its table of symbols from what the device uploads *)
(* (symbols.go): the children of a symbol follow from its data type, an    *)
(* array's from its bounds, and every symbol of the tree is filed under a  *)
(* name.  The table is filled in the order of the upload, the children of  *)
(* a symbol in the arbitrary order of a Go map.                            *)
(*                                                                         *)
(* A name is a sequence of segments: <<"x">> for the name of a variable or *)
(* a field, <<"", 3>> for the index [3].                                   *)
(***************************************************************************)
EXTENDS Integers, Sequences

CONSTANTS Names,     \* names of variables and fields
          DataTypes, \* names of data types
          Uploads,   \* what the device may upload: [types |-> .., symbols |-> ..]
          Word       \* number of values of an unsigned integer (2^32 in the code)

VARIABLES upload,    \* the upload of this connection
          count,     \* how many of its symbols have been parsed
          symbols,   \* the table: name -> symbol
          pending    \* addChilds: the children not yet filed, innermost call first

vars == <<upload, count, symbols, pending>>

-----------------------------------------------------------------------------
(* The device's side, which is external.  A type it describes has a size   *)
(* and either fields or the bounds of an array, whose elements, each bytes *)
(* long along the outermost dimension, are of type base.  The types of the *)
(* language, and the strings of every length, are not described.           *)

IsArray(t, datatypes) == t \in DOMAIN datatypes /\ datatypes[t].dims # <<>>

\* A described type has the size of everything that is of the type.
Sized(t, size, datatypes) == t \in DOMAIN datatypes => datatypes[t].size = size

\* Fields lie inside the structure, not always apart (a union), elements side by side.
WellFormedType(type, datatypes) ==
  /\ type.size \in Nat
  /\ type.fields \subseteq [name : Names, type : DataTypes, offs : Nat, size : Nat]
  /\ \A f \in type.fields : f.offs + f.size <= type.size /\ Sized(f.type, f.size, datatypes)
  /\ \A f, g \in type.fields : f.name = g.name => f = g
  /\ type.dims \in Seq([LBound : 0 .. Word - 1, Elements : 0 .. Word - 1])
  /\ type.dims # <<>> =>
       /\ type.fields = {} /\ type.base \in DataTypes
       /\ type.each \in Nat /\ type.size = type.each * type.dims[1].Elements
       /\ type.base \in DOMAIN datatypes => datatypes[type.base].size <= type.each
       /\ type.dims[1].LBound < Word \div 2
            => type.dims[1].LBound + type.dims[1].Elements <= Word \div 2

WellFormed(u) ==
  /\ \A t \in DOMAIN u.types : t \in DataTypes /\ WellFormedType(u.types[t], u.types)
  /\ u.symbols \in Seq([name : Names, type : DataTypes, size : Nat, at : Nat])
  /\ \A k \in 1 .. Len(u.symbols) : Sized(u.symbols[k].type, u.symbols[k].size, u.types)
  /\ \A j, k \in 1 .. Len(u.symbols) : u.symbols[j].name = u.symbols[k].name => j = k

ASSUME WordAssumption == Word \in Nat /\ Word >= 2
ASSUME UploadsAssumption == \A u \in Uploads : WellFormed(u)

-----------------------------------------------------------------------------
(* The tree of a symbol *)

Segments == {<<n>> : n \in Names} \cup {<<"", i>> : i \in 0 .. Word - 1}
IsIndex(segment) == Len(segment) = 2

Indices(level) == level.LBound .. ((level.LBound + level.Elements) % Word) - 1

\* Faulty: an element's index taken for its position.
ChildsByIndex(levels, dt, size) ==
  LET level == levels[1]
      each  == size \div level.Elements
  IN {[name |-> <<"", i>>, type |-> dt, size |-> each, offs |-> each * i] : i \in Indices(level)}

\* Only the outermost dimension becomes children, of the type of an element:
\* the children made for the inner ones are never looked at again.
makeArrayChilds(levels, dt, size) ==
  LET level == levels[1]
      each  == size \div level.Elements
  IN {[name |-> <<"", i>>, type |-> dt, size |-> each, offs |-> each * (i - level.LBound)] :
        i \in Indices(level)}

fieldChilds(fields) ==
  {[name |-> <<f.name>>, type |-> f.type, size |-> f.size, offs |-> f.offs] : f \in fields}

\* What decodeSymbolUploadDataType leaves in Childs.
Childs(t, datatypes) ==
  IF t \notin DOMAIN datatypes THEN {}
  ELSE IF IsArray(t, datatypes)
       THEN makeArrayChilds(datatypes[t].dims, datatypes[t].base, datatypes[t].size)
       ELSE fieldChilds(datatypes[t].fields)

\* Faulty: the parent's own name for a field, too.
ShortPath(parent, name) == <<parent.Name, name>>

\* A field is named after its parent's full name, an element after the last
\* segment of it.
Path(parent, name) == IF IsIndex(name) THEN <<parent.Name, name>>
                                       ELSE Append(parent.FullName, name)

\* The children of a symbol; theirs follow in the same way.  at is where parse
\* finds the child in the bytes of the outermost symbol: it hands each child a
\* slice of its own slice.
addOffset(parent, datatypes) ==
  {[Name |-> s.name, FullName |-> Path(parent, s.name), DataType |-> s.type,
    Length |-> s.size, at |-> parent.at + s.offs] : s \in Childs(parent.DataType, datatypes)}

addSymbol(item) == [Name |-> <<item.name>>, FullName |-> << <<item.name>> >>,
                    DataType |-> item.type, Length |-> item.size, at |-> item.at]

-----------------------------------------------------------------------------
(* The table *)

\* The table with one more symbol, or another under its name.
With(symbol) == [n \in DOMAIN symbols \cup {symbol.FullName} |->
                   IF n = symbol.FullName THEN symbol ELSE symbols[n]]

Init == /\ upload \in Uploads
        /\ count = 0 /\ symbols = <<>> /\ pending = <<>>

ParseSymbol ==
  /\ pending = <<>> /\ count < Len(upload.symbols)
  /\ count' = count + 1
  /\ LET symbol == addSymbol(upload.symbols[count + 1]) IN
       /\ symbols' = With(symbol)
       /\ pending' = <<addOffset(symbol, upload.types)>>
  /\ UNCHANGED upload

\* Faulty: the children of a child are forgotten.
FileOnly(child) ==
  /\ pending # <<>> /\ child \in Head(pending)
  /\ symbols' = IF child.FullName \in DOMAIN symbols THEN symbols ELSE With(child)
  /\ pending' = <<Head(pending) \ {child}>> \o Tail(pending)
  /\ UNCHANGED <<upload, count>>

\* A child whose name is taken is passed over with all that is below it.
AddChild(child) ==
  /\ pending # <<>> /\ child \in Head(pending)
  /\ LET rest == <<Head(pending) \ {child}>> \o Tail(pending) IN
       IF child.FullName \in DOMAIN symbols
       THEN pending' = rest /\ UNCHANGED symbols
       ELSE /\ symbols' = With(child)
            /\ pending' = <<addOffset(child, upload.types)>> \o rest
  /\ UNCHANGED <<upload, count>>

AddChildsReturns ==
  /\ pending # <<>> /\ Head(pending) = {}
  /\ pending' = Tail(pending)
  /\ UNCHANGED <<upload, count, symbols>>

Next == \/ ParseSymbol \/ AddChildsReturns
        \/ pending # <<>> /\ \E child \in Head(pending) : AddChild(child)

Spec == Init /\ [][Next]_vars

-----------------------------------------------------------------------------
(* Properties *)

Parsed == count = Len(upload.symbols) /\ pending = <<>>

Right(path, type, at, size) ==
  /\ path \in DOMAIN symbols
  /\ symbols[path].DataType = type /\ symbols[path].at = at /\ symbols[path].Length = size

\* The arrays whose elements the client names as the device does: variables,
\* which do not share their name with a field, of one dimension, and with no
\* bound below zero.
WellNamed(item) ==
  /\ IsArray(item.type, upload.types)
  /\ Len(upload.types[item.type].dims) = 1
  /\ upload.types[item.type].dims[1].LBound < Word \div 2
  /\ \A t \in DOMAIN upload.types : \A f \in upload.types[t].fields : f.name # item.name

\* A name of the device stands in the table for the bytes and the type it has
\* in the device: that of a variable, of a field of whatever is in the table,
\* and of an element of a variable.  (So does every name made of these.)
NamesResolve ==
  Parsed =>
    /\ \A k \in 1 .. Len(upload.symbols) :
         LET item == upload.symbols[k]
             array == upload.types[item.type]
         IN  /\ Right(<< <<item.name>> >>, item.type, item.at, item.size)
             /\ WellNamed(item) => \A j \in 0 .. array.dims[1].Elements - 1 :
                  Right(<< <<item.name>>, <<"", array.dims[1].LBound + j>> >>, array.base,
                        item.at + j * array.each, array.each)
    /\ \A n \in DOMAIN symbols : symbols[n].DataType \in DOMAIN upload.types =>
         \A f \in upload.types[symbols[n].DataType].fields :
           Right(Append(n, <<f.name>>), f.type, symbols[n].at + f.offs, f.size)

\* The bytes parse cuts out for the children of a symbol are bytes of the
\* symbol, and no two elements share one: of any array, of whatever bounds.
Bytes(s) == s.at .. s.at + s.Length - 1
ChildrenShareOut ==
  \A n \in DOMAIN symbols :
    LET childs == addOffset(symbols[n], upload.types) IN
      /\ \A c \in childs : Bytes(c) \subseteq Bytes(symbols[n])
      /\ IsArray(symbols[n].DataType, upload.types)
           => \A c, d \in childs : c # d => Bytes(c) \cap Bytes(d) = {}

\* Only a name that is taken keeps a symbol out: the children of all that is
\* filed are filed, or something else is under their name.
MissingOnlyIfTaken ==
  Parsed => \A n \in DOMAIN symbols : \A c \in addOffset(symbols[n], upload.types) :
              c.FullName \in DOMAIN symbols

-----------------------------------------------------------------------------
(* What they rest on *)

Symbol == [Name : Segments, FullName : Seq(Segments) \ {<<>>}, DataType : DataTypes,
           Length : Nat, at : Nat]

TypeOK == /\ upload \in Uploads
          /\ count \in 0 .. Len(upload.symbols)
          /\ symbols \in [DOMAIN symbols -> Symbol]
          /\ pending \in Seq(SUBSET Symbol)

ChildOfFiled(c) == \E p \in DOMAIN symbols : c \in addOffset(symbols[p], upload.types)

\* What is in the table is there under its own name, and is a variable or the
\* child of something in the table; so is what is still to be filed.
Filed ==
  /\ \A n \in DOMAIN symbols :
       /\ symbols[n].FullName = n
       /\ (\E k \in 1 .. count : symbols[n] = addSymbol(upload.symbols[k])) \/ ChildOfFiled(symbols[n])
  /\ \A k \in DOMAIN pending : \A c \in pending[k] : ChildOfFiled(c)

\* The variables parsed so far are in the table.
VariablesFiled ==
  \A k \in 1 .. count : LET symbol == addSymbol(upload.symbols[k]) IN
    symbol.FullName \in DOMAIN symbols /\ symbols[symbol.FullName] = symbol

\* A child of what is in the table is still to be filed or its name is taken.
NoneForgotten ==
  \A n \in DOMAIN symbols : \A c \in addOffset(symbols[n], upload.types) :
    c.FullName \in DOMAIN symbols \/ \E k \in DOMAIN pending : c \in pending[k]

Inv == TypeOK /\ Filed /\ VariablesFiled /\ NoneForgotten
=============================================================================
