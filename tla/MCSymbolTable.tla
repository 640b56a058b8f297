---------------------------- MODULE MCSymbolTable ----------------------------
EXTENDS SymbolTable

Array(dims, base, each, n) ==
  [size |-> n, base |-> base, each |-> each, dims |-> dims, fields |-> {}]
Struct(fields, n) == [size |-> n, base |-> "", each |-> 0, dims |-> <<>>, fields |-> fields]
Field(f, t, o, n) == [name |-> f, type |-> t, offs |-> o, size |-> n]
Dim(l, n) == [LBound |-> l, Elements |-> n]

MCNames == {"x", "n", "arr", "p", "l", "q", "g", "r", "b", "i", "e"}
MCDataTypes == {"INT", "LINT", "INTS", "POINT", "PATH", "LINE", "GRID", "ROWS", "BELOW", "NONE"}

\* Two structures with an array field of the same name, arrays of structures,
\* of arrays, of two dimensions and of no elements, a bound below zero.
MCTypes ==
  [INTS  |-> Array(<<Dim(1, 2)>>, "INT", 2, 4),
   POINT |-> Struct({Field("x", "INT", 0, 2), Field("arr", "INTS", 2, 4)}, 6),
   PATH  |-> Array(<<Dim(0, 2)>>, "POINT", 6, 12),
   LINE  |-> Struct({Field("arr", "PATH", 0, 12), Field("n", "LINT", 12, 4)}, 16),
   GRID  |-> Array(<<Dim(0, 2), Dim(0, 2)>>, "INT", 4, 8),
   ROWS  |-> Array(<<Dim(3, 2)>>, "INTS", 4, 8),
   BELOW |-> Array(<<Dim(15, 3)>>, "INT", 2, 6),
   NONE  |-> Array(<<Dim(0, 0)>>, "INT", 2, 0)]

Item(n, t, a, s) == [name |-> n, type |-> t, at |-> a, size |-> s]
MCUploads ==
  {[types |-> MCTypes, symbols |-> s] :
     s \in {<<Item("p", "POINT", 0, 6), Item("l", "LINE", 6, 16)>>,
            <<Item("l", "LINE", 0, 16), Item("q", "PATH", 16, 12), Item("arr", "PATH", 28, 12)>>,
            <<Item("g", "GRID", 0, 8), Item("r", "ROWS", 8, 8), Item("b", "BELOW", 16, 6),
              Item("i", "INT", 22, 2), Item("e", "NONE", 24, 0)>>}}
=============================================================================
