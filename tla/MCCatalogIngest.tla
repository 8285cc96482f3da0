--------------------------- MODULE MCCatalogIngest ---------------------------
(* Schemas for TLC: pairs of small objects, a pair with dots in its names,  *)
(* six views, and four tables with the same foreign keys.                   *)
EXTENDS CatalogIngest

CONSTANTS a, b, c, d

SmallWords == {a, b, c, d} \cup 1 .. 6

Table(name, refs, cols, idxs) ==
  [type |-> "table", name |-> name, size |-> 1 + Len(cols) + Len(idxs), keys |-> refs,
   columns |-> cols, indexes |-> idxs]
View(name) ==
  [type |-> "view", name |-> name, size |-> 1, keys |-> <<>>,
   columns |-> <<>>, indexes |-> <<>>]

SmallTables ==
  {Table(name, refs, cols, idxs) :
     name \in {<<a>>, <<b>>},
     refs \in {<<>>, <<<<b>>, <<c>>>>},
     cols \in {<<<<c>>>>, <<<<c>>, <<d>>>>},
     idxs \in {<<<<c>>>>, <<<<>>, <<c>>>>}}

Small ==
  {<<t>> : t \in SmallTables}
  \cup {<<t, View(n)>> : t \in SmallTables, n \in {<<c>>, <<d>>}}
  \cup {s \in {<<t, u>> : t, u \in SmallTables} : s[1].name # s[2].name}

Dotted == <<Table(<<a>>, <<>>, <<<<b, c>>>>, <<>>),
            Table(<<a, b>>, <<>>, <<<<c>>>>, <<>>)>>
Fan(refs) ==
  [i \in 1 .. 4 |-> Table(<<<<a, b, c, d>>[i]>>, refs, <<>>, <<>>)]
Shelf == [i \in 1 .. 6 |-> View([j \in 1 .. 1 |-> i])]

SmallSchemas ==
  Small \cup {<<>>, Dotted, Shelf, Fan([i \in 1 .. 3 |-> <<a>>]),
             Fan([i \in 1 .. 6 |-> <<b>>])}
=============================================================================
