------------------------------ MODULE MCCells -------------------------------
(* Values for the constants of Cells: leaves around the limit, containers   *)
(* of up to three of them, and chains that reach the depth limit.           *)
EXTENDS Cells

Leaves == {Scalar(1), Scalar(101), Text(98), Text(100), Text(101),
           Bytes(3), Bytes(40), Bytes(101)}
Few == {Scalar(1), Text(40), Bytes(40)}
UpTo(S, n) == UNION {[1 .. k -> S] : k \in 0 .. n}
Maps(S, n) ==
  UNION {{Mapping(keys, s) : keys \in [1 .. k -> {"a", "b"}],
                             s \in [1 .. k -> S]} : k \in 1 .. n}
Flat == Leaves \cup Few \cup {Items(s) : s \in UpTo(Leaves, 2) \cup [1 .. 3 -> Few]}
               \cup Maps(Few, 3)
Deep(v) == {Enum(v), Items(<<Enum(v), Scalar(1)>>), Items(<<v>>),
            Items(<<Items(<<v>>)>>)}
AllValues == Flat \cup UNION {Deep(v) : v \in Flat}
SomeValues == AllValues
Sizes ==
  [v \in AllValues |-> IF v.kind \in {"scalar", "text"} THEN v.size ELSE 50]
=============================================================================
