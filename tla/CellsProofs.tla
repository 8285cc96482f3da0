---------------------------- MODULE CellsProofs -----------------------------
(***************************************************************************)
(* Proofs about Cells for any values, limits and depth: cells are bounded, *)
(* nothing is lost without a mark and nothing is marked in vain.  The      *)
(* functions are recursive, and what they compute is shown by induction on *)
(* the number of levels they may go down.                                  *)
(***************************************************************************)
EXTENDS Cells, SequenceTheorems, NaturalsInduction, WellFoundedInduction, TLAPS

(***************************************************************************)
(* The recursive functions of Cells                                        *)
(***************************************************************************)
(* The steps of JsonSafe and of Written, from a level to the next.         *)
Safe(k, below) ==
  [v \in Values |->
     LET each(s) == [i \in DOMAIN s |-> below[s[i]]]
         normalized ==
           CASE v.kind = "scalar" -> v
             [] v.kind = "enum" -> below[v.of]
             [] v.kind = "bytes" -> FromBytes(v.size)
             [] v.kind = "map" ->
                  Container("map", ByText(Kept(v.keys), each(Kept(v.items)))
                                     \o Rest(v.items))
             [] v.kind = "list" ->
                  Container("list", each(Kept(v.items)) \o Rest(v.items))
     IN IF k = 0 THEN Clipped(StrSize[v])
        ELSE IF v.kind = "text" THEN ClipText(v.size)
        ELSE ClipNormalized(normalized)]

Write(k, below) ==
  [v \in Values |->
     CASE k = 0 -> Pending
       [] v.kind \in {"scalar", "text"} -> v
       [] v.kind = "bytes" -> Base64(v.size, FALSE)
       [] v.kind = "enum" -> below[v.of]
       [] v.kind \in {"list", "map"} ->
            Container(v.kind, [i \in DOMAIN v.items |-> below[v.items[i]]])]

(* That of ByText: an entry is added or takes the place of another.        *)
Put(key, item, old) ==
  LET entry == [key |-> key, item |-> item]
      same == {i \in DOMAIN old : old[i].key = key}
  IN IF same = {} THEN Append(old, entry)
     ELSE [i \in DOMAIN old |-> IF i \in same THEN entry ELSE old[i]]

(* All of them as one, so that one induction shows that they exist.        *)
Step(which, a, k, before) ==
  CASE which = "safe" -> Safe(k, before)
    [] which = "written" -> Write(k, before)
    [] which = "level" ->
         IF k = 0 THEN {a} ELSE UNION {Parts(p) : p \in before}
    [] which = "entries" ->
         IF k = 0 THEN <<>> ELSE Put(a.keys[k], a.items[k], before)
    [] which = "sum" -> IF k = 0 THEN 0 ELSE before + a[k]

Follows(f, which, a, n) ==
  f = [k \in 0 .. n |-> Step(which, a, k, f[k - 1])]

(* A set of numbers has a least one: what is said by induction below is    *)
(* said of the least counterexample.                                       *)
LEMMA LeastNumber ==
  ASSUME NEW T, T \subseteq Nat, T # {}
  PROVE  \E x \in T : \A y \in T : x <= y
<1> DEFINE R == OpToRel(<, Nat)
<1>1. IsWellFoundedOn(R, Nat)
  BY NatLessThanWellFounded
<1>2. PICK x \in T : \A y \in T : ~ (<<y, x>> \in R)
  <2> HIDE DEF R
  <2> QED BY <1>1, WFMin
<1>3. \A y \in T : ~ (y < x)
  BY <1>2 DEF OpToRel
<1> QED
  BY <1>3

(* A set of numbers that has 0, and with each number up to n the next one, *)
(* has all of them.                                                        *)
LEMMA Climb ==
  ASSUME NEW n \in Nat, NEW G, 0 \in G,
         \A m \in 0 .. n - 1 : m \in G => m + 1 \in G
  PROVE  \A m \in 0 .. n : m \in G
<1> DEFINE Bad == {m \in 0 .. n : m \notin G}
<1> SUFFICES ASSUME Bad # {} PROVE FALSE
  OBVIOUS
<1>1. Bad \subseteq Nat
  OBVIOUS
<1>2. PICK m \in Bad : \A y \in Bad : m <= y
  <2> HIDE DEF Bad
  <2> QED BY <1>1, LeastNumber
<1>3. m \in 1 .. n
  BY <1>2
<1>4. m - 1 \in 0 .. n - 1 /\ m - 1 \notin Bad /\ (m - 1) + 1 = m
  BY <1>2, <1>3
<1>5. m - 1 \in G
  BY <1>4
<1> QED
  BY <1>2, <1>4, <1>5

(* No step looks at anything before the first.                             *)
LEMMA FirstStep ==
  ASSUME NEW which, NEW a, NEW x, NEW y
  PROVE  Step(which, a, 0, x) = Step(which, a, 0, y)
<1>1. Safe(0, x) = Safe(0, y)
  BY DEF Safe
<1>2. Write(0, x) = Write(0, y)
  BY DEF Write
<1> QED
  BY <1>1, <1>2 DEF Step

LEMMA Recursion ==
  ASSUME NEW which, NEW a, NEW n \in Nat
  PROVE  \E f : Follows(f, which, a, n)
<1> DEFINE G == {m \in 0 .. n : \E f : Follows(f, which, a, m)}
<1>1. 0 \in G
  <2> DEFINE f == [k \in 0 .. 0 |-> Step(which, a, 0, 0)]
  <2>1. \A k \in 0 .. 0 : Step(which, a, 0, 0) = Step(which, a, k, f[k - 1])
    <3> TAKE k \in 0 .. 0
    <3>1. k = 0
      OBVIOUS
    <3> HIDE DEF f
    <3> QED BY <3>1, FirstStep
  <2>2. f = [k \in 0 .. 0 |-> Step(which, a, k, f[k - 1])]
    BY <2>1, Zenon
  <2> QED
    BY <2>2 DEF Follows
<1>2. ASSUME NEW m \in 0 .. n - 1, m \in G
      PROVE  m + 1 \in G
  <2>1. PICK g : Follows(g, which, a, m)
    BY <1>2
  <2> DEFINE h == [k \in 0 .. m + 1 |->
                     IF k = m + 1 THEN Step(which, a, k, g[m]) ELSE g[k]]
  <2>2. \A k \in 0 .. m : g[k] = Step(which, a, k, g[k - 1])
    <3>1. g = [k \in 0 .. m |-> Step(which, a, k, g[k - 1])]
      BY <2>1 DEF Follows
    <3> QED BY <3>1, Zenon
  <2>3. h[m + 1] = Step(which, a, m + 1, h[m])
    BY DEF h
  <2>4. \A k \in 0 .. m : h[k] = g[k]
    OBVIOUS
  <2>5. \A k \in 0 .. m : h[k] = Step(which, a, k, h[k - 1])
    <3> TAKE k \in 0 .. m
    <3>1. CASE k = 0
      <4> HIDE DEF h
      <4> QED BY <2>2, <2>4, <3>1, FirstStep
    <3>2. CASE k # 0
      <4>1. k - 1 \in 0 .. m
        BY <3>2
      <4> HIDE DEF h
      <4> QED BY <2>2, <2>4, <4>1
    <3> QED BY <3>1, <3>2
  <2>6. \A k \in 0 .. m + 1 : h[k] = Step(which, a, k, h[k - 1])
    <3> TAKE k \in 0 .. m + 1
    <3>1. k = m + 1 \/ k \in 0 .. m
      OBVIOUS
    <3>2. (m + 1) - 1 = m
      OBVIOUS
    <3> HIDE DEF h
    <3> QED BY <2>3, <2>5, <3>1, <3>2
  <2>7. h = [k \in 0 .. m + 1 |-> h[k]]
    OBVIOUS
  <2>8. h = [k \in 0 .. m + 1 |-> Step(which, a, k, h[k - 1])]
    <3> HIDE DEF h
    <3> QED BY <2>6, <2>7, Zenon
  <2> QED
    <3>1. Follows(h, which, a, m + 1)
      BY <2>8 DEF Follows
    <3> QED BY <3>1
<1>3. n \in G
  <2> HIDE DEF G
  <2> QED BY <1>1, <1>2, Climb
<1> QED
  BY <1>3

(* So each of them does what its definition says.                          *)
LEMMA Unfolded ==
  ASSUME NEW which, NEW a, NEW n \in Nat, NEW f,
         f = CHOOSE g : Follows(g, which, a, n)
  PROVE  \A k \in 0 .. n : f[k] = Step(which, a, k, f[k - 1])
<1>1. Follows(f, which, a, n)
  BY Recursion
<1>2. f = [k \in 0 .. n |-> Step(which, a, k, f[k - 1])]
  BY <1>1 DEF Follows
<1> QED
  BY <1>2, Zenon

LEMMA TopTyped == Top \in Nat /\ Top >= 1
  BY LimitsAssumption DEF Top

LEMMA JsonSafeIs ==
  \A l \in 0 .. Top : JsonSafe[l] = Safe(l, JsonSafe[l - 1])
<1>1. JsonSafe = CHOOSE f : f = [k \in 0 .. Top |-> Safe(k, f[k - 1])]
  BY DEF JsonSafe, Safe
<1>2. \A f : Follows(f, "safe", 0, Top)
               <=> f = [k \in 0 .. Top |-> Safe(k, f[k - 1])]
  <2>1. \A k, x : Step("safe", 0, k, x) = Safe(k, x)
    BY DEF Step
  <2> QED BY <2>1 DEF Follows
<1>3. \E f : f = [k \in 0 .. Top |-> Safe(k, f[k - 1])]
  BY <1>2, Recursion, TopTyped
<1>4. JsonSafe = [k \in 0 .. Top |-> Safe(k, JsonSafe[k - 1])]
  BY <1>1, <1>3
<1> QED
  BY <1>4, Zenon

LEMMA WrittenIs ==
  \A l \in 0 .. Top : Written[l] = Write(l, Written[l - 1])
<1>1. Written = CHOOSE f : f = [k \in 0 .. Top |-> Write(k, f[k - 1])]
  BY DEF Written, Write
<1>2. \A f : Follows(f, "written", 0, Top)
               <=> f = [k \in 0 .. Top |-> Write(k, f[k - 1])]
  <2>1. \A k, x : Step("written", 0, k, x) = Write(k, x)
    BY DEF Step
  <2> QED BY <2>1 DEF Follows
<1>3. \E f : f = [k \in 0 .. Top |-> Write(k, f[k - 1])]
  BY <1>2, Recursion, TopTyped
<1>4. Written = [k \in 0 .. Top |-> Write(k, Written[k - 1])]
  BY <1>1, <1>3
<1> QED
  BY <1>4, Zenon

(* Level n + 1 is what is in the values of level n.                        *)
LEMMA LevelIs ==
  ASSUME NEW v
  PROVE  /\ Level(v, 0) = {v}
         /\ \A n \in 0 .. Top :
              Level(v, n + 1) = UNION {Parts(p) : p \in Level(v, n)}
<1> DEFINE N == Top + 1
           Next1(f, k) == IF k = 0 THEN {v} ELSE UNION {Parts(p) : p \in f[k - 1]}
           level == CHOOSE f : f = [k \in 0 .. N |-> Next1(f, k)]
<1>1. N \in Nat
  BY TopTyped
<1>2. \A n : Level(v, n) = level[n]
  BY DEF Level
<1>3. \A f : Follows(f, "level", v, N) <=> f = [k \in 0 .. N |-> Next1(f, k)]
  <2>1. \A k, x : Step("level", v, k, x)
                    = IF k = 0 THEN {v} ELSE UNION {Parts(p) : p \in x}
    BY DEF Step
  <2>2. \A f : \A k \in 0 .. N : Step("level", v, k, f[k - 1]) = Next1(f, k)
    BY <2>1
  <2>3. \A f : [k \in 0 .. N |-> Step("level", v, k, f[k - 1])]
                 = [k \in 0 .. N |-> Next1(f, k)]
    <3> HIDE DEF Next1, N
    <3> QED BY <2>2
  <2> HIDE DEF Next1, N
  <2> QED BY <2>3 DEF Follows
<1>4. \E f : f = [k \in 0 .. N |-> Next1(f, k)]
  <2> HIDE DEF Next1, N
  <2> QED BY <1>1, <1>3, Recursion
<1>5. level = [k \in 0 .. N |-> Next1(level, k)]
  <2> HIDE DEF Next1, N
  <2> QED BY <1>4
<1>6. \A k \in 0 .. N : level[k] = Next1(level, k)
  <2> HIDE DEF level, Next1
  <2> QED BY <1>5, Zenon
<1> HIDE DEF level
<1>7. level[0] = {v}
  <2>1. 0 \in 0 .. N
    BY <1>1
  <2>2. level[0] = Next1(level, 0)
    BY <1>6, <2>1
  <2> QED BY <2>2
<1>8. ASSUME NEW n \in 0 .. Top
      PROVE  level[n + 1] = UNION {Parts(p) : p \in level[n]}
  <2>1. n + 1 \in 0 .. N /\ n + 1 # 0 /\ (n + 1) - 1 = n
    BY TopTyped
  <2>2. level[n + 1] = Next1(level, n + 1)
    BY <1>6, <2>1
  <2> QED BY <2>1, <2>2
<1> QED
  BY <1>2, <1>7, <1>8

(* The levels below v are those of what is in it, one level up.            *)
LEMMA LevelsOfParts ==
  ASSUME NEW v
  PROVE  \A n \in 0 .. Top :
           Level(v, n + 1) = UNION {Level(p, n) : p \in Parts(v)}
<1> DEFINE Good(n) == Level(v, n + 1) = UNION {Level(p, n) : p \in Parts(v)}
           G == {n \in 0 .. Top : Good(n)}
<1>1. 0 \in G
  <2>1. Level(v, 0 + 1) = UNION {Parts(p) : p \in Level(v, 0)}
    BY LevelIs, TopTyped
  <2>2. Level(v, 0 + 1) = Parts(v)
    BY <2>1, LevelIs
  <2>3. UNION {Level(p, 0) : p \in Parts(v)} = Parts(v)
    <3>1. \A p : Level(p, 0) = {p}
      BY LevelIs
    <3>2. \A x : x \in UNION {Level(p, 0) : p \in Parts(v)}
                   <=> \E p \in Parts(v) : x \in Level(p, 0)
      OBVIOUS
    <3> QED BY <3>1, <3>2
  <2> QED
    BY <2>2, <2>3, TopTyped
<1>2. ASSUME NEW n \in 0 .. Top - 1, n \in G
      PROVE  n + 1 \in G
  <2>1. n + 1 \in 0 .. Top /\ n \in 0 .. Top
    BY TopTyped
  <2>2. Level(v, (n + 1) + 1) = UNION {Parts(q) : q \in Level(v, n + 1)}
    BY <2>1, LevelIs
  <2>3. \A p : Level(p, n + 1) = UNION {Parts(q) : q \in Level(p, n)}
    BY <2>1, LevelIs
  <2>4. Level(v, n + 1) = UNION {Level(p, n) : p \in Parts(v)}
    BY <1>2
  <2>5. Level(v, (n + 1) + 1) = UNION {Level(p, n + 1) : p \in Parts(v)}
    <3>1. \A x : x \in Level(v, (n + 1) + 1)
                   <=> \E p \in Parts(v) : \E q \in Level(p, n) : x \in Parts(q)
      <4>1. \A x : x \in Level(v, n + 1) <=> \E p \in Parts(v) : x \in Level(p, n)
        BY <2>4
      <4>2. \A x : x \in Level(v, (n + 1) + 1)
                     <=> \E q \in Level(v, n + 1) : x \in Parts(q)
        BY <2>2
      <4> QED BY <4>1, <4>2
    <3>2. \A x : x \in UNION {Level(p, n + 1) : p \in Parts(v)}
                   <=> \E p \in Parts(v) : \E q \in Level(p, n) : x \in Parts(q)
      <4>1. \A p, x : x \in Level(p, n + 1)
                        <=> \E q \in Level(p, n) : x \in Parts(q)
        BY <2>3
      <4> QED BY <4>1
    <3> QED BY <3>1, <3>2
  <2> QED BY <2>1, <2>5
<1>3. \A n \in 0 .. Top : n \in G
  <2> HIDE DEF G
  <2> QED BY <1>1, <1>2, Climb, TopTyped
<1> QED
  BY <1>3

(* What Total computes: a number that none of its terms exceeds.           *)
LEMMA TotalBounds ==
  ASSUME NEW s, NEW n \in Nat, s \in [1 .. n -> Nat]
  PROVE  Total(s) \in Nat /\ \A i \in 1 .. n : s[i] <= Total(s)
<1> DEFINE Sum(f, k) == IF k = 0 THEN 0 ELSE f[k - 1] + s[k]
           sum == CHOOSE f : f = [k \in 0 .. n |-> Sum(f, k)]
<1>1. s \in Seq(Nat) /\ Len(s) = n
  OBVIOUS
<1>2. Total(s) = sum[n]
  BY <1>1 DEF Total
<1>3. \A f : Follows(f, "sum", s, n) <=> f = [k \in 0 .. n |-> Sum(f, k)]
  <2>1. \A k, x : Step("sum", s, k, x) = IF k = 0 THEN 0 ELSE x + s[k]
    BY DEF Step
  <2>2. \A f : \A k \in 0 .. n : Step("sum", s, k, f[k - 1]) = Sum(f, k)
    BY <2>1
  <2>3. \A f : [k \in 0 .. n |-> Step("sum", s, k, f[k - 1])]
                 = [k \in 0 .. n |-> Sum(f, k)]
    <3> HIDE DEF Sum
    <3> QED BY <2>2
  <2> HIDE DEF Sum
  <2> QED BY <2>3 DEF Follows
<1>4. \E f : f = [k \in 0 .. n |-> Sum(f, k)]
  <2> HIDE DEF Sum
  <2> QED BY <1>3, Recursion
<1>5. sum = [k \in 0 .. n |-> Sum(sum, k)]
  <2> HIDE DEF Sum
  <2> QED BY <1>4
<1>6. \A k \in 0 .. n : sum[k] = Sum(sum, k)
  <2> HIDE DEF sum, Sum
  <2> QED BY <1>5, Zenon
<1> HIDE DEF sum
<1> DEFINE G == {m \in 0 .. n : sum[m] \in Nat /\ \A i \in 1 .. m : s[i] <= sum[m]}
<1>7. 0 \in G
  <2>1. sum[0] = Sum(sum, 0) /\ 0 \in 0 .. n /\ 1 .. 0 = {}
    BY <1>6
  <2> QED BY <2>1
<1>8. ASSUME NEW m \in 0 .. n - 1, m \in G
      PROVE  m + 1 \in G
  <2>1. m + 1 \in 1 .. n /\ m + 1 \in 0 .. n /\ (m + 1) - 1 = m
    OBVIOUS
  <2>2. sum[m + 1] = sum[m] + s[m + 1]
    <3>1. sum[m + 1] = Sum(sum, m + 1)
      BY <1>6, <2>1
    <3> QED BY <2>1, <3>1
  <2>3. sum[m] \in Nat /\ s[m + 1] \in Nat
    BY <1>8, <2>1
  <2>4. ASSUME NEW i \in 1 .. m + 1
        PROVE  s[i] <= sum[m + 1]
    <3>1. CASE i = m + 1
      BY <2>2, <2>3, <3>1
    <3>2. CASE i # m + 1
      <4>1. i \in 1 .. m /\ i \in 1 .. n
        BY <3>2
      <4>2. s[i] <= sum[m] /\ s[i] \in Nat
        BY <1>8, <4>1
      <4> QED BY <2>2, <2>3, <4>2
    <3> QED BY <3>1, <3>2
  <2> QED BY <2>1, <2>2, <2>3, <2>4
<1>9. n \in G
  <2> HIDE DEF G
  <2>1. \A m \in 0 .. n : m \in G
    BY <1>7, <1>8, Climb
  <2> QED BY <2>1
<1> QED
  BY <1>2, <1>9

(* What ByText computes: no more items than there were, each of them one   *)
(* that was there, and all of them as they were if the keys differ.        *)
LEMMA ByTextKeeps ==
  ASSUME NEW keys, NEW n \in Nat, keys \in [1 .. n -> STRING],
         NEW S, NEW items \in [1 .. n -> S]
  PROVE  /\ ByText(keys, items) \in Seq(S)
         /\ Len(ByText(keys, items)) <= n
         /\ IsInjective(keys) => ByText(keys, items) = items
<1> DEFINE Ent(f, k) == IF k = 0 THEN <<>>
                        ELSE Put(keys[k], items[k], f[k - 1])
           entries == CHOOSE f : f = [k \in 0 .. n |-> Ent(f, k)]
           E == [key : STRING, item : S]
           a == [keys |-> keys, items |-> items]
<1>1. Len(keys) = n
  OBVIOUS
<1>2. ByText(keys, items)
        = [i \in DOMAIN entries[n] |-> entries[n][i].item]
  BY <1>1 DEF ByText, Put
<1>3. \A f : Follows(f, "entries", a, n) <=> f = [k \in 0 .. n |-> Ent(f, k)]
  <2>1. \A k, x : Step("entries", a, k, x)
                    = IF k = 0 THEN <<>> ELSE Put(keys[k], items[k], x)
    BY DEF Step
  <2> QED BY <2>1 DEF Follows
<1>4. \E f : f = [k \in 0 .. n |-> Ent(f, k)]
  <2> HIDE DEF Ent, a
  <2> QED BY <1>3, Recursion
<1>5. entries = [k \in 0 .. n |-> Ent(entries, k)]
  <2> HIDE DEF Ent
  <2> QED BY <1>4
<1>6. \A k \in 0 .. n : entries[k] = Ent(entries, k)
  <2> HIDE DEF entries, Ent
  <2> QED BY <1>5, Zenon
<1> HIDE DEF entries
<1>7. entries[0] = <<>>
  <2>1. 0 \in 0 .. n
    OBVIOUS
  <2> QED BY <1>6, <2>1
<1>8. ASSUME NEW m \in 0 .. n - 1
      PROVE  /\ m + 1 \in 1 .. n
             /\ entries[m + 1] = Put(keys[m + 1], items[m + 1], entries[m])
  <2>1. m + 1 \in 1 .. n /\ m + 1 \in 0 .. n /\ (m + 1) - 1 = m /\ m + 1 # 0
    OBVIOUS
  <2>2. entries[m + 1] = Ent(entries, m + 1)
    BY <1>6, <2>1
  <2> QED BY <2>1, <2>2
<1> DEFINE G == {m \in 0 .. n :
                   /\ entries[m] \in Seq(E) /\ Len(entries[m]) <= m
                   /\ IsInjective(keys) =>
                        /\ Len(entries[m]) = m
                        /\ \A i \in 1 .. m : /\ entries[m][i].key = keys[i]
                                             /\ entries[m][i].item = items[i]}
<1>9. 0 \in G
  <2> HIDE DEF E
  <2>1. entries[0] \in Seq(E) /\ Len(entries[0]) = 0
    BY <1>7
  <2>2. 0 \in 0 .. n /\ Len(entries[0]) <= 0 /\ \A i \in 1 .. 0 : FALSE
    BY <2>1
  <2> QED BY <2>1, <2>2
<1>10. ASSUME NEW m \in 0 .. n - 1, m \in G
       PROVE  m + 1 \in G
  <2> DEFINE old == entries[m]
             entry == [key |-> keys[m + 1], item |-> items[m + 1]]
             same == {i \in DOMAIN old : old[i].key = keys[m + 1]}
  <2>1. /\ m + 1 \in 1 .. n /\ m + 1 \in 0 .. n /\ m \in 0 .. n
        /\ entry \in E /\ entry.key = keys[m + 1] /\ entry.item = items[m + 1]
    OBVIOUS
  <2>2. entries[m + 1] = IF same = {} THEN Append(old, entry)
                         ELSE [i \in DOMAIN old |->
                                 IF i \in same THEN entry ELSE old[i]]
    BY <1>8 DEF Put
  <2>3. /\ old \in Seq(E) /\ Len(old) \in Nat /\ Len(old) <= m
        /\ DOMAIN old = 1 .. Len(old)
    BY <1>10
  <2>4. IsInjective(keys) =>
          /\ Len(old) = m
          /\ \A i \in 1 .. m : /\ old[i].key = keys[i]
                               /\ old[i].item = items[i]
    BY <1>10
  <2>5. IsInjective(keys) => same = {}
    <3> SUFFICES ASSUME IsInjective(keys), NEW i \in same PROVE FALSE
      OBVIOUS
    <3>1. i \in 1 .. m /\ i \in 1 .. n /\ i # m + 1 /\ keys[i] = keys[m + 1]
      BY <2>3, <2>4
    <3>2. DOMAIN keys = 1 .. n
      OBVIOUS
    <3> HIDE DEF same
    <3> QED BY <2>1, <3>1, <3>2 DEF IsInjective
  <2>6. CASE same = {}
    <3>1. entries[m + 1] = Append(old, entry)
      BY <2>2, <2>6
    <3> HIDE DEF entry, old, same, E
    <3>2. /\ Append(old, entry) \in Seq(E)
          /\ Len(Append(old, entry)) = Len(old) + 1
          /\ \A i \in 1 .. Len(old) : Append(old, entry)[i] = old[i]
          /\ Append(old, entry)[Len(old) + 1] = entry
      BY <2>1, <2>3
    <3>3. \A i \in 1 .. m + 1 : i \in 1 .. m \/ i = m + 1
      OBVIOUS
    <3>4. IsInjective(keys) =>
            \A i \in 1 .. m + 1 :
              /\ Append(old, entry)[i].key = keys[i]
              /\ Append(old, entry)[i].item = items[i]
      BY <2>1, <2>3, <2>4, <3>2, <3>3
    <3>5. /\ Len(Append(old, entry)) <= m + 1
          /\ IsInjective(keys) => Len(Append(old, entry)) = m + 1
      <4>1. m \in Nat
        OBVIOUS
      <4>2. Len(Append(old, entry)) <= m + 1
        BY <2>3, <3>2, <4>1
      <4>3. IsInjective(keys) => Len(Append(old, entry)) = m + 1
        BY <2>4, <3>2
      <4> QED BY <4>2, <4>3
    <3> DEFINE new == Append(old, entry)
    <3>6. /\ entries[m + 1] = new /\ new \in Seq(E) /\ Len(new) <= m + 1
          /\ IsInjective(keys) =>
               /\ Len(new) = m + 1
               /\ \A i \in 1 .. m + 1 : /\ new[i].key = keys[i]
                                        /\ new[i].item = items[i]
      BY <3>1, <3>2, <3>4, <3>5
    <3> HIDE DEF new
    <3> QED BY <2>1, <3>6
  <2>7. CASE same # {}
    <3> DEFINE new == [i \in DOMAIN old |-> IF i \in same THEN entry ELSE old[i]]
    <3>1. entries[m + 1] = new
      BY <2>2, <2>7
    <3> HIDE DEF entry, same, old, E
    <3>2. new \in [1 .. Len(old) -> E]
      BY <2>1, <2>3
    <3>3. new \in Seq(E) /\ Len(new) = Len(old)
      <4> HIDE DEF new
      <4> QED BY <2>3, <3>2
    <3> HIDE DEF new
    <3> QED BY <2>1, <2>3, <2>5, <2>7, <3>1, <3>3
  <2> QED
    BY <2>6, <2>7
<1>11. n \in G
  <2> HIDE DEF G
  <2>1. \A m \in 0 .. n : m \in G
    BY <1>9, <1>10, Climb
  <2> QED BY <2>1
<1> DEFINE last == entries[n]
           res == [i \in DOMAIN last |-> last[i].item]
<1>12. /\ last \in Seq(E) /\ Len(last) \in Nat /\ Len(last) <= n
       /\ DOMAIN last = 1 .. Len(last)
  BY <1>11
<1>13. res \in [1 .. Len(last) -> S]
  <2>1. \A i \in 1 .. Len(last) : last[i].item \in S
    <3>1. \A i \in 1 .. Len(last) : last[i] \in E
      <4> HIDE DEF last, E
      <4> QED BY <1>12
    <3> QED BY <3>1
  <2> HIDE DEF last
  <2> QED BY <1>12, <2>1
<1>14. res \in Seq(S) /\ Len(res) = Len(last)
  <2> HIDE DEF res, last
  <2> QED BY <1>12, <1>13
<1>15. IsInjective(keys) => res = items
  <2> SUFFICES ASSUME IsInjective(keys) PROVE res = items
    OBVIOUS
  <2>1. DOMAIN last = 1 .. n /\ \A i \in 1 .. n : last[i].item = items[i]
    BY <1>11, <1>12
  <2> HIDE DEF last
  <2> QED BY <2>1
<1> QED
  BY <1>2, <1>12, <1>14, <1>15

(***************************************************************************)
(* Values and cells, case by case                                          *)
(***************************************************************************)
Plain(v) == v.kind \in {"scalar", "text", "bytes"}
Leaf(c) == c.kind \notin {"enum", "list", "map"}

LEMMA ValueForms ==
  ASSUME NEW v \in Values
  PROVE  \/ Plain(v) /\ v = [kind |-> v.kind, size |-> v.size] /\ v.size \in Nat
         \/ v.kind = "enum" /\ v.of \in Values
         \/ v.kind = "list" /\ v.items \in Seq(Values)
         \/ /\ v.kind = "map" /\ v.items \in Seq(Values)
            /\ v.keys \in Seq(STRING) /\ Len(v.keys) = Len(v.items)
<1>1. CASE v \in [kind : {"scalar", "text", "bytes"}, size : Nat]
  BY <1>1 DEF Plain
<1>2. CASE v \in [kind : {"enum"}, of : Values]
  BY <1>2
<1>3. CASE v \in [kind : {"list"}, items : Seq(Values)]
  BY <1>3
<1>4. CASE /\ v \in [kind : {"map"}, keys : Seq(STRING), items : Seq(Values)]
           /\ Len(v.keys) = Len(v.items)
  BY <1>4
<1> QED
  BY <1>1, <1>2, <1>3, <1>4, ValuesAssumption

LEMMA PartsOf ==
  ASSUME NEW v
  PROVE  /\ Leaf(v) => Parts(v) = {}
         /\ v.kind = "enum" => Parts(v) = {v.of}
         /\ v.kind \in {"list", "map"} =>
              Parts(v) = {v.items[i] : i \in DOMAIN v.items}
<1>1. v.kind = "enum" => Parts(v) = {v.of}
  BY DEF Parts
<1>2. v.kind \in {"list", "map"} =>
        Parts(v) = {v.items[i] : i \in DOMAIN v.items}
  BY DEF Parts
<1>3. Leaf(v) => Parts(v) = {}
  BY DEF Parts, Leaf
<1> QED
  BY <1>1, <1>2, <1>3

LEMMA NothingBelowLeaf ==
  ASSUME NEW c, Leaf(c)
  PROVE  \A n \in 1 .. Top + 1 : Level(c, n) = {}
<1> TAKE n \in 1 .. Top + 1
<1>1. n - 1 \in 0 .. Top /\ (n - 1) + 1 = n
  BY TopTyped
<1>2. Level(c, n) = UNION {Level(p, n - 1) : p \in Parts(c)}
  BY <1>1, LevelsOfParts
<1> QED
  BY <1>2, PartsOf

(* What is in v and n levels below it is so many below v.                  *)
LEMMA BelowPart ==
  ASSUME NEW v, NEW p \in Parts(v), NEW n \in 0 .. Top
  PROVE  n + 1 \in 0 .. Top + 1 /\ Level(p, n) \subseteq Level(v, n + 1)
<1>1. Level(v, n + 1) = UNION {Level(q, n) : q \in Parts(v)}
  BY LevelsOfParts
<1> QED
  BY <1>1, TopTyped

LEMMA ContainerIs ==
  ASSUME NEW kind \in {"list", "map"}, NEW items
  PROVE  /\ Container(kind, items).kind = kind
         /\ Container(kind, items).items = items
         /\ Parts(Container(kind, items)) = Range(items)
<1>1. /\ Container(kind, items).kind = kind
      /\ Container(kind, items).items = items
  BY DEF Container
<1> DEFINE c == Container(kind, items)
<1>2. c.kind \in {"list", "map"} /\ c.items = items
  BY <1>1
<1>3. Parts(c) = {c.items[i] : i \in DOMAIN c.items}
  <2> HIDE DEF c
  <2> QED BY <1>2, PartsOf
<1> HIDE DEF c
<1>4. Parts(c) = Range(items)
  BY <1>2, <1>3 DEF Range
<1> QED
  BY <1>1, <1>4 DEF c

LEMMA KeptIs ==
  ASSUME NEW S, NEW s \in Seq(S)
  PROVE  /\ Kept(s) \in Seq(S)
         /\ Len(Kept(s)) = IF Len(s) > MaxItems THEN MaxItems ELSE Len(s)
         /\ Len(s) > MaxItems => Rest(s) = <<Marker>>
         /\ Len(s) <= MaxItems => Kept(s) = s /\ Rest(s) = <<>>
         /\ Rest(s) \in Seq({Marker}) /\ Len(Rest(s)) \in {0, 1}
<1>1. Len(s) \in Nat /\ MaxItems \in Nat \ {0}
  BY LimitsAssumption
<1>2. CASE Len(s) > MaxItems
  <2>1. Kept(s) = SubSeq(s, 1, MaxItems) /\ Rest(s) = <<Marker>>
    BY <1>2 DEF Kept, Rest
  <2>2. SubSeq(s, 1, MaxItems) \in Seq(S) /\ Len(SubSeq(s, 1, MaxItems)) = MaxItems
    BY <1>1, <1>2
  <2>3. <<Marker>> \in Seq({Marker}) /\ Len(<<Marker>>) = 1
    OBVIOUS
  <2> QED BY <1>1, <1>2, <2>1, <2>2, <2>3
<1>3. CASE ~ (Len(s) > MaxItems)
  <2>1. Kept(s) = s /\ Rest(s) = <<>>
    BY <1>3 DEF Kept, Rest
  <2>2. <<>> \in Seq({Marker}) /\ Len(<<>>) = 0
    OBVIOUS
  <2> QED BY <1>1, <1>3, <2>1, <2>2
<1> QED
  BY <1>2, <1>3

(***************************************************************************)
(* A level of the normalisation                                            *)
(***************************************************************************)
Each(l, s) == [i \in DOMAIN s |-> JsonSafe[l - 1][s[i]]]
AsList(l, v) == Container("list", Each(l, Kept(v.items)) \o Rest(v.items))
AsMap(l, v) ==
  Container("map", ByText(Kept(v.keys), Each(l, Kept(v.items))) \o Rest(v.items))

LEMMA SafeForms ==
  ASSUME NEW l \in 0 .. Top, NEW v \in Values
  PROVE  /\ l = 0 => JsonSafe[l][v] = Clipped(StrSize[v])
         /\ l # 0 =>
              /\ v.kind = "text" => JsonSafe[l][v] = ClipText(v.size)
              /\ v.kind = "scalar" => JsonSafe[l][v] = ClipNormalized(v)
              /\ v.kind = "enum" =>
                   JsonSafe[l][v] = ClipNormalized(JsonSafe[l - 1][v.of])
              /\ v.kind = "bytes" =>
                   JsonSafe[l][v] = ClipNormalized(FromBytes(v.size))
              /\ v.kind = "list" => JsonSafe[l][v] = ClipNormalized(AsList(l, v))
              /\ v.kind = "map" => JsonSafe[l][v] = ClipNormalized(AsMap(l, v))
<1>1. JsonSafe[l] = Safe(l, JsonSafe[l - 1])
  BY JsonSafeIs
<1> DEFINE below == JsonSafe[l - 1]
           each(s) == [i \in DOMAIN s |-> below[s[i]]]
           normalized ==
             CASE v.kind = "scalar" -> v
               [] v.kind = "enum" -> below[v.of]
               [] v.kind = "bytes" -> FromBytes(v.size)
               [] v.kind = "map" ->
                    Container("map", ByText(Kept(v.keys), each(Kept(v.items)))
                                       \o Rest(v.items))
               [] v.kind = "list" ->
                    Container("list", each(Kept(v.items)) \o Rest(v.items))
<1>2. JsonSafe[l][v] = IF l = 0 THEN Clipped(StrSize[v])
                       ELSE IF v.kind = "text" THEN ClipText(v.size)
                       ELSE ClipNormalized(normalized)
  BY <1>1 DEF Safe
<1>3. v.kind = "scalar" => normalized = v
  OBVIOUS
<1>4. v.kind = "enum" => normalized = JsonSafe[l - 1][v.of]
  OBVIOUS
<1>5. v.kind = "bytes" => normalized = FromBytes(v.size)
  OBVIOUS
<1>6. v.kind = "list" => normalized = AsList(l, v)
  BY DEF AsList, Each
<1>7. v.kind = "map" => normalized = AsMap(l, v)
  BY DEF AsMap, Each
<1> HIDE DEF normalized
<1> QED
  BY <1>2, <1>3, <1>4, <1>5, <1>6, <1>7

(* The items of a container of cells: what became of the values that are   *)
(* kept, and perhaps the mark.                                             *)
Below(l) == {JsonSafe[l - 1][w] : w \in Values}

LEMMA EachTyped ==
  ASSUME NEW l, NEW s \in Seq(Values)
  PROVE  /\ Each(l, s) \in Seq(Below(l)) /\ Len(Each(l, s)) = Len(s)
         /\ Each(l, s) \in [1 .. Len(s) -> Below(l)]
<1>1. Each(l, s) \in [1 .. Len(s) -> Below(l)]
  BY DEF Each, Below
<1> HIDE DEF Each
<1> QED
  BY <1>1

LEMMA WithRest ==
  ASSUME NEW S, NEW s \in Seq(S), Len(s) <= MaxItems,
         NEW r \in Seq({Marker}), Len(r) \in {0, 1}
  PROVE  /\ s \o r \in Seq(S \cup {Marker})
         /\ Len(s \o r) <= MaxItems + 1
         /\ Range(s \o r) \subseteq S \cup {Marker}
         /\ r = <<Marker>> => Marker \in Range(s \o r)
         /\ r = <<>> => s \o r = s
<1> DEFINE T == S \cup {Marker}
           c == s \o r
<1>1. s \in Seq(T) /\ r \in Seq(T)
  OBVIOUS
<1>2. Len(s) \in Nat /\ MaxItems \in Nat
  BY LimitsAssumption
<1>3. c \in Seq(T) /\ Len(c) = Len(s) + Len(r)
  <2> HIDE DEF T
  <2> QED BY <1>1
<1>4. DOMAIN c = 1 .. Len(c) /\ \A i \in 1 .. Len(c) : c[i] \in T
  <2> HIDE DEF T, c
  <2> QED BY <1>3
<1>5. Len(c) <= MaxItems + 1
  <2> DEFINE a == Len(s)
             b == Len(r)
             d == Len(c)
  <2>1. a \in Nat /\ a <= MaxItems /\ b \in {0, 1} /\ d = a + b
    BY <1>2, <1>3
  <2> HIDE DEF a, b, d
  <2>2. d <= MaxItems + 1
    BY <1>2, <2>1
  <2> QED BY <2>2 DEF d
<1>6. r = <<Marker>> => c[Len(s) + 1] = Marker /\ Len(s) + 1 \in 1 .. Len(c)
  BY <1>2
<1>7. r = <<>> => c = s
  BY <1>1
<1>8. Range(c) \subseteq T /\ (r = <<Marker>> => Marker \in Range(c))
  <2> HIDE DEF c, T
  <2> QED BY <1>4, <1>6 DEF Range
<1> QED
  BY <1>3, <1>5, <1>7, <1>8

LEMMA ListForm ==
  ASSUME NEW l, NEW v \in Values, v.kind = "list"
  PROVE  /\ AsList(l, v).kind = "list"
         /\ Len(AsList(l, v).items) <= MaxItems + 1
         /\ Parts(AsList(l, v)) \subseteq Below(l) \cup {Marker}
         /\ \E s \in Seq(Below(l) \cup {Marker}) : AsList(l, v) = Container("list", s)
         /\ Len(v.items) > MaxItems => Marker \in Parts(AsList(l, v))
         /\ Len(v.items) <= MaxItems =>
              AsList(l, v) = Container("list", Each(l, v.items))
<1>1. v.items \in Seq(Values)
  BY ValueForms DEF Plain
<1> DEFINE k == Kept(v.items)
           r == Rest(v.items)
           e == Each(l, k)
<1>2. /\ k \in Seq(Values) /\ Len(k) <= MaxItems
      /\ r \in Seq({Marker}) /\ Len(r) \in {0, 1}
      /\ Len(v.items) > MaxItems => r = <<Marker>>
      /\ Len(v.items) <= MaxItems => k = v.items /\ r = <<>>
  <2>1. Len(v.items) \in Nat /\ MaxItems \in Nat
    BY <1>1, LimitsAssumption
  <2>2. /\ k \in Seq(Values)
        /\ Len(k) = IF Len(v.items) > MaxItems THEN MaxItems ELSE Len(v.items)
        /\ Len(v.items) > MaxItems => r = <<Marker>>
        /\ Len(v.items) <= MaxItems => k = v.items /\ r = <<>>
        /\ r \in Seq({Marker}) /\ Len(r) \in {0, 1}
    BY <1>1, KeptIs
  <2> HIDE DEF k, r
  <2>3. Len(k) <= MaxItems
    BY <2>1, <2>2
  <2> QED BY <2>2, <2>3
<1> HIDE DEF k, r
<1>3. e \in Seq(Below(l)) /\ Len(e) <= MaxItems
  BY <1>2, EachTyped
<1> HIDE DEF e
<1>4. /\ e \o r \in Seq(Below(l) \cup {Marker})
      /\ Len(e \o r) <= MaxItems + 1
      /\ Range(e \o r) \subseteq Below(l) \cup {Marker}
      /\ r = <<Marker>> => Marker \in Range(e \o r)
      /\ r = <<>> => e \o r = e
  <2> DEFINE S == Below(l)
  <2>1. e \in Seq(S)
    BY <1>3
  <2> HIDE DEF S
  <2>2. /\ e \o r \in Seq(S \cup {Marker})
        /\ Len(e \o r) <= MaxItems + 1
        /\ Range(e \o r) \subseteq S \cup {Marker}
        /\ r = <<Marker>> => Marker \in Range(e \o r)
        /\ r = <<>> => e \o r = e
    BY <1>2, <1>3, <2>1, WithRest
  <2> QED BY <2>2 DEF S
<1>5. AsList(l, v) = Container("list", e \o r)
  BY DEF AsList, e, k, r
<1>6. Len(v.items) <= MaxItems => AsList(l, v) = Container("list", Each(l, v.items))
  BY <1>2, <1>4, <1>5 DEF e
<1> QED
  <2>1. /\ AsList(l, v).kind = "list" /\ AsList(l, v).items = e \o r
        /\ Parts(AsList(l, v)) = Range(e \o r)
    BY <1>5, ContainerIs
  <2>2. /\ Len(AsList(l, v).items) <= MaxItems + 1
        /\ Parts(AsList(l, v)) \subseteq Below(l) \cup {Marker}
    BY <1>4, <2>1
  <2>3. Len(v.items) > MaxItems => Marker \in Parts(AsList(l, v))
    BY <1>2, <1>4, <2>1
  <2>4. \E s \in Seq(Below(l) \cup {Marker}) : AsList(l, v) = Container("list", s)
    BY <1>4, <1>5
  <2> QED BY <1>6, <2>1, <2>2, <2>3, <2>4

LEMMA MapForm ==
  ASSUME NEW l, NEW v \in Values, v.kind = "map"
  PROVE  /\ AsMap(l, v).kind = "map"
         /\ Len(AsMap(l, v).items) <= MaxItems + 1
         /\ Parts(AsMap(l, v)) \subseteq Below(l) \cup {Marker}
         /\ \E s \in Seq(Below(l) \cup {Marker}) : AsMap(l, v) = Container("map", s)
         /\ Len(v.items) > MaxItems => Marker \in Parts(AsMap(l, v))
         /\ Len(v.items) <= MaxItems /\ IsInjective(v.keys) =>
              AsMap(l, v) = Container("map", Each(l, v.items))
<1>1. v.items \in Seq(Values) /\ v.keys \in Seq(STRING) /\ Len(v.keys) = Len(v.items)
  BY ValueForms DEF Plain
<1> DEFINE k == Kept(v.items)
           q == Kept(v.keys)
           r == Rest(v.items)
           e == Each(l, k)
           t == ByText(q, e)
<1>2. /\ k \in Seq(Values) /\ Len(k) <= MaxItems /\ Len(k) \in Nat
      /\ q \in Seq(STRING) /\ Len(q) = Len(k)
      /\ r \in Seq({Marker}) /\ Len(r) \in {0, 1}
      /\ Len(v.items) > MaxItems => r = <<Marker>>
      /\ Len(v.items) <= MaxItems => k = v.items /\ q = v.keys /\ r = <<>>
  <2>1. Len(v.items) \in Nat /\ MaxItems \in Nat
    BY <1>1, LimitsAssumption
  <2>2. /\ Kept(v.keys) \in Seq(STRING)
        /\ Len(Kept(v.keys)) = IF Len(v.keys) > MaxItems THEN MaxItems
                               ELSE Len(v.keys)
        /\ Len(v.keys) <= MaxItems => Kept(v.keys) = v.keys
    BY <1>1, KeptIs
  <2>3. /\ k \in Seq(Values)
        /\ Len(k) = IF Len(v.items) > MaxItems THEN MaxItems ELSE Len(v.items)
        /\ Len(v.items) > MaxItems => r = <<Marker>>
        /\ Len(v.items) <= MaxItems => k = v.items /\ r = <<>>
        /\ r \in Seq({Marker}) /\ Len(r) \in {0, 1}
    BY <1>1, KeptIs
  <2>4. /\ q \in Seq(STRING) /\ Len(q) = Len(k)
        /\ Len(v.items) <= MaxItems => q = v.keys
    <3> HIDE DEF k
    <3> QED BY <1>1, <2>2, <2>3
  <2> HIDE DEF k, q, r
  <2>5. Len(k) <= MaxItems /\ Len(k) \in Nat
    BY <2>1, <2>3
  <2> QED BY <2>3, <2>4, <2>5
<1> HIDE DEF k, q, r
<1>3. e \in [1 .. Len(k) -> Below(l)] /\ q \in [1 .. Len(k) -> STRING]
  BY <1>2, EachTyped
<1> HIDE DEF e
<1>4. /\ t \in Seq(Below(l)) /\ Len(t) <= Len(k)
      /\ IsInjective(q) => t = e
  BY <1>2, <1>3, ByTextKeeps
<1> HIDE DEF t
<1>5. t \in Seq(Below(l)) /\ Len(t) <= MaxItems
  <2>1. Len(t) \in Nat /\ MaxItems \in Nat
    BY <1>4, LimitsAssumption
  <2> QED BY <1>2, <1>4, <2>1
<1>6. /\ t \o r \in Seq(Below(l) \cup {Marker})
      /\ Len(t \o r) <= MaxItems + 1
      /\ Range(t \o r) \subseteq Below(l) \cup {Marker}
      /\ r = <<Marker>> => Marker \in Range(t \o r)
      /\ r = <<>> => t \o r = t
  <2> DEFINE S == Below(l)
  <2>1. t \in Seq(S)
    BY <1>5
  <2> HIDE DEF S
  <2>2. /\ t \o r \in Seq(S \cup {Marker})
        /\ Len(t \o r) <= MaxItems + 1
        /\ Range(t \o r) \subseteq S \cup {Marker}
        /\ r = <<Marker>> => Marker \in Range(t \o r)
        /\ r = <<>> => t \o r = t
    BY <1>2, <1>5, <2>1, WithRest
  <2> QED BY <2>2 DEF S
<1>7. AsMap(l, v) = Container("map", t \o r)
  BY DEF AsMap, t, e, k, q, r
<1>8. Len(v.items) <= MaxItems /\ IsInjective(v.keys) =>
        AsMap(l, v) = Container("map", Each(l, v.items))
  BY <1>2, <1>4, <1>6, <1>7 DEF e
<1> QED
  <2>1. /\ AsMap(l, v).kind = "map" /\ AsMap(l, v).items = t \o r
        /\ Parts(AsMap(l, v)) = Range(t \o r)
    BY <1>7, ContainerIs
  <2>2. /\ Len(AsMap(l, v).items) <= MaxItems + 1
        /\ Parts(AsMap(l, v)) \subseteq Below(l) \cup {Marker}
    BY <1>6, <2>1
  <2>3. Len(v.items) > MaxItems => Marker \in Parts(AsMap(l, v))
    BY <1>2, <1>6, <2>1
  <2>4. \E s \in Seq(Below(l) \cup {Marker}) : AsMap(l, v) = Container("map", s)
    BY <1>6, <1>7
  <2> QED BY <1>8, <2>1, <2>2, <2>3, <2>4

(***************************************************************************)
(* Sizes                                                                   *)
(***************************************************************************)
LEMMA ContainerSize ==
  ASSUME NEW kind \in {"list", "map"}, NEW S, NEW s \in Seq(S),
         \A c \in S : JsonSize(c) \in Nat
  PROVE  /\ JsonSize(Container(kind, s)) \in Nat
         /\ \A i \in 1 .. Len(s) :
              s[i] # Marker => JsonSize(s[i]) <= JsonSize(Container(kind, s))
<1> DEFINE n == Len(s)
           Size(c) == IF kind = "map" THEN EntrySize(c) ELSE JsonSize(c)
           z == [i \in DOMAIN s |-> Size(s[i])]
           between == Between(n)
<1>1. n \in Nat /\ DOMAIN s = 1 .. n /\ \A i \in 1 .. n : s[i] \in S
  OBVIOUS
<1>2. between \in Nat
  BY <1>1 DEF Between
<1>3. \A c \in S : Size(c) \in Nat /\ (c # Marker => JsonSize(c) <= Size(c))
  BY DEF EntrySize
<1> HIDE DEF Size
<1>4. z \in [1 .. n -> Nat] /\ \A i \in 1 .. n : z[i] = Size(s[i])
  BY <1>1, <1>3
<1>5. JsonSize(Container(kind, s)) = between + Total(z)
  BY DEF JsonSize, Container, Size
<1> HIDE DEF z, between, n
<1>6. Total(z) \in Nat /\ \A i \in 1 .. n : z[i] <= Total(z)
  BY <1>1, <1>4, TotalBounds
<1>7. ASSUME NEW i \in 1 .. n, s[i] # Marker
      PROVE  JsonSize(s[i]) <= JsonSize(Container(kind, s))
  <2>1. /\ JsonSize(s[i]) \in Nat /\ z[i] \in Nat /\ z[i] <= Total(z)
        /\ JsonSize(s[i]) <= z[i]
    BY <1>1, <1>3, <1>4, <1>6, <1>7
  <2> QED BY <1>2, <1>5, <1>6, <2>1
<1>8. JsonSize(Container(kind, s)) \in Nat
  BY <1>2, <1>5, <1>6
<1> QED
  BY <1>7, <1>8 DEF n

LEMMA LeafSizes ==
  /\ \A n \in Nat : /\ JsonSize(Clipped(n)) \in Nat
                    /\ JsonSize(Clipped(n)) <= MaxCell + Ellipsis + 2
                    /\ JsonSize(Text(n)) = n + 2
                    /\ JsonSize(ClipText(n)) \in Nat
                    /\ JsonSize(ClipText(n)) <= MaxCell + Ellipsis + 2
                    /\ JsonSize(FromBytes(n)) \in Nat
                    /\ JsonSize(Base64(n, FALSE)) \in Nat
                    /\ n <= JsonSize(Base64(n, FALSE))
  /\ JsonSize(Marker) \in Nat
<1>0. MaxCell \in Nat
  BY LimitsAssumption
<1>1. ASSUME NEW n \in Nat
      PROVE  /\ JsonSize(Clipped(n)) \in Nat
             /\ JsonSize(Clipped(n)) <= MaxCell + Ellipsis + 2
  <2>1. JsonSize(Clipped(n)) = (IF n <= MaxCell THEN n ELSE MaxCell) + Ellipsis + 2
    BY DEF JsonSize, Clipped
  <2> QED BY <1>0, <2>1 DEF Ellipsis
<1>2. ASSUME NEW n \in Nat
      PROVE  JsonSize(Text(n)) = n + 2
  BY DEF JsonSize, Text
<1>3. ASSUME NEW n \in Nat
      PROVE  /\ JsonSize(ClipText(n)) \in Nat
             /\ JsonSize(ClipText(n)) <= MaxCell + Ellipsis + 2
  BY <1>0, <1>1, <1>2 DEF ClipText, Ellipsis
<1>4. ASSUME NEW n \in Nat, NEW cut \in BOOLEAN
      PROVE  JsonSize(Base64(n, cut)) = 4 * ((n + 2) \div 3)
                                          + IF cut THEN 53 ELSE 54
  BY DEF JsonSize, Base64
<1>5. ASSUME NEW n \in Nat
      PROVE  (n + 2) \div 3 \in Nat /\ n <= 3 * ((n + 2) \div 3)
  OBVIOUS
<1>6. ASSUME NEW n \in Nat
      PROVE  JsonSize(Base64(n, FALSE)) \in Nat /\ n <= JsonSize(Base64(n, FALSE))
  <2> DEFINE q == (n + 2) \div 3
  <2>1. q \in Nat /\ n <= 3 * q
    BY <1>5
  <2>2. JsonSize(Base64(n, FALSE)) = 4 * q + 54
    BY <1>4
  <2> HIDE DEF q
  <2>3. 4 * q + 54 \in Nat /\ n <= 4 * q + 54
    BY <2>1
  <2> QED BY <2>2, <2>3
<1>7. ASSUME NEW n \in Nat
      PROVE  JsonSize(FromBytes(n)) \in Nat
  <2> DEFINE q == (MaxCell + 2) \div 3
  <2>1. q \in Nat
    BY <1>0, <1>5
  <2>2. JsonSize(Base64(MaxCell, TRUE)) = 4 * q + 53
    BY <1>0, <1>4
  <2> HIDE DEF q
  <2>3. 4 * q + 53 \in Nat
    BY <2>1
  <2> QED BY <1>6, <2>2, <2>3 DEF FromBytes
<1>8. JsonSize(Marker) \in Nat
  BY DEF JsonSize, Marker
<1> QED
  BY <1>1, <1>2, <1>3, <1>6, <1>7, <1>8

LEMMA ClipNormalizedIs ==
  ASSUME NEW c, JsonSize(c) \in Nat
  PROVE  /\ JsonSize(c) <= MaxCell => ClipNormalized(c) = c
         /\ JsonSize(c) > MaxCell => ClipNormalized(c) = Clipped(JsonSize(c))
         /\ JsonSize(ClipNormalized(c)) \in Nat
         /\ JsonSize(ClipNormalized(c)) <= MaxCell + Ellipsis + 2
<1>1. MaxCell \in Nat /\ Ellipsis = 3
  BY LimitsAssumption DEF Ellipsis
<1>2. /\ JsonSize(Clipped(JsonSize(c))) \in Nat
      /\ JsonSize(Clipped(JsonSize(c))) <= MaxCell + Ellipsis + 2
  BY LeafSizes
<1>3. CASE JsonSize(c) <= MaxCell
  BY <1>1, <1>3 DEF ClipNormalized
<1>4. CASE ~ (JsonSize(c) <= MaxCell)
  BY <1>1, <1>2, <1>4 DEF ClipNormalized
<1> QED
  BY <1>1, <1>3, <1>4

(* What is normalised, before it is clipped.                               *)
LEMMA SizesBelow ==
  ASSUME NEW l \in 1 .. Top, \A w \in Values : JsonSize(JsonSafe[l - 1][w]) \in Nat,
         NEW v \in Values
  PROVE  /\ v.kind = "scalar" => JsonSize(v) \in Nat
         /\ v.kind = "bytes" => JsonSize(FromBytes(v.size)) \in Nat
         /\ v.kind = "enum" => JsonSize(JsonSafe[l - 1][v.of]) \in Nat
         /\ v.kind = "list" => JsonSize(AsList(l, v)) \in Nat
         /\ v.kind = "map" => JsonSize(AsMap(l, v)) \in Nat
<1> DEFINE S == Below(l) \cup {Marker}
<1>1. \A c \in S : JsonSize(c) \in Nat
  BY LeafSizes DEF Below
<1> HIDE DEF S
<1>2. v.kind = "scalar" => JsonSize(v) \in Nat
  BY ValueForms DEF JsonSize, Plain
<1>3. v.kind = "bytes" => JsonSize(FromBytes(v.size)) \in Nat
  BY ValueForms, LeafSizes DEF Plain
<1>4. v.kind = "enum" => JsonSize(JsonSafe[l - 1][v.of]) \in Nat
  BY ValueForms DEF Plain
<1>5. v.kind = "list" => JsonSize(AsList(l, v)) \in Nat
  <2> SUFFICES ASSUME v.kind = "list" PROVE JsonSize(AsList(l, v)) \in Nat
    OBVIOUS
  <2>1. PICK s \in Seq(S) : AsList(l, v) = Container("list", s)
    BY ListForm DEF S
  <2> QED BY <1>1, <2>1, ContainerSize
<1>6. v.kind = "map" => JsonSize(AsMap(l, v)) \in Nat
  <2> SUFFICES ASSUME v.kind = "map" PROVE JsonSize(AsMap(l, v)) \in Nat
    OBVIOUS
  <2>1. PICK s \in Seq(S) : AsMap(l, v) = Container("map", s)
    BY MapForm DEF S
  <2> QED BY <1>1, <2>1, ContainerSize
<1> QED
  BY <1>2, <1>3, <1>4, <1>5, <1>6

LEMMA SizeBounded ==
  \A l \in 0 .. Top : \A v \in Values :
    /\ JsonSize(JsonSafe[l][v]) \in Nat
    /\ JsonSize(JsonSafe[l][v]) <= MaxCell + Ellipsis + 2
<1> DEFINE Good(l) == \A v \in Values :
                        /\ JsonSize(JsonSafe[l][v]) \in Nat
                        /\ JsonSize(JsonSafe[l][v]) <= MaxCell + Ellipsis + 2
           G == {l \in 0 .. Top : Good(l)}
<1>1. 0 \in G
  <2>1. 0 \in 0 .. Top
    BY TopTyped
  <2>2. ASSUME NEW v \in Values
        PROVE  /\ JsonSize(JsonSafe[0][v]) \in Nat
               /\ JsonSize(JsonSafe[0][v]) <= MaxCell + Ellipsis + 2
    <3>1. JsonSafe[0][v] = Clipped(StrSize[v])
      BY <2>1, SafeForms
    <3>2. StrSize[v] \in Nat
      BY StrSizeAssumption
    <3> QED BY <3>1, <3>2, LeafSizes
  <2> QED BY <2>1, <2>2
<1>2. ASSUME NEW m \in 0 .. Top - 1, m \in G
      PROVE  m + 1 \in G
  <2> DEFINE l == m + 1
  <2>1. l \in 1 .. Top /\ l \in 0 .. Top /\ l # 0 /\ l - 1 = m
    BY TopTyped
  <2>2. \A w \in Values : JsonSize(JsonSafe[l - 1][w]) \in Nat
    BY <1>2, <2>1
  <2> HIDE DEF l
  <2>3. ASSUME NEW v \in Values
        PROVE  /\ JsonSize(JsonSafe[l][v]) \in Nat
               /\ JsonSize(JsonSafe[l][v]) <= MaxCell + Ellipsis + 2
    <3>1. CASE v.kind = "text"
      <4>1. v.size \in Nat /\ JsonSafe[l][v] = ClipText(v.size)
        BY <2>1, <3>1, ValueForms, SafeForms DEF Plain
      <4> QED BY <4>1, LeafSizes
    <3>2. CASE v.kind # "text"
      <4>1. \E c : JsonSize(c) \in Nat /\ JsonSafe[l][v] = ClipNormalized(c)
        <5>1. CASE v.kind = "scalar"
          BY <2>1, <2>2, <5>1, SafeForms, SizesBelow
        <5>2. CASE v.kind = "bytes"
          BY <2>1, <2>2, <5>2, SafeForms, SizesBelow
        <5>3. CASE v.kind = "enum"
          BY <2>1, <2>2, <5>3, SafeForms, SizesBelow
        <5>4. CASE v.kind = "list"
          BY <2>1, <2>2, <5>4, SafeForms, SizesBelow
        <5>5. CASE v.kind = "map"
          BY <2>1, <2>2, <5>5, SafeForms, SizesBelow
        <5> QED BY <3>2, <5>1, <5>2, <5>3, <5>4, <5>5, ValueForms DEF Plain
      <4> QED BY <4>1, ClipNormalizedIs
    <3> QED BY <3>1, <3>2
  <2>4. Good(l)
    BY <2>3
  <2> QED BY <2>1, <2>4 DEF l
<1>3. \A l \in 0 .. Top : l \in G
  <2> HIDE DEF G
  <2> QED BY <1>1, <1>2, Climb, TopTyped
<1> QED
  BY <1>3

(***************************************************************************)
(* How deep cells are and how many items they have                         *)
(***************************************************************************)
LEMMA CellForms ==
  ASSUME NEW l \in 1 .. Top, NEW v \in Values
  PROVE  LET c == JsonSafe[l][v]
         IN \/ Leaf(c)
            \/ v.kind = "enum" /\ v.of \in Values /\ c = JsonSafe[l - 1][v.of]
            \/ /\ c.kind \in {"list", "map"} /\ Len(c.items) <= MaxItems + 1
               /\ Parts(c) \subseteq Below(l) \cup {Marker}
<1> DEFINE c == JsonSafe[l][v]
<1>1. l \in 0 .. Top /\ l # 0 /\ l - 1 \in 0 .. Top
  BY TopTyped
<1>2. \A w \in Values : JsonSize(JsonSafe[l - 1][w]) \in Nat
  BY <1>1, SizeBounded
<1>3. \A n : Leaf(Clipped(n)) /\ Leaf(ClipText(n)) /\ Leaf(FromBytes(n))
  BY DEF Leaf, Clipped, ClipText, Text, FromBytes, Base64
<1>4. \A d : JsonSize(d) \in Nat => ClipNormalized(d) = d \/ Leaf(ClipNormalized(d))
  BY <1>3 DEF ClipNormalized
<1>5. CASE v.kind = "text"
  BY <1>1, <1>3, <1>5, SafeForms
<1>6. CASE v.kind = "scalar"
  <2>1. c = ClipNormalized(v)
    BY <1>1, <1>6, SafeForms
  <2>2. Leaf(v)
    BY <1>6 DEF Leaf
  <2> QED BY <1>2, <1>4, <1>6, <2>1, <2>2, SizesBelow
<1>7. CASE v.kind = "bytes"
  <2>1. c = ClipNormalized(FromBytes(v.size))
    BY <1>1, <1>7, SafeForms
  <2> QED BY <1>2, <1>3, <1>4, <1>7, <2>1, SizesBelow
<1>8. CASE v.kind = "enum"
  <2>1. c = ClipNormalized(JsonSafe[l - 1][v.of]) /\ v.of \in Values
    BY <1>1, <1>8, SafeForms, ValueForms DEF Plain
  <2> QED BY <1>2, <1>4, <1>8, <2>1, SizesBelow
<1>9. CASE v.kind = "list"
  <2>1. c = ClipNormalized(AsList(l, v))
    BY <1>1, <1>9, SafeForms
  <2>2. c = AsList(l, v) \/ Leaf(c)
    BY <1>2, <1>4, <1>9, <2>1, SizesBelow
  <2> HIDE DEF c
  <2> QED BY <1>9, <2>2, ListForm DEF c
<1>10. CASE v.kind = "map"
  <2>1. c = ClipNormalized(AsMap(l, v))
    BY <1>1, <1>10, SafeForms
  <2>2. c = AsMap(l, v) \/ Leaf(c)
    BY <1>2, <1>4, <1>10, <2>1, SizesBelow
  <2> HIDE DEF c
  <2> QED BY <1>10, <2>2, MapForm DEF c
<1> QED
  BY <1>5, <1>6, <1>7, <1>8, <1>9, <1>10, ValueForms DEF Plain

Narrow(c) == c.kind \in {"list", "map"} => Len(c.items) <= MaxItems + 1

LEMMA CellsNarrow ==
  \A l \in 0 .. Top : \A v \in Values :
    /\ \A n \in 0 .. Top : \A c \in Level(JsonSafe[l][v], n) : Narrow(c)
    /\ Level(JsonSafe[l][v], l + 1) = {}
<1> DEFINE Good(l) ==
             \A v \in Values :
               /\ \A n \in 0 .. Top : \A c \in Level(JsonSafe[l][v], n) : Narrow(c)
               /\ Level(JsonSafe[l][v], l + 1) = {}
           G == {l \in 0 .. Top : Good(l)}
<1>1. ASSUME NEW c, Leaf(c)
      PROVE  /\ \A n \in 0 .. Top : \A d \in Level(c, n) : Narrow(d)
             /\ \A n \in 1 .. Top + 1 : Level(c, n) = {}
  <2>1. \A n \in 1 .. Top + 1 : Level(c, n) = {}
    BY <1>1, NothingBelowLeaf
  <2>2. ASSUME NEW n \in 0 .. Top, NEW d \in Level(c, n)
        PROVE  Narrow(d)
    <3>1. n = 0 \/ n \in 1 .. Top + 1
      BY TopTyped
    <3>2. d = c
      BY <2>1, <3>1, LevelIs
    <3> QED BY <1>1, <3>2 DEF Leaf, Narrow
  <2> QED BY <2>1, <2>2
<1>2. 0 \in G
  <2>1. 0 \in 0 .. Top /\ 0 + 1 \in 1 .. Top + 1
    BY TopTyped
  <2>2. \A v \in Values : Leaf(JsonSafe[0][v])
    <3>1. \A n : Leaf(Clipped(n))
      BY DEF Leaf, Clipped
    <3> QED BY <2>1, <3>1, SafeForms
  <2> QED BY <1>1, <2>1, <2>2
<1>3. ASSUME NEW m \in 0 .. Top - 1, m \in G
      PROVE  m + 1 \in G
  <2> DEFINE l == m + 1
  <2>1. /\ l \in 1 .. Top /\ l \in 0 .. Top /\ l - 1 = m /\ l + 1 \in 1 .. Top + 1
        /\ m + 1 = l
    BY TopTyped
  <2>2. Good(m)
    BY <1>3
  <2> HIDE DEF l
  <2>3. ASSUME NEW v \in Values
        PROVE  /\ \A n \in 0 .. Top : \A c \in Level(JsonSafe[l][v], n) : Narrow(c)
               /\ Level(JsonSafe[l][v], l + 1) = {}
    <3> DEFINE c == JsonSafe[l][v]
    <3>1. CASE Leaf(c)
      BY <1>1, <2>1, <3>1
    <3>2. CASE v.kind = "enum" /\ v.of \in Values /\ c = JsonSafe[l - 1][v.of]
      <4>1. c = JsonSafe[m][v.of]
        BY <2>1, <3>2
      <4>2. Level(c, l) = {}
        BY <2>1, <2>2, <3>2, <4>1
      <4>3. Level(c, l + 1) = UNION {Parts(p) : p \in Level(c, l)}
        <5> HIDE DEF c
        <5> QED BY <2>1, LevelIs
      <4> QED BY <2>2, <3>2, <4>1, <4>2, <4>3
    <3>3. CASE /\ c.kind \in {"list", "map"} /\ Len(c.items) <= MaxItems + 1
               /\ Parts(c) \subseteq Below(l) \cup {Marker}
      <4> HIDE DEF c
      <4>1. ASSUME NEW p \in Parts(c)
            PROVE  /\ \A n \in 0 .. Top : \A d \in Level(p, n) : Narrow(d)
                   /\ Level(p, l) = {}
        <5>1. CASE p = Marker
          <6>1. Leaf(p)
            BY <5>1 DEF Leaf, Marker
          <6>2. l \in 1 .. Top + 1
            BY <2>1, TopTyped
          <6> QED BY <1>1, <6>1, <6>2
        <5>2. CASE p \in Below(l)
          <6>1. PICK w \in Values : p = JsonSafe[m][w]
            BY <2>1, <5>2 DEF Below
          <6> QED BY <2>1, <2>2, <6>1
        <5> QED BY <3>3, <5>1, <5>2
      <4>2. Narrow(c)
        BY <3>3 DEF Narrow
      <4>3. Level(c, l + 1) = {}
        <5>1. Level(c, l + 1) = UNION {Level(p, l) : p \in Parts(c)}
          BY <2>1, LevelsOfParts
        <5> QED BY <4>1, <5>1
      <4>4. ASSUME NEW n \in 0 .. Top, NEW d \in Level(c, n)
            PROVE  Narrow(d)
        <5>1. CASE n = 0
          BY <4>2, <4>4, <5>1, LevelIs
        <5>2. CASE n # 0
          <6>1. n - 1 \in 0 .. Top /\ (n - 1) + 1 = n
            BY <5>2, TopTyped
          <6>2. Level(c, n) = UNION {Level(p, n - 1) : p \in Parts(c)}
            BY <6>1, LevelsOfParts
          <6>3. PICK p \in Parts(c) : d \in Level(p, n - 1)
            BY <6>2
          <6> QED BY <4>1, <6>1, <6>3
        <5> QED BY <5>1, <5>2
      <4> QED BY <4>3, <4>4 DEF c
    <3> QED BY <2>1, <3>1, <3>2, <3>3, CellForms
  <2>4. Good(l)
    BY <2>3
  <2> QED BY <2>1, <2>4
<1>4. \A l \in 0 .. Top : l \in G
  <2> HIDE DEF G
  <2> QED BY <1>2, <1>3, Climb, TopTyped
<1> QED
  BY <1>4

(***************************************************************************)
(* Values written as a whole                                               *)
(***************************************************************************)
EachWhole(l, s) == [i \in DOMAIN s |-> Written[l - 1][s[i]]]

LEMMA WrittenForms ==
  ASSUME NEW l \in 1 .. Top, NEW v \in Values
  PROVE  /\ v.kind \in {"scalar", "text"} => Written[l][v] = v
         /\ v.kind = "bytes" => Written[l][v] = Base64(v.size, FALSE)
         /\ v.kind = "enum" => Written[l][v] = Written[l - 1][v.of]
         /\ v.kind \in {"list", "map"} =>
              Written[l][v] = Container(v.kind, EachWhole(l, v.items))
<1>1. Written[l] = Write(l, Written[l - 1])
  BY WrittenIs
<1> DEFINE below == Written[l - 1]
           written ==
             CASE l = 0 -> Pending
               [] v.kind \in {"scalar", "text"} -> v
               [] v.kind = "bytes" -> Base64(v.size, FALSE)
               [] v.kind = "enum" -> below[v.of]
               [] v.kind \in {"list", "map"} ->
                    Container(v.kind, [i \in DOMAIN v.items |-> below[v.items[i]]])
<1>2. Written[l][v] = written
  BY <1>1 DEF Write
<1>0. l # 0
  BY TopTyped
<1>3. v.kind \in {"scalar", "text"} => written = v
  <2> HIDE DEF below
  <2> QED BY <1>0
<1>4. v.kind = "bytes" => written = Base64(v.size, FALSE)
  BY <1>0
<1>5. v.kind = "enum" => written = Written[l - 1][v.of]
  BY <1>0
<1>6. v.kind \in {"list", "map"} =>
        written = Container(v.kind, EachWhole(l, v.items))
  BY <1>0 DEF EachWhole
<1> HIDE DEF written
<1> QED
  BY <1>2, <1>3, <1>4, <1>5, <1>6

(* The conditions of the properties, down to a level, hold of what is in a *)
(* value or a cell down to the level before.                               *)
Tidy(v, l) ==
  \A n \in 0 .. l : \A p \in Level(v, n) : p.kind = "map" => IsInjective(p.keys)
Clean(c, l) == \A n \in 0 .. l : \A d \in Level(c, n) : ~ Mark(d)
Fit(p) ==
  /\ p.kind = "text" => p.size <= MaxCell
  /\ p.kind \in {"list", "map"} => Len(p.items) <= MaxItems
Fits(v, l) ==
  Level(v, l) = {} /\ \A n \in 0 .. l : \A p \in Level(v, n) : Fit(p)

LEMMA Inherited ==
  ASSUME NEW l \in 1 .. Top, NEW v, NEW p \in Parts(v)
  PROVE  /\ l - 1 \in 0 .. Top
         /\ Tidy(v, l) => Tidy(p, l - 1)
         /\ Clean(v, l) => Clean(p, l - 1)
         /\ Fits(v, l) => Fits(p, l - 1)
<1>1. l - 1 \in 0 .. Top /\ (l - 1) + 1 = l
  BY TopTyped
<1>2. \A n \in 0 .. l - 1 :
        n + 1 \in 0 .. l /\ Level(p, n) \subseteq Level(v, n + 1)
  <2> TAKE n \in 0 .. l - 1
  <2>1. n \in 0 .. Top /\ n + 1 \in 0 .. l
    BY TopTyped
  <2> QED BY <2>1, BelowPart
<1>3. Level(p, l - 1) \subseteq Level(v, l)
  BY <1>1, BelowPart
<1>4. Tidy(v, l) => Tidy(p, l - 1)
  BY <1>2 DEF Tidy
<1>5. Clean(v, l) => Clean(p, l - 1)
  BY <1>2 DEF Clean
<1>6. Fits(v, l) => Fits(p, l - 1)
  BY <1>2, <1>3 DEF Fits
<1> QED
  BY <1>1, <1>4, <1>5, <1>6

LEMMA TopLevel ==
  ASSUME NEW l \in 0 .. Top, NEW v
  PROVE  /\ Tidy(v, l) /\ v.kind = "map" => IsInjective(v.keys)
         /\ Clean(v, l) => ~ Mark(v)
         /\ Fits(v, l) => Fit(v) /\ l # 0
<1>1. 0 \in 0 .. l /\ v \in Level(v, 0)
  BY LevelIs, TopTyped
<1> QED
  BY <1>1 DEF Tidy, Clean, Fits

LEMMA PartOfValue ==
  ASSUME NEW v \in Values, v.kind \in {"list", "map"}
  PROVE  /\ v.items \in Seq(Values) /\ DOMAIN v.items = 1 .. Len(v.items)
         /\ \A i \in 1 .. Len(v.items) :
              v.items[i] \in Values /\ v.items[i] \in Parts(v)
<1>1. v.items \in Seq(Values)
  BY ValueForms DEF Plain
<1>2. Parts(v) = {v.items[i] : i \in DOMAIN v.items}
  BY PartsOf
<1> QED
  BY <1>1, <1>2

(* A container comes through as a whole if all of its items do.            *)
LEMMA ItemByItem ==
  ASSUME NEW l, NEW v \in Values, v.kind \in {"list", "map"},
         Len(v.items) <= MaxItems,
         v.kind = "map" => IsInjective(v.keys)
  PROVE  LET c == IF v.kind = "list" THEN AsList(l, v) ELSE AsMap(l, v)
         IN /\ c = Container(v.kind, Each(l, v.items))
            /\ \A i \in 1 .. Len(v.items) : JsonSafe[l - 1][v.items[i]] \in Parts(c)
            /\ (\A i \in 1 .. Len(v.items) :
                  JsonSafe[l - 1][v.items[i]] = Written[l - 1][v.items[i]])
                 => c = Container(v.kind, EachWhole(l, v.items))
<1> DEFINE c == IF v.kind = "list" THEN AsList(l, v) ELSE AsMap(l, v)
<1>1. c = Container(v.kind, Each(l, v.items))
  BY ListForm, MapForm
<1>2. DOMAIN v.items = 1 .. Len(v.items)
  BY PartOfValue
<1>3. Parts(c) = Range(Each(l, v.items))
  BY <1>1, ContainerIs
<1> HIDE DEF c
<1>4. \A i \in 1 .. Len(v.items) : JsonSafe[l - 1][v.items[i]] \in Parts(c)
  BY <1>2, <1>3 DEF Each, Range
<1>5. ASSUME \A i \in 1 .. Len(v.items) :
               JsonSafe[l - 1][v.items[i]] = Written[l - 1][v.items[i]]
      PROVE  c = Container(v.kind, EachWhole(l, v.items))
  <2>1. Each(l, v.items) = EachWhole(l, v.items)
    BY <1>2, <1>5 DEF Each, EachWhole
  <2> QED BY <1>1, <2>1
<1> QED
  BY <1>1, <1>4, <1>5 DEF c

(***************************************************************************)
(* Nothing is lost without a mark                                          *)
(***************************************************************************)
LEMMA CleanIsWhole ==
  \A l \in 0 .. Top : \A v \in Values :
    Tidy(v, l) /\ Clean(JsonSafe[l][v], l) => JsonSafe[l][v] = Written[l][v]
<1> DEFINE Good(l) ==
             \A v \in Values :
               Tidy(v, l) /\ Clean(JsonSafe[l][v], l)
                 => JsonSafe[l][v] = Written[l][v]
           G == {l \in 0 .. Top : Good(l)}
<1>1. \A n : Mark(Clipped(n))
  BY DEF Mark, Clipped
<1>2. 0 \in G
  <2>1. 0 \in 0 .. Top
    BY TopTyped
  <2>2. \A v \in Values : ~ Clean(JsonSafe[0][v], 0)
    BY <1>1, <2>1, SafeForms, TopLevel
  <2> QED BY <2>1, <2>2
<1>3. ASSUME NEW m \in 0 .. Top - 1, m \in G
      PROVE  m + 1 \in G
  <2> DEFINE l == m + 1
  <2>1. /\ l \in 1 .. Top /\ l \in 0 .. Top /\ l # 0 /\ l - 1 = m /\ m + 1 = l
        /\ m \in 0 .. Top /\ l - 1 \in 0 .. Top
    BY TopTyped
  <2>2. Good(m)
    BY <1>3
  <2> HIDE DEF l
  <2>3. ASSUME NEW v \in Values, Tidy(v, l), Clean(JsonSafe[l][v], l)
        PROVE  JsonSafe[l][v] = Written[l][v]
    <3> DEFINE c == JsonSafe[l][v]
    <3>1. ~ Mark(c)
      BY <2>1, <2>3, TopLevel
    <3>2. \A w \in Values : JsonSize(JsonSafe[l - 1][w]) \in Nat
      BY <2>1, SizeBounded
    <3>3. \A d : JsonSize(d) \in Nat /\ c = ClipNormalized(d) => c = d
      BY <1>1, <3>1 DEF ClipNormalized
    <3> HIDE DEF c
    <3>4. CASE v.kind = "text"
      <4>1. c = ClipText(v.size) /\ v = Text(v.size)
        BY <2>1, <3>4, SafeForms, ValueForms DEF Plain, Text, c
      <4>2. c = v
        BY <1>1, <3>1, <4>1 DEF ClipText
      <4> QED BY <2>1, <3>4, <4>2, WrittenForms DEF c
    <3>5. CASE v.kind = "scalar"
      <4>1. c = ClipNormalized(v)
        BY <2>1, <3>5, SafeForms DEF c
      <4>2. JsonSize(v) \in Nat
        BY <2>1, <3>2, <3>5, SizesBelow
      <4>3. c = v
        BY <3>3, <4>1, <4>2
      <4> QED BY <2>1, <3>5, <4>3, WrittenForms DEF c
    <3>6. CASE v.kind = "bytes"
      <4>1. c = ClipNormalized(FromBytes(v.size))
        BY <2>1, <3>6, SafeForms DEF c
      <4>2. c = FromBytes(v.size)
        BY <2>1, <3>2, <3>3, <3>6, <4>1, SizesBelow
      <4>3. Mark(Base64(MaxCell, TRUE))
        BY DEF Mark, Base64
      <4>4. c = Base64(v.size, FALSE)
        BY <3>1, <4>2, <4>3 DEF FromBytes
      <4> QED BY <2>1, <3>6, <4>4, WrittenForms DEF c
    <3>7. CASE v.kind = "enum"
      <4>1. c = ClipNormalized(JsonSafe[m][v.of]) /\ v.of \in Values
        BY <2>1, <3>7, SafeForms, ValueForms DEF Plain, c
      <4>2. c = JsonSafe[m][v.of]
        BY <2>1, <3>2, <3>3, <4>1
      <4>3. Clean(c, m)
        <5>1. \A n \in 0 .. m : n \in 0 .. l
          BY <2>1
        <5> QED BY <2>3, <5>1 DEF Clean, c
      <4>4. Tidy(v.of, m)
        BY <2>1, <2>3, <3>7, PartsOf, Inherited
      <4> QED BY <2>1, <2>2, <3>7, <4>1, <4>2, <4>3, <4>4, WrittenForms DEF c
    <3>8. CASE v.kind \in {"list", "map"}
      <4> DEFINE d == IF v.kind = "list" THEN AsList(l, v) ELSE AsMap(l, v)
      <4>1. c = ClipNormalized(d) /\ JsonSize(d) \in Nat
        BY <2>1, <3>2, <3>8, SafeForms, SizesBelow DEF c
      <4>2. c = d
        BY <3>3, <4>1
      <4>3. Len(v.items) <= MaxItems
        <5>1. Len(v.items) \in Nat /\ MaxItems \in Nat
          BY <3>8, PartOfValue, LimitsAssumption
        <5>2. ASSUME Len(v.items) > MaxItems
              PROVE  FALSE
          <6>1. Marker \in Parts(c)
            BY <3>8, <4>2, <5>2, ListForm, MapForm
          <6>2. Clean(Marker, l - 1)
            BY <2>1, <2>3, <6>1, Inherited DEF c
          <6>3. Mark(Marker)
            BY DEF Mark, Marker
          <6> QED BY <2>1, <6>2, <6>3, TopLevel
        <5> QED BY <5>1, <5>2
      <4>4. v.kind = "map" => IsInjective(v.keys)
        BY <2>1, <2>3, TopLevel
      <4> HIDE DEF d
      <4>5. /\ \A i \in 1 .. Len(v.items) : JsonSafe[l - 1][v.items[i]] \in Parts(d)
            /\ (\A i \in 1 .. Len(v.items) :
                  JsonSafe[l - 1][v.items[i]] = Written[l - 1][v.items[i]])
                 => d = Container(v.kind, EachWhole(l, v.items))
        BY <3>8, <4>3, <4>4, ItemByItem DEF d
      <4>6. ASSUME NEW i \in 1 .. Len(v.items)
            PROVE  JsonSafe[l - 1][v.items[i]] = Written[l - 1][v.items[i]]
        <5>1. v.items[i] \in Values /\ Tidy(v.items[i], l - 1)
          BY <2>1, <2>3, <3>8, PartOfValue, Inherited
        <5>2. Clean(JsonSafe[l - 1][v.items[i]], l - 1)
          BY <2>1, <2>3, <4>2, <4>5, Inherited DEF c
        <5> QED BY <2>1, <2>2, <5>1, <5>2
      <4> QED BY <2>1, <3>8, <4>2, <4>5, <4>6, WrittenForms DEF c
    <3> QED
      BY <3>4, <3>5, <3>6, <3>7, <3>8, ValueForms DEF Plain
  <2>4. Good(l)
    BY <2>3
  <2> QED BY <2>1, <2>4
<1>4. \A l \in 0 .. Top : l \in G
  <2> HIDE DEF G
  <2> QED BY <1>2, <1>3, Climb, TopTyped
<1> QED
  BY <1>4

(***************************************************************************)
(* Nothing is marked in vain                                               *)
(***************************************************************************)
LEMMA WrittenSized ==
  \A l \in 0 .. Top : \A v \in Values :
    Level(v, l) = {} =>
      JsonSize(Written[l][v]) \in Nat /\ Written[l][v] # Marker
<1> DEFINE Good(l) ==
             \A v \in Values :
               Level(v, l) = {} =>
                 JsonSize(Written[l][v]) \in Nat /\ Written[l][v] # Marker
           G == {l \in 0 .. Top : Good(l)}
<1>1. 0 \in G
  BY LevelIs, TopTyped
<1>2. ASSUME NEW m \in 0 .. Top - 1, m \in G
      PROVE  m + 1 \in G
  <2> DEFINE l == m + 1
  <2>1. /\ l \in 1 .. Top /\ l \in 0 .. Top /\ l - 1 = m /\ m + 1 = l
        /\ m \in 0 .. Top
    BY TopTyped
  <2>2. Good(m)
    BY <1>2
  <2> HIDE DEF l
  <2>3. ASSUME NEW v \in Values, Level(v, l) = {}
        PROVE  JsonSize(Written[l][v]) \in Nat /\ Written[l][v] # Marker
    <3>1. \A p \in Parts(v) : Level(p, m) = {}
      BY <2>1, <2>3, BelowPart
    <3>2. CASE Plain(v)
      <4>1. Marker.kind = "marker"
        BY DEF Marker
      <4>2. v.size \in Nat
        BY <3>2, ValueForms DEF Plain
      <4>4. CASE v.kind = "bytes"
        <5>1. Written[l][v] = Base64(v.size, FALSE)
          BY <2>1, <4>4, WrittenForms
        <5>2. JsonSize(Base64(v.size, FALSE)) \in Nat
          BY <4>2, LeafSizes
        <5>3. Base64(v.size, FALSE).kind = "base64"
          BY DEF Base64
        <5> QED BY <4>1, <5>1, <5>2, <5>3
      <4>5. CASE v.kind \in {"scalar", "text"}
        <5>1. Written[l][v] = v
          BY <2>1, <4>5, WrittenForms
        <5>2. JsonSize(v) \in Nat
          BY <4>2, <4>5 DEF JsonSize
        <5> QED BY <4>1, <4>5, <5>1, <5>2
      <4> QED BY <3>2, <4>4, <4>5 DEF Plain
    <3>3. CASE v.kind = "enum"
      <4>1. v.of \in Values /\ Level(v.of, m) = {}
        BY <3>1, <3>3, ValueForms, PartsOf DEF Plain
      <4>2. Written[l][v] = Written[m][v.of]
        BY <2>1, <3>3, WrittenForms
      <4>3. JsonSize(Written[m][v.of]) \in Nat /\ Written[m][v.of] # Marker
        BY <2>2, <4>1
      <4> QED BY <4>2, <4>3
    <3>4. CASE v.kind \in {"list", "map"}
      <4> DEFINE S == {Written[m][p] : p \in {w \in Values : Level(w, m) = {}}}
                 s == EachWhole(l, v.items)
      <4>1. \A d \in S : JsonSize(d) \in Nat
        BY <2>2
      <4>2. s \in Seq(S)
        <5>1. s \in [1 .. Len(v.items) -> S]
          BY <2>1, <3>1, <3>4, PartOfValue DEF EachWhole
        <5>2. Len(v.items) \in Nat
          BY <3>4, PartOfValue
        <5> HIDE DEF s, S
        <5> QED BY <5>1, <5>2
      <4>3. Written[l][v] = Container(v.kind, s)
        BY <2>1, <3>4, WrittenForms
      <4> HIDE DEF s, S
      <4>4. JsonSize(Written[l][v]) \in Nat
        BY <3>4, <4>1, <4>2, <4>3, ContainerSize
      <4>5. Written[l][v].kind = v.kind /\ Marker.kind = "marker"
        BY <3>4, <4>3, ContainerIs DEF Marker
      <4> QED BY <3>4, <4>4, <4>5
    <3> QED BY <3>2, <3>3, <3>4, ValueForms
  <2>4. Good(l)
    BY <2>3
  <2> QED BY <2>1, <2>4
<1>3. \A l \in 0 .. Top : l \in G
  <2> HIDE DEF G
  <2> QED BY <1>1, <1>2, Climb, TopTyped
<1> QED
  BY <1>3

LEMMA FitIsWhole ==
  \A l \in 0 .. Top : \A v \in Values :
    /\ Tidy(v, l) /\ Fits(v, l)
    /\ v.kind # "text" => JsonSize(Written[l][v]) <= MaxCell
    => JsonSafe[l][v] = Written[l][v]
<1> DEFINE Short(l, v) == v.kind # "text" => JsonSize(Written[l][v]) <= MaxCell
           Good(l) ==
             \A v \in Values :
               Tidy(v, l) /\ Fits(v, l) /\ Short(l, v)
                 => JsonSafe[l][v] = Written[l][v]
           G == {l \in 0 .. Top : Good(l)}
<1>1. 0 \in G
  BY TopLevel, TopTyped
<1>2. ASSUME NEW m \in 0 .. Top - 1, m \in G
      PROVE  m + 1 \in G
  <2> DEFINE l == m + 1
  <2>1. /\ l \in 1 .. Top /\ l \in 0 .. Top /\ l # 0 /\ l - 1 = m /\ m + 1 = l
        /\ m \in 0 .. Top
    BY TopTyped
  <2>2. Good(m)
    BY <1>2
  <2> HIDE DEF l
  <2>3. ASSUME NEW v \in Values, Tidy(v, l), Fits(v, l), Short(l, v)
        PROVE  JsonSafe[l][v] = Written[l][v]
    <3>0. MaxCell \in Nat
      BY LimitsAssumption
    <3>1. \A d : JsonSize(d) <= MaxCell => ClipNormalized(d) = d
      BY DEF ClipNormalized
    <3>2. Fit(v)
      BY <2>1, <2>3, TopLevel
    <3>3. CASE v.kind = "text"
      <4>1. v = Text(v.size) /\ v.size <= MaxCell
        BY <3>2, <3>3, ValueForms DEF Plain, Text, Fit
      <4>2. JsonSafe[l][v] = ClipText(v.size)
        BY <2>1, <3>3, SafeForms
      <4> QED BY <2>1, <3>3, <4>1, <4>2, WrittenForms DEF ClipText
    <3>4. CASE v.kind = "scalar"
      <4>1. Written[l][v] = v /\ JsonSafe[l][v] = ClipNormalized(v)
        BY <2>1, <3>4, WrittenForms, SafeForms
      <4> QED BY <2>3, <3>1, <3>4, <4>1
    <3>5. CASE v.kind = "bytes"
      <4>1. /\ Written[l][v] = Base64(v.size, FALSE) /\ v.size \in Nat
            /\ JsonSafe[l][v] = ClipNormalized(FromBytes(v.size))
        BY <2>1, <3>5, WrittenForms, SafeForms, ValueForms DEF Plain
      <4>2. JsonSize(Base64(v.size, FALSE)) <= MaxCell
        BY <2>3, <3>5, <4>1
      <4>3. v.size <= MaxCell
        <5> DEFINE a == JsonSize(Base64(v.size, FALSE))
        <5>1. a \in Nat /\ v.size <= a /\ a <= MaxCell
          BY <4>1, <4>2, LeafSizes
        <5> HIDE DEF a
        <5> QED BY <3>0, <4>1, <5>1
      <4>4. FromBytes(v.size) = Base64(v.size, FALSE)
        BY <4>3 DEF FromBytes
      <4> QED BY <3>1, <4>1, <4>2, <4>4
    <3>6. CASE v.kind = "enum"
      <4>1. /\ Written[l][v] = Written[m][v.of] /\ v.of \in Values
            /\ JsonSafe[l][v] = ClipNormalized(JsonSafe[m][v.of])
        BY <2>1, <3>6, WrittenForms, SafeForms, ValueForms DEF Plain
      <4>2. Tidy(v.of, m) /\ Fits(v.of, m)
        BY <2>1, <2>3, <3>6, PartsOf, Inherited
      <4>3. JsonSize(Written[m][v.of]) <= MaxCell
        BY <2>3, <3>6, <4>1
      <4>4. JsonSafe[m][v.of] = Written[m][v.of]
        BY <2>2, <4>1, <4>2, <4>3
      <4> QED BY <3>1, <4>1, <4>3, <4>4
    <3>7. CASE v.kind \in {"list", "map"}
      <4> DEFINE d == IF v.kind = "list" THEN AsList(l, v) ELSE AsMap(l, v)
                 s == EachWhole(l, v.items)
                 S == {Written[m][p] : p \in {w \in Values : Level(w, m) = {}}}
      <4>1. JsonSafe[l][v] = ClipNormalized(d)
        BY <2>1, <3>7, SafeForms
      <4>2. Written[l][v] = Container(v.kind, s) /\ JsonSize(Written[l][v]) <= MaxCell
        BY <2>1, <2>3, <3>7, WrittenForms
      <4>3. \A i \in 1 .. Len(v.items) :
              /\ v.items[i] \in Values /\ v.items[i] \in Parts(v)
              /\ Level(v.items[i], m) = {}
              /\ Tidy(v.items[i], m) /\ Fits(v.items[i], m)
        <5>1. \A i \in 1 .. Len(v.items) :
                /\ v.items[i] \in Values /\ v.items[i] \in Parts(v)
                /\ Tidy(v.items[i], m) /\ Fits(v.items[i], m)
          BY <2>1, <2>3, <3>7, PartOfValue, Inherited
        <5> QED BY <5>1 DEF Fits
      <4>4. DOMAIN v.items = 1 .. Len(v.items) /\ Len(v.items) \in Nat
        BY <3>7, PartOfValue
      <4>5. /\ s \in [1 .. Len(v.items) -> S]
            /\ \A i \in 1 .. Len(v.items) : s[i] = Written[m][v.items[i]]
        BY <2>1, <4>3, <4>4 DEF EachWhole
      <4>6. \A e \in S : JsonSize(e) \in Nat /\ e # Marker
        BY <2>1, WrittenSized
      <4> HIDE DEF d, s, S
      <4>7. s \in Seq(S) /\ Len(s) = Len(v.items)
        BY <4>4, <4>5
      <4>8. /\ JsonSize(Container(v.kind, s)) \in Nat
            /\ \A i \in 1 .. Len(s) :
                 s[i] # Marker => JsonSize(s[i]) <= JsonSize(Container(v.kind, s))
        BY <3>7, <4>6, <4>7, ContainerSize
      <4>9. ASSUME NEW i \in 1 .. Len(v.items)
            PROVE  JsonSafe[m][v.items[i]] = Written[m][v.items[i]]
        <5> DEFINE a == JsonSize(s[i])
                   b == JsonSize(Container(v.kind, s))
        <5>1. a \in Nat /\ b \in Nat /\ a <= b /\ b <= MaxCell
          BY <4>2, <4>5, <4>6, <4>7, <4>8
        <5>2. a <= MaxCell
          <6> HIDE DEF a, b
          <6> QED BY <3>0, <5>1
        <5>3. JsonSize(Written[m][v.items[i]]) <= MaxCell
          BY <4>5, <5>2
        <5> QED BY <2>2, <4>3, <5>3
      <4>10. Len(v.items) <= MaxItems /\ (v.kind = "map" => IsInjective(v.keys))
        BY <2>1, <2>3, <3>2, <3>7, TopLevel DEF Fit
      <4>11. d = Container(v.kind, s)
        BY <2>1, <3>7, <4>9, <4>10, ItemByItem DEF d, s
      <4> QED BY <3>1, <4>1, <4>2, <4>11
    <3> QED
      BY <3>3, <3>4, <3>5, <3>6, <3>7, ValueForms DEF Plain
  <2>4. Good(l)
    BY <2>3
  <2> QED BY <2>1, <2>4
<1>3. \A l \in 0 .. Top : l \in G
  <2> HIDE DEF G
  <2> QED BY <1>1, <1>2, Climb, TopTyped
<1> QED
  BY <1>3

(***************************************************************************)
(* The specification                                                       *)
(***************************************************************************)
IInv == value \in Values /\ cell \in {Pending, JsonSafe[Top][value]}

(* A cell holds what _json_safe_value makes of its value, or nothing yet.  *)
THEOREM CellFilled == Spec => []IInv
<1>1. Init => IInv
  BY DEF Init, IInv
<1>2. IInv /\ [Fill]_vars => IInv'
  BY DEF IInv, Fill, vars
<1> QED
  BY <1>1, <1>2, PTL DEF Spec

(* No cell takes more bytes than its limit, its quotes and an ellipsis,    *)
(* has more items at any level than their limit and a mark, or is nested   *)
(* deeper than the depth limit, whatever the driver returned.              *)
THEOREM CellsBounded == Spec => []CellBounded
<1>1. IInv => CellBounded
  <2> SUFFICES ASSUME IInv, cell # Pending PROVE CellBounded
    BY DEF CellBounded
  <2>1. value \in Values /\ cell = JsonSafe[Top][value] /\ Top \in 0 .. Top
    BY TopTyped DEF IInv
  <2>2. JsonSize(cell) <= MaxCell + Ellipsis + 2
    BY <2>1, SizeBounded
  <2>3. /\ \A n \in 0 .. Top : \A c \in Level(cell, n) : Narrow(c)
        /\ Level(cell, Top + 1) = {}
    BY <2>1, CellsNarrow
  <2>4. \A c \in Anywhere(cell) : Narrow(c)
    BY <2>3 DEF Anywhere
  <2> QED
    BY <2>2, <2>3, <2>4 DEF CellBounded, Narrow
<1> QED
  BY <1>1, CellFilled, PTL

(* A cell that shows no mark at any level holds the whole value, unless    *)
(* two keys of a mapping have the same text.                               *)
THEOREM LossesAreMarked == Spec => []LossIsMarked
<1>1. IInv => LossIsMarked
  <2> SUFFICES ASSUME IInv, cell # Pending, KeysDistinct(value), ~ Marked(cell)
               PROVE  cell = Whole(value)
    BY DEF LossIsMarked
  <2>1. value \in Values /\ cell = JsonSafe[Top][value] /\ Top \in 0 .. Top
    BY TopTyped DEF IInv
  <2>2. Tidy(value, Top)
    BY DEF Tidy, KeysDistinct, Anywhere
  <2>3. Clean(cell, Top)
    BY DEF Clean, Marked, Anywhere
  <2> QED
    BY <2>1, <2>2, <2>3, CleanIsWhole DEF Whole
<1> QED
  BY <1>1, CellFilled, PTL

(* What is within every limit comes through whole and without a mark.      *)
THEOREM NothingMarkedInVain == Spec => []MarkedOnlyIfLost
<1>1. IInv => MarkedOnlyIfLost
  <2> SUFFICES ASSUME IInv, cell # Pending, KeysDistinct(value), Within(value),
                      value.kind # "text" => JsonSize(Whole(value)) <= MaxCell
               PROVE  cell = Whole(value)
    BY DEF MarkedOnlyIfLost
  <2>1. value \in Values /\ cell = JsonSafe[Top][value] /\ Top \in 0 .. Top
    BY TopTyped DEF IInv
  <2>2. Tidy(value, Top)
    BY DEF Tidy, KeysDistinct, Anywhere
  <2>3. Fits(value, Top)
    BY DEF Fits, Fit, Within, Anywhere
  <2> QED
    BY <2>1, <2>2, <2>3, FitIsWhole DEF Whole
<1> QED
  BY <1>1, CellFilled, PTL
=============================================================================
