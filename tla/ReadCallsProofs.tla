--------------------------- MODULE ReadCallsProofs --------------------------
(***************************************************************************)
(* Proofs about ReadCalls for any connections, grants, tables and limits:  *)
(* a call stays with the connection it resolved, ping_all answers for each *)
(* of its names, capabilities is true, and paging misses and repeats       *)
(* nothing that stays.                                                     *)
(***************************************************************************)
EXTENDS ReadCalls, SequenceTheorems, FiniteSetTheorems, TLAPS

(* How many of S come before x.                                            *)
Below(S, x) == {y \in S : y < x}
Rank(S, x) == Cardinality(Below(S, x))

Entry == [connection : Names, ok : BOOLEAN, on : Names \cup {NoName}]
Named == [on : Names \cup {NoName}, table : Tables]

Shape ==
  /\ TypeOK
  /\ listed \in Seq(Names) /\ entries \in Seq(Entry)
  /\ page \in Seq(Tables) /\ pages \in Seq(Named)

(* ping_all: an entry for each name that it is done with, about that name. *)
Progress ==
  /\ pc = "names" => entries = <<>> /\ listed = <<>>
  /\ pc \in {"resolve", "engine", "run"} => Len(entries) < Len(listed)
  /\ pc = "done" =>
       /\ Len(entries) = Len(listed)
       /\ answer = "ok" \/ (answer = "denied" /\ listed = <<>>)
  /\ pc \in {"engine", "run"} => name = listed[Len(entries) + 1]
Reported ==
  \A i \in 1 .. Len(entries) :
    /\ entries[i].connection = listed[i]
    /\ entries[i].ok => entries[i].on = listed[i]
Pings ==
  /\ op = "ping_all" => asked = NoName /\ pc # "dialect" /\ Progress
  /\ op # "ping_all" => pc # "names" /\ entries = <<>>
  /\ Reported

(* A call runs where it was told to, and where its look-ups said.          *)
Route ==
  /\ answer = "none" <=> pc # "done"
  /\ pc = "run" => target # NoName /\ op # "pool"
  /\ target # NoName =>
       pc \in {"run", "done"} /\ BackendOf[target] \in Installed
  /\ name # NoName /\ target # NoName => target = name
  /\ asked # NoName => name \in {asked, NoName} /\ target \in {asked, NoName}
  /\ pc = "dialect" => op \in LooksUpDialect
  /\ op \in NamesFirst =>
       (pc \in {"dialect", "engine", "run"} \/ target # NoName
          => name # NoName)

(* What it found unsupported is, and what it went on with is not.          *)
Truth ==
  /\ answer = "unsupported" => Unsupported
  /\ pc \in {"engine", "run"} \/ target # NoName => ~ Unsupported
  /\ target # NoName /\ answer = "ok" /\ op # "pool" =>
       guarded = EnforcesReadOnly(target)

(* Paging: the names returned are those before the offset, as far as they  *)
(* were there from the start, and none of them comes again.                *)
Watching == op = "list" /\ asked # NoName
Counted ==
  /\ Len(pages) = offset + Len(page)
  /\ page # <<>> => op = "list" /\ answer = "ok"
  /\ op # "list" => pages = <<>>
AllBefore ==
  \A t \in tables[asked] :
    <<asked, t>> \notin created =>
      Seen(t) \/ Len(pages) <= Rank(tables[asked], t)
Increasing ==
  /\ \A j \in 1 .. Len(pages) : \A i \in 1 .. j - 1 :
       pages[i].table < pages[j].table
  /\ \A x \in tables[asked] :
       Len(pages) <= Rank(tables[asked], x) =>
         \A i \in 1 .. Len(pages) : pages[i].table < x
AllSeen ==
  answer = "ok" /\ page = <<>> =>
    \A t \in tables[asked] : <<asked, t>> \notin created => Seen(t)
Pager ==
  /\ Counted
  /\ Watching /\ dropped = {} => AllBefore /\ AllSeen
  /\ Watching /\ created = {} => Increasing

IInv == Shape /\ Pings /\ Route /\ Truth /\ Pager

(***************************************************************************)
(* The order of a listing                                                  *)
(***************************************************************************)
(* What comes before x in a finite set is finite, so it can be counted.    *)
LEMMA RankTyped ==
  ASSUME NEW S, IsFiniteSet(S), NEW x
  PROVE  IsFiniteSet(Below(S, x)) /\ Rank(S, x) \in Nat
<1> DEFINE B == Below(S, x)
<1>1. B \in SUBSET S
  BY DEF Below
<1>2. IsFiniteSet(B)
  <2> HIDE DEF B
  <2> QED
    BY <1>1, FS_Subset
<1> QED
  BY <1>2, FS_CardinalityType DEF Rank

(* A number comes no earlier in a larger set, nor does a larger number.    *)
LEMMA RankGrows ==
  ASSUME NEW S, NEW T, IsFiniteSet(T), NEW x, NEW y,
         Below(S, x) \subseteq Below(T, y)
  PROVE  Rank(S, x) <= Rank(T, y)
<1> DEFINE B == Below(T, y)
           A == Below(S, x)
<1>1. IsFiniteSet(B) /\ A \in SUBSET B
  BY RankTyped
<1>2. Cardinality(A) <= Cardinality(B)
  <2> HIDE DEF A, B
  <2> QED
    BY <1>1, FS_Subset
<1> QED
  BY <1>2 DEF Rank

(* With more tables a name comes no earlier in their listing.              *)
LEMMA RankOfMore ==
  ASSUME NEW S, NEW T, S \subseteq T, IsFiniteSet(T), NEW x
  PROVE  Rank(S, x) <= Rank(T, x)
BY RankGrows DEF Below

(* The larger of two numbers comes no earlier.                             *)
LEMMA RankOrdered ==
  ASSUME NEW S, S \subseteq Nat, IsFiniteSet(S), NEW x \in Nat, NEW y \in Nat,
         x <= y
  PROVE  Rank(S, x) <= Rank(S, y)
<1>1. \A z \in S : z < x => z < y
  <2> SUFFICES ASSUME NEW z \in S, z < x PROVE z < y
    OBVIOUS
  <2>1. z \in Nat
    OBVIOUS
  <2> QED
    BY <2>1
<1>2. Below(S, x) \subseteq Below(S, y)
  BY <1>1, Zenon DEF Below
<1> QED
  BY <1>2, RankGrows

(* A number of S comes before any larger one.                              *)
LEMMA RankStrict ==
  ASSUME NEW S, S \subseteq Nat, IsFiniteSet(S), NEW x \in S, NEW y \in Nat,
         x < y
  PROVE  Rank(S, x) < Rank(S, y)
<1> DEFINE A == Below(S, x)
           B == Below(S, y)
<1>0. \A z \in S : z < x => z < y
  <2> SUFFICES ASSUME NEW z \in S, z < x PROVE z < y
    OBVIOUS
  <2>1. z \in Nat /\ x \in Nat
    OBVIOUS
  <2> QED
    BY <2>1
<1>1. A \in SUBSET B /\ x \in B /\ x \notin A
  <2>1. x \in Nat /\ ~ (x < x)
    OBVIOUS
  <2> QED
    BY <1>0, <2>1, Zenon DEF Below
<1>2. IsFiniteSet(B) /\ Cardinality(A) \in Nat /\ Cardinality(B) \in Nat
  BY RankTyped DEF Rank
<1>3. Cardinality(A) <= Cardinality(B) /\ Cardinality(A) # Cardinality(B)
  <2> HIDE DEF A, B
  <2> QED
    BY <1>1, <1>2, FS_Subset
<1>4. Cardinality(A) < Cardinality(B)
  <2> HIDE DEF A, B
  <2> QED
    BY <1>2, <1>3
<1> QED
  BY <1>4 DEF Rank

(* The numbers of S have the ranks from 0 up, each one its own.            *)
LEMMA RankBounded ==
  ASSUME NEW S, S \subseteq Nat, IsFiniteSet(S), NEW x \in S
  PROVE  Rank(S, x) \in 0 .. Cardinality(S) - 1
<1> DEFINE A == Below(S, x)
<1>1. A \in SUBSET S /\ x \notin A
  <2>1. x \in Nat /\ ~ (x < x)
    OBVIOUS
  <2> QED
    BY <2>1, Zenon DEF Below
<1>2. Cardinality(A) \in Nat /\ Cardinality(S) \in Nat
  BY RankTyped, FS_CardinalityType DEF Rank
<1>3. Cardinality(A) <= Cardinality(S) /\ Cardinality(A) # Cardinality(S)
  <2> HIDE DEF A
  <2> QED
    BY <1>1, <1>2, FS_Subset
<1>4. Cardinality(A) \in 0 .. Cardinality(S) - 1
  <2> HIDE DEF A
  <2> QED
    BY <1>2, <1>3
<1> QED
  BY <1>4 DEF Rank

(* Two numbers of S with the same rank are one.                            *)
LEMMA RankInjective ==
  ASSUME NEW S, S \subseteq Nat, IsFiniteSet(S), NEW x \in S, NEW y \in S,
         Rank(S, x) = Rank(S, y)
  PROVE  x = y
<1>1. x \in Nat /\ y \in Nat /\ Rank(S, x) \in Nat /\ Rank(S, y) \in Nat
  BY RankTyped
<1>2. x < y => Rank(S, x) < Rank(S, y)
  BY <1>1, RankStrict
<1>3. y < x => Rank(S, y) < Rank(S, x)
  BY <1>1, RankStrict
<1> QED
  BY <1>1, <1>2, <1>3

(* Every rank below the size of S is that of some number of S.             *)
LEMMA RanksTaken ==
  ASSUME NEW S, S \subseteq Nat, IsFiniteSet(S),
         NEW k \in 0 .. Cardinality(S) - 1
  PROVE  \E x \in S : Rank(S, x) = k
<1> DEFINE T == 0 .. Cardinality(S) - 1
           f == [x \in S |-> Rank(S, x)]
<1>1. f \in Injection(S, T)
  <2>1. f \in [S -> T]
    BY RankBounded
  <2>2. \A x, y \in S : f[x] = f[y] => x = y
    BY RankInjective
  <2> QED
    BY <2>1, <2>2 DEF Injection, IsInjective
<1>2. IsFiniteSet(T) /\ Cardinality(T) = Cardinality(S)
  <2>1. Cardinality(S) \in Nat
    BY FS_CardinalityType
  <2>2. 0 \in Int /\ Cardinality(S) - 1 \in Int
    BY <2>1
  <2>3. /\ IsFiniteSet(0 .. Cardinality(S) - 1)
        /\ Cardinality(0 .. Cardinality(S) - 1)
             = IF 0 > Cardinality(S) - 1 THEN 0
               ELSE Cardinality(S) - 1 - 0 + 1
    BY <2>2, FS_Interval
  <2> QED
    BY <2>1, <2>3
<1>3. f \in Surjection(S, T)
  <2> HIDE DEF f, T
  <2> QED
    BY <1>1, <1>2, FS_Injection
<1>4. PICK x \in S : f[x] = k
  BY <1>3 DEF Surjection
<1> QED
  BY <1>4

(* So the listing of a set is its numbers, each after those below it.      *)
LEMMA ListedInOrder ==
  ASSUME NEW S, S \subseteq Nat, IsFiniteSet(S)
  PROVE  /\ Ascending(S) \in Seq(S) /\ Len(Ascending(S)) = Cardinality(S)
         /\ Cardinality(S) \in Nat
         /\ \A i \in 1 .. Cardinality(S) :
              Ascending(S)[i] \in S /\ Rank(S, Ascending(S)[i]) = i - 1
<1>0. Cardinality(S) \in Nat
  BY FS_CardinalityType
<1>1. \A i \in 1 .. Cardinality(S) :
        Ascending(S)[i] \in S /\ Rank(S, Ascending(S)[i]) = i - 1
  <2> SUFFICES ASSUME NEW i \in 1 .. Cardinality(S)
               PROVE  /\ Ascending(S)[i] \in S
                      /\ Rank(S, Ascending(S)[i]) = i - 1
    OBVIOUS
  <2>1. i - 1 \in 0 .. Cardinality(S) - 1
    BY <1>0
  <2>2. \E x \in S : Cardinality({y \in S : y < x}) = i - 1
    BY <2>1, RanksTaken DEF Rank, Below
  <2> DEFINE a == CHOOSE x \in S : Cardinality({y \in S : y < x}) = i - 1
  <2>3. a \in S /\ Cardinality({y \in S : y < a}) = i - 1
    BY <2>2
  <2>4. Ascending(S)[i] = a
    BY DEF Ascending
  <2> HIDE DEF a
  <2> QED
    BY <2>3, <2>4 DEF Rank, Below
<1>2. Ascending(S) = [i \in 1 .. Cardinality(S) |-> Ascending(S)[i]]
  <2> DEFINE n == Cardinality(S)
             Nth(i) == CHOOSE x \in S : Cardinality({y \in S : y < x}) = i - 1
             L == Ascending(S)
  <2>1. L = [i \in 1 .. n |-> Nth(i)]
    BY DEF Ascending
  <2> HIDE DEF n, Nth, L
  <2>2. L = [i \in 1 .. n |-> L[i]]
    BY <2>1
  <2> QED
    BY <2>2 DEF n, L
<1>3. Ascending(S) \in [1 .. Cardinality(S) -> S]
  <2> DEFINE L == Ascending(S)
  <2>1. L = [i \in 1 .. Cardinality(S) |-> L[i]]
    BY <1>2
  <2>2. \A i \in 1 .. Cardinality(S) : L[i] \in S
    BY <1>1
  <2> HIDE DEF L
  <2>3. L \in [1 .. Cardinality(S) -> S]
    BY <2>1, <2>2
  <2> QED
    BY <2>3 DEF L
<1>4. Ascending(S) \in Seq(S) /\ Len(Ascending(S)) = Cardinality(S)
  <2> DEFINE L == Ascending(S)
             n == Cardinality(S)
  <2>1. L \in [1 .. n -> S] /\ n \in Nat
    BY <1>0, <1>3
  <2> HIDE DEF L, n
  <2>2. L \in Seq(S) /\ Len(L) = n
    BY <2>1
  <2> QED
    BY <2>2 DEF L, n
<1> QED
  BY <1>0, <1>1, <1>4

(* _page asks for at least one name and at most max_rows of them.          *)
LEMMA CapPositive ==
  ASSUME limit \in Limits \cup {0}
  PROVE  Cap \in 1 .. MaxRows
<1>1. limit \in Nat /\ MaxRows \in Nat \ {0}
  BY ReadCallsAssumption
<1> QED
  BY <1>1 DEF Cap

(* A slice of a sequence has the elements after m, up to n.                *)
LEMMA Cut ==
  ASSUME NEW S, NEW L \in Seq(S), NEW m \in Nat, NEW n \in 0 .. Len(L)
  PROVE  /\ SubSeq(L, m + 1, n) \in Seq(S)
         /\ Len(SubSeq(L, m + 1, n)) = IF m < n THEN n - m ELSE 0
         /\ \A i \in 1 .. n - m : SubSeq(L, m + 1, n)[i] = L[m + i]
  OBVIOUS

(* A page is the names whose ranks follow the offset, and it is empty only *)
(* if there are no such names.                                             *)
LEMMA PageIsNext ==
  ASSUME NEW S, S = tables[target], S \subseteq Nat, IsFiniteSet(S),
         limit \in Limits \cup {0}, offset \in Nat
  PROVE  /\ Page \in Seq(S) /\ Len(Page) \in 0 .. MaxRows
         /\ \A i \in 1 .. Len(Page) :
              Page[i] \in S /\ Rank(S, Page[i]) = offset + i - 1
         /\ \A x \in S :
              offset <= Rank(S, x) /\ Rank(S, x) < offset + Len(Page)
                => \E i \in 1 .. Len(Page) : Page[i] = x
         /\ Len(Page) = 0 => \A x \in S : Rank(S, x) < offset
<1> DEFINE L == Ascending(S)
           n == Cardinality(S)
           stop == IF offset + Cap < n THEN offset + Cap ELSE n
<1>1. /\ L \in Seq(S) /\ Len(L) = n /\ n \in Nat
      /\ \A i \in 1 .. n : L[i] \in S /\ Rank(S, L[i]) = i - 1
  BY ListedInOrder
<1>2. Page = SubSeq(L, offset + 1, stop)
  <2>1. Listing = L
    BY DEF Listing
  <2> HIDE DEF L, n
  <2> QED
    BY <2>1, <1>1 DEF Page, Slice
<1>3. Cap \in 1 .. MaxRows /\ MaxRows \in Nat
  BY CapPositive, ReadCallsAssumption
<1> HIDE DEF L
<1>4. stop \in 0 .. n /\ stop - offset <= MaxRows /\ stop \in Int
  BY <1>1, <1>3
<1>5. offset < n => offset < stop
  BY <1>1, <1>3
<1> HIDE DEF n, stop
<1>7. /\ Page \in Seq(S)
      /\ Len(Page) = IF offset < stop THEN stop - offset ELSE 0
      /\ \A i \in 1 .. stop - offset : Page[i] = L[offset + i]
  <2> DEFINE T == SubSeq(L, offset + 1, stop)
  <2>1. L \in Seq(S) /\ offset \in Nat /\ stop \in 0 .. Len(L)
    BY <1>1, <1>4
  <2>2. /\ T \in Seq(S)
        /\ Len(T) = IF offset < stop THEN stop - offset ELSE 0
        /\ \A i \in 1 .. stop - offset : T[i] = L[offset + i]
    BY <2>1, Cut
  <2> HIDE DEF T
  <2>3. Page = T
    BY <1>2 DEF T
  <2> QED
    BY <2>2, <2>3
<1>8. Len(Page) \in 0 .. MaxRows
  BY <1>3, <1>4, <1>7
<1>9. \A i \in 1 .. Len(Page) : offset + i \in 1 .. n /\ Page[i] = L[offset + i]
  <2> SUFFICES ASSUME NEW i \in 1 .. Len(Page)
               PROVE  offset + i \in 1 .. n /\ Page[i] = L[offset + i]
    OBVIOUS
  <2>1. offset < stop /\ i \in 1 .. stop - offset
    BY <1>4, <1>7
  <2>2. offset + i \in 1 .. n
    BY <1>1, <1>4, <2>1
  <2> QED
    BY <1>7, <2>1, <2>2
<1>10. \A i \in 1 .. Len(Page) :
         Page[i] \in S /\ Rank(S, Page[i]) = offset + i - 1
  BY <1>1, <1>9
<1>11. \A x \in S : Rank(S, x) \in 0 .. n - 1
  BY RankBounded DEF n
<1>12. ASSUME NEW x \in S,
              offset <= Rank(S, x), Rank(S, x) < offset + Len(Page)
       PROVE  \E i \in 1 .. Len(Page) : Page[i] = x
  <2> DEFINE i == Rank(S, x) - offset + 1
  <2>1. i \in 1 .. Len(Page) /\ offset + i - 1 = Rank(S, x)
    BY <1>1, <1>8, <1>11, <1>12
  <2> HIDE DEF i
  <2>2. Page[i] = x
    BY <1>10, <2>1, RankInjective
  <2> QED
    BY <2>1, <2>2
<1>13. Len(Page) = 0 => n <= offset
  BY <1>1, <1>4, <1>5, <1>7
<1>14. Len(Page) = 0 => \A x \in S : Rank(S, x) < offset
  <2> SUFFICES ASSUME Len(Page) = 0, NEW x \in S PROVE Rank(S, x) < offset
    OBVIOUS
  <2>1. n <= offset /\ Rank(S, x) \in 0 .. n - 1
    BY <1>11, <1>13
  <2> QED
    BY <1>1, <2>1
<1> QED
  BY <1>7, <1>8, <1>10, <1>12, <1>14

(***************************************************************************)
(* Resolving a name                                                        *)
(***************************************************************************)
(* A call gets the connection it names, or one it may use, or none.        *)
LEMMA FirstGranted ==
  ASSUME NEW granted, granted \subseteq Names, granted # {}
  PROVE  FirstOf(granted) \in Names
<1> DEFINE G == {i \in 1 .. Len(Registry) : Registry[i] \in granted}
<1>1. Registry \in Seq(Names) /\ Len(Registry) \in Nat
  BY RegistryAssumption
<1>2. G \subseteq Nat /\ IsFiniteSet(G) /\ G # {}
  <2>1. IsFiniteSet(1 .. Len(Registry))
    BY <1>1, FS_Interval
  <2>2. G \in SUBSET (1 .. Len(Registry)) /\ G # {}
    BY DEF Names
  <2> HIDE DEF G
  <2>3. IsFiniteSet(G)
    BY <2>1, <2>2, FS_Subset
  <2> QED
    BY <1>1, <2>2, <2>3
<1>3. PICK i \in G : Rank(G, i) = 0
  <2> HIDE DEF G
  <2>1. Cardinality(G) \in Nat /\ Cardinality(G) # 0
    BY <1>2, FS_CardinalityType, FS_EmptySet
  <2>2. 0 \in 0 .. Cardinality(G) - 1
    BY <2>1
  <2> QED
    BY <1>2, <2>2, RanksTaken
<1>4. \A j \in 1 .. i - 1 : Registry[j] \notin granted
  <2> SUFFICES ASSUME NEW j \in 1 .. i - 1, Registry[j] \in granted PROVE FALSE
    OBVIOUS
  <2>1. j \in G /\ j < i /\ j \in Nat /\ i \in Nat
    BY <1>1
  <2> HIDE DEF G
  <2>2. Rank(G, j) < Rank(G, i) /\ Rank(G, j) \in Nat
    BY <1>2, <2>1, RankStrict, RankTyped
  <2> QED
    BY <1>3, <2>2
<1>5. \E k \in 1 .. Len(Registry) :
        /\ Registry[k] \in granted
        /\ \A j \in 1 .. k - 1 : Registry[j] \notin granted
  BY <1>4
<1> QED
  BY <1>5 DEF FirstOf

(* resolve_connection gives a named connection or refuses it; without a    *)
(* name it gives a connection that the caller may use, or refuses.         *)
LEMMA ResolvedTyped ==
  ASSUME NEW granted \in Grants, NEW c \in Names \cup {NoName}
  PROVE  /\ ResolvedUnder(granted, c) \in Names \cup {NoName}
         /\ c # NoName => ResolvedUnder(granted, c) \in {c, NoName}
<1>1. Default \in Names
  BY RegistryAssumption
<1>2. granted # NoIdentity /\ granted # {} => FirstOf(granted) \in Names
  <2>1. granted # NoIdentity => granted \subseteq Names
    BY Zenon DEF Grants
  <2> QED
    BY <2>1, FirstGranted
<1>3. granted = NoIdentity => ResolvedUnder(granted, c) = NoName
  BY DEF ResolvedUnder
<1>4. granted # NoIdentity =>
        /\ ResolvedUnder(granted, c) \in Names \cup {NoName}
        /\ c # NoName => ResolvedUnder(granted, c) \in {c, NoName}
  BY <1>1, <1>2 DEF ResolvedUnder
<1> QED
  BY <1>3, <1>4

(* connection_names lists connections.                                     *)
LEMMA NamesListed ==
  connection_names \in Seq(Names)
<1> DEFINE G == {i \in 1 .. Len(Registry) : Registry[i] \in entitled}
<1>1. Registry \in Seq(Names) /\ Len(Registry) \in Nat
  BY RegistryAssumption
<1>2. G \subseteq Nat /\ IsFiniteSet(G) /\ G \subseteq 1 .. Len(Registry)
  <2>1. IsFiniteSet(1 .. Len(Registry))
    BY <1>1, FS_Interval
  <2>2. G \in SUBSET (1 .. Len(Registry))
    OBVIOUS
  <2> HIDE DEF G
  <2>3. IsFiniteSet(G)
    BY <2>1, <2>2, FS_Subset
  <2> QED
    BY <1>1, <2>2, <2>3
<1>3. /\ Cardinality(G) \in Nat
      /\ \A k \in 1 .. Cardinality(G) : Ascending(G)[k] \in G
  <2> HIDE DEF G
  <2> QED
    BY <1>2, ListedInOrder
<1>4. \A k \in 1 .. Cardinality(G) : Registry[Ascending(G)[k]] \in Names
  <2> HIDE DEF G
  <2> SUFFICES ASSUME NEW k \in 1 .. Cardinality(G)
               PROVE  Registry[Ascending(G)[k]] \in Names
    OBVIOUS
  <2>1. Ascending(G)[k] \in 1 .. Len(Registry)
    BY <1>2, <1>3
  <2> HIDE DEF Names
  <2> QED
    BY <1>1, <2>1, ElementOfSeq
<1>5. connection_names
        = [k \in 1 .. Cardinality(G) |-> Registry[Ascending(G)[k]]]
  BY DEF connection_names
<1> DEFINE n == Cardinality(G)
           F == [k \in 1 .. n |-> Registry[Ascending(G)[k]]]
<1>6. F \in [1 .. n -> Names] /\ n \in Nat
  <2>1. \A k \in 1 .. n : Registry[Ascending(G)[k]] \in Names
    BY <1>4
  <2> HIDE DEF G
  <2> QED
    BY <1>3, <2>1
<1>7. F \in Seq(Names)
  <2> HIDE DEF F, n
  <2> QED
    BY <1>6
<1> QED
  BY <1>5, <1>7

(***************************************************************************)
(* Dialects                                                                *)
(***************************************************************************)
(* The dialects of the registry and their backends.                        *)
LEMMA RegistryDialects ==
  /\ DOMAIN DIALECTS = {"sqlite", "postgres", "mysql", "mssql", "oracle"}
  /\ DIALECTS["sqlite"].backend = "sqlite"
  /\ DIALECTS["postgres"].backend = "postgresql"
  /\ DIALECTS["mysql"].backend = "mysql"
  /\ DIALECTS["mssql"].backend = "mssql"
  /\ DIALECTS["oracle"].backend = "oracle"
BY DEF DIALECTS, Dialect

(* The dialect found for a connection is that of its backend, else the one *)
(* of which the backend is an alias.                                       *)
LEMMA SpecOfBackend ==
  ASSUME NEW c, NEW d \in DOMAIN DIALECTS, BackendOf[c] = DIALECTS[d].backend
  PROVE  SpecOf(c) = d
<1> DEFINE same == {e \in DOMAIN DIALECTS : DIALECTS[e].backend = BackendOf[c]}
<1>1. same = {d}
  BY RegistryDialects
<1>2. (CHOOSE e \in same : TRUE) = d
  BY <1>1
<1> QED
  BY <1>1, <1>2 DEF SpecOf, dialect_for_url

(* For the backend of no dialect, dialect_for_url goes by the aliases.     *)
LEMMA SpecOfAlias ==
  ASSUME NEW c, \A d \in DOMAIN DIALECTS : BackendOf[c] # DIALECTS[d].backend
  PROVE  SpecOf(c) = IF BackendOf[c] \in DOMAIN ALIASES
                       THEN ALIASES[BackendOf[c]] ELSE Blank
<1> DEFINE same == {e \in DOMAIN DIALECTS : DIALECTS[e].backend = BackendOf[c]}
<1>1. same = {}
  OBVIOUS
<1> QED
  BY <1>1 DEF SpecOf, dialect_for_url

(* Of a connection whose driver SQLAlchemy found, the registry's dialect   *)
(* and SQLAlchemy's name of the backend tell the same of read-only mode.   *)
LEMMA ReadOnlyAgrees ==
  ASSUME NEW c, BackendOf[c] \in Installed
  PROVE  EnforcesReadOnly(c) = Capabilities(c).read_only_transactions
<1> DEFINE b == BackendOf[c]
           Known == {"sqlite", "postgres", "mysql", "oracle"}
           Real == {"sqlite", "postgresql", "mysql", "mssql", "oracle"}
<1>1. b \notin {"postgres", "pg", "pgsql", "sqlite3"}
  BY InstalledAssumption
<1>2. Blank \notin DOMAIN DIALECTS
  BY BlankAssumption
<1>3. /\ DOMAIN ALIASES = {"postgresql", "pg", "pgsql", "mariadb", "sqlserver",
                           "mssqlserver", "sqlite3"}
      /\ ALIASES["mariadb"] = "mysql" /\ ALIASES["sqlserver"] = "mssql"
      /\ ALIASES["mssqlserver"] = "mssql"
  BY DEF ALIASES
<1>4. (b \in {"sqlite", "postgresql", "mysql", "mariadb", "oracle"})
        <=> DialectName(c) \in Known
  <2>1. CASE b \in Real
    <3>1. b = "sqlite" => SpecOf(c) = "sqlite"
      BY RegistryDialects, SpecOfBackend
    <3>2. b = "postgresql" => SpecOf(c) = "postgres"
      BY RegistryDialects, SpecOfBackend
    <3>3. b = "mysql" => SpecOf(c) = "mysql"
      BY RegistryDialects, SpecOfBackend
    <3>4. b = "mssql" => SpecOf(c) = "mssql"
      BY RegistryDialects, SpecOfBackend
    <3>5. b = "oracle" => SpecOf(c) = "oracle"
      BY RegistryDialects, SpecOfBackend
    <3>6. SpecOf(c) # Blank
      BY <1>2, <2>1, <3>1, <3>2, <3>3, <3>4, <3>5, RegistryDialects
    <3>7. DialectName(c) = SpecOf(c)
      BY <3>6 DEF DialectName
    <3> QED
      BY <2>1, <3>1, <3>2, <3>3, <3>4, <3>5, <3>7
  <2>2. CASE b \notin Real
    <3>1. SpecOf(c) = IF b \in DOMAIN ALIASES THEN ALIASES[b] ELSE Blank
      BY <2>2, RegistryDialects, SpecOfAlias
    <3>2. CASE b \in DOMAIN ALIASES
      <4>1. b \in {"mariadb", "sqlserver", "mssqlserver"}
        BY <1>1, <1>3, <2>2, <3>2
      <4>2. SpecOf(c) = IF b = "mariadb" THEN "mysql" ELSE "mssql"
        BY <1>3, <3>1, <3>2, <4>1
      <4>3. DialectName(c) = SpecOf(c)
        BY <1>2, <4>2, RegistryDialects DEF DialectName
      <4> QED
        BY <4>1, <4>2, <4>3
    <3>3. CASE b \notin DOMAIN ALIASES
      <4>1. DialectName(c) = b
        BY <3>1, <3>3 DEF DialectName
      <4> QED
        BY <1>1, <1>3, <2>2, <3>3, <4>1
    <3> QED
      BY <3>2, <3>3
  <2> QED
    BY <2>1, <2>2
<1>5. EnforcesReadOnly(c)
        <=> b \in {"sqlite", "postgresql", "mysql", "mariadb", "oracle"}
  BY DEF EnforcesReadOnly
<1>6. Capabilities(c).read_only_transactions = (DialectName(c) \in Known)
  BY DEF Capabilities
<1>7. EnforcesReadOnly(c) \in BOOLEAN
  BY DEF EnforcesReadOnly
<1> QED
  BY <1>4, <1>5, <1>6, <1>7

Answers == {"ok", "failed", "denied", "unsupported"}

(* The argument of the operation, or the next name of ping_all.            *)
LEMMA ArgumentTyped ==
  ASSUME Shape, Pings, pc \in {"resolve", "engine", "run"}
  PROVE  /\ Argument \in Names \cup {NoName}
         /\ op = "ping_all" =>
              /\ Argument \in Names /\ Argument # NoName
              /\ Len(entries) + 1 \in 1 .. Len(listed)
              /\ Argument = listed[Len(entries) + 1]
<1>1. CASE op = "ping_all"
  <2>1. Len(entries) < Len(listed)
    BY <1>1 DEF Pings, Progress
  <2>2. Len(entries) \in Nat /\ Len(listed) \in Nat
    BY DEF Shape
  <2>3. Len(entries) + 1 \in 1 .. Len(listed)
    BY <2>1, <2>2
  <2>4. Argument = listed[Len(entries) + 1]
    BY <1>1 DEF Argument
  <2>5. listed[Len(entries) + 1] \in Names
    <3> HIDE DEF Names
    <3> QED
      BY <2>3, ElementOfSeq DEF Shape
  <2>6. NoName \notin Names
    BY RegistryAssumption
  <2> QED
    BY <2>3, <2>4, <2>5, <2>6
<1>2. CASE op # "ping_all"
  BY <1>2 DEF Argument, Shape, TypeOK
<1> QED
  BY <1>1, <1>2

(* The end of a call, or of one ping: ping_all goes on to its next name    *)
(* until there is an entry for each.                                       *)
LEMMA Concluded ==
  ASSUME Shape, Pings, NEW a \in Answers, Conclude(a),
         pc \in {"resolve", "dialect", "engine", "run"}
  PROVE  /\ op # "ping_all" =>
              /\ answer' = a /\ pc' = "done"
              /\ UNCHANGED <<name, target, entries>>
         /\ op = "ping_all" =>
              /\ Argument \in Names /\ Argument = listed[Len(entries) + 1]
              /\ entries' = Append(entries, [connection |-> Argument,
                                             ok |-> a = "ok", on |-> target])
              /\ Len(entries) \in Nat /\ Len(listed) \in Nat
              /\ Len(entries') = Len(entries) + 1
              /\ Len(entries') <= Len(listed)
              /\ name' = NoName /\ target' = NoName
              /\ \/ /\ Len(entries') = Len(listed)
                    /\ answer' = "ok" /\ pc' = "done"
                 \/ /\ Len(entries') < Len(listed)
                    /\ answer' = answer /\ pc' = "resolve"
         /\ entries' \in Seq(Entry)
         /\ \A i \in 1 .. Len(entries') :
              \/ i \in 1 .. Len(entries) /\ entries'[i] = entries[i]
              \/ /\ i = Len(entries) + 1 /\ op = "ping_all"
                 /\ entries'[i] = [connection |-> Argument,
                                   ok |-> a = "ok", on |-> target]
<1>1. CASE op # "ping_all"
  BY <1>1 DEF Conclude, Shape
<1>2. CASE op = "ping_all"
  <2> DEFINE e == [connection |-> Argument, ok |-> a = "ok", on |-> target]
  <2>1. pc \in {"resolve", "engine", "run"}
    BY <1>2 DEF Pings
  <2>2. /\ Argument \in Names /\ Argument = listed[Len(entries) + 1]
        /\ Len(entries) + 1 \in 1 .. Len(listed)
    BY <1>2, <2>1, ArgumentTyped
  <2>3. /\ entries' = Append(entries, e)
        /\ name' = NoName /\ target' = NoName
        /\ IF Len(entries') = Len(listed)
             THEN answer' = "ok" /\ pc' = "done"
             ELSE pc' = "resolve" /\ UNCHANGED answer
    BY <1>2 DEF Conclude
  <2>4. e \in Entry
    BY <2>2 DEF Entry, Shape, TypeOK
  <2>5. entries \in Seq(Entry) /\ listed \in Seq(Names)
    BY DEF Shape
  <2>6. Len(entries) \in Nat /\ Len(listed) \in Nat
    BY <2>5
  <2>7. /\ entries' \in Seq(Entry) /\ Len(entries') = Len(entries) + 1
        /\ \A i \in 1 .. Len(entries) : entries'[i] = entries[i]
        /\ entries'[Len(entries) + 1] = e
    <3> HIDE DEF e
    <3> QED
      BY <2>3, <2>4, <2>5, AppendProperties
  <2>8. Len(entries') <= Len(listed)
    BY <2>2, <2>6, <2>7
  <2>9. \/ Len(entries') = Len(listed) /\ answer' = "ok" /\ pc' = "done"
        \/ /\ Len(entries') < Len(listed)
           /\ answer' = answer /\ pc' = "resolve"
    BY <2>3, <2>6, <2>7, <2>8
  <2>10. \A i \in 1 .. Len(entries') :
           \/ i \in 1 .. Len(entries) /\ entries'[i] = entries[i]
           \/ i = Len(entries) + 1 /\ entries'[i] = e
    <3>1. \A i \in 1 .. Len(entries') :
            i \in 1 .. Len(entries) \/ i = Len(entries) + 1
      BY <2>6, <2>7
    <3> HIDE DEF e
    <3> QED
      BY <2>7, <3>1
  <2> QED
    BY <1>2, <2>2, <2>3, <2>6, <2>7, <2>8, <2>9, <2>10
<1> QED
  BY <1>1, <1>2

(* The end of a call keeps the types.                                      *)
LEMMA ConcludedTyped ==
  ASSUME Shape, Pings, NEW a \in Answers, Conclude(a),
         pc \in {"resolve", "dialect", "engine", "run"}
  PROVE  /\ pc' \in {"resolve", "done"} /\ entries' \in Seq(Entry)
         /\ name' \in Names \cup {NoName} /\ target' \in Names \cup {NoName}
         /\ answer' \in {"none", "ok", "failed", "denied", "unsupported"}
BY Concluded DEF Answers, Shape, TypeOK

(* engine() gets the connection resolved before, else the argument.        *)
LEMMA EngineNameTyped ==
  ASSUME Shape, Pings, pc = "engine"
  PROVE  /\ EngineName \in Names \cup {NoName}
         /\ name # NoName => EngineName \in {name, NoName}
         /\ name = NoName /\ op # "ping_all" /\ asked # NoName =>
              EngineName \in {asked, NoName}
<1>1. entitled \in Grants /\ name \in Names \cup {NoName}
  BY DEF Shape, TypeOK
<1>2. Argument \in Names \cup {NoName}
  BY ArgumentTyped
<1>3. op # "ping_all" => Argument = asked
  BY DEF Argument
<1> QED
  BY <1>1, <1>2, <1>3, ResolvedTyped DEF EngineName, Resolved

(* A page is cut out of a finite listing of numbers.                       *)
LEMMA PageTyped ==
  ASSUME Shape, target \in Names, Len(pages) = offset + Len(page)
  PROVE  /\ tables[target] \subseteq Tables /\ tables[target] \subseteq Nat
         /\ IsFiniteSet(tables[target])
         /\ limit \in Limits \cup {0} /\ offset \in Nat
         /\ Page \in Seq(Tables) /\ Len(Page) \in 0 .. MaxRows
<1>1. tables[target] \in SUBSET Tables
  BY DEF Shape, TypeOK
<1>2. IsFiniteSet(Tables) /\ Tables \subseteq Nat
  BY ReadCallsAssumption
<1>3. IsFiniteSet(tables[target])
  BY <1>1, <1>2, FS_Subset
<1>4. limit \in Limits \cup {0} /\ offset \in Nat
  BY DEF Shape, TypeOK
<1>5. Page \in Seq(tables[target]) /\ Len(Page) \in 0 .. MaxRows
  BY <1>1, <1>2, <1>3, <1>4, PageIsNext
<1>6. Page \in Seq(Tables)
  <2> DEFINE S == tables[target]
  <2>1. Page \in Seq(S) /\ S \subseteq Tables
    BY <1>1, <1>5
  <2> HIDE DEF S
  <2> QED
    BY <2>1, SeqMonotonic
<1> QED
  BY <1>1, <1>2, <1>3, <1>4, <1>5, <1>6

(* The invariant holds at the start of every operation.                    *)
LEMMA InitIInv == Init => IInv
<1> SUFFICES ASSUME Init PROVE IInv
  OBVIOUS
<1> USE ReadCallsAssumption DEF Init
<1>0. <<>> \in Seq(Names) /\ <<>> \in Seq(Entry) /\ <<>> \in Seq(Tables)
        /\ <<>> \in Seq(Named) /\ Len(<<>>) = 0
  BY EmptySeq
<1>1. op \in Operations /\ pc = FirstStep(op)
        /\ pc \in {"names", "resolve", "engine"}
        /\ (pc = "names" <=> op = "ping_all")
        /\ (op \in NamesFirst => pc \in {"names", "resolve"})
  BY DEF FirstStep, NamesFirst, LooksUpDialect
<1>2. Shape
  <2>1. tables \in [Names -> SUBSET Tables]
    <3>1. PICK some \in SUBSET Tables :
            tables = [c \in Names |-> IF c = Watched THEN some ELSE {}]
      OBVIOUS
    <3> QED
      BY <3>1
  <2>2. asked \in Names \cup {NoName} /\ limit \in Limits \cup {0}
    OBVIOUS
  <2>3. Len(page) <= MaxRows /\ offset \in 0 .. Len(pages)
    BY <1>0
  <2> QED
    BY <1>0, <1>1, <2>1, <2>2, <2>3 DEF Shape, TypeOK
<1>3. Pings
  <2>1. op = "ping_all" => asked = NoName
    BY RegistryAssumption
  <2>2. Reported
    BY <1>0 DEF Reported
  <2> QED
    BY <1>0, <1>1, <2>1, <2>2 DEF Pings, Progress
<1>4. Route
  BY <1>1 DEF Route
<1>5. Truth
  BY <1>1 DEF Unsupported, Truth, NamesFirst, LooksUpDialect
<1>6. Pager
  <2>1. Counted
    BY <1>0 DEF Counted
  <2>2. Watching => tables[asked] \subseteq Nat /\ IsFiniteSet(tables[asked])
    <3>1. Watching => asked \in Names
      BY DEF Watching
    <3>2. asked \in Names => tables[asked] \in SUBSET Tables
      BY <1>2 DEF Shape, TypeOK
    <3>3. \A S \in SUBSET Tables : IsFiniteSet(S)
      BY FS_Subset
    <3> QED
      BY <3>1, <3>2, <3>3
  <2>3. Watching => AllBefore
    <3>1. \A t : Watching => Rank(tables[asked], t) \in Nat
      BY <2>2, RankTyped
    <3> QED
      BY <1>0, <3>1 DEF AllBefore
  <2>4. AllSeen /\ Increasing
    BY <1>0 DEF AllSeen, Increasing
  <2> QED
    BY <2>1, <2>3, <2>4 DEF Pager
<1> QED
  BY <1>2, <1>3, <1>4, <1>5, <1>6 DEF IInv

(* Every step keeps the types.                                             *)
LEMMA ShapeStep ==
  ASSUME IInv, [Next]_vars
  PROVE  Shape'
<1> USE DEF IInv
<1> DEFINE Rest == UNCHANGED <<page, pages, listed, offset, tables>>
<1>0. entries \in Seq(Entry) /\ page \in Seq(Tables) /\ pages \in Seq(Named)
        /\ listed \in Seq(Names)
  BY DEF Shape
<1>1. CASE Regrant
  BY <1>1 DEF Regrant, Shape, TypeOK, callVars, pagerVars, databaseVars
<1>2. CASE TakeNames
  <2>1. /\ listed' \in Seq(Names)
        /\ pc' \in {"resolve", "done"} /\ answer' \in {"ok", "denied", answer}
    BY <1>0, <1>2, NamesListed DEF TakeNames
  <2> QED
    BY <1>2, <2>1
    DEF TakeNames, Shape, TypeOK, callVars, pagerVars, databaseVars
<1>3. CASE Resolve
  <2>1. /\ pc' \in {"resolve", "dialect", "engine", "done"}
        /\ entries' \in Seq(Entry)
        /\ name' \in Names \cup {NoName} /\ target' \in Names \cup {NoName}
        /\ answer' \in {"none", "ok", "failed", "denied", "unsupported"}
    <3>1. CASE Conclude("denied")
      BY <1>3, <3>1, ConcludedTyped DEF Resolve, Answers
    <3>2. CASE ~ Conclude("denied")
      <4>1. Argument \in Names \cup {NoName} /\ entitled \in Grants
        BY <1>3, ArgumentTyped DEF Resolve, Shape, TypeOK
      <4>2. Resolved(Argument) \in Names \cup {NoName}
        BY <4>1, ResolvedTyped DEF Resolved
      <4> QED
        BY <1>3, <3>2, <4>2 DEF Resolve, Shape, TypeOK
    <3> QED
      BY <3>1, <3>2
  <2> QED
    BY <1>3, <2>1 DEF Resolve, Shape, TypeOK, callVars, pagerVars, databaseVars
<1>4. CASE LookUpDialect
  <2>1. /\ pc' \in {"resolve", "engine", "done"} /\ entries' \in Seq(Entry)
        /\ name' \in Names \cup {NoName} /\ target' \in Names \cup {NoName}
        /\ answer' \in {"none", "ok", "failed", "denied", "unsupported"}
    <3>1. CASE \E a \in Answers : Conclude(a)
      BY <1>4, <3>1, ConcludedTyped DEF LookUpDialect
    <3>2. CASE ~ \E a \in Answers : Conclude(a)
      BY <1>4, <3>2 DEF LookUpDialect, Answers, Shape, TypeOK
    <3> QED
      BY <3>1, <3>2
  <2> QED
    BY <1>4, <2>1
    DEF LookUpDialect, Shape, TypeOK, callVars, pagerVars, databaseVars
<1>5. CASE Engine
  <2>1. /\ pc' \in {"resolve", "run", "done"} /\ entries' \in Seq(Entry)
        /\ name' \in Names \cup {NoName} /\ target' \in Names \cup {NoName}
        /\ answer' \in {"none", "ok", "failed", "denied", "unsupported"}
    <3>1. CASE \E a \in Answers : Conclude(a)
      BY <1>5, <3>1, ConcludedTyped DEF Engine
    <3>2. CASE ~ \E a \in Answers : Conclude(a)
      <4>1. EngineName \in Names \cup {NoName}
        BY <1>5, EngineNameTyped DEF Engine
      <4> QED
        BY <1>5, <3>2, <4>1 DEF Engine, Answers, Shape, TypeOK
    <3> QED
      BY <3>1, <3>2
  <2> QED
    BY <1>5, <2>1
    DEF Engine, Shape, TypeOK, callVars, pagerVars, databaseVars
<1>6. CASE Run
  <2>1. /\ pc' \in {"resolve", "done"} /\ entries' \in Seq(Entry)
        /\ name' \in Names \cup {NoName} /\ target' \in Names \cup {NoName}
        /\ answer' \in {"none", "ok", "failed", "denied", "unsupported"}
    BY <1>6, ConcludedTyped DEF Run, Answers
  <2>2. /\ page' \in Seq(Tables) /\ pages' \in Seq(Named)
        /\ Len(page') <= MaxRows /\ offset' \in 0 .. Len(pages')
    <3>1. CASE op = "list"
      <4>1. target \in Names /\ Len(pages) = offset + Len(page)
        BY <1>6 DEF Run, Route, Shape, TypeOK, Pager, Counted
      <4>2. Page \in Seq(Tables) /\ Len(Page) \in 0 .. MaxRows /\ MaxRows \in Nat
        BY <4>1, PageTyped, ReadCallsAssumption
      <4> DEFINE new == [i \in DOMAIN Page |->
                           [on |-> target, table |-> Page[i]]]
      <4>3. page' = Page /\ pages' = pages \o new /\ offset' = offset
        BY <1>6, <3>1 DEF Run
      <4>4. new \in Seq(Named)
        <5> DEFINE P == Page
        <5>1. P \in Seq(Tables)
          BY <4>2
        <5> HIDE DEF P
        <5>2. \A i \in DOMAIN P : [on |-> target, table |-> P[i]] \in Named
          BY <4>1, <5>1 DEF Named
        <5>3. [i \in DOMAIN P |-> [on |-> target, table |-> P[i]]] \in Seq(Named)
          BY <5>1, <5>2
        <5> QED
          BY <5>3 DEF P
      <4>5. pages' \in Seq(Named) /\ Len(pages') = Len(pages) + Len(new)
              /\ Len(new) \in Nat /\ Len(pages) \in Nat
        <5> HIDE DEF new
        <5> QED
          BY <1>0, <4>3, <4>4, ConcatProperties, LenProperties
      <4>6. offset \in 0 .. Len(pages)
        BY DEF Shape, TypeOK
      <4>7. offset' \in 0 .. Len(pages')
        <5> HIDE DEF new
        <5> QED
          BY <4>3, <4>5, <4>6
      <4>8. page' \in Seq(Tables) /\ Len(page') <= MaxRows
        BY <4>2, <4>3
      <4> QED
        BY <4>5, <4>7, <4>8
    <3>2. CASE op # "list"
      <4>1. UNCHANGED pagerVars
        BY <1>6, <3>2 DEF Run
      <4> QED
        BY <4>1 DEF pagerVars, Shape, TypeOK
    <3> QED
      BY <3>1, <3>2
  <2>3. guarded' \in BOOLEAN
    BY <1>6 DEF Run, EnforcesReadOnly
  <2> QED
    BY <1>6, <2>1, <2>2, <2>3 DEF Run, Shape, TypeOK, callVars, databaseVars
<1>7. CASE RunFails
  <2>1. /\ pc' \in {"resolve", "done"} /\ entries' \in Seq(Entry)
        /\ name' \in Names \cup {NoName} /\ target' \in Names \cup {NoName}
        /\ answer' \in {"none", "ok", "failed", "denied", "unsupported"}
    BY <1>7, ConcludedTyped DEF RunFails, Answers
  <2> QED
    BY <1>7, <2>1
    DEF RunFails, Shape, TypeOK, callVars, pagerVars, databaseVars
<1>8. CASE NextPage
  <2>1. Len(page) \in Nat /\ Len(pages) \in Nat /\ MaxRows \in Nat
    BY <1>0, LenProperties, ReadCallsAssumption
  <2>2. offset \in Nat /\ Len(pages) = offset + Len(page)
    BY DEF Shape, TypeOK, Pager, Counted
  <2>3. offset' \in 0 .. Len(pages)
    BY <1>8, <2>1, <2>2 DEF NextPage
  <2>4. page' \in Seq(Tables) /\ Len(page') = 0
    BY <1>8, EmptySeq DEF NextPage
  <2>5. pc' \in {"names", "resolve", "engine"}
    BY <1>8 DEF NextPage, FirstStep
  <2> QED
    BY <1>8, <2>1, <2>3, <2>4, <2>5
    DEF NextPage, Shape, TypeOK, callVars, databaseVars
<1>9. ASSUME NEW t \in Tables, Create(Watched, t)
      PROVE  Shape'
  <2>1. tables' \in [Names -> SUBSET Tables]
    BY <1>9 DEF Create, Shape, TypeOK
  <2> QED
    BY <1>9, <2>1 DEF Create, Shape, TypeOK, callVars, pagerVars
<1>10. ASSUME NEW t \in Tables, Drop(Watched, t)
       PROVE  Shape'
  <2>1. tables' \in [Names -> SUBSET Tables]
    BY <1>10 DEF Drop, Shape, TypeOK
  <2> QED
    BY <1>10, <2>1 DEF Drop, Shape, TypeOK, callVars, pagerVars
<1>11. CASE UNCHANGED vars
  BY <1>11 DEF vars, callVars, pagerVars, databaseVars, Shape, TypeOK
<1> QED
  BY <1>1, <1>2, <1>3, <1>4, <1>5, <1>6, <1>7, <1>8, <1>9, <1>10, <1>11
  DEF Next

(* ping_all: the entries stay those of the first names listed, a           *)
(* successful one on the connection it names, and every step adds at most  *)
(* one.                                                                    *)
LEMMA PingsStep ==
  ASSUME IInv, [Next]_vars
  PROVE  Pings'
<1> USE DEF IInv
<1>0. /\ entries \in Seq(Entry) /\ Len(entries) \in Nat
      /\ listed \in Seq(Names) /\ Len(listed) \in Nat
  BY LenProperties DEF Shape
<1>1. CASE UNCHANGED <<op, asked, pc, answer, name, listed, entries>>
  BY <1>1 DEF Pings, Progress, Reported
<1>2. CASE TakeNames
  <2>1. /\ op = "ping_all" /\ asked = NoName
        /\ listed = <<>> /\ entries = <<>> /\ Len(entries) = 0
    BY <1>2, EmptySeq DEF TakeNames, Pings, Progress
  <2>2. listed' \in Seq(Names)
    BY <1>0, <1>2, NamesListed DEF TakeNames
  <2>3. Len(listed') \in Nat /\ (listed' = <<>> <=> Len(listed') = 0)
    BY <2>2, EmptySeq
  <2>4. UNCHANGED <<op, asked, entries>>
    BY <1>2 DEF TakeNames, callVars
  <2>5. \/ /\ Len(listed') = 0 /\ pc' = "done"
           /\ answer' = "ok" \/ (answer' = "denied" /\ listed' = <<>>)
        \/ Len(listed') > 0 /\ pc' = "resolve"
    BY <1>2, <2>1, <2>3 DEF TakeNames
  <2>6. Progress'
    BY <2>1, <2>4, <2>5 DEF Progress
  <2>7. Reported'
    BY <2>1, <2>4 DEF Reported
  <2> QED
    BY <2>1, <2>4, <2>5, <2>6, <2>7 DEF Pings
<1>3. ASSUME NEW a \in Answers, Conclude(a), UNCHANGED <<op, asked, listed>>,
             pc \in {"resolve", "dialect", "engine", "run"},
             op = "ping_all" /\ a = "ok" => target = Argument
      PROVE  Pings'
  <2>1. CASE op # "ping_all"
    <3>1. UNCHANGED entries /\ pc' = "done"
      BY <1>3, <2>1, Concluded
    <3> QED
      BY <1>3, <2>1, <3>1 DEF Pings, Reported
  <2>2. CASE op = "ping_all"
    <3>1. /\ Argument = listed[Len(entries) + 1]
          /\ \/ Len(entries') = Len(listed) /\ answer' = "ok" /\ pc' = "done"
             \/ Len(entries') < Len(listed) /\ pc' = "resolve"
      BY <1>3, <2>2, Concluded
    <3>2. Progress'
      BY <1>3, <3>1 DEF Progress
    <3>3. Reported'
      <4> SUFFICES ASSUME NEW i \in 1 .. Len(entries')
                   PROVE  /\ entries'[i].connection = listed[i]
                          /\ entries'[i].ok => entries'[i].on = listed[i]
        BY <1>3 DEF Reported
      <4>1. CASE i \in 1 .. Len(entries) /\ entries'[i] = entries[i]
        BY <4>1 DEF Pings, Reported
      <4>2. CASE /\ i = Len(entries) + 1
                 /\ entries'[i] = [connection |-> Argument,
                                   ok |-> a = "ok", on |-> target]
        <5>1. entries'[i].connection = Argument
              /\ entries'[i].ok = (a = "ok") /\ entries'[i].on = target
          BY <4>2
        <5> QED
          BY <1>3, <2>2, <3>1, <4>2, <5>1
      <4> QED
        BY <1>3, <4>1, <4>2, Concluded
    <3>4. pc' # "dialect" /\ asked' = NoName /\ op' = "ping_all"
      BY <1>3, <2>2, <3>1 DEF Pings
    <3> QED
      BY <3>2, <3>3, <3>4 DEF Pings
  <2> QED
    BY <2>1, <2>2
<1>4. ASSUME UNCHANGED <<op, asked, listed, entries>>,
             pc' \in {"dialect", "engine", "run", "done"},
             pc \in {"resolve", "dialect", "engine"},
             op = "ping_all" => /\ pc' \in {"engine", "run"}
                                /\ name' = listed[Len(entries) + 1]
      PROVE  Pings'
  <2>1. CASE op = "ping_all"
    <3>1. Len(entries) < Len(listed)
      BY <1>4, <2>1 DEF Pings, Progress
    <3>2. Progress'
      BY <1>4, <2>1, <3>1 DEF Progress
    <3> QED
      BY <1>4, <2>1, <3>2 DEF Pings, Reported
  <2>2. CASE op # "ping_all"
    BY <1>4, <2>2 DEF Pings, Reported
  <2> QED
    BY <2>1, <2>2
<1>5. CASE Regrant
  BY <1>1, <1>5 DEF Regrant, callVars
<1>6. CASE Resolve
  <2>1. UNCHANGED <<op, asked, listed>> /\ pc = "resolve"
    BY <1>6 DEF Resolve, callVars
  <2>2. CASE Conclude("denied")
    BY <1>3, <2>1, <2>2 DEF Answers
  <2>3. CASE ~ Conclude("denied")
    <3>1. /\ UNCHANGED entries /\ name' = Resolved(Argument)
          /\ Resolved(Argument) # NoName
          /\ pc' = IF op \in LooksUpDialect THEN "dialect" ELSE "engine"
      BY <1>6, <2>3 DEF Resolve
    <3>2. ASSUME op = "ping_all"
          PROVE  pc' = "engine" /\ name' = listed[Len(entries) + 1]
      <4>1. /\ Argument = listed[Len(entries) + 1]
            /\ Argument # NoName /\ Argument \in Names
        BY <2>1, <3>2, ArgumentTyped
      <4>2. Resolved(Argument) \in {Argument, NoName}
        BY <4>1, ResolvedTyped DEF Resolved, Shape, TypeOK
      <4> QED
        BY <3>1, <3>2, <4>1, <4>2 DEF LooksUpDialect
    <3>3. pc' \in {"dialect", "engine"}
      BY <3>1
    <3> QED
      BY <1>4, <2>1, <3>1, <3>2, <3>3
  <2> QED
    BY <2>2, <2>3
<1>7. CASE LookUpDialect
  <2>1. UNCHANGED <<op, asked, listed>> /\ pc = "dialect" /\ op # "ping_all"
    BY <1>7 DEF LookUpDialect, callVars, Pings
  <2>2. CASE \E a \in Answers : Conclude(a)
    BY <1>3, <2>1, <2>2
  <2>3. CASE ~ \E a \in Answers : Conclude(a)
    <3>1. UNCHANGED entries /\ pc' = "engine"
      BY <1>7, <2>3 DEF LookUpDialect, Answers
    <3> QED
      BY <1>4, <2>1, <3>1
  <2> QED
    BY <2>2, <2>3
<1>8. CASE Engine
  <2>1. UNCHANGED <<op, asked, listed>> /\ pc = "engine"
    BY <1>8 DEF Engine, callVars
  <2>2. CASE \E a \in {"denied", "failed"} : Conclude(a)
    BY <1>3, <2>1, <2>2 DEF Answers
  <2>3. CASE ~ \E a \in {"denied", "failed"} : Conclude(a)
    <3>1. /\ UNCHANGED <<entries, name>> /\ pc' \in {"run", "done"}
          /\ op # "pool" => pc' = "run"
      BY <1>8, <2>3 DEF Engine
    <3>2. op = "ping_all" => name = listed[Len(entries) + 1]
      BY <2>1 DEF Pings, Progress
    <3> QED
      BY <1>4, <2>1, <3>1, <3>2
  <2> QED
    BY <2>2, <2>3
<1>9. CASE Run
  <2>1. UNCHANGED <<op, asked, listed>> /\ pc = "run" /\ Conclude("ok")
    BY <1>9 DEF Run, callVars
  <2>2. op = "ping_all" => target = Argument
    <3> SUFFICES ASSUME op = "ping_all" PROVE target = Argument
      OBVIOUS
    <3>1. name = listed[Len(entries) + 1]
      BY <2>1 DEF Pings, Progress
    <3>2. Argument = listed[Len(entries) + 1] /\ Argument # NoName
      BY <2>1, ArgumentTyped
    <3> QED
      BY <2>1, <3>1, <3>2 DEF Route
  <2> QED
    BY <1>3, <2>1, <2>2 DEF Answers
<1>10. CASE RunFails
  BY <1>3, <1>10 DEF RunFails, callVars, Answers
<1>11. CASE NextPage
  BY <1>11 DEF NextPage, callVars, Pings, Reported, FirstStep, NamesFirst,
               LooksUpDialect
<1>12. CASE \E t \in Tables : Create(Watched, t) \/ Drop(Watched, t)
  BY <1>1, <1>12 DEF Create, Drop, callVars
<1>13. CASE UNCHANGED vars
  BY <1>1, <1>13 DEF vars, callVars
<1> QED
  BY <1>2, <1>5, <1>6, <1>7, <1>8, <1>9, <1>10, <1>11, <1>12, <1>13
  DEF Next

(* No look-up after the first leads a call to another connection.          *)
LEMMA RouteStep ==
  ASSUME IInv, [Next]_vars
  PROVE  Route'
<1> USE DEF IInv
<1>1. CASE UNCHANGED <<op, asked, pc, answer, name, target>>
  BY <1>1 DEF Route
<1>2. CASE TakeNames
  <2>1. /\ pc = "names" /\ UNCHANGED <<op, asked, name, target>>
        /\ \/ answer' \in {"ok", "denied"} /\ pc' = "done"
           \/ answer' = answer /\ pc' = "resolve"
    BY <1>2 DEF TakeNames, callVars
  <2> QED
    BY <2>1 DEF Route
<1>3. ASSUME NEW a \in Answers, Conclude(a), UNCHANGED <<op, asked>>,
             pc \in {"resolve", "dialect", "engine", "run"}
      PROVE  Route'
  <2>1. CASE op # "ping_all"
    <3>1. answer' = a /\ pc' = "done" /\ UNCHANGED <<name, target>> /\ a # "none"
      BY <1>3, <2>1, Concluded DEF Answers
    <3> QED
      BY <1>3, <3>1 DEF Route
  <2>2. CASE op = "ping_all"
    <3>1. /\ name' = NoName /\ target' = NoName
          /\ \/ answer' = "ok" /\ pc' = "done"
             \/ answer' = answer /\ pc' = "resolve"
      BY <1>3, <2>2, Concluded
    <3> QED
      BY <1>3, <3>1 DEF Route
  <2> QED
    BY <2>1, <2>2
<1>4. CASE Regrant
  BY <1>1, <1>4 DEF Regrant, callVars
<1>5. CASE Resolve
  <2>1. UNCHANGED <<op, asked>> /\ pc = "resolve"
    BY <1>5 DEF Resolve, callVars
  <2>2. CASE Conclude("denied")
    BY <1>3, <2>1, <2>2 DEF Answers
  <2>3. CASE ~ Conclude("denied")
    <3>1. /\ UNCHANGED <<target, answer>> /\ name' = Resolved(Argument)
          /\ name' # NoName
          /\ pc' = IF op \in LooksUpDialect THEN "dialect" ELSE "engine"
      BY <1>5, <2>3 DEF Resolve
    <3>2. asked # NoName => name' \in {asked, NoName}
      <4>1. Argument \in Names \cup {NoName} /\ entitled \in Grants
        BY <2>1, ArgumentTyped DEF Shape, TypeOK
      <4>2. asked # NoName => Argument = asked
        BY DEF Argument, Pings
      <4> QED
        BY <3>1, <4>1, <4>2, ResolvedTyped DEF Resolved
    <3>3. target = NoName /\ answer = "none"
      BY <2>1 DEF Route
    <3> QED
      BY <2>1, <3>1, <3>2, <3>3 DEF Route
  <2> QED
    BY <2>2, <2>3
<1>6. CASE LookUpDialect
  <2>1. UNCHANGED <<op, asked>> /\ pc = "dialect"
    BY <1>6 DEF LookUpDialect, callVars
  <2>2. CASE \E a \in Answers : Conclude(a)
    BY <1>3, <2>1, <2>2
  <2>3. CASE ~ \E a \in Answers : Conclude(a)
    <3>1. UNCHANGED <<name, target, answer>> /\ pc' = "engine"
      BY <1>6, <2>3 DEF LookUpDialect, Answers
    <3> QED
      BY <2>1, <3>1 DEF Route
  <2> QED
    BY <2>2, <2>3
<1>7. CASE Engine
  <2>1. UNCHANGED <<op, asked>> /\ pc = "engine"
    BY <1>7 DEF Engine, callVars
  <2>2. CASE \E a \in {"denied", "failed"} : Conclude(a)
    BY <1>3, <2>1, <2>2 DEF Answers
  <2>3. CASE ~ \E a \in {"denied", "failed"} : Conclude(a)
    <3>1. /\ UNCHANGED name /\ target' = EngineName /\ EngineName # NoName
          /\ BackendOf[EngineName] \in Installed
          /\ \/ op = "pool" /\ pc' = "done" /\ answer' = "ok"
             \/ op # "pool" /\ pc' = "run" /\ answer' = answer
      BY <1>7, <2>3 DEF Engine
    <3>2. name # NoName => EngineName = name
      BY <2>1, <3>1, EngineNameTyped
    <3>3. asked # NoName => EngineName = asked
      <4>1. asked # NoName => op # "ping_all" /\ name \in {asked, NoName}
        BY DEF Pings, Route
      <4> QED
        BY <2>1, <3>1, <3>2, <4>1, EngineNameTyped
    <3> QED
      BY <2>1, <3>1, <3>2, <3>3 DEF Route
  <2> QED
    BY <2>2, <2>3
<1>8. CASE Run
  BY <1>3, <1>8 DEF Run, callVars, Answers
<1>9. CASE RunFails
  BY <1>3, <1>9 DEF RunFails, callVars, Answers
<1>10. CASE NextPage
  <2>1. /\ UNCHANGED <<op, asked, name>> /\ op = "list" /\ pc' = "engine"
        /\ target' = NoName /\ answer' = "none"
    BY <1>10 DEF NextPage, callVars, FirstStep, NamesFirst, LooksUpDialect
  <2> QED
    BY <2>1 DEF Route, NamesFirst, LooksUpDialect
<1>11. CASE \E t \in Tables : Create(Watched, t) \/ Drop(Watched, t)
  BY <1>1, <1>11 DEF Create, Drop, callVars
<1>12. CASE UNCHANGED vars
  BY <1>1, <1>12 DEF vars, callVars
<1> QED
  BY <1>2, <1>4, <1>5, <1>6, <1>7, <1>8, <1>9, <1>10, <1>11, <1>12 DEF Next

(* What a call goes on with its dialect supports, what it refuses it does  *)
(* not, and the session is read-only as its backend has it.                *)
LEMMA TruthStep ==
  ASSUME IInv, [Next]_vars
  PROVE  Truth'
<1> USE DEF IInv
<1>0. UNCHANGED <<op, name>> => Unsupported' = Unsupported
  BY DEF Unsupported
<1>1. CASE UNCHANGED <<op, pc, answer, name, target, guarded>>
  BY <1>0, <1>1 DEF Truth
<1>2. op' \notin {"explain", "sessions"} => ~ Unsupported'
  BY DEF Unsupported
<1>3. CASE TakeNames
  <2>1. /\ op' = "ping_all" /\ target' = target
        /\ answer' \in {"ok", "denied", answer}
    BY <1>3 DEF TakeNames, callVars, Pings
  <2>2. target = NoName /\ answer = "none"
    BY <1>3 DEF TakeNames, Route
  <2> QED
    BY <1>2, <2>1, <2>2 DEF Truth
<1>4. ASSUME NEW a \in Answers, Conclude(a), UNCHANGED op,
             pc \in {"resolve", "dialect", "engine", "run"},
             a = "unsupported" => Unsupported,
             pc = "run" /\ a = "ok" => guarded' = EnforcesReadOnly(target)
      PROVE  Truth'
  <2>1. CASE op # "ping_all"
    <3>1. answer' = a /\ pc' = "done" /\ UNCHANGED <<name, target>>
      BY <1>4, <2>1, Concluded
    <3>2. Unsupported' = Unsupported
      BY <1>0, <1>4, <3>1
    <3>3. target # NoName => pc = "run"
      BY <1>4 DEF Route
    <3> QED
      BY <1>4, <3>1, <3>2, <3>3 DEF Truth
  <2>2. CASE op = "ping_all"
    <3>1. target' = NoName /\ answer' \in {"ok", answer}
      BY <1>4, <2>2, Concluded
    <3>2. answer = "none"
      BY <1>4 DEF Route
    <3> QED
      BY <1>2, <1>4, <2>2, <3>1, <3>2 DEF Truth
  <2> QED
    BY <2>1, <2>2
<1>5. CASE Regrant
  BY <1>1, <1>5 DEF Regrant, callVars
<1>6. CASE Resolve
  <2>1. UNCHANGED op /\ pc = "resolve"
    BY <1>6 DEF Resolve, callVars
  <2>2. CASE Conclude("denied")
    BY <1>4, <2>1, <2>2 DEF Answers
  <2>3. CASE ~ Conclude("denied")
    <3>1. /\ UNCHANGED <<target, answer>>
          /\ pc' = IF op \in LooksUpDialect THEN "dialect" ELSE "engine"
      BY <1>6, <2>3 DEF Resolve
    <3>2. target = NoName /\ answer = "none"
      BY <2>1 DEF Route
    <3>3. pc' = "engine" => op \notin {"explain", "sessions"}
      BY <3>1 DEF LooksUpDialect
    <3>4. pc' \in {"dialect", "engine"}
      BY <3>1
    <3> QED
      BY <1>2, <2>1, <3>1, <3>2, <3>3, <3>4 DEF Truth
  <2> QED
    BY <2>2, <2>3
<1>7. CASE LookUpDialect
  <2>1. UNCHANGED op /\ pc = "dialect"
    BY <1>7 DEF LookUpDialect, callVars
  <2>2. CASE \E a \in {"denied", "ok"} : Conclude(a)
    BY <1>4, <2>1, <2>2 DEF Answers
  <2>3. CASE Unsupported /\ Conclude("unsupported")
    BY <1>4, <2>1, <2>3 DEF Answers
  <2>4. CASE /\ ~ Unsupported /\ pc' = "engine"
             /\ UNCHANGED <<name, target, answer>>
    <3>1. target = NoName /\ answer = "none"
      BY <2>1 DEF Route
    <3> QED
      BY <1>0, <2>1, <2>4, <3>1 DEF Truth
  <2> QED
    BY <1>7, <2>2, <2>3, <2>4 DEF LookUpDialect
<1>8. CASE Engine
  <2>1. UNCHANGED op /\ pc = "engine"
    BY <1>8 DEF Engine, callVars
  <2>2. CASE \E a \in {"denied", "failed"} : Conclude(a)
    BY <1>4, <2>1, <2>2 DEF Answers
  <2>3. CASE ~ \E a \in {"denied", "failed"} : Conclude(a)
    <3>1. /\ UNCHANGED name
          /\ op = "pool" \/ answer' = answer
          /\ op = "pool" => answer' = "ok"
      BY <1>8, <2>3 DEF Engine
    <3>2. answer = "none" /\ ~ Unsupported
      BY <2>1 DEF Route, Truth
    <3> QED
      BY <1>0, <2>1, <3>1, <3>2 DEF Truth
  <2> QED
    BY <2>2, <2>3
<1>9. CASE Run
  BY <1>4, <1>9 DEF Run, callVars, Answers
<1>10. CASE RunFails
  BY <1>4, <1>10 DEF RunFails, callVars, Answers
<1>11. CASE NextPage
  BY <1>2, <1>11
  DEF NextPage, callVars, Truth
<1>12. CASE \E t \in Tables : Create(Watched, t) \/ Drop(Watched, t)
  BY <1>1, <1>12 DEF Create, Drop, callVars
<1>13. CASE UNCHANGED vars
  BY <1>1, <1>13 DEF vars, callVars
<1> QED
  BY <1>3, <1>5, <1>6, <1>7, <1>8, <1>9, <1>10, <1>11, <1>12, <1>13
  DEF Next

-----------------------------------------------------------------------------
(* What a caller that pages through a connection is looking at.            *)
LEMMA WatchedTables ==
  ASSUME Shape, Watching
  PROVE  /\ asked \in Names /\ Watched = asked
         /\ tables[asked] \subseteq Nat /\ IsFiniteSet(tables[asked])
<1>1. asked \in Names /\ Watched = asked
  BY DEF Shape, TypeOK, Watching, Watched
<1>2. tables[asked] \in SUBSET Tables
  BY <1>1 DEF Shape, TypeOK
<1>3. IsFiniteSet(Tables) /\ Tables \subseteq Nat
  BY ReadCallsAssumption
<1>4. IsFiniteSet(tables[asked])
  BY <1>2, <1>3, FS_Subset
<1> QED
  BY <1>1, <1>2, <1>3, <1>4

(* A page is appended to those before it.                                  *)
LEMMA PageAppended ==
  ASSUME IInv, Run, op = "list"
  PROVE  LET S == tables[target]
         IN /\ target \in Names /\ S \subseteq Nat /\ IsFiniteSet(S)
            /\ Len(pages) = offset /\ offset \in Nat
            /\ page' = Page /\ Len(Page) \in Nat /\ offset' = offset
            /\ pages' \in Seq(Named) /\ Len(pages') = offset + Len(Page)
            /\ \A i \in 1 .. offset : pages'[i] = pages[i]
            /\ \A i \in 1 .. Len(Page) : pages'[offset + i].table = Page[i]
            /\ \A i \in 1 .. Len(Page) :
                 Page[i] \in S /\ Rank(S, Page[i]) = offset + i - 1
            /\ \A x \in S :
                 offset <= Rank(S, x) /\ Rank(S, x) < offset + Len(Page)
                   => \E i \in 1 .. Len(Page) : Page[i] = x
            /\ Len(Page) = 0 => \A x \in S : Rank(S, x) < offset
<1> DEFINE S == tables[target]
           new == [i \in DOMAIN Page |-> [on |-> target, table |-> Page[i]]]
<1>0. Len(pages) = offset /\ target \in Names /\ pages \in Seq(Named)
  <2>1. page = <<>> /\ Len(page) = 0
    BY EmptySeq DEF Run, IInv, Route, Pager, Counted
  <2>2. offset \in Nat
    BY DEF IInv, Shape, TypeOK
  <2> QED
    BY <2>1, <2>2 DEF Run, IInv, Route, Pager, Counted, Shape, TypeOK
<1>1. /\ S \subseteq Nat /\ IsFiniteSet(S) /\ S \subseteq Tables
      /\ limit \in Limits \cup {0} /\ offset \in Nat
      /\ Page \in Seq(Tables) /\ Len(Page) \in Nat
  <2>1. Len(pages) = offset + Len(page)
    BY DEF IInv, Pager, Counted
  <2>2. Len(Page) \in 0 .. MaxRows /\ MaxRows \in Nat
    BY <1>0, <2>1, PageTyped, ReadCallsAssumption DEF IInv
  <2> QED
    BY <1>0, <2>1, <2>2, PageTyped DEF IInv
<1>2. page' = Page /\ pages' = pages \o new /\ offset' = offset
  BY DEF Run
<1>3. new \in Seq(Named) /\ Len(new) = Len(Page)
        /\ \A i \in 1 .. Len(Page) : new[i].table = Page[i]
  <2> DEFINE P == Page
             F == [i \in DOMAIN P |-> [on |-> target, table |-> P[i]]]
  <2>1. P \in Seq(Tables)
    BY <1>1
  <2> HIDE DEF P
  <2>2. \A i \in DOMAIN P : [on |-> target, table |-> P[i]] \in Named
    BY <1>0, <2>1 DEF Named
  <2>3. F \in Seq(Named) /\ Len(F) = Len(P)
    BY <2>1, <2>2
  <2>4. DOMAIN P = 1 .. Len(P)
    BY <2>1
  <2>5. \A i \in 1 .. Len(P) : F[i].table = P[i]
    BY <2>4
  <2> QED
    BY <2>3, <2>5 DEF P
<1>4. /\ pages' \in Seq(Named) /\ Len(pages') = offset + Len(Page)
      /\ \A i \in 1 .. offset : pages'[i] = pages[i]
      /\ \A i \in 1 .. Len(Page) : pages'[offset + i] = new[i]
  <2> HIDE DEF new
  <2>1. /\ pages \o new \in Seq(Named)
        /\ Len(pages \o new) = Len(pages) + Len(new)
        /\ \A i \in 1 .. Len(pages) + Len(new) :
             (pages \o new)[i] = IF i <= Len(pages) THEN pages[i]
                                 ELSE new[i - Len(pages)]
    <3>1. pages \in Seq(Named) /\ new \in Seq(Named)
      BY <1>0, <1>3
    <3> QED
      BY <3>1, ConcatProperties
  <2>2. /\ pages' \in Seq(Named) /\ Len(pages') = offset + Len(Page)
        /\ \A i \in 1 .. offset + Len(Page) :
             pages'[i] = IF i <= offset THEN pages[i] ELSE new[i - offset]
    BY <1>0, <1>2, <1>3, <2>1
  <2>3. \A i \in 1 .. offset : pages'[i] = pages[i]
    BY <1>1, <2>2
  <2>4. ASSUME NEW i \in 1 .. Len(Page)
        PROVE  pages'[offset + i] = new[i]
    <3> DEFINE k == offset + i
    <3>1. /\ k \in 1 .. offset + Len(Page)
          /\ ~ (k <= offset) /\ k - offset = i
      BY <1>1
    <3>2. pages'[k] = new[i]
      <4> HIDE DEF k
      <4> QED
        BY <2>2, <3>1
    <3> QED
      BY <3>2
  <2> QED
    BY <2>2, <2>3, <2>4
<1>5. \A i \in 1 .. Len(Page) : pages'[offset + i].table = Page[i]
  BY <1>3, <1>4
<1>6. /\ \A i \in 1 .. Len(Page) :
           Page[i] \in S /\ Rank(S, Page[i]) = offset + i - 1
      /\ \A x \in S :
           offset <= Rank(S, x) /\ Rank(S, x) < offset + Len(Page)
             => \E i \in 1 .. Len(Page) : Page[i] = x
      /\ Len(Page) = 0 => \A x \in S : Rank(S, x) < offset
  <2>1. S = tables[target]
    OBVIOUS
  <2> HIDE DEF S
  <2> QED
    BY <1>1, <2>1, PageIsNext
<1> QED
  BY <1>0, <1>1, <1>2, <1>4, <1>5, <1>6

(* What a page adds keeps the names in the order of the listing.           *)
LEMMA PagerRuns ==
  ASSUME IInv, Run, op = "list"
  PROVE  Pager'
<1> DEFINE S == tables[target]
           n == Len(Page)
<1>1. /\ S \subseteq Nat /\ IsFiniteSet(S) /\ target \in Names
      /\ Len(pages) = offset /\ offset \in Nat /\ n \in Nat
      /\ page' = Page /\ offset' = offset /\ Len(pages') = offset + n
  BY PageAppended
<1>2. /\ \A i \in 1 .. offset : pages'[i] = pages[i]
      /\ \A i \in 1 .. n : pages'[offset + i].table = Page[i]
      /\ \A i \in 1 .. n : Page[i] \in S /\ Rank(S, Page[i]) = offset + i - 1
      /\ \A x \in S : offset <= Rank(S, x) /\ Rank(S, x) < offset + n
                        => \E i \in 1 .. n : Page[i] = x
      /\ n = 0 => \A x \in S : Rank(S, x) < offset
  BY PageAppended
<1>3. UNCHANGED <<op, asked, tables, created, dropped>> /\ answer' = "ok"
  <2>1. Conclude("ok") /\ pc = "run"
    BY DEF Run
  <2>2. answer' = "ok"
    BY <2>1, Concluded DEF IInv, Answers
  <2> QED
    BY <2>2 DEF Run, callVars, databaseVars
<1>4. Counted'
  <2>1. op' = "list" /\ Len(pages') = offset' + Len(page')
    BY <1>1, <1>3
  <2> QED
    BY <1>3, <2>1 DEF Counted
<1>5. Watching' = Watching /\ (Watching => target = asked)
  BY <1>3 DEF Watching, Run, IInv, Route
<1>6. \A x \in S : Rank(S, x) \in Nat
  BY <1>1, RankTyped
<1>7. pages' \in Seq(Named) /\ pages \in Seq(Named)
  BY PageAppended DEF IInv, Shape
<1>8. ASSUME Watching, dropped = {}
      PROVE  AllBefore' /\ AllSeen'
  <2>1. AllBefore /\ S = tables[asked]
    BY <1>5, <1>8 DEF IInv, Pager
  <2>2. ASSUME NEW t \in tables[asked], <<asked, t>> \notin created
        PROVE  Seen(t)' \/ offset + n <= Rank(S, t)
    <3>1. CASE Seen(t)
      <4>1. PICK i \in DOMAIN pages : pages[i].table = t
        BY <3>1 DEF Seen
      <4>2. i \in 1 .. offset
        BY <1>1, <1>7, <4>1, LenProperties
      <4>3. i \in DOMAIN pages' /\ pages'[i].table = t
        <5>1. i \in 1 .. Len(pages')
          BY <1>1, <4>2
        <5> QED
          BY <1>2, <1>7, <4>1, <4>2, <5>1, LenProperties
      <4> QED
        BY <4>3 DEF Seen
    <3>2. CASE offset <= Rank(S, t) /\ Rank(S, t) < offset + n
      <4>1. PICK i \in 1 .. n : Page[i] = t
        BY <1>2, <2>1, <2>2, <3>2
      <4> DEFINE k == offset + i
      <4>2. k \in 1 .. Len(pages') /\ pages'[k].table = t
        BY <1>1, <1>2, <4>1
      <4>3. k \in DOMAIN pages'
        <5> HIDE DEF k
        <5> QED
          BY <1>7, <4>2, LenProperties
      <4> QED
        BY <4>2, <4>3 DEF Seen
    <3> QED
      BY <1>1, <1>6, <2>1, <2>2, <3>1, <3>2 DEF AllBefore
  <2>3. AllBefore'
    BY <1>1, <1>3, <2>1, <2>2 DEF AllBefore
  <2>4. AllSeen'
    <3> SUFFICES ASSUME page' = <<>>, NEW t \in tables[asked],
                        <<asked, t>> \notin created
                 PROVE  Seen(t)'
      BY <1>3 DEF AllSeen
    <3>1. n = 0
      BY <1>1, EmptySeq
    <3>2. Rank(S, t) < offset /\ Rank(S, t) \in Nat
      BY <1>2, <1>6, <2>1, <3>1
    <3>3. ~ (offset + n <= Rank(S, t))
      BY <1>1, <3>1, <3>2
    <3> QED
      BY <2>2, <3>3
  <2> QED
    BY <2>3, <2>4
<1>9. ASSUME Watching, created = {}
      PROVE  Increasing'
  <2>1. Increasing /\ S = tables[asked]
    BY <1>5, <1>9 DEF IInv, Pager
  <2> HIDE DEF S, n
  <2>2. ASSUME NEW x \in S, NEW y \in S, Rank(S, x) < Rank(S, y)
        PROVE  x < y
    <3>1. x \in Nat /\ y \in Nat /\ Rank(S, x) \in Nat /\ Rank(S, y) \in Nat
      BY <1>1, <1>6
    <3>2. y <= x => Rank(S, y) <= Rank(S, x)
      BY <1>1, <3>1, RankOrdered
    <3> QED
      BY <2>2, <3>1, <3>2
  <2>3. \A i \in 1 .. Len(pages') :
          \/ i \in 1 .. offset /\ pages'[i] = pages[i]
          \/ /\ i > offset /\ pages'[i].table \in S
             /\ Rank(S, pages'[i].table) = i - 1
    <3> SUFFICES ASSUME NEW i \in 1 .. Len(pages'), i \notin 1 .. offset
                 PROVE  /\ i > offset /\ pages'[i].table \in S
                        /\ Rank(S, pages'[i].table) = i - 1
      BY <1>2
    <3> DEFINE k == i - offset
    <3>1. k \in 1 .. n /\ i > offset /\ offset + k = i /\ offset + k - 1 = i - 1
      BY <1>1
    <3> HIDE DEF k
    <3>2. pages'[i].table = Page[k]
      BY <1>2, <3>1
    <3>3. Page[k] \in S /\ Rank(S, Page[k]) = i - 1
      BY <1>2, <3>1
    <3> QED
      BY <3>1, <3>2, <3>3
  <2>4. ASSUME NEW j \in 1 .. Len(pages'), NEW i \in 1 .. j - 1
        PROVE  pages'[i].table < pages'[j].table
    <3>0. i \in 1 .. Len(pages') /\ i \in Nat /\ j \in Nat /\ i < j
      BY <1>1
    <3>1. CASE j \in 1 .. offset
      <4>1. i \in 1 .. offset /\ j \in 1 .. Len(pages)
        BY <1>1, <3>0, <3>1
      <4>2. pages[i].table < pages[j].table
        BY <2>1, <4>1 DEF Increasing
      <4> QED
        BY <1>2, <3>1, <4>1, <4>2
    <3>2. CASE j \notin 1 .. offset
      <4>1. /\ j > offset /\ pages'[j].table \in S
            /\ Rank(S, pages'[j].table) = j - 1
        BY <2>3, <3>2
      <4>2. CASE i \in 1 .. offset
        <5>1. Len(pages) <= Rank(S, pages'[j].table)
          BY <1>1, <3>0, <4>1
        <5>2. i \in 1 .. Len(pages)
          BY <1>1, <4>2
        <5>3. pages[i].table < pages'[j].table
          BY <2>1, <4>1, <5>1, <5>2 DEF Increasing
        <5> QED
          BY <1>2, <4>2, <5>3
      <4>3. CASE i \notin 1 .. offset
        <5>1. /\ pages'[i].table \in S
              /\ Rank(S, pages'[i].table) = i - 1
          BY <2>3, <3>0, <4>3
        <5>2. i - 1 < j - 1
          BY <3>0
        <5> QED
          BY <2>2, <4>1, <5>1, <5>2
      <4> QED
        BY <4>2, <4>3
    <3> QED
      BY <3>1, <3>2
  <2>5. ASSUME NEW x \in tables[asked], Len(pages') <= Rank(S, x),
               NEW i \in 1 .. Len(pages')
        PROVE  pages'[i].table < x
    <3>0. x \in S /\ Rank(S, x) \in Nat /\ offset + n <= Rank(S, x)
            /\ i \in Nat /\ i <= offset + n
      BY <1>1, <1>6, <2>1, <2>5
    <3>1. CASE i \in 1 .. offset
      <4>1. Len(pages) <= Rank(S, x) /\ i \in 1 .. Len(pages)
        BY <1>1, <3>0, <3>1
      <4>2. pages[i].table < x
        BY <2>1, <4>1 DEF Increasing
      <4> QED
        BY <1>2, <3>1, <4>2
    <3>2. CASE i \notin 1 .. offset
      <4>1. /\ pages'[i].table \in S
            /\ Rank(S, pages'[i].table) = i - 1
        BY <2>3, <3>2
      <4>2. i - 1 < Rank(S, x)
        BY <1>1, <3>0
      <4> QED
        BY <2>2, <3>0, <4>1, <4>2
    <3> QED
      BY <3>1, <3>2
  <2> QED
    BY <1>3, <2>1, <2>4, <2>5 DEF Increasing
<1> QED
  BY <1>3, <1>4, <1>5, <1>8, <1>9 DEF Pager

(* A table more leaves the others where they were or moves them back, one  *)
(* less moves them forward.                                                *)
LEMMA PagerChanges ==
  ASSUME IInv, NEW t \in Tables, Create(Watched, t) \/ Drop(Watched, t)
  PROVE  Pager'
<1> USE DEF IInv
<1>1. UNCHANGED <<op, asked, answer, offset, page, pages>>
  BY DEF Create, Drop, callVars, pagerVars
<1>2. Counted' /\ Watching' = Watching
  BY <1>1 DEF Pager, Counted, Watching
<1>3. \A u : Seen(u)' = Seen(u)
  BY <1>1 DEF Seen
<1>4. offset \in Nat /\ Len(pages) \in Nat /\ pages \in Seq(Named)
  BY LenProperties DEF Shape, TypeOK
<1>5. CASE Watching
  <2> DEFINE S == tables[asked]
  <2>1. /\ asked \in Names /\ Watched = asked
        /\ S \subseteq Nat /\ IsFiniteSet(S)
    BY <1>5, WatchedTables
  <2>2. tables \in [Names -> SUBSET Tables]
    BY DEF Shape, TypeOK
  <2>3. CASE Create(Watched, t)
    <3>1. /\ tables'[asked] = S \cup {t}
          /\ created' = created \cup {<<asked, t>>} /\ dropped' = dropped
      BY <2>1, <2>2, <2>3 DEF Create
    <3>2. IsFiniteSet(S \cup {t})
      BY <2>1, FS_AddElement
    <3>3. \A u : Rank(S, u) <= Rank(S \cup {t}, u)
      BY <3>2, RankOfMore
    <3>4. \A u : Rank(S, u) \in Nat /\ Rank(S \cup {t}, u) \in Nat
      BY <2>1, <3>2, RankTyped
    <3>5. ASSUME dropped = {} PROVE AllBefore' /\ AllSeen'
      <4>1. AllBefore /\ AllSeen
        BY <1>5, <3>5 DEF Pager
      <4>2. \A u \in tables'[asked] : <<asked, u>> \notin created' =>
              u \in S /\ <<asked, u>> \notin created
        BY <3>1
      <4>3. ASSUME NEW u \in S, <<asked, u>> \notin created
            PROVE  Seen(u) \/ Len(pages) <= Rank(tables'[asked], u)
        <5>1. Seen(u) \/ Len(pages) <= Rank(S, u)
          BY <4>1, <4>3 DEF AllBefore
        <5> DEFINE before == Rank(S, u)
                   after == Rank(S \cup {t}, u)
        <5>2. before \in Nat /\ after \in Nat /\ before <= after
          BY <3>3, <3>4
        <5>3. Len(pages) <= before => Len(pages) <= after
          <6> HIDE DEF before, after
          <6> QED
            BY <1>4, <5>2
        <5> QED
          BY <3>1, <5>1, <5>3
      <4>4. AllBefore'
        BY <1>1, <1>3, <4>2, <4>3 DEF AllBefore
      <4>5. AllSeen'
        BY <1>1, <1>3, <4>1, <4>2 DEF AllSeen
      <4> QED
        BY <4>4, <4>5
    <3>6. created' # {}
      BY <3>1
    <3> QED
      BY <1>2, <3>1, <3>5, <3>6 DEF Pager
  <2>4. CASE Drop(Watched, t)
    <3>1. /\ tables'[asked] = S \ {t} /\ created' = created
          /\ dropped' = dropped \cup {<<asked, t>>}
      BY <2>1, <2>2, <2>4 DEF Drop
    <3>2. IsFiniteSet(S \ {t})
      BY <2>1, FS_RemoveElement
    <3>3. \A u : Rank(S \ {t}, u) <= Rank(S, u)
      BY <2>1, RankOfMore
    <3>4. \A u : Rank(S, u) \in Nat /\ Rank(S \ {t}, u) \in Nat
      BY <2>1, <3>2, RankTyped
    <3>5. ASSUME created = {} PROVE Increasing'
      <4>1. Increasing
        BY <1>5, <3>5 DEF Pager
      <4>2. ASSUME NEW u \in tables'[asked],
                   Len(pages) <= Rank(tables'[asked], u)
            PROVE  u \in S /\ Len(pages) <= Rank(S, u)
        <5> DEFINE before == Rank(S, u)
                   after == Rank(S \ {t}, u)
        <5>1. u \in S /\ Len(pages) <= after
          BY <3>1, <4>2
        <5>2. before \in Nat /\ after \in Nat /\ after <= before
          BY <3>3, <3>4
        <5>3. Len(pages) <= before
          <6> HIDE DEF before, after
          <6> QED
            BY <1>4, <5>1, <5>2
        <5> QED
          BY <5>1, <5>3
      <4>3. \A u \in tables'[asked] : Len(pages) <= Rank(tables'[asked], u) =>
              \A i \in 1 .. Len(pages) : pages[i].table < u
        BY <4>1, <4>2 DEF Increasing
      <4> QED
        BY <1>1, <4>1, <4>3 DEF Increasing
    <3>6. dropped' # {}
      BY <3>1
    <3> QED
      BY <1>2, <3>1, <3>5, <3>6 DEF Pager
  <2> QED
    BY <2>3, <2>4
<1>6. CASE ~ Watching
  BY <1>2, <1>6 DEF Pager
<1> QED
  BY <1>5, <1>6

(* No page is returned in this step.                                       *)
NoPageEnds ==
  \/ answer' = answer
  \/ answer = "none" /\ (op = "list" => answer' # "ok")

(* Only a page returned by list_* and what others do to the tables matter  *)
(* for what the caller has seen.                                           *)
LEMMA PagerStep ==
  ASSUME IInv, [Next]_vars
  PROVE  Pager'
<1> USE DEF IInv
<1>1. CASE /\ UNCHANGED <<op, asked, offset, page, pages, tables, created,
                          dropped>>
           /\ NoPageEnds
  <2>1. \A u : Seen(u)' = Seen(u)
    BY <1>1 DEF Seen
  <2>2. Watching' = Watching /\ (Watching => op = "list")
    BY <1>1 DEF Watching
  <2>3. Counted'
    BY <1>1 DEF NoPageEnds, Pager, Counted
  <2>4. Watching /\ dropped = {} => AllBefore' /\ AllSeen'
    BY <1>1, <2>1, <2>2 DEF NoPageEnds, Pager, AllBefore, AllSeen
  <2>5. Watching /\ created = {} => Increasing'
    BY <1>1 DEF Pager, Increasing
  <2> QED
    BY <1>1, <2>2, <2>3, <2>4, <2>5 DEF Pager
<1>2. ASSUME NEW a \in Answers, Conclude(a), op = "list" => a # "ok",
             pc \in {"resolve", "dialect", "engine", "run"}
      PROVE  NoPageEnds
  <2>1. answer = "none"
    BY <1>2 DEF Route
  <2>2. op = "list" => answer' = a
    BY <1>2, Concluded
  <2> QED
    BY <1>2, <2>1, <2>2 DEF NoPageEnds
<1>3. CASE Regrant
  <2>1. NoPageEnds
    BY <1>3 DEF NoPageEnds, Regrant
  <2> QED
    BY <1>1, <1>3, <2>1 DEF Regrant, callVars, pagerVars, databaseVars
<1>4. CASE TakeNames
  <2>1. op = "ping_all" /\ answer = "none"
    BY <1>4 DEF TakeNames, Pings, Route
  <2>2. NoPageEnds
    BY <1>4, <2>1 DEF NoPageEnds, TakeNames
  <2> QED
    BY <1>1, <1>4, <2>2 DEF TakeNames, callVars, pagerVars, databaseVars
<1>5. CASE Resolve
  <2>1. NoPageEnds
    <3>1. CASE Conclude("denied")
      BY <1>2, <1>5, <3>1 DEF Resolve, Answers
    <3>2. CASE UNCHANGED answer
      BY <3>2 DEF NoPageEnds
    <3> QED
      BY <1>5, <3>1, <3>2 DEF Resolve
  <2> QED
    BY <1>1, <1>5, <2>1 DEF Resolve, callVars, pagerVars, databaseVars
<1>6. CASE LookUpDialect
  <2>1. op # "list"
    BY <1>6 DEF LookUpDialect, Route, LooksUpDialect
  <2>2. NoPageEnds
    BY <1>2, <1>6, <2>1 DEF NoPageEnds, LookUpDialect, Answers
  <2> QED
    BY <1>1, <1>6, <2>2 DEF LookUpDialect, callVars, pagerVars, databaseVars
<1>7. CASE Engine
  <2>1. answer = "none"
    BY <1>7 DEF Engine, Route
  <2>2. NoPageEnds
    BY <1>2, <1>7, <2>1 DEF NoPageEnds, Engine, Answers
  <2> QED
    BY <1>1, <1>7, <2>2 DEF Engine, callVars, pagerVars, databaseVars
<1>8. CASE Run /\ op = "list"
  BY <1>8, PagerRuns
<1>9. CASE Run /\ op # "list"
  <2>1. NoPageEnds
    BY <1>2, <1>9 DEF Run, Answers
  <2> QED
    BY <1>1, <1>9, <2>1 DEF Run, callVars, pagerVars, databaseVars
<1>10. CASE RunFails
  <2>1. NoPageEnds
    BY <1>2, <1>10 DEF RunFails, Answers
  <2> QED
    BY <1>1, <1>10, <2>1 DEF RunFails, callVars, pagerVars, databaseVars
<1>11. CASE NextPage
  <2>1. /\ UNCHANGED <<op, asked, pages, tables, created, dropped>>
        /\ op = "list" /\ page' = <<>> /\ answer' = "none" /\ Len(page') = 0
        /\ offset' = offset + IF answer = "ok" THEN Len(page) ELSE 0
    BY <1>11, EmptySeq DEF NextPage, callVars, databaseVars
  <2>2. \A u : Seen(u)' = Seen(u)
    BY <2>1 DEF Seen
  <2>3. Counted'
    <3>1. answer # "ok" => Len(page) = 0
      BY EmptySeq DEF Pager, Counted
    <3>2. /\ offset \in Nat /\ Len(page) \in Nat
          /\ Len(pages) = offset + Len(page)
      BY LenProperties DEF Shape, TypeOK, Pager, Counted
    <3>3. Len(pages') = offset' + Len(page')
      BY <2>1, <3>1, <3>2
    <3> QED
      BY <2>1, <3>3 DEF Counted
  <2>4. Watching /\ dropped = {} => AllBefore' /\ AllSeen'
    BY <2>1, <2>2 DEF Pager, AllBefore, AllSeen
  <2>5. Watching /\ created = {} => Increasing'
    BY <2>1 DEF Pager, Increasing
  <2>6. Watching' = Watching
    BY <2>1 DEF Watching
  <2> QED
    BY <2>1, <2>3, <2>4, <2>5, <2>6 DEF Pager
<1>12. CASE \E t \in Tables : Create(Watched, t) \/ Drop(Watched, t)
  BY <1>12, PagerChanges
<1>13. CASE UNCHANGED vars
  <2>1. NoPageEnds
    BY <1>13 DEF NoPageEnds, vars, callVars, pagerVars, databaseVars
  <2> QED
    BY <1>1, <1>13, <2>1 DEF vars, callVars, pagerVars, databaseVars
<1> QED
  BY <1>3, <1>4, <1>5, <1>6, <1>7, <1>8, <1>9, <1>10, <1>11, <1>12, <1>13
  DEF Next

-----------------------------------------------------------------------------
(* The invariant holds in every reachable state, for any connections,      *)
(* grants, tables and limits.                                              *)
THEOREM Invariance == Spec => []IInv
<1>1. IInv /\ [Next]_vars => IInv'
  BY ShapeStep, PingsStep, RouteStep, TruthStep, PagerStep DEF IInv
<1> QED
  BY <1>1, InitIInv, PTL DEF Spec

(* The read operations keep their types; a page has at most max_rows names *)
(* and the offset is never beyond what was returned.                       *)
THEOREM TypeCorrect == Spec => []TypeOK
<1>1. IInv => TypeOK
  BY DEF IInv, Shape
<1> QED
  BY <1>1, Invariance, PTL

(* Whatever the grants of the caller become between the look-ups, an       *)
(* operation that runs does so on the connection that it resolved and was  *)
(* asked for, and each successful ping of ping_all went where it says.     *)
THEOREM ReportsAreAboutTheTarget == Spec => []ReportIsAboutTarget
<1>1. IInv => ReportIsAboutTarget
  <2> SUFFICES ASSUME IInv PROVE ReportIsAboutTarget
    OBVIOUS
  <2>1. target # NoName => /\ name # NoName => target = name
                           /\ asked # NoName => target = asked
    BY DEF IInv, Route
  <2>2. DOMAIN entries = 1 .. Len(entries)
    BY LenProperties DEF IInv, Shape
  <2>3. \A i \in 1 .. Len(entries) :
          entries[i].ok => entries[i].on = entries[i].connection
    BY DEF IInv, Pings, Reported
  <2> QED
    BY <2>1, <2>2, <2>3 DEF ReportIsAboutTarget
<1> QED
  BY <1>1, Invariance, PTL

(* ping_all is refused before it has listed a name, or it answers with an  *)
(* entry for each name it listed, in that order, whatever the pings raised *)
(* or the grants became meanwhile.                                         *)
THEOREM PingAllAnswersForEach == Spec => []PingAllComplete
<1>1. IInv => PingAllComplete
  <2> SUFFICES ASSUME IInv, op = "ping_all", pc = "done"
               PROVE  /\ answer = "ok" \/ (answer = "denied" /\ listed = <<>>)
                      /\ [i \in DOMAIN entries |-> entries[i].connection]
                           = listed
    BY DEF PingAllComplete
  <2> DEFINE connections == [i \in DOMAIN entries |-> entries[i].connection]
  <2>1. /\ answer = "ok" \/ (answer = "denied" /\ listed = <<>>)
        /\ Len(entries) = Len(listed)
    BY DEF IInv, Pings, Progress
  <2>2. /\ DOMAIN entries = 1 .. Len(entries)
        /\ DOMAIN listed = 1 .. Len(listed)
        /\ listed = [i \in DOMAIN listed |-> listed[i]]
    BY LenProperties DEF IInv, Shape
  <2>3. \A i \in 1 .. Len(entries) : entries[i].connection = listed[i]
    BY DEF IInv, Pings, Reported
  <2>4. connections = [i \in DOMAIN listed |-> listed[i]]
    BY <2>1, <2>2, <2>3
  <2> QED
    BY <2>1, <2>2, <2>4
<1> QED
  BY <1>1, Invariance, PTL

(* capabilities, explain, active_connections and _enable_read_only agree   *)
(* on every connection SQLAlchemy found a driver for: the registry knows   *)
(* the dialect by its backend or an alias, SQLAlchemy by the backend.      *)
THEOREM CapabilitiesAreTrue == Spec => []CapabilitiesTrue
<1>1. IInv => CapabilitiesTrue
  <2> SUFFICES ASSUME IInv PROVE CapabilitiesTrue
    OBVIOUS
  <2>1. /\ op = "explain" => (Unsupported <=> ~ Capabilities(name).explain)
        /\ op = "sessions" =>
             (Unsupported <=> ~ Capabilities(name).active_connections)
    BY Zenon DEF Unsupported, Capabilities
  <2>2. target # NoName /\ op \in NamesFirst => name = target
    BY DEF IInv, Route
  <2>3. target # NoName => BackendOf[target] \in Installed
    BY DEF IInv, Route
  <2>4. target # NoName =>
          EnforcesReadOnly(target) = Capabilities(target).read_only_transactions
    BY <2>3, ReadOnlyAgrees
  <2>5. {"explain", "sessions"} \subseteq NamesFirst
    BY DEF NamesFirst, LooksUpDialect
  <2> QED
    BY <2>1, <2>2, <2>4, <2>5 DEF CapabilitiesTrue, IInv, Truth
<1> QED
  BY <1>1, Invariance, PTL

(* A caller that pages through list_* until a page is empty has seen every *)
(* table that was there throughout, if none was dropped meanwhile, and     *)
(* none twice, if none was created: for any listing, limit and max_rows.   *)
THEOREM EveryNameComesOnce == Spec => []EveryNameOnce
<1>1. IInv => EveryNameOnce
  <2> SUFFICES ASSUME IInv, asked # NoName
               PROVE  /\ AllPagesRead /\ dropped = {} =>
                           \A t \in tables[asked] :
                             <<asked, t>> \notin created => Seen(t)
                      /\ created = {} =>
                           \A i, j \in DOMAIN pages :
                             pages[i] = pages[j] => i = j
    BY DEF EveryNameOnce
  <2>1. AllPagesRead /\ dropped = {} => AllSeen /\ answer = "ok" /\ page = <<>>
    BY DEF IInv, Pager, Watching, AllPagesRead
  <2>2. DOMAIN pages = 1 .. Len(pages) /\ Len(pages) \in Nat
    BY LenProperties DEF IInv, Shape
  <2>3. ASSUME created = {},
               NEW i \in 1 .. Len(pages), NEW j \in 1 .. Len(pages),
               pages[i] = pages[j]
        PROVE  i = j
    <3>1. CASE op = "list"
      <4>1. Increasing
        BY <2>3, <3>1 DEF IInv, Pager, Watching
      <4>2. \A k \in 1 .. Len(pages) : pages[k].table \in Nat
        <5>1. \A k \in 1 .. Len(pages) : pages[k] \in Named
          BY ElementOfSeq DEF IInv, Shape
        <5> QED
          BY <5>1, ReadCallsAssumption DEF Named
      <4>3. i < j => pages[i].table < pages[j].table
        BY <2>2, <4>1 DEF Increasing
      <4>4. j < i => pages[j].table < pages[i].table
        BY <2>2, <4>1 DEF Increasing
      <4>5. ~ (pages[i].table < pages[i].table)
        BY <4>2
      <4> QED
        BY <2>2, <2>3, <4>3, <4>4, <4>5
    <3>2. CASE op # "list"
      <4>1. Len(pages) = 0
        BY <3>2, EmptySeq DEF IInv, Pager, Counted
      <4> QED
        BY <2>2, <4>1
    <3> QED
      BY <3>1, <3>2
  <2> QED
    BY <2>1, <2>2, <2>3 DEF AllSeen
<1> QED
  BY <1>1, Invariance, PTL
=============================================================================
