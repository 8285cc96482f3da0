---------------------------- MODULE ScannerProofs ----------------------------
(***************************************************************************)
(* The scanner of safety.py on every statement: it keeps its type, its     *)
(* offsets stay aligned, nothing that opens a literal or a comment is left *)
(* for the gates, what is kept is the code of the statement and nothing    *)
(* else, and so what passes as a read has code that reads.                 *)
(***************************************************************************)
EXTENDS Scanner, SequenceTheorems, FiniteSetTheorems, WellFoundedInduction,
        TLAPS

(* An item that may stand at place k of the output for text t.             *)
Fine(t, k, c) ==
  /\ c \in {t[k], Blank, Newline}
  /\ c \notin Quotes \cup {"["}
  /\ c = "-" => ~ IsPair(t, k, "-", "-")
  /\ c = "/" => ~ IsPair(t, k, "/", "*")

Aligned == Len(out) = at - 1 /\ \A k \in 1 .. Len(out) : Fine(text, k, out[k])

IInv == TypeOK /\ Aligned

USE DEF Blank, Newline, None

(* What a turn of a loop appends takes the places after what is there.     *)
LEMMA Extended ==
  ASSUME NEW s \in Seq(Items), NEW e \in Seq(Items)
  PROVE  /\ s \o e \in Seq(Items)
         /\ Len(s \o e) = Len(s) + Len(e)
         /\ \A k \in 1 .. Len(s) : (s \o e)[k] = s[k]
         /\ \A k \in 1 .. Len(e) : (s \o e)[Len(s) + k] = e[k]
  OBVIOUS

LEMMA Placed ==
  ASSUME NEW t, NEW s \in Seq(Items), NEW e \in Seq(Items),
         \A k \in 1 .. Len(s) : Fine(t, k, s[k]),
         \A k \in 1 .. Len(e) : Fine(t, Len(s) + k, e[k])
  PROVE  \A k \in 1 .. Len(s \o e) : Fine(t, k, (s \o e)[k])
<1> SUFFICES ASSUME NEW k \in 1 .. Len(s \o e)
             PROVE  Fine(t, k, (s \o e)[k])
  OBVIOUS
<1>1. CASE k \in 1 .. Len(s)
  BY <1>1, Extended
<1>2. CASE k \notin 1 .. Len(s)
  <2>1. Len(s) \in Nat /\ Len(e) \in Nat /\ k \in Nat
    BY Extended
  <2>2. k - Len(s) \in 1 .. Len(e) /\ k = Len(s) + (k - Len(s))
    BY <1>2, <2>1, Extended
  <2> QED
    BY <2>2, Extended
<1> QED
  BY <1>1, <1>2

(* A turn that appends as many fine items as it reads keeps the invariant. *)
LEMMA EmitKeeps ==
  ASSUME IInv,
         NEW n \in {1, 2}, NEW items \in Seq(Items), NEW next,
         Len(items) = n, at + n - 1 <= Len(text),
         \A k \in 1 .. n : Fine(text, at + k - 1, items[k]),
         next \in {"code", "bracket", "line", "block"} \cup Quotes,
         verdict = "none",
         Emit(n, items, next)
  PROVE  IInv'
<1> USE TextsAssumption DEF IInv, TypeOK
<1>1. /\ text' = text /\ verdict' = verdict /\ mode' = next
      /\ at' = at + n /\ out' = out \o items
  BY DEF Emit
<1>2. /\ text \in Seq(Items) /\ Len(text) \in Nat
      /\ at \in Nat /\ Len(out) = at - 1
  BY DEF Aligned
<1>3. out' \in Seq(Items) /\ Len(out') = at' - 1 /\ at' \in 1 .. Len(text) + 1
  BY <1>1, <1>2, Extended
<1>4. \A k \in 1 .. Len(items) : Fine(text, Len(out) + k, items[k])
  <2> SUFFICES ASSUME NEW k \in 1 .. Len(items)
               PROVE  Fine(text, Len(out) + k, items[k])
    OBVIOUS
  <2>1. at + k - 1 = Len(out) + k
    BY <1>2
  <2> QED
    BY <2>1
<1>5. \A k \in 1 .. Len(out') : Fine(text, k, out'[k])
  BY <1>1, <1>4, Placed DEF Aligned
<1>6. Aligned'
  BY <1>1, <1>3, <1>5 DEF Aligned
<1>7. TypeOK'
  BY <1>1, <1>3
<1> QED
  BY <1>6, <1>7

LEMMA BlankFine ==
  ASSUME NEW t, NEW k
  PROVE  Fine(t, k, Blank) /\ Fine(t, k, Newline)
  BY DEF Fine, Quotes

(* The same for one blank or newline, and for two blanks.                  *)
LEMMA SpaceKeeps ==
  ASSUME IInv, verdict = "none", at <= Len(text), NEW c \in Space, NEW next,
         next \in {"code", "bracket", "line", "block"} \cup Quotes,
         Emit(1, <<c>>, next)
  PROVE  IInv'
<1>0. c \in Items
  BY DEF Items
<1>1. <<c>> \in Seq(Items) /\ Len(<<c>>) = 1 /\ <<c>>[1] = c
  BY <1>0
<1>2. \A k \in 1 .. 1 : Fine(text, at + k - 1, <<c>>[k])
  <2>1. \A k : Fine(text, k, c)
    BY BlankFine DEF Space
  <2> QED
    BY <1>1, <2>1
<1>3. at + 1 - 1 <= Len(text)
  BY DEF IInv, TypeOK
<1> QED
  BY <1>1, <1>2, <1>3, EmitKeeps

LEMMA Twice ==
  ASSUME NEW c \in Items
  PROVE  /\ <<c, c>> \in Seq(Items) /\ Len(<<c, c>>) = 2
         /\ \A k \in 1 .. 2 : <<c, c>>[k] = c
<1>1. /\ <<c, c>> \in Seq(Items) /\ Len(<<c, c>>) = 2
      /\ <<c, c>>[1] = c /\ <<c, c>>[2] = c
  OBVIOUS
<1>2. \A k \in 1 .. 2 : k = 1 \/ k = 2
  OBVIOUS
<1> QED
  BY <1>1, <1>2

LEMMA OneMore ==
  ASSUME NEW t \in Seq(Items), NEW k \in Nat, k + 1 <= Len(t)
  PROVE  k + 2 - 1 <= Len(t)
  OBVIOUS

LEMMA AtTyped ==
  ASSUME IInv
  PROVE  text \in Seq(Items) /\ at \in Nat
<1>1. text \in Seq(Items) /\ at \in 1 .. Len(text) + 1
  BY TextsAssumption DEF IInv, TypeOK
<1>2. Len(text) \in Nat
  BY <1>1
<1> QED
  BY <1>1, <1>2

LEMMA TwoSpacesKeep ==
  ASSUME IInv, verdict = "none", at + 1 <= Len(text), NEW next,
         next \in {"code", "bracket", "line", "block"} \cup Quotes,
         NEW c, c = Blank, Emit(2, <<c, c>>, next)
  PROVE  IInv'
<1>0. c \in Items
  BY DEF Items, Space
<1>1. /\ <<c, c>> \in Seq(Items) /\ Len(<<c, c>>) = 2
      /\ \A k \in 1 .. 2 : <<c, c>>[k] = c
  BY <1>0, Twice
<1>2. \A k \in 1 .. 2 : Fine(text, at + k - 1, <<c, c>>[k])
  <2>1. \A k : Fine(text, k, c)
    BY BlankFine
  <2> QED
    BY <1>1, <2>1
<1>3. at + 2 - 1 <= Len(text)
  BY AtTyped, OneMore
<1> QED
  BY <1>1, <1>2, <1>3, EmitKeeps

(* Two items that were looked at are there.                                *)
LEMMA SecondIsThere ==
  ASSUME IInv, Here(1) # None
  PROVE  at + 1 <= Len(text)
  BY DEF Here

LEMMA Typed == Init => IInv
<1> SUFFICES ASSUME Init PROVE IInv
  OBVIOUS
<1>1. text \in Seq(Items) /\ Len(text) \in Nat /\ out = <<>> /\ Len(out) = 0
  BY TextsAssumption DEF Init
<1> QED
  BY <1>1 DEF Init, IInv, TypeOK, Aligned

LEMMA Preserved == IInv /\ [Next]_vars => IInv'
<1> SUFFICES ASSUME IInv, [Next]_vars PROVE IInv'
  OBVIOUS
<1> USE DEF Scanning
<1>0. /\ text \in Seq(Items) /\ Len(text) \in Nat /\ at \in Nat \ {0}
      /\ Here(0) = IF at <= Len(text) THEN text[at] ELSE None
      /\ Here(1) = IF at + 1 <= Len(text) THEN text[at + 1] ELSE None
  BY TextsAssumption DEF IInv, TypeOK, Here
<1>1. CASE Keep
  <2>1. at <= Len(text) /\ verdict = "none" /\ ~ Opens
        /\ Emit(1, <<text[at]>>, "code")
    BY <1>0, <1>1 DEF Keep
  <2>2. text[at] \in Items /\ Here(0) = text[at]
    BY <1>0, <2>1
  <2>3. Fine(text, at, text[at])
    <3>1. text[at] \notin Quotes \cup {"["}
      BY <2>1, <2>2 DEF Opens
    <3>2. ~ IsPair(text, at, "-", "-") /\ ~ IsPair(text, at, "/", "*")
      BY <1>0, <2>1, <2>2 DEF Opens, Next2, IsPair
    <3> QED
      BY <3>1, <3>2 DEF Fine
  <2>4. /\ <<text[at]>> \in Seq(Items) /\ Len(<<text[at]>>) = 1
        /\ \A k \in 1 .. 1 : Fine(text, at + k - 1, <<text[at]>>[k])
    BY <1>0, <2>2, <2>3
  <2>5. at + 1 - 1 <= Len(text)
    BY <1>0, <2>1
  <2> QED
    BY <2>1, <2>4, <2>5, EmitKeeps
<1>2. CASE Refuse
  BY <1>2 DEF Refuse, IInv, TypeOK, Aligned
<1>3. CASE OpenLiteral
  BY <1>3, SpaceKeeps DEF OpenLiteral, Space
<1>4. CASE InLiteral
  <2>1. mode \in Quotes /\ mode # None /\ verdict = "none" /\ at <= Len(text)
    BY <1>4 DEF InLiteral, Quotes
  <2>2. CASE Emit(1, <<Masked(Here(0))>>, mode)
    BY <2>1, <2>2, SpaceKeeps DEF Masked, Space
  <2>3. CASE Doubled /\ Emit(2, <<Blank, Blank>>, mode)
    BY <2>1, <2>3, SecondIsThere, TwoSpacesKeep DEF Doubled
  <2>4. CASE Emit(1, <<Blank>>, "code")
    BY <2>1, <2>4, SpaceKeeps DEF Space
  <2> QED
    BY <1>4, <2>2, <2>3, <2>4 DEF InLiteral
<1>5. CASE OpenBracket
  BY <1>5, SpaceKeeps DEF OpenBracket, Space
<1>6. CASE InBracket
  BY <1>6, SpaceKeeps DEF InBracket, Space
<1>7. CASE OpenLine
  BY <1>7, SecondIsThere, TwoSpacesKeep DEF OpenLine, Next2
<1>8. CASE InLine
  BY <1>8, SpaceKeeps DEF InLine, Space
<1>9. CASE OpenBlock
  BY <1>9, SecondIsThere, TwoSpacesKeep DEF OpenBlock, Next2
<1>10. CASE InBlock
  <2>1. CASE Emit(1, <<Masked(Here(0))>>, "block")
    BY <1>10, <2>1, SpaceKeeps DEF InBlock, Masked, Space
  <2>2. CASE Next2("*", "/") /\ Emit(2, Closer, "code")
    BY <1>10, <2>2, SecondIsThere, TwoSpacesKeep DEF InBlock, Next2, Closer
  <2> QED
    BY <1>10, <2>1, <2>2 DEF InBlock
<1>11. CASE Finish
  BY <1>11 DEF Finish, IInv, TypeOK, Aligned
<1>12. CASE UNCHANGED vars
  BY <1>12 DEF vars, IInv, TypeOK, Aligned
<1> QED
  BY <1>1, <1>2, <1>3, <1>4, <1>5, <1>6, <1>7, <1>8, <1>9, <1>10, <1>11,
     <1>12 DEF Next

LEMMA Invariance == Spec => []IInv
  BY Typed, Preserved, PTL DEF Spec

(* The scanner keeps the types of its variables on every statement.        *)
THEOREM ScannerTyped == Spec => []TypeOK
<1>1. IInv => TypeOK
  BY DEF IInv
<1> QED
  BY <1>1, Invariance, PTL

(* safety.py: "Keeps offsets stable", for every statement and in the       *)
(* middle of every loop.                                                   *)
THEOREM ScannerAligned == Spec => []OffsetsStable
<1>1. IInv => OffsetsStable
  <2> SUFFICES ASSUME IInv PROVE OffsetsStable
    OBVIOUS
  <2>1. Len(text) \in Nat /\ at \in 1 .. Len(text) + 1 /\ Len(out) = at - 1
    BY TextsAssumption DEF IInv, TypeOK, Aligned
  <2>2. \A k \in 1 .. Len(out) : Fine(text, k, out[k])
    BY DEF IInv, Aligned
  <2>3. \A k \in 1 .. Len(out) : out[k] \in {text[k], Blank, Newline}
    BY <2>2 DEF Fine
  <2>4. Len(out) = at - 1 /\ Len(out) <= Len(text)
    BY <2>1
  <2> QED
    BY <2>3, <2>4 DEF OffsetsStable
<1> QED
  BY <1>1, Invariance, PTL

(* Nothing is left that a second scan would blank.                         *)
THEOREM ScannerExhaustive == Spec => []NothingOpens
<1>1. IInv => NothingOpens
  <2> SUFFICES ASSUME IInv, NEW k \in 1 .. Len(out)
               PROVE  /\ out[k] \notin Quotes \cup {"["}
                      /\ ~ IsPair(out, k, "-", "-")
                      /\ ~ IsPair(out, k, "/", "*")
    BY DEF NothingOpens
  <2>1. /\ Len(text) \in Nat /\ Len(out) \in Nat /\ Len(out) <= Len(text)
        /\ Fine(text, k, out[k])
    BY TextsAssumption DEF IInv, TypeOK, Aligned
  <2>2. k < Len(out) => Fine(text, k + 1, out[k + 1])
    BY <2>1 DEF IInv, Aligned
  <2>3. ~ IsPair(out, k, "-", "-")
    <3> SUFFICES ASSUME k < Len(out), out[k] = "-", out[k + 1] = "-"
                 PROVE  FALSE
      BY DEF IsPair
    <3>1. out[k] \in {text[k], Blank, Newline} /\ ~ IsPair(text, k, "-", "-")
      BY <2>1 DEF Fine
    <3>2. out[k + 1] \in {text[k + 1], Blank, Newline}
      BY <2>2 DEF Fine
    <3>3. text[k] = "-" /\ text[k + 1] = "-" /\ k < Len(text)
      BY <2>1, <3>1, <3>2
    <3> QED
      BY <3>1, <3>3 DEF IsPair
  <2>4. ~ IsPair(out, k, "/", "*")
    <3> SUFFICES ASSUME k < Len(out), out[k] = "/", out[k + 1] = "*"
                 PROVE  FALSE
      BY DEF IsPair
    <3>1. out[k] \in {text[k], Blank, Newline} /\ ~ IsPair(text, k, "/", "*")
      BY <2>1 DEF Fine
    <3>2. out[k + 1] \in {text[k + 1], Blank, Newline}
      BY <2>2 DEF Fine
    <3>3. text[k] = "/" /\ text[k + 1] = "*" /\ k < Len(text)
      BY <2>1, <3>1, <3>2
    <3> QED
      BY <3>1, <3>3 DEF IsPair
  <2> QED
    BY <2>1, <2>3, <2>4 DEF Fine
<1> QED
  BY <1>1, Invariance, PTL

(* Every text that passes as a read would pass the gate of sql_execute's   *)
(* transactions too, by the tables of keywords.                            *)
THEOREM ReadsAreManaged == \A s : ReadOnly(s) => Managed(s)
<1> SUFFICES ASSUME NEW s, ReadOnly(s) PROVE Managed(s)
  OBVIOUS
<1> DEFINE w == WordTokens(s)
<1>1. SingleStatement(s) /\ FirstKeyword(s) \in READ_ONLY_STARTERS
  BY DEF ReadOnly
<1>2. CASE w = <<>>
  BY <1>1, <1>2 DEF Managed
<1>3. CASE w # <<>>
  <2>1. w[1] \in READ_ONLY_STARTERS
    BY <1>1, <1>3 DEF FirstKeyword
  <2>2. ~ ControlsTransaction(w)
    BY <2>1 DEF ControlsTransaction, READ_ONLY_STARTERS, CONTROL_STARTERS
  <2> QED
    BY <1>1, <2>2 DEF Managed
<1> QED
  BY <1>2, <1>3

-----------------------------------------------------------------------------
(***************************************************************************)
(* The reference: the elements of a text                                   *)
(***************************************************************************)
HIDE DEF Blank, Newline, None

(* A set of numbers has a least one: what is said by induction below is    *)
(* said of the least counterexample.                                       *)
LEMMA LeastNumber ==
  ASSUME NEW T, T \subseteq Nat, T # {}
  PROVE  \E x \in T : \A y \in T : x <= y
<1> DEFINE R == OpToRel(<, Nat)
<1>1. IsWellFoundedOn(R, Nat)
  BY NatLessThanWellFounded
<1>2. PICK x \in T : \A y \in T : ~ (<<y, x>> \in R)
  <2> HIDE DEF R
  <2> QED BY <1>1, WFMin
<1>3. \A y \in T : ~ (y < x)
  BY <1>2 DEF OpToRel
<1> QED
  BY <1>3

(* What Least returns.                                                     *)
LEMMA LeastIsLeast ==
  ASSUME NEW S, S \subseteq Nat, NEW d
  PROVE  /\ S = {} => Least(S, d) = d
         /\ S # {} => /\ Least(S, d) \in S
                      /\ \A j \in S : Least(S, d) <= j
<1>1. CASE S = {}
  BY <1>1 DEF Least
<1>2. CASE S # {}
  <2>1. \E k \in S : \A j \in S : k <= j
    BY <1>2, LeastNumber
  <2> QED
    BY <1>2, <2>1 DEF Least
<1> QED
  BY <1>1, <1>2

(* An element begins at k if those in S end just before.                   *)
Begins(t, k, S) ==
  k = 1 \/ \E a \in 1 .. k - 1 : a \in S /\ ElementEnd(t, a) = k - 1

(* The recursive function of Starts exists, so it has the values that it   *)
(* is defined to have.                                                     *)
LEMMA StartsExist ==
  ASSUME NEW t, NEW n \in Nat
  PROVE  \E S \in SUBSET (1 .. n) :
           \A k \in 1 .. n : k \in S <=> Begins(t, k, S)
<1> DEFINE Good(m) == \E S \in SUBSET (1 .. m) :
                        \A k \in 1 .. m : k \in S <=> Begins(t, k, S)
           Bad == {m \in Nat : ~ Good(m)}
<1> SUFFICES ASSUME Bad # {} PROVE FALSE
  OBVIOUS
<1>1. PICK m \in Bad : \A y \in Bad : m <= y
  BY LeastNumber
<1>2. Good(0)
  <2>1. {} \in SUBSET (1 .. 0) /\ 1 .. 0 = {}
    OBVIOUS
  <2> QED
    BY <2>1
<1>3. m - 1 \in Nat /\ Good(m - 1)
  BY <1>1, <1>2
<1>4. PICK S \in SUBSET (1 .. m - 1) :
        \A k \in 1 .. m - 1 : k \in S <=> Begins(t, k, S)
  BY <1>3
<1> DEFINE S2 == IF Begins(t, m, S) THEN S \cup {m} ELSE S
<1>5. S2 \in SUBSET (1 .. m) /\ \A k \in 1 .. m - 1 : k \in S2 <=> k \in S
  BY <1>3
<1>6. \A k \in 1 .. m : Begins(t, k, S2) <=> Begins(t, k, S)
  BY <1>3, <1>5 DEF Begins
<1>7. m \in S2 <=> Begins(t, m, S)
  BY <1>3
<1>8. \A k \in 1 .. m : k \in S2 <=> Begins(t, k, S2)
  <2> SUFFICES ASSUME NEW k \in 1 .. m PROVE k \in S2 <=> Begins(t, k, S2)
    OBVIOUS
  <2> HIDE DEF S2
  <2>1. CASE k = m
    BY <2>1, <1>6, <1>7
  <2>2. CASE k # m
    BY <2>2, <1>3, <1>4, <1>5, <1>6
  <2> QED
    BY <2>1, <2>2
<1>9. Good(m)
  <2> HIDE DEF S2
  <2> QED
  BY <1>5, <1>8
<1> QED
  BY <1>1, <1>9

LEMMA StartsUnfold ==
  ASSUME NEW t, Len(t) \in Nat
  PROVE  /\ Starts(t) \subseteq 1 .. Len(t)
         /\ \A k \in 1 .. Len(t) : k \in Starts(t) <=> Begins(t, k, Starts(t))
<1> DEFINE n == Len(t)
           Is(f) == f = [k \in 1 .. n |->
                           \/ k = 1
                           \/ \E a \in 1 .. k - 1 :
                                f[a] /\ ElementEnd(t, a) = k - 1]
           starts == CHOOSE f : Is(f)
<1>1. PICK S \in SUBSET (1 .. n) :
        \A k \in 1 .. n : k \in S <=> Begins(t, k, S)
  BY StartsExist
<1>2. Is([k \in 1 .. n |-> k \in S])
  <2> DEFINE f == [k \in 1 .. n |-> k \in S]
  <2>1. \A k \in 1 .. n :
          (k \in S) = (\/ k = 1
                      \/ \E a \in 1 .. k - 1 :
                           f[a] /\ ElementEnd(t, a) = k - 1)
    <3>1. \A a \in 1 .. n : f[a] = (a \in S)
      OBVIOUS
    <3> QED
      <4>1. \A k \in 1 .. n : \A a \in 1 .. k - 1 : a \in 1 .. n
        OBVIOUS
      <4>2. \A k \in 1 .. n :
              (k \in S) = (\/ k = 1
                          \/ \E a \in 1 .. k - 1 :
                               a \in S /\ ElementEnd(t, a) = k - 1)
        BY <1>1 DEF Begins
      <4> HIDE DEF f
      <4> QED
        BY <4>1, <4>2, <3>1, Zenon
  <2> QED
    BY <2>1, Zenon
<1>3. Is(starts)
  BY <1>2
<1>4. Starts(t) = {k \in 1 .. n : starts[k]}
  BY DEF Starts
<1>5. \A k \in 1 .. n :
        starts[k] = (\/ k = 1
                     \/ \E a \in 1 .. k - 1 :
                          starts[a] /\ ElementEnd(t, a) = k - 1)
  <2>1. starts = [k \in 1 .. n |->
                           \/ k = 1
                           \/ \E a \in 1 .. k - 1 :
                                starts[a] /\ ElementEnd(t, a) = k - 1]
    BY <1>3, Zenon
  <2> HIDE DEF starts
  <2> QED BY <2>1, Zenon
<1> HIDE DEF starts
<1>6. Starts(t) \subseteq 1 .. n
  BY <1>4
<1>7. \A k \in 1 .. n : k \in Starts(t) <=> starts[k]
  BY <1>4, Zenon
<1>8. \A k \in 1 .. n : \A a \in 1 .. k - 1 : a \in 1 .. n
  OBVIOUS
<1>9. \A k \in 1 .. n : k \in Starts(t) <=> Begins(t, k, Starts(t))
  <2> HIDE DEF n
  <2> QED BY <1>5, <1>7, <1>8, Zenon DEF Begins
<1> QED
  BY <1>6, <1>9

(* Where an element may end, by its first items.                           *)
LEMMA EndsBetween ==
  ASSUME NEW t \in Seq(Items), NEW a \in 1 .. Len(t)
  PROVE  /\ Ends(t, a) \subseteq a .. Len(t)
         /\ t[a] \in Quotes => Ends(t, a) =
              {e \in a + 1 .. Len(t) : /\ t[e] = t[a]
                                       /\ e = Len(t) \/ t[e + 1] # t[a]
                                       /\ Odd(t, t[a], a + 1, e)}
         /\ t[a] = "[" => Ends(t, a) = {e \in a + 1 .. Len(t) : t[e] = "]"}
         /\ IsPair(t, a, "-", "-") =>
              Ends(t, a) = {e \in a + 1 .. Len(t) - 1 : t[e + 1] = Newline}
         /\ IsPair(t, a, "/", "*") =>
              Ends(t, a) = {e \in a + 3 .. Len(t) : IsPair(t, e - 1, "*", "/")}
         /\ (/\ t[a] \notin Quotes \cup {"["}
             /\ ~ IsPair(t, a, "-", "-") /\ ~ IsPair(t, a, "/", "*"))
              => Ends(t, a) = {a}
<1>1. Len(t) \in Nat
  OBVIOUS
<1>2. CASE t[a] \in Quotes
  BY <1>1, <1>2 DEF Ends, IsPair, Quotes
<1>3. CASE t[a] = "["
  BY <1>1, <1>3 DEF Ends, IsPair, Quotes
<1>4. CASE IsPair(t, a, "-", "-")
  BY <1>1, <1>4 DEF Ends, IsPair, Quotes
<1>5. CASE IsPair(t, a, "/", "*")
  BY <1>1, <1>5 DEF Ends, IsPair, Quotes
<1>6. CASE /\ t[a] \notin Quotes \cup {"["}
           /\ ~ IsPair(t, a, "-", "-") /\ ~ IsPair(t, a, "/", "*")
  BY <1>1, <1>6 DEF Ends
<1> QED
  BY <1>2, <1>3, <1>4, <1>5, <1>6

(* An element that has not ended before i ends there at the earliest.      *)
LEMMA EndFrom ==
  ASSUME NEW t \in Seq(Items), NEW a \in 1 .. Len(t)
  PROVE  /\ ElementEnd(t, a) \in a .. Len(t)
         /\ \A i \in Ends(t, a) :
              (\A e \in Ends(t, a) : i <= e) => ElementEnd(t, a) = i
         /\ \A i \in 1 .. Len(t) :
              (\A e \in Ends(t, a) : i <= e) => i <= ElementEnd(t, a)
<1>1. Len(t) \in Nat /\ Ends(t, a) \subseteq a .. Len(t) /\ a \in Nat
  BY EndsBetween
<1>2. Ends(t, a) \subseteq Nat
  BY <1>1
<1>3. CASE Ends(t, a) = {}
  <2>1. ElementEnd(t, a) = Len(t)
    BY <1>2, <1>3, LeastIsLeast DEF ElementEnd
  <2> QED
    BY <1>1, <1>3, <2>1
<1>4. CASE Ends(t, a) # {}
  <2>1. /\ ElementEnd(t, a) \in Ends(t, a)
        /\ \A j \in Ends(t, a) : ElementEnd(t, a) <= j
    BY <1>2, <1>4, LeastIsLeast DEF ElementEnd
  <2> QED
    BY <1>1, <2>1
<1> QED
  BY <1>3, <1>4

LEMMA EndAt ==
  ASSUME NEW t \in Seq(Items), NEW a \in 1 .. Len(t), NEW i \in Ends(t, a),
         \A e \in Ends(t, a) : i <= e
  PROVE  ElementEnd(t, a) = i
  BY EndFrom

(* No element starts inside another.                                       *)
LEMMA NoneInside ==
  ASSUME NEW t \in Seq(Items), NEW a \in Starts(t),
         NEW k \in a + 1 .. ElementEnd(t, a)
  PROVE  k \notin Starts(t)
<1> DEFINE In(x) == \E b \in Starts(t) : x \in b + 1 .. ElementEnd(t, b)
           Bad == {x \in Starts(t) : In(x)}
<1>1. Len(t) \in Nat /\ Starts(t) \subseteq 1 .. Len(t)
  BY StartsUnfold
<1>2. \A b \in Starts(t) : ElementEnd(t, b) \in b .. Len(t)
  BY <1>1, EndFrom
<1> SUFFICES ASSUME k \in Starts(t) PROVE FALSE
  OBVIOUS
<1>3. Bad \subseteq Nat /\ Bad # {}
  BY <1>1
<1>4. PICK x \in Bad : \A y \in Bad : x <= y
  <2> HIDE DEF Bad
  <2> QED BY <1>3, LeastNumber
<1>5. PICK b \in Starts(t) : x \in b + 1 .. ElementEnd(t, b)
  BY <1>4
<1>6. x \in Starts(t) /\ x \in 1 .. Len(t) /\ b \in 1 .. Len(t) /\ x # 1
  BY <1>1, <1>4, <1>5
<1>7. PICK c \in 1 .. x - 1 : c \in Starts(t) /\ ElementEnd(t, c) = x - 1
  BY <1>1, <1>6, StartsUnfold DEF Begins
<1>8. CASE c = b
  BY <1>5, <1>6, <1>7, <1>8
<1>9. CASE c < b
  <2>1. b \in Bad
    BY <1>1, <1>2, <1>5, <1>6, <1>7, <1>9
  <2> QED
    BY <1>4, <1>5, <1>6, <2>1
<1>10. CASE c > b
  <2>1. c \in Bad
    BY <1>1, <1>2, <1>5, <1>6, <1>7, <1>10
  <2> QED
    BY <1>4, <1>6, <1>7, <2>1
<1> QED
  BY <1>6, <1>7, <1>8, <1>9, <1>10

(* After an element comes another.                                         *)
LEMMA NextStart ==
  ASSUME NEW t \in Seq(Items), NEW a \in Starts(t), ElementEnd(t, a) < Len(t)
  PROVE  ElementEnd(t, a) + 1 \in Starts(t)
<1>1. Len(t) \in Nat /\ Starts(t) \subseteq 1 .. Len(t)
  BY StartsUnfold
<1>2. ElementEnd(t, a) \in a .. Len(t) /\ a \in 1 .. Len(t)
  BY <1>1, EndFrom
<1> DEFINE k == ElementEnd(t, a) + 1
<1>3. k \in 1 .. Len(t) /\ a \in 1 .. k - 1 /\ ElementEnd(t, a) = k - 1
  BY <1>1, <1>2
<1> QED
  BY <1>1, <1>3, StartsUnfold DEF Begins

(* The number of quotes in a stretch, item by item.                        *)
LEMMA OddNone ==
  ASSUME NEW t, NEW q, NEW a \in Nat
  PROVE  ~ Odd(t, q, a, a - 1)
<1> DEFINE none == {j \in a .. a - 1 : t[j] = q}
<1>1. none = {}
  OBVIOUS
<1>2. Cardinality(none) = 0
  <2> HIDE DEF none
  <2> QED BY <1>1, FS_EmptySet
<1>3. ~ (0 % 2 = 1)
  OBVIOUS
<1> QED
  BY <1>2, <1>3 DEF Odd

LEMMA OddNext ==
  ASSUME NEW t, NEW q, NEW a \in Nat, NEW b \in Nat, a <= b + 1
  PROVE  Odd(t, q, a, b + 1)
           <=> (IF t[b + 1] = q THEN ~ Odd(t, q, a, b) ELSE Odd(t, q, a, b))
<1> DEFINE At(x) == {j \in a .. x : t[j] = q}
<1>3. IsFiniteSet(a .. b)
  BY FS_Interval
<1>4. IsFiniteSet(At(b)) /\ Cardinality(At(b)) \in Nat
  <2>1. At(b) \in SUBSET (a .. b)
    OBVIOUS
  <2> HIDE DEF At
  <2> QED BY <1>3, <2>1, FS_Subset, FS_CardinalityType
<1>5. CASE t[b + 1] = q
  <2>1. At(b + 1) = At(b) \cup {b + 1} /\ b + 1 \notin At(b)
    BY <1>5
  <2>2. Cardinality(At(b + 1)) = Cardinality(At(b)) + 1
    <3> HIDE DEF At
    <3> QED BY <1>4, <2>1, FS_AddElement
  <2>3. \A m \in Nat : (m + 1) % 2 = 1 <=> ~ (m % 2 = 1)
    OBVIOUS
  <2> QED
    BY <1>4, <1>5, <2>2, <2>3 DEF Odd
<1>6. CASE t[b + 1] # q
  <2>1. At(b + 1) = At(b)
    BY <1>6
  <2> QED
    BY <1>6, <2>1 DEF Odd
<1> QED
  BY <1>5, <1>6

-----------------------------------------------------------------------------
(***************************************************************************)
(* The scanner against the reference                                       *)
(***************************************************************************)
(* The element that starts at a is of the kind of the loop m, and what is  *)
(* read of it before i does not end it: an even number of quotes in a      *)
(* literal, no newline, bracket or closer elsewhere.                       *)
Opened(t, a, i, m) ==
  /\ a < i
  /\ m \in Quotes => /\ t[a] = m /\ ~ Odd(t, m, a + 1, i - 1)
                     /\ \A e \in Ends(t, a) : i <= e
  /\ m = "bracket" => t[a] = "[" /\ \A e \in Ends(t, a) : i <= e
  /\ m = "line" => /\ IsPair(t, a, "-", "-") /\ a + 2 <= i
                   /\ \A e \in Ends(t, a) : i - 1 <= e
  /\ m = "block" => /\ IsPair(t, a, "/", "*") /\ a + 2 <= i
                    /\ \A e \in Ends(t, a) : i + 1 <= e

(* In the loop for code the scanner is at the start of an element or at    *)
(* the end, and in the others in an element of their kind.                 *)
Where ==
  verdict = "none" =>
    IF mode = "code" THEN at = Len(text) + 1 \/ at \in Starts(text)
    ELSE \E a \in Starts(text) : Opened(text, a, at, mode)

(* What is put out so far is the code, the rest white space, and nothing   *)
(* that it read should have been refused.                                  *)
Shown(t, k, c) == IF k \in Code(t) THEN c = t[k] ELSE c \in Space
Exact == \A k \in 1 .. Len(out) : Shown(text, k, out[k])

RefusedAt(t, k) ==
  \/ IsPair(t, k, "-", "-") /\ k + 2 <= Len(t) /\ t[k + 2] \notin Space
  \/ IsPair(t, k, "/", "*") /\ k + 2 <= Len(t) /\ t[k + 2] = "!"
Clean == \A k \in Starts(text) : k < at => ~ RefusedAt(text, k)

Ended ==
  /\ verdict = "scanned" => at = Len(text) + 1
  /\ verdict = "refused" => RefusedBy(text)

XInv == IInv /\ Where /\ Exact /\ Clean /\ Ended

(* The types of the state, in the form that the steps below need.          *)
LEMMA Facts ==
  ASSUME IInv
  PROVE  /\ text \in Seq(Items) /\ Len(text) \in Nat
         /\ at \in 1 .. Len(text) + 1
         /\ Len(out) = at - 1 /\ out \in Seq(Items)
         /\ Starts(text) \subseteq 1 .. Len(text)
<1>1. text \in Seq(Items) /\ Len(text) \in Nat
  BY TextsAssumption DEF IInv, TypeOK
<1> QED
  BY <1>1, StartsUnfold DEF IInv, TypeOK, Aligned

(* A turn that puts out code as it is and the rest as white space.         *)
LEMMA TurnKeeps ==
  ASSUME IInv, Exact, Clean, NEW n \in {1, 2}, NEW items \in Seq(Items),
         Len(items) = n, NEW next, Emit(n, items, next),
         \A k \in 1 .. n : /\ Shown(text, at + k - 1, items[k])
                           /\ at + k - 1 \in Starts(text) =>
                                ~ RefusedAt(text, at + k - 1)
  PROVE  Exact' /\ Clean'
<1>1. /\ text' = text /\ at' = at + n /\ out' = out \o items
      /\ at \in Nat /\ Len(out) = at - 1 /\ out \in Seq(Items)
      /\ Starts(text) \subseteq Nat
  BY Facts DEF Emit
<1>2. /\ Len(out \o items) = Len(out) + n
      /\ \A k \in 1 .. Len(out) : (out \o items)[k] = out[k]
      /\ \A k \in 1 .. n : (out \o items)[Len(out) + k] = items[k]
  BY <1>1, Extended
<1>3. Exact'
  <2> SUFFICES ASSUME NEW k \in 1 .. Len(out) + n
               PROVE  Shown(text, k, (out \o items)[k])
    BY <1>1, <1>2 DEF Exact
  <2>1. CASE k \in 1 .. Len(out)
    BY <1>2, <2>1 DEF Exact
  <2>2. CASE k \notin 1 .. Len(out)
    <3>1. k - Len(out) \in 1 .. n /\ k = Len(out) + (k - Len(out))
          /\ at + (k - Len(out)) - 1 = k
      BY <1>1, <2>2
    <3>2. (out \o items)[k] = items[k - Len(out)]
      BY <1>2, <3>1
    <3> QED
      BY <3>1, <3>2
  <2> QED
    BY <2>1, <2>2
<1>4. Clean'
  <2> SUFFICES ASSUME NEW k \in Starts(text), k < at + n
               PROVE  ~ RefusedAt(text, k)
    BY <1>1 DEF Clean
  <2>1. CASE k < at
    BY <2>1 DEF Clean
  <2>2. CASE ~ (k < at)
    <3>0. k \in Nat /\ at \in Nat /\ n \in Nat
      BY <1>1
    <3>1. k - at + 1 \in 1 .. n /\ at + (k - at + 1) - 1 = k
      BY <3>0, <2>2
    <3> QED
      BY <3>1
  <2> QED
    BY <2>1, <2>2
<1> QED
  BY <1>3, <1>4

(* What lies inside an element is white space and starts nothing.          *)
LEMMA InsideKeeps ==
  ASSUME IInv, Exact, Clean, NEW n \in {1, 2}, NEW items \in Seq(Items),
         Len(items) = n, NEW next, Emit(n, items, next),
         \A k \in 1 .. n : items[k] \in Space,
         NEW a \in Starts(text), a < at, at + n - 1 <= ElementEnd(text, a)
  PROVE  Exact' /\ Clean'
<1>1. at \in Nat /\ text \in Seq(Items) /\ a \in 1 .. Len(text)
  BY Facts
<1>2. ElementEnd(text, a) \in a .. Len(text) /\ Len(text) \in Nat
  BY <1>1, EndFrom
<1>3. \A k \in 1 .. n : at + k - 1 \notin Starts(text)
  <2> SUFFICES ASSUME NEW k \in 1 .. n PROVE at + k - 1 \notin Starts(text)
    OBVIOUS
  <2>1. at + k - 1 \in a + 1 .. ElementEnd(text, a)
    BY <1>1, <1>2
  <2> QED
    BY <1>1, <2>1, NoneInside
<1>4. \A k \in 1 .. n : at + k - 1 \notin Code(text)
  BY <1>3 DEF Code
<1> QED
  BY <1>3, <1>4, TurnKeeps DEF Shown

(* The items of one and of two blanks, as InsideKeeps takes them.          *)
LEMMA OneSpace ==
  ASSUME NEW c \in Space
  PROVE  /\ <<c>> \in Seq(Items) /\ Len(<<c>>) = 1
         /\ \A k \in 1 .. 1 : <<c>>[k] \in Space
  BY DEF Items

LEMMA TwoSpaces ==
  /\ <<Blank, Blank>> \in Seq(Items) /\ Len(<<Blank, Blank>>) = 2
  /\ \A k \in 1 .. 2 : <<Blank, Blank>>[k] \in Space
<1>1. Blank \in Items /\ Blank \in Space
  BY DEF Items, Space
<1> QED
  BY <1>1, Twice

(* An element that opens at the place of the scanner.                      *)
LEMMA OpenKeeps ==
  ASSUME IInv, Exact, Clean, NEW n \in {1, 2}, NEW items \in Seq(Items),
         Len(items) = n, NEW next, Emit(n, items, next),
         \A k \in 1 .. n : items[k] \in Space,
         at \in Starts(text), at \notin Code(text), ~ RefusedAt(text, at),
         at + n - 1 <= ElementEnd(text, at)
  PROVE  Exact' /\ Clean'
<1>1. at \in Nat /\ text \in Seq(Items) /\ at \in 1 .. Len(text)
  BY Facts
<1>2. ElementEnd(text, at) \in at .. Len(text) /\ Len(text) \in Nat
  BY <1>1, EndFrom
<1>3. \A k \in 1 .. n : at + k - 1 \in Starts(text) => k = 1
  <2> SUFFICES ASSUME NEW k \in 1 .. n, k # 1
               PROVE  at + k - 1 \notin Starts(text)
    OBVIOUS
  <2>1. at + k - 1 \in at + 1 .. ElementEnd(text, at)
    BY <1>1, <1>2
  <2> QED
    BY <1>1, <2>1, NoneInside
<1>4. \A k \in 1 .. n : at + k - 1 \notin Code(text)
  <2>1. at + 1 - 1 = at
    BY <1>1
  <2> QED
    BY <1>3, <2>1 DEF Code
<1>5. \A k \in 1 .. n :
        at + k - 1 \in Starts(text) => ~ RefusedAt(text, at + k - 1)
  <2>1. at + 1 - 1 = at
    BY <1>1
  <2> QED
    BY <1>3, <2>1
<1> QED
  BY <1>4, <1>5, TurnKeeps DEF Shown

(* After the end of an element the scanner is at the start of the next.  *)
LEMMA ClosedWhere ==
  ASSUME IInv, NEW a \in Starts(text), NEW n \in {1, 2}, NEW items,
         Emit(n, items, "code"), ElementEnd(text, a) = at + n - 1
  PROVE  Where'
<1>1. /\ text \in Seq(Items) /\ Len(text) \in Nat /\ at \in Nat
      /\ a \in 1 .. Len(text)
  BY Facts
<1>2. at' = at + n /\ text' = text /\ mode' = "code"
  BY DEF Emit
<1>3. ElementEnd(text, a) \in a .. Len(text)
  BY <1>1, EndFrom
<1>4. at + n = Len(text) + 1 \/ at + n \in Starts(text)
  <2>1. CASE ElementEnd(text, a) = Len(text)
    BY <1>1, <2>1
  <2>2. CASE ElementEnd(text, a) < Len(text)
    <3>1. at + n = ElementEnd(text, a) + 1
      BY <1>1
    <3> QED
      BY <1>1, <2>2, <3>1, NextStart
  <2> QED
    BY <1>3, <1>1, <2>1, <2>2
<1> QED
  BY <1>2, <1>4 DEF Where

(* And before it, in an element of the kind of its loop.                   *)
LEMMA OpenWhere ==
  ASSUME NEW a \in Starts(text), NEW n, NEW items, NEW m, m # "code",
         Emit(n, items, m), Opened(text, a, at + n, m)
  PROVE  Where'
<1>1. at' = at + n /\ text' = text /\ mode' = m
  BY DEF Emit
<1> QED
  BY <1>1 DEF Where

LEMMA Signs == "-" \in Symbols /\ "/" \in Symbols /\ "*" \in Symbols
  BY DEF Symbols

(* What the scanner sees at its place.                                     *)
LEMMA Sees ==
  ASSUME IInv, at <= Len(text)
  PROVE  /\ Here(0) = text[at]
         /\ Here(1) = IF at + 1 <= Len(text) THEN text[at + 1] ELSE None
         /\ Here(2) = IF at + 2 <= Len(text) THEN text[at + 2] ELSE None
         /\ \A x, y \in Symbols : Next2(x, y) <=> IsPair(text, at, x, y)
<1>1. Len(text) \in Nat /\ at \in Nat
  BY Facts
<1>2. None \notin Symbols
  BY DEF None, Symbols
<1> QED
  BY <1>1, <1>2 DEF Here, Next2, IsPair

(* What holds of the verdict if the scan goes on.                          *)
LEMMA GoesOn ==
  ASSUME verdict = "none", NEW n, NEW items, NEW m, Emit(n, items, m)
  PROVE  Ended'
  BY DEF Ended, Emit

(* One lemma for each action.                                              *)
LEMMA KeepStep == ASSUME XInv, Keep PROVE XInv'
<1>0. IInv /\ IInv' /\ Where /\ Exact /\ Clean /\ verdict = "none"
  BY Preserved DEF XInv, Next, Keep, Scanning
<1>1. /\ text \in Seq(Items) /\ Len(text) \in Nat /\ at \in 1 .. Len(text)
      /\ Starts(text) \subseteq 1 .. Len(text)
      /\ mode = "code" /\ at \in Starts(text)
  BY <1>0, Facts DEF Keep, Scanning, Where
<1>2. /\ text[at] \notin Quotes \cup {"["}
      /\ ~ IsPair(text, at, "-", "-") /\ ~ IsPair(text, at, "/", "*")
  BY <1>0, <1>1, Sees, Signs DEF Keep, Opens
<1>3. ElementEnd(text, at) = at + 1 - 1
  <2>1. Ends(text, at) = {at}
    BY <1>1, <1>2, EndsBetween
  <2>2. at \in Ends(text, at) /\ \A e \in Ends(text, at) : at <= e
    BY <1>1, <2>1
  <2> QED
    BY <1>1, <2>2, EndFrom
<1>4. at \in Code(text) /\ ~ RefusedAt(text, at) /\ text[at] \in Items
  BY <1>1, <1>2 DEF Code, RefusedAt
<1>5. Emit(1, <<text[at]>>, "code") /\ at + 1 - 1 = at
  BY <1>0, <1>1, Sees DEF Keep
<1>6. Exact' /\ Clean'
  <2>1. /\ <<text[at]>> \in Seq(Items) /\ Len(<<text[at]>>) = 1
        /\ \A k \in 1 .. 1 : <<text[at]>>[k] = text[at] /\ at + k - 1 = at
    BY <1>1, <1>4
  <2> QED
    BY <1>0, <1>4, <1>5, <2>1, TurnKeeps DEF Shown
<1>7. Where'
  BY <1>0, <1>1, <1>3, <1>5, ClosedWhere
<1> QED
  BY <1>0, <1>5, <1>6, <1>7, GoesOn DEF XInv

LEMMA RefuseStep == ASSUME XInv, Refuse PROVE XInv'
<1>0. IInv /\ IInv' /\ Where /\ Exact /\ Clean /\ verdict = "none"
  BY Preserved DEF XInv, Next, Refuse, Scanning
<1>1. /\ text \in Seq(Items) /\ Len(text) \in Nat /\ at \in 1 .. Len(text)
      /\ at \in Starts(text)
  BY <1>0, Facts DEF Refuse, Scanning, Where
<1>2. RefusedAt(text, at)
  <2>1. CASE Ambiguous
    <3>1. IsPair(text, at, "-", "-") /\ Here(2) \notin Space \cup {None}
      BY <1>0, <1>1, <2>1, Sees, Signs DEF Ambiguous
    <3> QED
      BY <1>0, <1>1, <3>1, Sees DEF RefusedAt
  <2>2. CASE Executable
    <3>1. IsPair(text, at, "/", "*") /\ Here(2) = "!"
      BY <1>0, <1>1, <2>2, Sees, Signs DEF Executable
    <3> QED
      BY <1>0, <1>1, <3>1, Sees DEF RefusedAt, None
  <2> QED
    BY <2>1, <2>2 DEF Refuse
<1>3. RefusedBy(text)
  BY <1>1, <1>2 DEF RefusedBy, RefusedAt
<1> QED
  BY <1>0, <1>3 DEF Refuse, XInv, Where, Exact, Clean, Ended

(* Each kind of element opens at a start that is no code.                  *)
LEMMA OpenLiteralStep == ASSUME XInv, OpenLiteral PROVE XInv'
<1>0. IInv /\ IInv' /\ Where /\ Exact /\ Clean /\ verdict = "none"
  BY Preserved DEF XInv, Next, OpenLiteral, Scanning
<1>1. /\ text \in Seq(Items) /\ Len(text) \in Nat /\ at \in 1 .. Len(text)
      /\ at \in Starts(text) /\ text[at] \in Quotes
  BY <1>0, Facts, Sees DEF OpenLiteral, Scanning, Where
<1>em. Emit(1, <<Blank>>, text[at])
  BY <1>0, <1>1, Sees DEF OpenLiteral
<1>2. at \notin Code(text) /\ ~ RefusedAt(text, at)
  BY <1>1 DEF Code, RefusedAt, IsPair, Quotes
<1>3. \A e \in Ends(text, at) : at + 1 <= e
  BY <1>1, EndsBetween
<1>4. at + 1 - 1 <= ElementEnd(text, at) /\ text[at] # "code"
  BY <1>1, EndFrom DEF Quotes
<1>5. Exact' /\ Clean'
  BY <1>0, <1>em, <1>1, <1>2, <1>4, OneSpace, OpenKeeps DEF Space
<1>6. Opened(text, at, at + 1, text[at])
  <2>1. ~ Odd(text, text[at], at + 1, at + 1 - 1)
    BY <1>1, OddNone
  <2> QED
    BY <1>1, <1>3, <2>1 DEF Opened, Quotes
<1>7. Where'
  BY <1>em, <1>1, <1>4, <1>6, OpenWhere
<1> QED
  BY <1>0, <1>1, <1>5, <1>7, <1>em, GoesOn DEF XInv

LEMMA OpenBracketStep == ASSUME XInv, OpenBracket PROVE XInv'
<1>0. IInv /\ IInv' /\ Where /\ Exact /\ Clean /\ verdict = "none"
  BY Preserved DEF XInv, Next, OpenBracket, Scanning
<1>1. /\ text \in Seq(Items) /\ Len(text) \in Nat /\ at \in 1 .. Len(text)
      /\ at \in Starts(text) /\ text[at] = "["
  BY <1>0, Facts, Sees DEF OpenBracket, Scanning, Where
<1>em. Emit(1, <<Blank>>, "bracket")
  BY DEF OpenBracket
<1>2. at \notin Code(text) /\ ~ RefusedAt(text, at)
  BY <1>1 DEF Code, RefusedAt, IsPair
<1>3. \A e \in Ends(text, at) : at + 1 <= e
  BY <1>1, EndsBetween
<1>4. at + 1 - 1 <= ElementEnd(text, at)
  BY <1>1, EndFrom
<1>5. Exact' /\ Clean'
  BY <1>0, <1>em, <1>1, <1>2, <1>4, OneSpace, OpenKeeps DEF Space
<1>6. Opened(text, at, at + 1, "bracket")
  BY <1>1, <1>3 DEF Opened, Quotes
<1>7. Where'
  BY <1>em, <1>1, <1>6, OpenWhere
<1> QED
  BY <1>0, <1>1, <1>5, <1>7, <1>em, GoesOn DEF XInv

LEMMA OpenLineStep == ASSUME XInv, OpenLine PROVE XInv'
<1>0. IInv /\ IInv' /\ Where /\ Exact /\ Clean /\ verdict = "none"
  BY Preserved DEF XInv, Next, OpenLine, Scanning
<1>1. /\ text \in Seq(Items) /\ Len(text) \in Nat /\ at \in 1 .. Len(text)
      /\ at \in Starts(text)
  BY <1>0, Facts DEF OpenLine, Scanning, Where
<1>em. Emit(2, <<Blank, Blank>>, "line")
  BY DEF OpenLine
<1>2. IsPair(text, at, "-", "-") /\ at + 1 \in 1 .. Len(text)
  <2>1. Next2("-", "-")
    BY DEF OpenLine
  <2>2. IsPair(text, at, "-", "-")
    BY <1>0, <1>1, <2>1, Sees, Signs
  <2> QED
    BY <1>1, <2>2 DEF IsPair
<1>3. at \notin Code(text) /\ ~ RefusedAt(text, at)
  <2>1. at + 2 <= Len(text) => text[at + 2] \in Space
    <3>1. at + 2 <= Len(text) => text[at + 2] \in Items
      BY <1>1
    <3>2. None \notin Items
      BY WordsAssumption
      DEF Items, Space, Quotes, Symbols, None, Blank, Newline
    <3> QED
      BY <1>0, <1>1, <3>1, <3>2, Sees DEF OpenLine, Ambiguous
  <2> QED
    BY <1>2, <2>1 DEF Code, RefusedAt, IsPair
<1>4. \A e \in Ends(text, at) : at + 1 <= e
  BY <1>1, <1>2, EndsBetween
<1>5. at + 2 - 1 <= ElementEnd(text, at)
  <2>1. \A e \in Ends(text, at) : at + 1 <= e
    BY <1>1, <1>4, EndsBetween
  <2>2. at + 1 <= ElementEnd(text, at)
    BY <1>1, <1>2, <2>1, EndFrom
  <2> QED
    BY <1>1, <2>2
<1>6. Exact' /\ Clean'
  BY <1>0, <1>em, <1>1, <1>3, <1>5, TwoSpaces, OpenKeeps
<1>7. Opened(text, at, at + 2, "line")
  BY <1>1, <1>2, <1>4 DEF Opened, Quotes
<1>8. Where'
  BY <1>em, <1>1, <1>7, OpenWhere
<1> QED
  BY <1>0, <1>1, <1>6, <1>8, <1>em, GoesOn DEF XInv

LEMMA OpenBlockStep == ASSUME XInv, OpenBlock PROVE XInv'
<1>0. IInv /\ IInv' /\ Where /\ Exact /\ Clean /\ verdict = "none"
  BY Preserved DEF XInv, Next, OpenBlock, Scanning
<1>1. /\ text \in Seq(Items) /\ Len(text) \in Nat /\ at \in 1 .. Len(text)
      /\ at \in Starts(text)
  BY <1>0, Facts DEF OpenBlock, Scanning, Where
<1>em. Emit(2, <<Blank, Blank>>, "block")
  BY DEF OpenBlock
<1>2. IsPair(text, at, "/", "*") /\ at + 1 \in 1 .. Len(text)
  <2>1. Next2("/", "*")
    BY DEF OpenBlock
  <2>2. IsPair(text, at, "/", "*")
    BY <1>0, <1>1, <2>1, Sees, Signs
  <2> QED
    BY <1>1, <2>2 DEF IsPair
<1>3. at \notin Code(text) /\ ~ RefusedAt(text, at)
  <2>1. Next2("/", "*") /\ ~ Executable
    BY DEF OpenBlock
  <2>2. ~ (at + 2 <= Len(text) /\ text[at + 2] = "!")
    BY <1>0, <1>1, <2>1, Sees DEF Executable
  <2> QED
    BY <1>2, <2>2 DEF Code, RefusedAt, IsPair
<1>4. \A e \in Ends(text, at) : at + 3 <= e
  BY <1>1, <1>2, EndsBetween
<1>5. at + 2 - 1 <= ElementEnd(text, at)
  <2>1. \A e \in Ends(text, at) : at + 1 <= e
    BY <1>1, <1>4, EndsBetween
  <2>2. at + 1 <= ElementEnd(text, at)
    BY <1>1, <1>2, <2>1, EndFrom
  <2> QED
    BY <1>1, <2>2
<1>6. Exact' /\ Clean'
  BY <1>0, <1>em, <1>1, <1>3, <1>5, TwoSpaces, OpenKeeps
<1>7. Opened(text, at, at + 2, "block")
  BY <1>1, <1>2, <1>4 DEF Opened, Quotes
<1>8. Where'
  BY <1>em, <1>1, <1>7, OpenWhere
<1> QED
  BY <1>0, <1>1, <1>6, <1>8, <1>em, GoesOn DEF XInv

(* The element that the scanner is in.                                     *)
LEMMA Element ==
  ASSUME XInv, NEW m, m # "code", Scanning(m)
  PROVE  /\ IInv /\ Exact /\ Clean /\ verdict = "none"
         /\ text \in Seq(Items) /\ Len(text) \in Nat /\ at \in 1 .. Len(text)
         /\ \E a \in Starts(text) :
              /\ a \in 1 .. Len(text) /\ Opened(text, a, at, m)
              /\ Ends(text, a) \subseteq a .. Len(text)
<1>1. /\ IInv /\ Exact /\ Clean /\ Where /\ verdict = "none"
      /\ text \in Seq(Items) /\ Len(text) \in Nat /\ at \in 1 .. Len(text)
      /\ Starts(text) \subseteq 1 .. Len(text) /\ mode = m
  BY Facts DEF XInv, Scanning
<1>2. PICK a \in Starts(text) : Opened(text, a, at, m)
  BY <1>1 DEF Where
<1>3. a \in 1 .. Len(text)
  BY <1>1
<1> QED
  BY <1>1, <1>2, <1>3, EndsBetween

LEMMA InLiteralStep == ASSUME XInv, InLiteral PROVE XInv'
<1>1. mode \in Quotes /\ Scanning(mode) /\ mode # "code"
  BY DEF InLiteral, Quotes
<1>2. /\ IInv /\ Exact /\ Clean /\ verdict = "none"
      /\ text \in Seq(Items) /\ Len(text) \in Nat /\ at \in 1 .. Len(text)
  BY <1>1, Element
<1>3. IInv'
  BY <1>2, Preserved DEF Next
<1>4. PICK a \in Starts(text) :
        /\ a \in 1 .. Len(text) /\ Opened(text, a, at, mode)
        /\ Ends(text, a) \subseteq a .. Len(text)
  BY <1>1, Element
<1>5. /\ a < at /\ text[a] = mode /\ ~ Odd(text, mode, a + 1, at - 1)
      /\ \A e \in Ends(text, a) : at <= e
  BY <1>1, <1>4 DEF Opened
<1>s. Ends(text, a) =
        {e \in a + 1 .. Len(text) : /\ text[e] = mode
                                    /\ e = Len(text) \/ text[e + 1] # mode
                                    /\ Odd(text, mode, a + 1, e)}
  BY <1>1, <1>2, <1>4, <1>5, EndsBetween
<1>e. \A e \in Ends(text, a) : /\ e = Len(text) \/ text[e + 1] # mode
                               /\ text[e] = mode /\ Odd(text, mode, a + 1, e)
  BY <1>s
<1>n. a \in Nat /\ at \in Nat /\ Ends(text, a) \subseteq Nat
  BY <1>2, <1>4
<1>6. /\ Here(0) = text[at]
      /\ Here(1) = IF at + 1 <= Len(text) THEN text[at + 1] ELSE None
  BY <1>2, Sees
<1>7. Odd(text, mode, a + 1, at) <=> text[at] = mode
  <2>1. /\ a + 1 \in Nat /\ at - 1 \in Nat
        /\ a + 1 <= (at - 1) + 1 /\ (at - 1) + 1 = at
    BY <1>n, <1>5
  <2> QED
    BY <1>5, <2>1, OddNext
<1>8. CASE Here(0) # mode /\ Emit(1, <<Masked(Here(0))>>, mode)
  <2>1. \A e \in Ends(text, a) : at + 1 <= e
    <3> SUFFICES ASSUME NEW e \in Ends(text, a) PROVE e # at
      BY <1>n, <1>5
    <3> QED
      BY <1>6, <1>8, <1>e
  <2>2. at + 1 - 1 <= ElementEnd(text, a)
    BY <1>2, <1>4, <1>5, EndFrom
  <2>3. Masked(Here(0)) \in Space
    BY DEF Masked, Space
  <2>4. Exact' /\ Clean'
    BY <1>2, <1>4, <1>5, <1>8, <2>2, <2>3, OneSpace, InsideKeeps
  <2>5. at + 1 - 1 = at
    BY <1>2
  <2>6. Opened(text, a, at + 1, mode)
    BY <1>1, <1>2, <1>4, <1>5, <1>6, <1>7, <1>8, <2>1, <2>5 DEF Opened, Quotes
  <2>7. Where'
    BY <1>1, <1>8, <2>6, OpenWhere
  <2> QED
    BY <1>2, <1>3, <1>8, <2>4, <2>7, GoesOn DEF XInv
<1>9. CASE Here(0) = mode /\ Doubled /\ Emit(2, <<Blank, Blank>>, mode)
  <2>1. at + 1 <= Len(text) /\ text[at + 1] = mode
    BY <1>1, <1>6, <1>9 DEF Doubled, Quotes, None
  <2>2. ~ Odd(text, mode, a + 1, at + 1)
    <3>1. a + 1 \in Nat /\ at \in Nat /\ a + 1 <= at + 1
      BY <1>n, <1>5
    <3> QED
      BY <1>6, <1>7, <1>9, <2>1, <3>1, OddNext
  <2>3. \A e \in Ends(text, a) : at + 2 <= e
    <3> SUFFICES ASSUME NEW e \in Ends(text, a) PROVE e # at /\ e # at + 1
      BY <1>n, <1>5
    <3>1. e # at
      BY <1>2, <1>e, <2>1
    <3>2. e # at + 1
      BY <1>e, <2>2
    <3> QED
      BY <3>1, <3>2
  <2>4. at + 2 - 1 <= ElementEnd(text, a)
    <3>1. at + 1 \in 1 .. Len(text) /\ \A e \in Ends(text, a) : at + 1 <= e
      BY <1>2, <1>4, <2>1, <2>3
    <3>2. at + 1 <= ElementEnd(text, a)
      BY <1>2, <1>4, <3>1, EndFrom
    <3> QED
      BY <1>2, <3>2
  <2>5. Exact' /\ Clean'
    BY <1>2, <1>4, <1>5, <1>9, <2>4, TwoSpaces, InsideKeeps
  <2>6. at + 2 - 1 = at + 1
    BY <1>2
  <2>7. Opened(text, a, at + 2, mode)
    BY <1>1, <1>2, <1>4, <1>5, <2>2, <2>3, <2>6 DEF Opened, Quotes
  <2>8. Where'
    BY <1>1, <1>9, <2>7, OpenWhere
  <2> QED
    BY <1>2, <1>3, <1>9, <2>5, <2>8, GoesOn DEF XInv
<1>10. CASE Here(0) = mode /\ ~ Doubled /\ Emit(1, <<Blank>>, "code")
  <2>1. at = Len(text) \/ text[at + 1] # mode
    BY <1>2, <1>6, <1>10 DEF Doubled
  <2>2. at \in Ends(text, a)
    <3>1. at \in a + 1 .. Len(text)
      BY <1>2, <1>4, <1>5
    <3>2. text[at] = mode /\ Odd(text, mode, a + 1, at)
      BY <1>6, <1>7, <1>10
    <3> QED
      BY <1>s, <2>1, <3>1, <3>2
  <2>3. ElementEnd(text, a) = at /\ at + 1 - 1 = at
    BY <1>2, <1>4, <1>5, <1>n, <2>2, EndAt
  <2>4. Exact' /\ Clean'
    <3>1. Blank \in Space /\ at + 1 - 1 <= ElementEnd(text, a)
      BY <1>2, <2>3 DEF Space
    <3> QED
      BY <1>2, <1>4, <1>5, <1>10, <3>1, OneSpace, InsideKeeps
  <2>5. Where'
    BY <1>2, <1>10, <2>3, ClosedWhere
  <2> QED
    BY <1>2, <1>3, <1>10, <2>4, <2>5, GoesOn DEF XInv
<1> QED
  BY <1>8, <1>9, <1>10 DEF InLiteral

LEMMA InBracketStep == ASSUME XInv, InBracket PROVE XInv'
<1>1. Scanning("bracket")
  BY DEF InBracket
<1>2. /\ IInv /\ Exact /\ Clean /\ verdict = "none"
      /\ text \in Seq(Items) /\ Len(text) \in Nat /\ at \in 1 .. Len(text)
  BY <1>1, Element
<1>3. IInv'
  BY <1>2, Preserved DEF Next
<1>4. PICK a \in Starts(text) :
        /\ a \in 1 .. Len(text) /\ Opened(text, a, at, "bracket")
        /\ Ends(text, a) \subseteq a .. Len(text)
  BY <1>1, Element
<1>5. /\ a < at /\ text[a] = "[" /\ \A e \in Ends(text, a) : at <= e
      /\ Ends(text, a) = {e \in a + 1 .. Len(text) : text[e] = "]"}
  BY <1>2, <1>4, EndsBetween DEF Opened
<1>6. Here(0) = text[at]
  BY <1>2, Sees
<1>7. Blank \in Space /\ at + 1 - 1 <= ElementEnd(text, a)
  BY <1>2, <1>4, <1>5, EndFrom DEF Space
<1>8. CASE Here(0) # "]" /\ Emit(1, <<Blank>>, "bracket")
  <2>1. \A e \in Ends(text, a) : at + 1 <= e
    BY <1>2, <1>4, <1>5, <1>6, <1>8
  <2>2. Exact' /\ Clean'
    BY <1>2, <1>4, <1>5, <1>7, <1>8, OneSpace, InsideKeeps
  <2>3. Opened(text, a, at + 1, "bracket")
    BY <1>2, <1>4, <1>5, <2>1 DEF Opened, Quotes
  <2>4. Where'
    BY <1>8, <2>3, OpenWhere
  <2> QED
    BY <1>2, <1>3, <1>8, <2>2, <2>4, GoesOn DEF XInv
<1>9. CASE Here(0) = "]" /\ Emit(1, <<Blank>>, "code")
  <2>1. at \in Ends(text, a)
    BY <1>2, <1>4, <1>5, <1>6, <1>9
  <2>2. ElementEnd(text, a) = at + 1 - 1
    <3>1. ElementEnd(text, a) = at
      BY <1>2, <1>4, <1>5, <2>1, EndAt
    <3> QED
      BY <1>2, <3>1
  <2>3. Exact' /\ Clean'
    BY <1>2, <1>4, <1>5, <1>7, <1>9, OneSpace, InsideKeeps
  <2>4. Where'
    BY <1>2, <1>9, <2>2, ClosedWhere
  <2> QED
    BY <1>2, <1>3, <1>9, <2>3, <2>4, GoesOn DEF XInv
<1> QED
  BY <1>8, <1>9 DEF InBracket

LEMMA InLineStep == ASSUME XInv, InLine PROVE XInv'
<1>1. Scanning("line")
  BY DEF InLine
<1>2. /\ IInv /\ Exact /\ Clean /\ verdict = "none"
      /\ text \in Seq(Items) /\ Len(text) \in Nat /\ at \in 1 .. Len(text)
  BY <1>1, Element
<1>3. IInv'
  BY <1>2, Preserved DEF Next
<1>4. PICK a \in Starts(text) :
        /\ a \in 1 .. Len(text) /\ Opened(text, a, at, "line")
        /\ Ends(text, a) \subseteq a .. Len(text)
  BY <1>1, Element
<1>5. /\ a + 2 <= at /\ a < at /\ \A e \in Ends(text, a) : at - 1 <= e
      /\ Ends(text, a) =
           {e \in a + 1 .. Len(text) - 1 : text[e + 1] = Newline}
  BY <1>2, <1>4, EndsBetween DEF Opened
<1>6. Here(0) = text[at] /\ at - 1 + 1 = at
  BY <1>2, Sees
<1>7. CASE Here(0) # Newline /\ Emit(1, <<Blank>>, "line")
  <2>1. \A e \in Ends(text, a) : at <= e
    <3> SUFFICES ASSUME NEW e \in Ends(text, a) PROVE e # at - 1
      BY <1>2, <1>4, <1>5
    <3> QED
      BY <1>5, <1>6, <1>7
  <2>2. Blank \in Space /\ at + 1 - 1 <= ElementEnd(text, a)
    BY <1>2, <1>4, <2>1, EndFrom DEF Space
  <2>3. Exact' /\ Clean'
    BY <1>2, <1>4, <1>5, <1>7, <2>2, OneSpace, InsideKeeps
  <2>4. Opened(text, a, at + 1, "line")
    BY <1>2, <1>4, <1>5, <2>1 DEF Opened, Quotes
  <2>5. Where'
    BY <1>7, <2>4, OpenWhere
  <2> QED
    BY <1>2, <1>3, <1>7, <2>3, <2>5, GoesOn DEF XInv
<1>8. CASE Here(0) = Newline /\ Emit(1, <<Newline>>, "code")
  <2>1. at - 1 \in Ends(text, a)
    BY <1>2, <1>4, <1>5, <1>6, <1>8
  <2>2. ElementEnd(text, a) = at - 1
    BY <1>2, <1>4, <1>5, <2>1, EndFrom
  <2>3. at \in Starts(text)
    BY <1>2, <1>4, <1>6, <2>2, NextStart
  <2>4. /\ text[at] \notin Quotes \cup {"["}
        /\ ~ IsPair(text, at, "-", "-") /\ ~ IsPair(text, at, "/", "*")
    BY <1>6, <1>8 DEF Quotes, IsPair, Newline
  <2>5. ElementEnd(text, at) = at + 1 - 1
    <3>1. Ends(text, at) = {at}
      BY <1>2, <2>4, EndsBetween
    <3>2. at \in Ends(text, at) /\ \A e \in Ends(text, at) : at <= e
      BY <1>2, <3>1
    <3> QED
      BY <1>2, <3>2, EndFrom
  <2>6. Shown(text, at, Newline) /\ ~ RefusedAt(text, at)
    BY <1>6, <1>8, <2>4 DEF Shown, RefusedAt, Space
  <2>7. Exact' /\ Clean'
    <3>1. Newline \in Space
      BY DEF Space
    <3>2. <<Newline>> \in Seq(Items) /\ Len(<<Newline>>) = 1
      BY <3>1, OneSpace
    <3>3. \A k \in 1 .. 1 : <<Newline>>[k] = Newline /\ at + k - 1 = at
      BY <1>2
    <3> QED
      BY <1>2, <1>8, <2>6, <3>2, <3>3, TurnKeeps
  <2>8. Where'
    BY <1>2, <1>8, <2>3, <2>5, ClosedWhere
  <2> QED
    BY <1>2, <1>3, <1>8, <2>7, <2>8, GoesOn DEF XInv
<1> QED
  BY <1>7, <1>8 DEF InLine

LEMMA InBlockStep == ASSUME XInv, InBlock PROVE XInv'
<1>1. Scanning("block")
  BY DEF InBlock
<1>2. /\ IInv /\ Exact /\ Clean /\ verdict = "none"
      /\ text \in Seq(Items) /\ Len(text) \in Nat /\ at \in 1 .. Len(text)
  BY <1>1, Element
<1>3. IInv'
  BY <1>2, Preserved DEF Next
<1>4. PICK a \in Starts(text) :
        /\ a \in 1 .. Len(text) /\ Opened(text, a, at, "block")
        /\ Ends(text, a) \subseteq a .. Len(text)
  BY <1>1, Element
<1>5. /\ a + 2 <= at /\ a < at /\ \A e \in Ends(text, a) : at + 1 <= e
      /\ Ends(text, a) =
           {e \in a + 3 .. Len(text) : IsPair(text, e - 1, "*", "/")}
  BY <1>2, <1>4, EndsBetween DEF Opened
<1>6. at + 1 - 1 = at /\ (Next2("*", "/") <=> IsPair(text, at, "*", "/"))
  BY <1>2, Sees, Signs
<1>7. CASE ~ Next2("*", "/") /\ Emit(1, <<Masked(Here(0))>>, "block")
  <2>1. \A e \in Ends(text, a) : at + 2 <= e
    <3>1. at + 1 \notin Ends(text, a)
      BY <1>2, <1>5, <1>6, <1>7
    <3> QED
      BY <1>2, <1>4, <1>5, <3>1
  <2>2. at + 1 - 1 <= ElementEnd(text, a)
    <3>1. \A e \in Ends(text, a) : at <= e
      BY <1>2, <1>4, <1>5
    <3> QED
      BY <1>2, <1>4, <3>1, EndFrom
  <2>3. Masked(Here(0)) \in Space
    BY DEF Masked, Space
  <2>4. Exact' /\ Clean'
    BY <1>2, <1>4, <1>5, <1>7, <2>2, <2>3, OneSpace, InsideKeeps
  <2>5. Opened(text, a, at + 1, "block")
    <3>1. \A e \in Ends(text, a) : at + 1 + 1 <= e
      BY <1>2, <1>4, <2>1
    <3> QED
      BY <1>2, <1>4, <1>5, <3>1 DEF Opened, Quotes
  <2>6. Where'
    BY <1>7, <2>5, OpenWhere
  <2> QED
    BY <1>2, <1>3, <1>7, <2>4, <2>6, GoesOn DEF XInv
<1>8. CASE Next2("*", "/") /\ Emit(2, Closer, "code")
  <2>1. at + 1 <= Len(text)
    BY <1>2, <1>6, <1>8 DEF IsPair
  <2>2. at + 1 \in Ends(text, a)
    BY <1>2, <1>4, <1>5, <1>6, <1>8, <2>1
  <2>3. ElementEnd(text, a) = at + 1
    BY <1>2, <1>4, <1>5, <2>2, EndFrom
  <2>4. Exact' /\ Clean'
    <3>1. at + 2 - 1 <= ElementEnd(text, a)
      BY <1>2, <2>3
    <3>2. Emit(2, <<Blank, Blank>>, "code")
      BY <1>8 DEF Closer
    <3> QED
      BY <1>2, <1>4, <1>5, <3>1, <3>2, TwoSpaces, InsideKeeps
  <2>5. Where'
    <3>1. ElementEnd(text, a) = at + 2 - 1
      BY <1>2, <2>3
    <3> QED
      BY <1>2, <1>8, <3>1, ClosedWhere
  <2> QED
    BY <1>2, <1>3, <1>8, <2>4, <2>5, GoesOn DEF XInv
<1> QED
  BY <1>7, <1>8 DEF InBlock

LEMMA InitXInv == Init => XInv
<1> SUFFICES ASSUME Init PROVE XInv
  OBVIOUS
<1>1. IInv /\ text \in Seq(Items) /\ Len(text) \in Nat /\ at = 1 /\ out = <<>>
  BY Typed, Facts DEF Init
<1>2. Starts(text) \subseteq 1 .. Len(text)
  BY <1>1, Facts
<1>3. Where
  <2>1. CASE Len(text) = 0
    BY <1>1, <2>1 DEF Where, Init
  <2>2. CASE Len(text) # 0
    <3>1. 1 \in Starts(text)
      BY <1>1, <2>2, StartsUnfold DEF Begins
    <3> QED
      BY <1>1, <3>1 DEF Where, Init
  <2> QED
    BY <2>1, <2>2
<1>4. Exact
  <2>1. 1 .. Len(out) = {}
    BY <1>1
  <2> QED
    BY <2>1 DEF Exact
<1>5. Clean
  BY <1>1, <1>2 DEF Clean
<1> QED
  BY <1>1, <1>3, <1>4, <1>5 DEF Init, XInv, Ended

LEMMA XStep == XInv /\ [Next]_vars => XInv'
<1> SUFFICES ASSUME XInv, [Next]_vars PROVE XInv'
  OBVIOUS
<1>1. CASE Finish
  <2>1. IInv'
    BY <1>1, Preserved DEF XInv, Next
  <2>2. at = Len(text) + 1
    BY <1>1, Facts DEF XInv, Finish
  <2> QED
    BY <1>1, <2>1, <2>2 DEF XInv, Finish, Where, Exact, Clean, Ended
<1>2. CASE UNCHANGED vars
  <2>1. IInv'
    BY <1>2, Preserved DEF XInv
  <2> QED
    BY <1>2, <2>1 DEF vars, XInv, Where, Exact, Clean, Ended
<1> QED
  BY <1>1, <1>2, KeepStep, RefuseStep, OpenLiteralStep, InLiteralStep,
     OpenBracketStep, InBracketStep, OpenLineStep, InLineStep, OpenBlockStep,
     InBlockStep DEF Next

LEMMA XInvariance == Spec => []XInv
  BY InitXInv, XStep, PTL DEF Spec

LEMMA ExactMask == XInv => MaskIsExact
<1> SUFFICES ASSUME XInv PROVE MaskIsExact
  OBVIOUS
<1>1. verdict = "refused" => RefusedBy(text)
  BY DEF XInv, Ended
<1>2. ASSUME verdict = "scanned"
      PROVE  /\ ~ RefusedBy(text)
             /\ \A k \in 1 .. Len(text) :
                  IF k \in Code(text) THEN out[k] = text[k]
                  ELSE out[k] \in Space
  <2>1. /\ at = Len(text) + 1 /\ Len(text) \in Nat /\ Len(out) = Len(text)
        /\ Starts(text) \subseteq 1 .. Len(text)
    BY <1>2, Facts DEF XInv, Ended
  <2>2. \A k \in Starts(text) : ~ RefusedAt(text, k)
    BY <2>1 DEF XInv, Clean
  <2>3. ~ RefusedBy(text)
    BY <2>2 DEF RefusedBy, RefusedAt
  <2>4. \A k \in 1 .. Len(text) : Shown(text, k, out[k])
    BY <2>1 DEF XInv, Exact
  <2> QED
    BY <2>3, <2>4 DEF Shown
<1> QED
  BY <1>1, <1>2 DEF MaskIsExact

(* strip_literals_and_comments keeps the code of every statement, item for *)
(* item, blanks the rest, and refuses for an ambiguous or executable       *)
(* comment outside of literals and for nothing else.                       *)
THEOREM ScannerExact == Spec => []MaskIsExact
  BY XInvariance, ExactMask, PTL

(* What the gates look at is the code, so what they let pass is too.       *)
LEMMA ReadsHonest == ASSUME XInv PROVE ReadsAreReads
<1> SUFFICES ASSUME verdict = "scanned", ReadOnly(out) PROVE
    /\ Managed(out)
    /\ \A k \in 1 .. Len(text) :
         CodeWord(k) =>
           text[k] \notin MUTATING_KEYWORDS \cup SIDE_EFFECTING_READ_TOKENS
                            \cup {"into"}
    /\ \A j, k \in Code(text) : j < k /\ text[j] = ";" => text[k] \in Space
  BY DEF ReadsAreReads
<1>1. /\ at = Len(text) + 1 /\ Len(text) \in Nat /\ Len(out) = Len(text)
      /\ Code(text) \subseteq 1 .. Len(text)
  BY Facts DEF XInv, Ended, Code
<1>2. \A k \in 1 .. Len(text) :
        IF k \in Code(text) THEN out[k] = text[k] ELSE out[k] \in Space
  BY ExactMask DEF MaskIsExact
<1>3. Managed(out)
  BY ReadsAreManaged
<1>4. ASSUME NEW k \in 1 .. Len(text), CodeWord(k)
      PROVE  text[k] \notin MUTATING_KEYWORDS \cup SIDE_EFFECTING_READ_TOKENS
                              \cup {"into"}
  <2>1. k \in Code(text) /\ out[k] = text[k] /\ text[k] \in Words
    BY <1>2, <1>4 DEF CodeWord
  <2>2. Space \cap Words = {}
    BY WordsAssumption
  <2>3. ASSUME NEW j \in {k - 1, k + 1} \cap (1 .. Len(text))
        PROVE  out[j] \notin Words
    BY <1>2, <1>4, <2>2, <2>3 DEF CodeWord
  <2>4. k \in TokenPlaces(out)
    BY <1>1, <2>1, <2>2, <2>3 DEF TokenPlaces
  <2>5. TokenAt(out, k) = text[k]
    BY <1>1, <2>1, <2>3 DEF TokenAt
  <2> QED
    BY <2>4, <2>5 DEF ReadOnly
<1>5. ASSUME NEW j \in Code(text), NEW k \in Code(text), j < k, text[j] = ";"
      PROVE  text[k] \in Space
  BY <1>1, <1>2, <1>5 DEF ReadOnly, SingleStatement
<1> QED
  BY <1>3, <1>4, <1>5

(* Every statement that assert_read_only lets pass is one statement whose  *)
(* code has no word that mutates or has side effects, whatever its         *)
(* literals and comments hold.                                             *)
THEOREM ScannerReads == Spec => []ReadsAreReads
  BY XInvariance, ReadsHonest, PTL
=============================================================================
