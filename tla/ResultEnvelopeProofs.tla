------------------------ MODULE ResultEnvelopeProofs ------------------------
(***************************************************************************)
(* Proofs about ResultEnvelope for results, headers and limits of any size *)
(***************************************************************************)
EXTENDS ResultEnvelope, FiniteSetTheorems, SequenceTheorems, TLAPS

(* A loop that stopped early did so before the last row it may copy, and   *)
(* one that ran to its end copied them all.                                *)
LoopInv ==
  /\ byteCapped => done /\ taken < Lesser(Fetched, cap)
  /\ done /\ ~ byteCapped => taken = Lesser(Fetched, cap)

IInv == TypeOK /\ Bounded /\ LoopInv

THEOREM EnvelopeInvariance == Spec => []IInv
<1> USE InputsAssumption, LimitsAssumption
<1>1. Init => IInv
  <2> SUFFICES ASSUME Init PROVE IInv
    OBVIOUS
  <2>1. cap \in 1 .. MaxRows
    BY DEF Init, Clamped, Lesser
  <2>2. source \in Seq(Nat) /\ Len(source) \in Nat
    BY DEF Init
  <2>3. TypeOK
    BY <2>1 DEF Init, TypeOK
  <2>4. Bounded
    <3> HIDE InputsAssumption
    <3> QED
      BY <2>1, <2>2 DEF Init, Bounded
  <2> QED
    BY <2>3, <2>4 DEF Init, IInv, LoopInv
<1>2. IInv /\ [Next]_vars => IInv'
  <2> SUFFICES ASSUME IInv, [Next]_vars PROVE IInv'
    OBVIOUS
  <2> USE DEF IInv, TypeOK, Bounded, LoopInv, Fetched, Lesser
  <2>0. Len(source) \in Nat /\ \A i \in 1 .. Len(source) : source[i] \in Nat
    OBVIOUS
  <2>1. CASE TakeRow
    BY <2>0, <2>1 DEF TakeRow, More, Fits
  <2>2. CASE StopAtBytes
    BY <2>0, <2>2 DEF StopAtBytes, More
  <2>3. CASE RowsCopied
    BY <2>0, <2>3 DEF RowsCopied
  <2>4. CASE UNCHANGED vars
    BY <2>4 DEF vars
  <2> QED
    BY <2>1, <2>2, <2>3, <2>4 DEF Next
<1> QED
  BY <1>1, <1>2, PTL DEF Spec

(* The clamped cap is a row at least and never more than the server allows *)
(* (_effective_max_rows).                                                  *)
THEOREM EnvelopeTyped == Spec => []TypeOK
<1>1. IInv => TypeOK
  BY DEF IInv
<1> QED
  BY <1>1, EnvelopeInvariance, PTL

(* The limits of the server and of the caller hold for every result.       *)
THEOREM EnvelopeBounded == Spec => []Bounded
<1>1. IInv => Bounded
  BY DEF IInv
<1> QED
  BY <1>1, EnvelopeInvariance, PTL

(* The truncation flag of every envelope is true exactly when rows or      *)
(* columns of the result are missing from it.                              *)
THEOREM EnvelopeHonest == Spec => []TruncationIsHonest
<1>1. IInv => TruncationIsHonest
  <2> SUFFICES ASSUME IInv, done
               PROVE  truncated <=> \/ taken < Len(source)
                                    \/ Len(columns) < Len(header)
    BY DEF TruncationIsHonest
  <2> USE InputsAssumption, LimitsAssumption
  <2>1. Len(source) \in Nat /\ Len(header) \in Nat
    BY DEF IInv, TypeOK
  <2>2. Len(columns) = Lesser(Len(header), MaxColumns)
    BY <2>1 DEF columns, Deduped, Kept, Lesser, IInv, TypeOK
  <2>3. Fetched > cap \/ byteCapped <=> taken < Len(source)
    BY <2>1 DEF IInv, TypeOK, Bounded, LoopInv, Fetched, Lesser
  <2> QED
    BY <2>1, <2>2, <2>3 DEF truncated, Lesser
<1> QED
  BY <1>1, EnvelopeInvariance, PTL

-----------------------------------------------------------------------------
LEMMA NthInNat ==
  ASSUME NEW S, NEW h \in Seq(S), NEW i \in 1 .. Len(h)
  PROVE  Nth(h, i) \in Nat
<1>1. IsFiniteSet(1 .. i)
  BY FS_Interval
<1>2. IsFiniteSet({j \in 1 .. i : h[j] = h[i]})
  BY <1>1, FS_Subset
<1> QED
  BY <1>2, FS_CardinalityType DEF Nth

(* The count of a name grows from one of its places to the next.           *)
LEMMA NthGrows ==
  ASSUME NEW S, NEW h \in Seq(S), NEW i \in 1 .. Len(h), NEW j \in 1 .. Len(h),
         i < j, h[i] = h[j]
  PROVE  Nth(h, i) # Nth(h, j)
<1> DEFINE P(k) == {l \in 1 .. k : h[l] = h[k]}
<1>1. IsFiniteSet(P(i)) /\ IsFiniteSet(P(j))
  <2>1. IsFiniteSet(1 .. i) /\ IsFiniteSet(1 .. j)
    BY FS_Interval
  <2> QED
    BY <2>1, FS_Subset
<1>2. P(i) \cup {j} \subseteq P(j) /\ j \notin P(i)
  OBVIOUS
<1>3. Cardinality(P(i) \cup {j}) = Cardinality(P(i)) + 1
  BY <1>1, <1>2, FS_AddElement
<1>4. Cardinality(P(i) \cup {j}) <= Cardinality(P(j))
  BY <1>1, <1>2, FS_Subset
<1>5. Cardinality(P(i)) \in Nat /\ Cardinality(P(j)) \in Nat
  BY <1>1, FS_CardinalityType
<1> QED
  BY <1>3, <1>4, <1>5 DEF Nth

(* A suffix leaves the word of a plain name in its place and can be told.  *)
LEMMA AppendToOne ==
  ASSUME NEW T, NEW s \in Seq(T), Len(s) = 1, NEW m \in T
  PROVE  Len(Append(s, m)) = 2 /\ Append(s, m)[1] = s[1] /\ Append(s, m)[2] = m
<1>1. /\ Len(Append(s, m)) = Len(s) + 1
      /\ \A i \in 1 .. Len(s) : Append(s, m)[i] = s[i]
      /\ Append(s, m)[Len(s) + 1] = m
  BY AppendProperties
<1> QED
  BY <1>1

(* Plain names are made distinct, however often they repeat: two places of *)
(* one name count differently, and two names differ in their first word.   *)
LEMMA PlainNamesDeduped ==
  ASSUME NEW T, Nat \subseteq T, NEW h \in Seq(Seq(T)),
         \A i \in 1 .. Len(h) : Len(h[i]) = 1
  PROVE  Distinct(Deduped(h))
<1>1. Len(Deduped(h)) = Len(h) /\ Len(h) \in Nat
  BY DEF Deduped
<1>2. ASSUME NEW i \in 1 .. Len(h)
      PROVE  /\ h[i] \in Seq(T)
             /\ Nth(h, i) \in Nat
             /\ Deduped(h)[i][1] = h[i][1]
             /\ Nth(h, i) = 1 => Len(Deduped(h)[i]) = 1
             /\ Nth(h, i) # 1 => /\ Len(Deduped(h)[i]) = 2
                                 /\ Deduped(h)[i][2] = Nth(h, i)
  <2>1. h[i] \in Seq(T) /\ Len(h[i]) = 1
    BY ElementOfSeq
  <2>2. Nth(h, i) \in Nat
    BY NthInNat
  <2>3. Deduped(h)[i]
          = IF Nth(h, i) = 1 THEN h[i] ELSE Append(h[i], Nth(h, i))
    BY DEF Deduped
  <2>4. /\ Len(Append(h[i], Nth(h, i))) = 2
        /\ Append(h[i], Nth(h, i))[1] = h[i][1]
        /\ Append(h[i], Nth(h, i))[2] = Nth(h, i)
    <3>1. Nth(h, i) \in T
      BY <2>2
    <3> QED
      BY <2>1, <3>1, AppendToOne
  <2>5. CASE Nth(h, i) = 1
    <3>1. Deduped(h)[i] = h[i]
      BY <2>3, <2>5
    <3> QED
      BY <2>1, <2>2, <2>5, <3>1
  <2>6. CASE Nth(h, i) # 1
    <3>1. Deduped(h)[i] = Append(h[i], Nth(h, i))
      BY <2>3, <2>6
    <3> QED
      BY <2>1, <2>2, <2>4, <2>6, <3>1
  <2> QED
    BY <2>5, <2>6
<1>3. ASSUME NEW i \in 1 .. Len(h), NEW j \in 1 .. Len(h), i < j
      PROVE  Deduped(h)[i] # Deduped(h)[j]
  <2>1. CASE h[i] = h[j]
    <3>1. Nth(h, i) # Nth(h, j)
      BY <1>3, <2>1, NthGrows
    <3> HIDE DEF Deduped
    <3>2. SUFFICES ASSUME Deduped(h)[i] = Deduped(h)[j] PROVE FALSE
      OBVIOUS
    <3>3. Len(Deduped(h)[i]) = Len(Deduped(h)[j])
      BY <3>2
    <3>4. Deduped(h)[i][2] = Deduped(h)[j][2]
      BY <3>2
    <3>5. (Nth(h, i) = 1) <=> (Nth(h, j) = 1)
      BY <1>2, <3>3
    <3> QED
      BY <1>2, <3>1, <3>4, <3>5
  <2>2. CASE h[i] # h[j]
    <3>1. Len(h[i]) = 1 /\ Len(h[j]) = 1
      OBVIOUS
    <3>2. h[i] \in Seq(T) /\ h[j] \in Seq(T)
      BY <1>2
    <3>3. h[i][1] # h[j][1]
      BY <2>2, <3>1, <3>2, SeqEqual
    <3>4. Deduped(h)[i][1] # Deduped(h)[j][1]
      BY <1>2, <3>3
    <3> QED
      BY <3>4
  <2> QED
    BY <2>1, <2>2
<1>4. ASSUME NEW i \in 1 .. Len(Deduped(h)), NEW j \in 1 .. Len(Deduped(h)),
             Deduped(h)[i] = Deduped(h)[j]
      PROVE  i = j
  <2>1. i \in 1 .. Len(h) /\ j \in 1 .. Len(h)
    BY <1>1
  <2>2. ~ (i < j) /\ ~ (j < i)
    BY <1>3, <1>4, <2>1
  <2> QED
    BY <2>1, <2>2
<1> QED
  BY <1>4 DEF Distinct

(* A row keyed by its column names keeps every value, as long as no name   *)
(* of the result looks like one the code makes up (_dedupe_columns).       *)
THEOREM EnvelopeDistinct == Spec => []PlainNamesDistinct
<1>1. IInv => PlainNamesDistinct
  <2> SUFFICES ASSUME IInv, \A i \in 1 .. Len(header) : Len(header[i]) = 1
               PROVE  Distinct(columns)
    BY DEF PlainNamesDistinct
  <2>1. header \in Seq(Seq(Words \cup Nat)) /\ MaxColumns \in Nat
    BY InputsAssumption, LimitsAssumption DEF IInv, TypeOK
  <2>2. /\ Kept(header) \in Seq(Seq(Words \cup Nat))
        /\ Len(Kept(header)) \in Nat
        /\ \A i \in 1 .. Len(Kept(header)) :
             i \in 1 .. Len(header) /\ Kept(header)[i] = header[i]
    BY <2>1 DEF Kept, Lesser
  <2>3. \A i \in 1 .. Len(Kept(header)) : Len(Kept(header)[i]) = 1
    BY <2>2
  <2>4. Nat \subseteq Words \cup Nat
    OBVIOUS
  <2> QED
    BY <2>2, <2>3, <2>4, PlainNamesDeduped DEF columns
<1> QED
  BY <1>1, EnvelopeInvariance, PTL
=============================================================================
