--------------------------- MODULE ResultEnvelope ---------------------------
(***************************************************************************)
(* _result_envelope: the rows of a database result, fetched up to a cap    *)
(* and copied one by one until the envelope would grow too large, under    *)
(* column names made distinct.  A row is the size of its JSON text; the    *)
(* values in it are left out.                                              *)
(***************************************************************************)
EXTENDS Integers, Sequences, FiniteSets

CONSTANTS
  Results,     \* the results a statement may give: the sizes of their rows
  Words,       \* the words that column names are made of
  Headers,     \* the sequences of column names they may have
  Requests,    \* the max_rows a caller may pass, 0 for None
  MaxRows,     \* SqlApi.max_rows
  MaxBytes,    \* SqlApi.max_result_bytes
  MaxColumns   \* SqlApi.max_columns

(* A column name is a sequence, so that the suffix __2 can be told apart   *)
(* from the name it is put on: <<a>> for a, <<a, 2>> for a__2.             *)
ASSUME InputsAssumption ==
  /\ Results \subseteq Seq(Nat)
  /\ Headers \subseteq Seq(Seq(Words \cup Nat))
  /\ Requests \subseteq Nat

ASSUME LimitsAssumption ==
  /\ MaxRows \in Nat \ {0} /\ MaxBytes \in Nat \ {0}
  /\ MaxColumns \in Nat \ {0}

VARIABLES
  source,     \* the rows of the result
  header,     \* its column names
  cap,        \* the clamped max_rows
  taken,      \* number of rows copied
  bytes,      \* bytes_returned
  byteCapped, \* byte_capped
  done        \* the envelope was returned

vars == <<source, header, cap, taken, bytes, byteCapped, done>>

Lesser(a, b) == IF a <= b THEN a ELSE b

(* _effective_max_rows                                                     *)
Clamped(request) == IF request = 0 THEN MaxRows ELSE Lesser(request, MaxRows)

(* fetchmany(cap + 1): one row more than is returned shows there are more. *)
FetchedExactly == Lesser(Len(source), cap)                          \* faulty
Fetched == Lesser(Len(source), cap + 1)

(***************************************************************************)
(* _dedupe_columns                                                         *)
(***************************************************************************)
Kept(h) == SubSeq(h, 1, Lesser(Len(h), MaxColumns))

(* How many of the names up to place i are the one at i: seen[column].     *)
Nth(h, i) == Cardinality({j \in 1 .. i : h[j] = h[i]})

NeverSuffixed(h) == h                                               \* faulty
Deduped(h) ==
  [i \in 1 .. Len(h) |-> IF Nth(h, i) = 1 THEN h[i] ELSE Append(h[i], Nth(h, i))]

(***************************************************************************)
(* _collect_bounded_rows                                                   *)
(***************************************************************************)
Init ==
  /\ source \in Results
  /\ header \in Headers
  /\ \E r \in Requests : cap = Clamped(r)
  /\ taken = 0
  /\ bytes = 0
  /\ byteCapped = FALSE
  /\ done = FALSE

More == ~ done /\ taken < Lesser(Fetched, cap)
FitsBefore(size) == bytes < MaxBytes                                \* faulty
Fits(size) == bytes + size <= MaxBytes

TakeRow ==
  /\ More /\ Fits(source[taken + 1])
  /\ taken' = taken + 1
  /\ bytes' = bytes + source[taken + 1]
  /\ UNCHANGED <<source, header, cap, byteCapped, done>>

StopAtBytes ==
  /\ More /\ ~ Fits(source[taken + 1])
  /\ byteCapped' = TRUE
  /\ done' = TRUE
  /\ UNCHANGED <<source, header, cap, taken, bytes>>

RowsCopied ==
  /\ ~ done /\ taken = Lesser(Fetched, cap)
  /\ done' = TRUE
  /\ UNCHANGED <<source, header, cap, taken, bytes, byteCapped>>

Next == TakeRow \/ StopAtBytes \/ RowsCopied
Spec == Init /\ [][Next]_vars

(* The "columns" and "truncated" fields of the envelope.                   *)
columns == Deduped(Kept(header))
truncated == Fetched > cap \/ Len(header) > MaxColumns \/ byteCapped

(***************************************************************************)
(* Properties                                                              *)
(***************************************************************************)
TypeOK ==
  /\ source \in Results /\ header \in Headers
  /\ cap \in 1 .. MaxRows
  /\ taken \in Nat /\ bytes \in Nat
  /\ byteCapped \in BOOLEAN /\ done \in BOOLEAN

(* An envelope never exceeds the row cap of the server or of the caller,   *)
(* nor the byte limit, however the sizes of the rows fall                  *)
(* (_collect_bounded_rows).                                                *)
Bounded == taken <= cap /\ taken <= Len(source) /\ bytes <= MaxBytes

(* The truncation flag tells the caller exactly whether something is       *)
(* missing: rows beyond the cap, rows beyond the byte limit, or columns    *)
(* (_result_envelope).                                                     *)
TruncationIsHonest ==
  done => (truncated <=> taken < Len(source) \/ Len(columns) < Len(header))

(* Names that carry no suffix of their own come out distinct, so a row,    *)
(* a dictionary keyed by them, keeps every value (_dedupe_columns).        *)
Distinct(h) == \A i, j \in 1 .. Len(h) : h[i] = h[j] => i = j
PlainNamesDistinct ==
  (\A i \in 1 .. Len(header) : Len(header[i]) = 1) => Distinct(columns)
=============================================================================
