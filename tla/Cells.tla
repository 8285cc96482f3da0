------------------------------- MODULE Cells --------------------------------
(***************************************************************************)
(* _json_safe_value: a value from the driver made fit for JSON, clipped to *)
(* the cell limit wherever it is too large, at every level of a nested     *)
(* value.  A value is a tree; text, numbers and bytes are their sizes.     *)
(***************************************************************************)
EXTENDS Integers, Sequences, FiniteSets, Functions

CONSTANTS
  Values,      \* the values of the cells, and every part of one
  StrSize,     \* the bytes of str(v) of each of them
  MaxCell,     \* SqlApi.max_cell_bytes
  MaxItems,    \* the 1_000 of the normalisation of containers
  MaxDepth     \* the 10 of _json_safe_value

ASSUME LimitsAssumption ==
  MaxCell \in Nat \ {0} /\ MaxItems \in Nat \ {0} /\ MaxDepth \in Nat

(***************************************************************************)
(* Values and cells                                                        *)
(***************************************************************************)
Scalar(n) == [kind |-> "scalar", size |-> n]   \* a number, date, UUID, None
Text(n) == [kind |-> "text", size |-> n]
Bytes(n) == [kind |-> "bytes", size |-> n]
Enum(v) == [kind |-> "enum", of |-> v]
Items(s) == [kind |-> "list", items |-> s]
Mapping(keys, s) == [kind |-> "map", keys |-> keys, items |-> s]

(* The keys of a mapping are the texts that str(key) makes of them.        *)
ASSUME ValuesAssumption ==
  \A v \in Values :
    \/ v \in [kind : {"scalar", "text", "bytes"}, size : Nat]
    \/ v \in [kind : {"enum"}, of : Values]
    \/ v \in [kind : {"list"}, items : Seq(Values)]
    \/ /\ v \in [kind : {"map"}, keys : Seq(STRING), items : Seq(Values)]
       /\ Len(v.keys) = Len(v.items)
ASSUME StrSizeAssumption == StrSize \in [Values -> Nat]

Pending == [kind |-> "pending"]
Ellipsis == 3                                  \* bytes of the mark at the end
Clipped(n) ==
  [kind |-> "clipped", size |-> (IF n <= MaxCell THEN n ELSE MaxCell) + Ellipsis]
Base64(n, cut) == [kind |-> "base64", size |-> n, truncated |-> cut]
Marker == [kind |-> "marker"]                  \* {"__truncated__": true}

(* The bytes of a cell's JSON text: a key of a mapping is one character,   *)
(* the mark of a mapping is an entry of it, and text needs no escapes.     *)
JsonSize(c) ==
  CASE c.kind = "scalar" -> c.size
    [] c.kind \in {"text", "clipped"} -> c.size + 2
    [] c.kind = "base64" ->
         4 * ((c.size + 2) \div 3) + IF c.truncated THEN 53 ELSE 54
    [] c.kind = "marker" -> 23
    [] c.kind \in {"list", "map"} -> c.bytes
EntrySize(c) == IF c = Marker THEN 21 ELSE JsonSize(c) + 5
Between(n) == IF n = 0 THEN 2 ELSE 2 * n       \* brackets and separators

Total(sizes) ==
  LET sum[i \in 0 .. Len(sizes)] ==
        IF i = 0 THEN 0 ELSE sum[i - 1] + sizes[i]
  IN sum[Len(sizes)]

Container(kind, items) ==
  [kind |-> kind, items |-> items,
   bytes |-> Between(Len(items))
               + Total([i \in DOMAIN items |->
                          IF kind = "map" THEN EntrySize(items[i])
                          ELSE JsonSize(items[i])])]

(***************************************************************************)
(* The normalisation                                                       *)
(***************************************************************************)
(* _clip_text and _normalize_bytes_for_json, and faulty variants.          *)
ClipBeyond(n) == IF n < MaxCell THEN Text(n) ELSE Clipped(n)        \* faulty
ClipText(n) == IF n <= MaxCell THEN Text(n) ELSE Clipped(n)

FromBytes(n) ==
  IF n <= MaxCell THEN Base64(n, FALSE) ELSE Base64(MaxCell, TRUE)

(* The items of a container that are kept, and the mark for the others;    *)
(* a variant leaves the mark out.                                          *)
Silently(s) == <<>>                                                 \* faulty
Rest(s) == IF Len(s) > MaxItems THEN <<Marker>> ELSE <<>>
Kept(s) == IF Len(s) > MaxItems THEN SubSeq(s, 1, MaxItems) ELSE s

(* _clip_normalized_json, and a variant that skips it; str(normalized) is  *)
(* taken to be as long as the JSON text.                                   *)
Unclipped(c) == c                                                   \* faulty
ClipNormalized(c) ==
  IF JsonSize(c) <= MaxCell THEN c ELSE Clipped(JsonSize(c))

(* str(key): an entry replaces one whose key is the same text.            *)
ByText(keys, items) ==
  LET entries[n \in 0 .. Len(keys)] ==
        IF n = 0 THEN <<>>
        ELSE LET entry == [key |-> keys[n], item |-> items[n]]
                 same == {i \in DOMAIN entries[n - 1] :
                            entries[n - 1][i].key = keys[n]}
             IN IF same = {} THEN Append(entries[n - 1], entry)
                ELSE [i \in DOMAIN entries[n - 1] |->
                        IF i \in same THEN entry ELSE entries[n - 1][i]]
  IN [i \in DOMAIN entries[Len(keys)] |-> entries[Len(keys)][i].item]

(* _json_safe_value, by how many levels it may still go down, with         *)
(* _normalize_for_json of the values that are neither text nor too deep;   *)
(* those are clipped, short or not.                                        *)
Top == MaxDepth + 1
JsonSafe[levels \in 0 .. Top] ==
  [v \in Values |->
     LET part(p) == JsonSafe[levels - 1][p]
         each(s) == [i \in DOMAIN s |-> part(s[i])]
         normalized ==
           CASE v.kind = "scalar" -> v
             [] v.kind = "enum" -> part(v.of)
             [] v.kind = "bytes" -> FromBytes(v.size)
             [] v.kind = "map" ->
                  Container("map", ByText(Kept(v.keys), each(Kept(v.items)))
                                     \o Rest(v.items))
             [] v.kind = "list" ->
                  Container("list", each(Kept(v.items)) \o Rest(v.items))
     IN IF levels = 0 THEN Clipped(StrSize[v])
        ELSE IF v.kind = "text" THEN ClipText(v.size)
        ELSE ClipNormalized(normalized)]

VARIABLES
  value,       \* what the driver returned
  cell         \* what the row holds, Pending before it is normalised

vars == <<value, cell>>

Init == value \in Values /\ cell = Pending

(* _collect_bounded_rows and the record builders of the reflection.        *)
Fill ==
  /\ cell = Pending
  /\ cell' = JsonSafe[Top][value]
  /\ UNCHANGED value

Spec == Init /\ [][Fill]_vars

(***************************************************************************)
(* Properties                                                              *)
(***************************************************************************)
(* What is in a value or in a cell, one level below it and n levels.       *)
Parts(v) ==
  CASE v.kind = "enum" -> {v.of}
    [] v.kind \in {"list", "map"} -> {v.items[i] : i \in DOMAIN v.items}
    [] OTHER -> {}
Level(v, n) ==
  LET level[k \in 0 .. Top + 1] ==
        IF k = 0 THEN {v} ELSE UNION {Parts(p) : p \in level[k - 1]}
  IN level[n]
Anywhere(v) == UNION {Level(v, n) : n \in 0 .. Top}

(* A cell never takes more than the limit, its quotes and its ellipsis,    *)
(* whatever is nested in it; no container in it has more items than the    *)
(* limit and a mark; and it is nested no deeper than the depth limit       *)
(* (_clip_text, _clip_normalized_json, _normalize_sequence_for_json).      *)
CellBounded ==
  cell # Pending =>
    /\ JsonSize(cell) <= MaxCell + Ellipsis + 2
    /\ \A c \in Anywhere(cell) :
         c.kind \in {"list", "map"} => Len(c.items) <= MaxItems + 1
    /\ Level(cell, Top + 1) = {}

(* Something visible says that something is missing.                       *)
Mark(c) ==
  \/ c.kind \in {"clipped", "marker"}
  \/ c.kind = "base64" /\ c.truncated
Marked(c) == \E m \in Anywhere(c) : Mark(m)

(* A value written in JSON as a whole, as far down as the depth limit.     *)
Written[levels \in 0 .. Top] ==
  [v \in Values |->
     LET part(p) == Written[levels - 1][p]
     IN CASE levels = 0 -> Pending
          [] v.kind \in {"scalar", "text"} -> v
          [] v.kind = "bytes" -> Base64(v.size, FALSE)
          [] v.kind = "enum" -> part(v.of)
          [] v.kind \in {"list", "map"} ->
               Container(v.kind, [i \in DOMAIN v.items |-> part(v.items[i])])]
Whole(v) == Written[Top][v]

KeysDistinct(v) ==
  \A p \in Anywhere(v) : p.kind = "map" => IsInjective(p.keys)

(* Nothing is lost without a mark, at any level: a cell that shows none    *)
(* holds the whole value, unless two keys of a mapping have the same text  *)
(* (_clip_normalized_json, _normalize_mapping_for_json,                    *)
(* _normalize_sequence_for_json, _normalize_bytes_for_json).               *)
LossIsMarked ==
  cell # Pending /\ KeysDistinct(value) => Marked(cell) \/ cell = Whole(value)

(* Nothing is marked in vain: what is within every limit comes through     *)
(* whole.                                                                  *)
Within(v) ==
  /\ Level(v, Top) = {}
  /\ \A p \in Anywhere(v) :
       /\ p.kind = "text" => p.size <= MaxCell
       /\ p.kind \in {"list", "map"} => Len(p.items) <= MaxItems
MarkedOnlyIfLost ==
  /\ cell # Pending /\ KeysDistinct(value) /\ Within(value)
  /\ value.kind # "text" => JsonSize(Whole(value)) <= MaxCell
  => cell = Whole(value)
=============================================================================
