------------------------- MODULE CatalogIngestProofs -------------------------
(***************************************************************************)
(* Proofs about CatalogIngest for every schema, every request and every    *)
(* limit                                                                   *)
(***************************************************************************)
EXTENDS CatalogIngest, SequenceTheorems, TLAPS

NodeKinds == {"schema", "table", "view", "columns", "indexes"}
Ids == NodeKinds \X Name
Links == Ids \X Ids \X {"table", "view", "columns", "indexes", "keys"}

Shapes ==
  /\ source \in Seq(Object) /\ objects \in Seq(Object)
  /\ keys \in Seq(Name) /\ parts \in Seq({"columns", "indexes"} \X Name)
  /\ entities \in Seq(Ids) /\ relationships \in Seq(Links)

(* The mapper starts when the catalog is there, and with one node.         *)
Started ==
  /\ phase \in {"reflect", "failed"} \/ entities # <<>>
  /\ phase = "reflect" =>
       /\ at = 0 /\ keys = <<>> /\ parts = <<>>
       /\ entities = <<>> /\ relationships = <<>>
  /\ phase \in {"submit", "done"} => keys = <<>>
  /\ keys # <<>> \/ parts # <<>> => at > 0

FewObjectKeys ==
  \A i \in 1 .. Len(objects) :
    Len(objects[i].keys) < RelationshipsPerObject

(* The credit of a node: itself and the three keys of a table.  What has   *)
(* been linked and what the table at hand has yet to link is paid for by   *)
(* the nodes, so the cap on links is not reached before that on nodes.     *)
Credit ==
  /\ FewObjectKeys
  /\ entities = <<>> => relationships = <<>> /\ keys = <<>>
  /\ entities # <<>> =>
       Len(relationships) + Len(keys)
         <= RelationshipsPerObject * (Len(entities) - 1)

Occurs(x, s) == \E j \in 1 .. Len(s) : s[j] = x
KeyLink(i, k) ==
  <<TableId(objects[i].name), TableId(objects[i].keys[k]), "keys">>
KeyLinked(i, k) == Occurs(KeyLink(i, k), relationships)
KeyAhead(i, k) == i = at /\ Occurs(objects[i].keys[k], keys)
KeysInHand ==
  \A i \in 1 .. at : \A k \in 1 .. Len(objects[i].keys) :
    objects[i].type = "table" => KeyLinked(i, k) \/ KeyAhead(i, k)

IInv ==
  /\ TypeOK /\ Shapes /\ Started
  /\ FewKeys => Credit /\ EveryNodeLinked /\ KeysInHand

(***************************************************************************)
(* Facts about the operators                                               *)
(***************************************************************************)
LEMMA ClippedShorter ==
  ASSUME NEW S, NEW s \in Seq(S)
  PROVE  Clipped(s) \in Seq(S) /\ Len(Clipped(s)) <= Len(s)
<1>1. Lesser(Len(s), MaxRows) \in 0 .. Len(s)
  BY LimitsAssumption DEF Lesser
<1> QED
  BY <1>1 DEF Clipped

LEMMA CataloguedObject ==
  ASSUME NEW o \in Object
  PROVE  /\ Catalogued(o) \in Object
         /\ Len(Catalogued(o).keys) <= Len(o.keys)
<1>1. /\ o.keys \in Seq(Name) /\ o.columns \in Seq(Name)
      /\ o.indexes \in Seq(Name)
  BY DEF Object
<1>2. /\ Clipped(o.keys) \in Seq(Name) /\ Clipped(o.columns) \in Seq(Name)
      /\ Clipped(o.indexes) \in Seq(Name)
      /\ Len(Clipped(o.keys)) <= Len(o.keys)
  BY <1>1, ClippedShorter
<1> QED
  BY <1>1, <1>2 DEF Catalogued, Object

LEMMA PartsShape ==
  ASSUME NEW o \in Object
  PROVE  PartsOf(o) \in Seq({"columns", "indexes"} \X Name)
<1>1. ASSUME NEW kind \in {"columns", "indexes"}, NEW names \in Seq(Name)
      PROVE  Labelled(kind, names) \in Seq({"columns", "indexes"} \X Name)
  BY <1>1 DEF Labelled
<1>2. o.columns \in Seq(Name) /\ o.indexes \in Seq(Name)
  BY DEF Object
<1> QED
  BY <1>1, <1>2 DEF PartsOf

LEMMA InitIInv == Init => IInv
<1> SUFFICES ASSUME Init PROVE IInv
  OBVIOUS
<1>1. Cap \in Nat /\ wanted \in Nat \ {0}
  BY LimitsAssumption DEF Init, Cap, Lesser
<1>2. TypeOK
  BY <1>1, LimitsAssumption
  DEF Init, TypeOK, TooMany, RelationshipLimit, RelationshipsPerObject
<1>3. Shapes
  BY SourcesAssumption DEF Init, Shapes
<1> QED
  BY <1>2, <1>3
  DEF Init, IInv, Started, Credit, FewObjectKeys, EveryNodeLinked, KeysInHand

LEMMA ReflectObjectStep ==
  ASSUME IInv, ReflectObject PROVE IInv'
<1> DEFINE o == source[Len(objects) + 1]
<1> USE DEF IInv, TypeOK, Shapes, Started, inputs
<1>1. /\ phase = "reflect" /\ bytes + o.size <= MaxBytes
      /\ objects' = Append(objects, Catalogued(o)) /\ bytes' = bytes + o.size
      /\ UNCHANGED <<source, wanted, withIndexes, phase, truncated, at, keys,
                     parts, entities, relationships>>
  BY DEF ReflectObject, Fits
<1>2. Len(objects) < Cap /\ Len(objects) + 1 \in 1 .. Len(source)
  <2>1. Cap \in Nat /\ Len(source) \in Nat /\ Len(objects) \in Nat
    BY LimitsAssumption DEF Cap, Lesser
  <2> QED
    BY <2>1 DEF ReflectObject, MoreObjects, Lesser
<1>3. o \in Object /\ Catalogued(o) \in Object
      /\ Len(Catalogued(o).keys) <= Len(o.keys)
  BY <1>2, CataloguedObject
<1>4. Cap' = Cap /\ RelationshipLimit' = RelationshipLimit
  BY <1>1 DEF Cap, RelationshipLimit
<1>5. Cap \in Nat
  BY LimitsAssumption DEF Cap, Lesser
<1>6. o.size \in Nat
  BY <1>3 DEF Object
<1>7. bytes' \in 0 .. MaxBytes
  BY <1>1, <1>6, LimitsAssumption
<1>8. Len(objects') <= Cap' /\ Shapes'
  BY <1>1, <1>2, <1>3, <1>4, <1>5
<1>9. TypeOK'
  BY <1>1, <1>4, <1>7, <1>8
<1>10. FewKeys /\ FewObjectKeys => FewObjectKeys'
  <2> SUFFICES ASSUME FewKeys, FewObjectKeys, NEW i \in 1 .. Len(objects')
               PROVE  Len(objects'[i].keys) < 4
    BY DEF FewObjectKeys, RelationshipsPerObject
  <2>1. o.keys \in Seq(Name) /\ Catalogued(o).keys \in Seq(Name)
    BY <1>3 DEF Object
  <2>2. Len(Catalogued(o).keys) < 4
    <3>1. Len(o.keys) < 4
      BY <1>2 DEF FewKeys, RelationshipsPerObject
    <3> HIDE DEF o
    <3> QED
      BY <1>3, <2>1, <3>1
  <2>3. CASE i = Len(objects) + 1
    BY <1>1, <1>3, <2>2, <2>3
  <2>4. CASE i # Len(objects) + 1
    BY <1>1, <1>3, <2>4 DEF FewObjectKeys, RelationshipsPerObject
  <2> QED
    BY <2>3, <2>4
<1>11. FewKeys' <=> FewKeys
  BY <1>1 DEF FewKeys
<1> QED
  BY <1>1, <1>8, <1>9, <1>10, <1>11
  DEF Credit, EveryNodeLinked, KeysInHand

LEMMA SchemaIdShape == SchemaId \in Ids
<1>1. <<>> \in Name
  BY DEF Name
<1> QED
  BY <1>1 DEF SchemaId, Id, Ids, NodeKinds

(* The steps that change the phase, the first with the node of the schema. *)
LEMMA PhaseStep ==
  ASSUME IInv, CatalogEnds \/ ReflectionFails \/ MappingEnds \/ Submit
  PROVE  IInv'
<1> USE DEF IInv, TypeOK, Shapes, Started, inputs, catalog
<1>1. /\ UNCHANGED <<source, wanted, withIndexes, objects, bytes, at, keys,
                     parts, relationships>>
      /\ phase' \in {"map", "submit", "done", "failed"}
      /\ truncated' \in BOOLEAN
  BY DEF CatalogEnds, ReflectionFails, MappingEnds, Submit
<1>2. Cap' = Cap /\ RelationshipLimit' = RelationshipLimit
      /\ (FewKeys' <=> FewKeys)
  BY <1>1 DEF Cap, RelationshipLimit, FewKeys
<1>3. CASE CatalogEnds
  <2>1. entities = <<>> /\ entities' = <<SchemaId>> /\ phase' = "map"
        /\ relationships = <<>> /\ keys = <<>> /\ at = 0
    BY <1>3 DEF CatalogEnds
  <2>2. SchemaId \in Ids
    BY SchemaIdShape
  <2>3. entities' \in Seq(Ids) /\ Len(entities') = 1 /\ entities' # <<>>
    BY <2>1, <2>2
  <2>4. wanted >= 1
    BY LimitsAssumption
  <2>5. TypeOK' /\ Shapes' /\ Started'
    BY <1>1, <1>2, <2>1, <2>3, <2>4
  <2>6. Credit => Credit'
    BY <1>1, <2>1, <2>3 DEF Credit, FewObjectKeys, RelationshipsPerObject
  <2>7. EveryNodeLinked' /\ KeysInHand'
    BY <1>1, <2>1, <2>3 DEF EveryNodeLinked, KeysInHand
  <2> QED
    BY <1>2, <2>5, <2>6, <2>7
<1>4. CASE ReflectionFails \/ MappingEnds \/ Submit
  <2>1. UNCHANGED entities /\ (phase' \in {"submit", "done"} => keys = <<>>)
    BY <1>4 DEF ReflectionFails, MappingEnds, Submit, TableDone
  <2>2. phase' # "reflect" /\ (phase' = "failed" \/ entities # <<>>)
    BY <1>4 DEF ReflectionFails, MappingEnds, Submit
  <2> QED
    BY <1>1, <1>2, <2>1, <2>2
    DEF Credit, FewObjectKeys, EveryNodeLinked, KeysInHand, KeyLinked,
        KeyAhead, KeyLink
<1> QED
  BY <1>3, <1>4

(***************************************************************************)
(* Appending a link                                                        *)
(***************************************************************************)

(* With credit left no link is dropped.                                    *)
LEMMA LinkAppended ==
  ASSUME IInv, NEW from \in Ids, NEW to \in Ids,
         NEW kind \in {"table", "view", "columns", "indexes", "keys"},
         AddRelationship(from, to, kind)
  PROVE  /\ relationships' \in Seq(Links)
         /\ Len(relationships') <= RelationshipLimit
         /\ Len(relationships') \in {Len(relationships), Len(relationships) + 1}
         /\ Len(relationships) < RelationshipLimit =>
              relationships' = Append(relationships, <<from, to, kind>>)
<1>1. <<from, to, kind>> \in Links
  BY DEF Links
<1>2. RelationshipLimit \in Nat
  BY LimitsAssumption DEF IInv, TypeOK, RelationshipLimit, RelationshipsPerObject
<1> QED
  BY <1>1, <1>2 DEF AddRelationship, IInv, Shapes, TypeOK

(* Links stay, so a node that is linked stays linked.                      *)
LEMMA LinksStay ==
  ASSUME NEW links \in Seq(Links), NEW r \in Links, NEW id, LinkIn(links, id)
  PROVE  LinkIn(Append(links, r), id)
<1>1. PICK i \in 1 .. Len(links) : links[i][2] = id /\ links[i][3] # "keys"
  BY DEF LinkIn
<1>2. i \in 1 .. Len(Append(links, r)) /\ Append(links, r)[i] = links[i]
  OBVIOUS
<1> QED
  BY <1>1, <1>2 DEF LinkIn

LEMMA NewLink ==
  ASSUME NEW links \in Seq(Links), NEW from \in Ids, NEW to \in Ids,
         NEW kind \in {"table", "view", "columns", "indexes"}
  PROVE  LinkIn(Append(links, <<from, to, kind>>), to)
<1> DEFINE j == Len(links) + 1
<1> DEFINE new == Append(links, <<from, to, kind>>)
<1>1. <<from, to, kind>> \in Links
  BY DEF Links
<1>2. j \in 1 .. Len(new) /\ new[j] = <<from, to, kind>>
  BY <1>1
<1>3. new[j][2] = to /\ new[j][3] # "keys"
  BY <1>2
<1>4. \E i \in 1 .. Len(new) : new[i][2] = to /\ new[i][3] # "keys"
  BY <1>2, <1>3
<1> QED
  BY <1>4 DEF LinkIn

(* A new node with its link leaves no node without one.                    *)
LEMMA NodeAdded ==
  ASSUME NEW nodes \in Seq(Ids), NEW links \in Seq(Links),
         \A i \in 2 .. Len(nodes) : LinkIn(links, nodes[i]),
         NEW from \in Ids, NEW to \in Ids,
         NEW kind \in {"table", "view", "columns", "indexes"},
         NEW i \in 2 .. Len(Append(nodes, to))
  PROVE  LinkIn(Append(links, <<from, to, kind>>), Append(nodes, to)[i])
<1>1. <<from, to, kind>> \in Links
  BY DEF Links
<1>2. CASE i = Len(nodes) + 1
  <2>1. Append(nodes, to)[i] = to
    BY <1>2
  <2> QED
    BY <2>1, NewLink
<1>3. CASE i # Len(nodes) + 1
  <2>1. i \in 2 .. Len(nodes) /\ Append(nodes, to)[i] = nodes[i]
    BY <1>3
  <2> QED
    BY <1>1, <2>1, LinksStay
<1> QED
  BY <1>2, <1>3

LEMMA OccursAppend ==
  ASSUME NEW S, NEW s \in Seq(S), NEW x \in S
  PROVE  /\ Occurs(x, Append(s, x))
         /\ \A y : Occurs(y, s) => Occurs(y, Append(s, x))
<1>1. /\ Len(s) + 1 \in 1 .. Len(Append(s, x))
      /\ Append(s, x)[Len(s) + 1] = x
  OBVIOUS
<1>2. ASSUME NEW j \in 1 .. Len(s)
      PROVE  j \in 1 .. Len(Append(s, x)) /\ Append(s, x)[j] = s[j]
  OBVIOUS
<1> QED
  BY <1>1, <1>2 DEF Occurs

LEMMA OccursTail ==
  ASSUME NEW S, NEW s \in Seq(S), s # <<>>, NEW y, Occurs(y, s)
  PROVE  y = Head(s) \/ Occurs(y, Tail(s))
<1>1. PICK j \in 1 .. Len(s) : s[j] = y
  BY DEF Occurs
<1>2. CASE j = 1
  BY <1>1, <1>2
<1>3. CASE j # 1
  <2>1. j - 1 \in 1 .. Len(Tail(s)) /\ Tail(s)[j - 1] = y
    BY <1>1, <1>3
  <2> QED
    BY <2>1 DEF Occurs
<1> QED
  BY <1>2, <1>3

(***************************************************************************)
(* The steps of the mapper                                                 *)
(***************************************************************************)
LEMMA IdShape ==
  /\ \A kind \in NodeKinds : \A name \in Name : Id(kind, name) \in Ids
  /\ \A name \in Name : TableId(name) \in Ids
  /\ \A kind \in NodeKinds : \A table, name \in Name :
       PartId(kind, table, name) \in Ids
<1>1. \A table, name \in Name : table \o name \in Name
  BY DEF Name
<1> QED
  BY <1>1 DEF Id, TableId, PartId, Ids, NodeKinds

LEMMA NodeAppended ==
  ASSUME NEW nodes \in Seq(Ids), NEW id \in Ids
  PROVE  /\ Append(nodes, id) \in Seq(Ids) /\ Append(nodes, id) # <<>>
         /\ Len(Append(nodes, id)) = Len(nodes) + 1
<1>1. /\ Append(nodes, id) \in Seq(Ids)
      /\ Len(Append(nodes, id)) = Len(nodes) + 1
  OBVIOUS
<1>2. Len(nodes) \in Nat /\ Len(<<>>) = 0
  OBVIOUS
<1>3. Append(nodes, id) # <<>>
  BY <1>1, <1>2
<1> QED
  BY <1>1, <1>3

LEMMA TableAtHand ==
  ASSUME IInv, keys # <<>> \/ parts # <<>> PROVE objects[at].name \in Name
<1>1. at \in 1 .. Len(objects)
  BY DEF IInv, TypeOK, Started, Shapes
<1>2. objects[at] \in Object
  BY <1>1 DEF IInv, Shapes
<1> QED
  BY <1>2 DEF Object

LEMMA OpenObjectStep ==
  ASSUME IInv, OpenObject PROVE IInv'
<1> DEFINE o == objects[at + 1]
<1> DEFINE id == Id(o.type, o.name)
<1> USE DEF IInv, TypeOK, Shapes, Started, inputs, catalog
<1>1. /\ phase = "map" /\ keys = <<>> /\ parts = <<>>
      /\ at < Len(objects) /\ Len(entities) < wanted
      /\ at' = at + 1 /\ entities' = Append(entities, id)
      /\ AddRelationship(SchemaId, id, o.type)
      /\ UNCHANGED <<source, wanted, withIndexes, phase, objects, bytes,
                     truncated>>
  BY LimitsAssumption DEF OpenObject, TableDone, MayOpen, Full
<1>2. o \in Object /\ o.type \in {"table", "view"} /\ o.name \in Name
      /\ o.keys \in Seq(Name)
  <2>1. at + 1 \in 1 .. Len(objects)
    BY <1>1
  <2>2. o \in Object
    BY <2>1
  <2> HIDE DEF o
  <2> QED
    BY <2>2 DEF Object
<1>3. id \in Ids /\ SchemaId \in Ids
  BY <1>2, IdShape, SchemaIdShape DEF NodeKinds
<1>4. /\ keys' = IF o.type = "table" THEN o.keys ELSE <<>>
      /\ parts' \in Seq({"columns", "indexes"} \X Name)
  BY <1>1, <1>2, PartsShape DEF OpenObject
<1>5. Cap' = Cap /\ RelationshipLimit' = RelationshipLimit
      /\ (FewKeys' <=> FewKeys) /\ wanted \in Nat \ {0}
  BY <1>1, LimitsAssumption DEF Cap, RelationshipLimit, FewKeys
<1>6. /\ relationships' \in Seq(Links)
      /\ Len(relationships') <= RelationshipLimit
      /\ Len(relationships') \in {Len(relationships), Len(relationships) + 1}
      /\ Len(relationships) < RelationshipLimit =>
           relationships' = Append(relationships, <<SchemaId, id, o.type>>)
  <2> HIDE DEF id, o
  <2> QED
    BY <1>1, <1>2, <1>3, LinkAppended
<1>7. entities' \in Seq(Ids) /\ Len(entities') = Len(entities) + 1
      /\ entities' # <<>>
  BY <1>1, <1>3, NodeAppended
<1>8. TypeOK' /\ Shapes' /\ Started'
  <2> HIDE DEF id
  <2> QED
    BY <1>1, <1>2, <1>4, <1>5, <1>6, <1>7
<1>9. ASSUME FewKeys PROVE Credit' /\ EveryNodeLinked' /\ KeysInHand'
  <2>1. /\ entities # <<>> /\ Len(entities) >= 1
        /\ Len(relationships) <= 4 * (Len(entities) - 1)
    BY <1>1, <1>9 DEF Credit, RelationshipsPerObject
  <2>2. relationships' = Append(relationships, <<SchemaId, id, o.type>>)
    BY <1>1, <1>5, <1>6, <2>1 DEF RelationshipLimit, RelationshipsPerObject
  <2>3. Credit'
    <3>1. Len(keys') <= 3
      BY <1>1, <1>2, <1>4, <1>9
      DEF Credit, FewObjectKeys, RelationshipsPerObject
    <3>2. FewObjectKeys'
      BY <1>1, <1>9 DEF Credit, FewObjectKeys
    <3>3. Len(relationships') = Len(relationships) + 1
      BY <1>2, <1>3, <2>2
    <3>4. Len(keys') \in Nat
      BY <1>2, <1>4
    <3> QED
      BY <1>7, <2>1, <3>1, <3>2, <3>3, <3>4 DEF Credit, RelationshipsPerObject
  <2>4. EveryNodeLinked'
    <3> SUFFICES ASSUME NEW i \in 2 .. Len(entities')
                 PROVE  LinkIn(relationships', entities'[i])
      BY DEF EveryNodeLinked
    <3> HIDE DEF id, o
    <3> QED
      BY <1>1, <1>2, <1>3, <1>9, <2>2, NodeAdded DEF EveryNodeLinked
  <2>5. KeysInHand'
    <3> SUFFICES ASSUME NEW i \in 1 .. at', NEW k \in 1 .. Len(objects[i].keys),
                        objects[i].type = "table"
                 PROVE  \/ Occurs(KeyLink(i, k), relationships')
                        \/ i = at' /\ Occurs(objects[i].keys[k], keys')
      BY <1>1 DEF KeysInHand, KeyLinked, KeyAhead, KeyLink
    <3>1. CASE i = at + 1
      <4>1. keys' = objects[i].keys /\ i = at'
        BY <1>1, <1>4, <3>1
      <4> QED
        BY <4>1 DEF Occurs
    <3>2. CASE i # at + 1
      <4>1. i \in 1 .. at
        BY <1>1, <3>2
      <4>2. ~ Occurs(objects[i].keys[k], keys)
        BY <1>1 DEF Occurs
      <4>3. Occurs(KeyLink(i, k), relationships)
        BY <1>9, <4>1, <4>2 DEF KeysInHand, KeyLinked, KeyAhead
      <4>4. <<SchemaId, id, o.type>> \in Links
        BY <1>2, <1>3 DEF Links
      <4> QED
        BY <2>2, <4>3, <4>4, OccursAppend
    <3> QED
      BY <3>1, <3>2
  <2> QED
    BY <2>3, <2>4, <2>5
<1> QED
  BY <1>5, <1>8, <1>9

LEMMA AddKeyStep ==
  ASSUME IInv, AddKey PROVE IInv'
<1> DEFINE from == TableId(objects[at].name)
<1> DEFINE to == TableId(Head(keys))
<1> USE DEF IInv, TypeOK, Shapes, Started, inputs, catalog
<1>1. /\ phase = "map" /\ keys # <<>> /\ keys' = Tail(keys)
      /\ AddRelationship(from, to, "keys")
      /\ UNCHANGED <<source, wanted, withIndexes, phase, objects, bytes,
                     truncated, at, parts, entities>>
  BY DEF AddKey
<1>2. /\ Head(keys) \in Name /\ keys' \in Seq(Name)
      /\ Len(keys') = Len(keys) - 1 /\ Len(keys) >= 1
  BY <1>1
<1>3. from \in Ids /\ to \in Ids
  <2>2. objects[at].name \in Name
    BY <1>1, TableAtHand
  <2> QED
    BY <1>2, <2>2, IdShape
<1>4. Cap' = Cap /\ RelationshipLimit' = RelationshipLimit
      /\ (FewKeys' <=> FewKeys) /\ wanted \in Nat \ {0}
  BY <1>1, LimitsAssumption DEF Cap, RelationshipLimit, FewKeys
<1>5. /\ relationships' \in Seq(Links)
      /\ Len(relationships') <= RelationshipLimit
      /\ Len(relationships') \in {Len(relationships), Len(relationships) + 1}
      /\ Len(relationships) < RelationshipLimit =>
           relationships' = Append(relationships, <<from, to, "keys">>)
  <2> HIDE DEF from, to
  <2> QED
    BY <1>1, <1>3, LinkAppended
<1>6. TypeOK' /\ Shapes' /\ Started'
  BY <1>1, <1>2, <1>4, <1>5
<1>7. ASSUME FewKeys PROVE Credit' /\ EveryNodeLinked' /\ KeysInHand'
  <2>1. /\ entities # <<>> /\ Len(entities) >= 1
        /\ Len(relationships) + Len(keys) <= 4 * (Len(entities) - 1)
    BY <1>1, <1>7 DEF Credit, RelationshipsPerObject
  <2>2. relationships' = Append(relationships, <<from, to, "keys">>)
    <3>1. Len(relationships) \in Nat /\ Len(entities) <= wanted
          /\ Len(entities) \in Nat
      OBVIOUS
    <3>2. Len(relationships) < RelationshipLimit
      BY <1>2, <1>4, <2>1, <3>1 DEF RelationshipLimit, RelationshipsPerObject
    <3> QED
      BY <1>5, <3>2
  <2>3. <<from, to, "keys">> \in Links
    BY <1>3 DEF Links
  <2>4. Credit'
    <3>1. Len(relationships') = Len(relationships) + 1
      BY <2>2, <2>3
    <3>2. FewObjectKeys'
      BY <1>1, <1>7 DEF Credit, FewObjectKeys
    <3> QED
      BY <1>1, <1>2, <2>1, <3>1, <3>2 DEF Credit, RelationshipsPerObject
  <2>5. EveryNodeLinked'
    <3> SUFFICES ASSUME NEW i \in 2 .. Len(entities)
                 PROVE  LinkIn(relationships', entities[i])
      BY <1>1 DEF EveryNodeLinked
    <3>1. LinkIn(relationships, entities[i])
      BY <1>7 DEF EveryNodeLinked
    <3> HIDE DEF from, to
    <3> QED
      BY <2>2, <2>3, <3>1, LinksStay
  <2>6. KeysInHand'
    <3> SUFFICES ASSUME NEW i \in 1 .. at, NEW k \in 1 .. Len(objects[i].keys),
                        objects[i].type = "table"
                 PROVE  \/ Occurs(KeyLink(i, k), relationships')
                        \/ i = at /\ Occurs(objects[i].keys[k], Tail(keys))
      BY <1>1 DEF KeysInHand, KeyLinked, KeyAhead, KeyLink
    <3>1. CASE Occurs(KeyLink(i, k), relationships)
      BY <2>2, <2>3, <3>1, OccursAppend
    <3>2. CASE i = at /\ objects[i].keys[k] = Head(keys)
      <4>1. KeyLink(i, k) = <<from, to, "keys">>
        BY <3>2 DEF KeyLink
      <4> QED
        BY <2>2, <2>3, <4>1, OccursAppend
    <3>3. CASE i = at /\ Occurs(objects[i].keys[k], keys)
               /\ objects[i].keys[k] # Head(keys)
      BY <1>1, <3>3, OccursTail
    <3> QED
      BY <1>7, <3>1, <3>2, <3>3 DEF KeysInHand, KeyLinked, KeyAhead
  <2> QED
    BY <2>4, <2>5, <2>6
<1> QED
  BY <1>4, <1>6, <1>7

LEMMA AddPartStep ==
  ASSUME IInv, AddPart PROVE IInv'
<1> DEFINE kind == Head(parts)[1]
<1> DEFINE name == Head(parts)[2]
<1> DEFINE from == TableId(objects[at].name)
<1> DEFINE id == PartId(kind, objects[at].name, name)
<1> USE DEF IInv, TypeOK, Shapes, Started, inputs, catalog
<1>1. /\ phase = "map" /\ keys = <<>> /\ parts # <<>> /\ parts' = Tail(parts)
      /\ Len(entities) < wanted /\ entities' = Append(entities, id)
      /\ AddRelationship(from, id, kind)
      /\ UNCHANGED <<source, wanted, withIndexes, phase, objects, bytes,
                     truncated, at, keys>>
  BY LimitsAssumption DEF AddPart, Full
<1>2. /\ kind \in {"columns", "indexes"} /\ name \in Name
      /\ parts' \in Seq({"columns", "indexes"} \X Name)
  <2>1. Head(parts) \in {"columns", "indexes"} \X Name
    BY <1>1
  <2> QED
    BY <1>1, <2>1
<1>3. from \in Ids /\ id \in Ids
  <2>2. objects[at].name \in Name
    BY <1>1, TableAtHand
  <2> HIDE DEF kind, name
  <2> QED
    BY <1>2, <2>2, IdShape DEF NodeKinds
<1>4. Cap' = Cap /\ RelationshipLimit' = RelationshipLimit
      /\ (FewKeys' <=> FewKeys) /\ wanted \in Nat \ {0}
  BY <1>1, LimitsAssumption DEF Cap, RelationshipLimit, FewKeys
<1> HIDE DEF id, from, kind
<1>5. /\ relationships' \in Seq(Links)
      /\ Len(relationships') <= RelationshipLimit
      /\ Len(relationships') \in {Len(relationships), Len(relationships) + 1}
      /\ Len(relationships) < RelationshipLimit =>
           relationships' = Append(relationships, <<from, id, kind>>)
  BY <1>1, <1>2, <1>3, LinkAppended
<1>6. /\ entities' \in Seq(Ids) /\ Len(entities') = Len(entities) + 1
      /\ entities' # <<>>
  BY <1>1, <1>3, NodeAppended
<1>7. TypeOK' /\ Shapes' /\ Started'
  BY <1>1, <1>2, <1>4, <1>5, <1>6
<1>8. ASSUME FewKeys PROVE Credit' /\ EveryNodeLinked' /\ KeysInHand'
  <2>1. /\ entities # <<>> /\ Len(entities) >= 1
        /\ Len(relationships) <= 4 * (Len(entities) - 1)
    BY <1>1, <1>8 DEF Credit, RelationshipsPerObject
  <2>2. relationships' = Append(relationships, <<from, id, kind>>)
    BY <1>1, <1>4, <1>5, <2>1 DEF RelationshipLimit, RelationshipsPerObject
  <2>3. Credit'
    <3>1. Len(relationships') = Len(relationships) + 1
      BY <1>2, <1>3, <2>2 DEF Links
    <3>2. FewObjectKeys'
      BY <1>1, <1>8 DEF Credit, FewObjectKeys
    <3> QED
      BY <1>1, <1>6, <2>1, <3>1, <3>2 DEF Credit, RelationshipsPerObject
  <2>4. EveryNodeLinked'
    <3> SUFFICES ASSUME NEW i \in 2 .. Len(entities')
                 PROVE  LinkIn(relationships', entities'[i])
      BY DEF EveryNodeLinked
    <3> QED
      BY <1>1, <1>2, <1>3, <1>8, <2>2, NodeAdded DEF EveryNodeLinked
  <2>5. KeysInHand'
    <3> SUFFICES ASSUME NEW i \in 1 .. at, NEW k \in 1 .. Len(objects[i].keys),
                        objects[i].type = "table"
                 PROVE  Occurs(KeyLink(i, k), relationships')
      BY <1>1 DEF KeysInHand, KeyLinked, KeyAhead, KeyLink
    <3>1. ~ Occurs(objects[i].keys[k], keys)
      BY <1>1 DEF Occurs
    <3>2. Occurs(KeyLink(i, k), relationships)
      BY <1>8, <3>1 DEF KeysInHand, KeyLinked, KeyAhead
    <3>3. <<from, id, kind>> \in Links
      BY <1>2, <1>3 DEF Links
    <3> QED
      BY <2>2, <3>2, <3>3, OccursAppend
  <2> QED
    BY <2>3, <2>4, <2>5
<1> QED
  BY <1>4, <1>7, <1>8

LEMMA PassPartStep ==
  ASSUME IInv, PassPart PROVE IInv'
<1> USE DEF IInv, TypeOK, Shapes, Started, inputs, catalog
<1>1. /\ phase = "map" /\ parts # <<>> /\ parts' = Tail(parts)
      /\ UNCHANGED <<source, wanted, withIndexes, phase, objects, bytes,
                     truncated, at, keys, entities, relationships>>
  BY DEF PassPart
<1>2. parts' \in Seq({"columns", "indexes"} \X Name)
  BY <1>1
<1>3. Cap' = Cap /\ RelationshipLimit' = RelationshipLimit
      /\ (FewKeys' <=> FewKeys)
  BY <1>1 DEF Cap, RelationshipLimit, FewKeys
<1> QED
  BY <1>1, <1>2, <1>3
  DEF Credit, FewObjectKeys, EveryNodeLinked, KeysInHand, KeyLinked, KeyAhead,
      KeyLink

LEMMA StutterStep ==
  ASSUME IInv, UNCHANGED vars PROVE IInv'
BY DEF vars, inputs, catalog, IInv, TypeOK, Shapes, Started, Cap,
       RelationshipLimit, FewKeys, Credit, FewObjectKeys, EveryNodeLinked,
       KeysInHand, KeyLinked, KeyAhead, KeyLink

(***************************************************************************)
(* Theorems                                                                *)
(***************************************************************************)

(* The invariant on which the others rest.                                 *)
THEOREM CatalogInvariance == Spec => []IInv
<1>1. Init => IInv
  BY InitIInv
<1>2. IInv /\ [Next]_vars => IInv'
  BY ReflectObjectStep, PhaseStep, OpenObjectStep, AddKeyStep, AddPartStep,
     PassPartStep, StutterStep DEF Next
<1> QED
  BY <1>1, <1>2, PTL DEF Spec

(* The catalog and the graph keep their caps on objects, bytes, nodes and  *)
(* links (schema_catalog, _CatalogIngestState).                            *)
THEOREM CatalogTyped == Spec => []TypeOK
<1>1. IInv => TypeOK
  BY DEF IInv
<1> QED
  BY <1>1, CatalogInvariance, PTL

(* However large the schema and however small the cap, where every table   *)
(* has fewer foreign keys than _RELATIONSHIPS_PER_OBJECT no node is        *)
(* ingested without the link that ties it to its table or schema           *)
(* (add_relationship).                                                     *)
THEOREM CatalogLinked == Spec => []EveryNodeLinked
<1>1. IInv => EveryNodeLinked
  BY DEF IInv, EveryNodeLinked
<1> QED
  BY <1>1, CatalogInvariance, PTL

(* Nor is a foreign key of an ingested table lost.                         *)
THEOREM CatalogKeysKept == Spec => []EveryKeyKept
<1>1. IInv => EveryKeyKept
  <2> SUFFICES ASSUME IInv, FewKeys, phase \in {"submit", "done"},
                      NEW i \in 1 .. at, NEW k \in 1 .. Len(objects[i].keys),
                      objects[i].type = "table"
               PROVE  Occurs(KeyLink(i, k), relationships)
    BY DEF EveryKeyKept, Occurs, KeyLink
  <2>1. keys = <<>>
    BY DEF IInv, Started
  <2>2. ~ Occurs(objects[i].keys[k], keys)
    BY <2>1 DEF Occurs
  <2> QED
    BY <2>2 DEF IInv, KeysInHand, KeyLinked, KeyAhead
<1> QED
  BY <1>1, CatalogInvariance, PTL

(* While the catalog is made its flag stands for the objects that the cap  *)
(* cuts off; the byte limit sets it when it cuts off others.               *)
Honest ==
  /\ Len(objects) <= Len(source)
  /\ phase = "reflect" => (truncated <=> Len(source) > Cap)
  /\ CatalogIsHonest

LEMMA HonestStep == ASSUME IInv, Honest, [Next]_vars PROVE Honest'
<1>0. /\ Len(source) \in Nat /\ Len(objects) \in Nat /\ Len(objects) <= Cap
      /\ Cap \in Nat
  BY LimitsAssumption DEF IInv, TypeOK, Shapes, Cap, Lesser
<1>1. CASE ReflectObject
  <2>1. Len(objects') = Len(objects) + 1 /\ Len(objects) < Len(source)
        /\ phase = "reflect"
        /\ UNCHANGED <<source, wanted, phase, truncated>>
    <3>1. Len(objects) + 1 \in 1 .. Len(source)
      BY <1>0, <1>1 DEF ReflectObject, MoreObjects, Lesser
    <3>2. source[Len(objects) + 1] \in Object
      BY <3>1 DEF IInv, Shapes
    <3>3. Catalogued(source[Len(objects) + 1]) \in Object
      BY <3>2, CataloguedObject
    <3> QED
      BY <1>0, <1>1, <3>1, <3>3 DEF ReflectObject, IInv, Shapes, inputs
  <2> QED
    BY <1>0, <2>1 DEF Honest, CatalogIsHonest, Cap
<1>2. CASE CatalogEnds
  <2>1. /\ phase = "reflect" /\ phase' = "map"
        /\ UNCHANGED <<source, wanted, objects>>
        /\ \/ Len(objects) >= Lesser(Len(source), Cap) /\ UNCHANGED truncated
           \/ Len(objects) < Lesser(Len(source), Cap) /\ truncated' = TRUE
    BY <1>0, <1>2 DEF CatalogEnds, MoreObjects, inputs, Lesser
  <2>2. truncated \in BOOLEAN
    BY DEF IInv, TypeOK
  <2> QED
    BY <1>0, <2>1, <2>2 DEF Honest, CatalogIsHonest, Lesser
<1>3. CASE ReflectionFails
  BY <1>3 DEF ReflectionFails, Honest, CatalogIsHonest, inputs, catalog
<1>4. CASE OpenObject \/ AddKey \/ AddPart \/ PassPart \/ MappingEnds \/ Submit
           \/ UNCHANGED vars
  <2>1. /\ UNCHANGED <<source, wanted, objects, truncated>>
        /\ phase' = "reflect" => phase = "reflect"
        /\ phase' \in {"map", "submit", "done"} =>
             phase \in {"map", "submit", "done"}
    BY <1>4 DEF OpenObject, AddKey, AddPart, PassPart, MappingEnds, Submit,
                vars, inputs, catalog
  <2> QED
    BY <2>1 DEF Honest, CatalogIsHonest, Cap
<1> QED
  BY <1>1, <1>2, <1>3, <1>4 DEF Next

(* The flag that is reported as source_truncated is true exactly when the  *)
(* catalog lacks an object of the schema, whichever cap cut it off         *)
(* (schema_catalog).                                                       *)
THEOREM CatalogHonest == Spec => []CatalogIsHonest
<1>1. Init => Honest
  <2> SUFFICES ASSUME Init PROVE Honest
    OBVIOUS
  <2>1. Len(source) \in Nat
    BY SourcesAssumption DEF Init
  <2>2. objects = <<>> /\ phase = "reflect"
        /\ (truncated <=> Len(source) > Cap)
    BY DEF Init, TooMany
  <2>3. Len(objects) = 0
    BY <2>2
  <2> QED
    BY <2>1, <2>2, <2>3 DEF Honest, CatalogIsHonest
<1>2. IInv /\ Honest /\ [Next]_vars => Honest'
  BY HonestStep
<1>3. Honest => CatalogIsHonest
  BY DEF Honest
<1> QED
  BY <1>1, <1>2, <1>3, CatalogInvariance, PTL DEF Spec

-----------------------------------------------------------------------------
(***************************************************************************)
(* The nodes have identifiers of their own, for every schema whose names   *)
(* have no dot                                                             *)
(***************************************************************************)
PartKinds == {"columns", "indexes"}

(* The catalog holds the first objects of the schema, in order.            *)
Reflected ==
  /\ Len(objects) <= Len(source)
  /\ \A i \in 1 .. Len(objects) : objects[i] = Catalogued(source[i])

(* Every node is that of the schema, of an object the mapper has opened,   *)
(* or of a part of one.                                                    *)
OfObject(id, i) == id = Id(objects[i].type, objects[i].name)
OfPart(id, i) ==
  \E kind \in PartKinds, name \in Name :
    id = PartId(kind, objects[i].name, name)
Owned(id) ==
  id = SchemaId \/ \E i \in 1 .. at : OfObject(id, i) \/ OfPart(id, i)
Nodes(s) == {s[e] : e \in 1 .. Len(s)}
Owners == \A id \in Nodes(entities) : Owned(id)

(* The named parts that the mapper has yet to look at differ, and none of  *)
(* them has a node.                                                        *)
Named(p) == parts[p][2] # <<>>
AtHand(p) == PartId(parts[p][1], objects[at].name, parts[p][2])
PartsFresh ==
  \A p \in 1 .. Len(parts) : Named(p) => AtHand(p) \notin Nodes(entities)
AllDiffer(s) ==
  \A p, q \in 1 .. Len(s) : s[p] = s[q] /\ s[p][2] # <<>> => p = q

NInv ==
  /\ Reflected
  /\ PlainNames => /\ Owners /\ PartsFresh /\ AllDiffer(parts)
                   /\ Distinct(entities)

(***************************************************************************)
(* Facts about the operators                                               *)
(***************************************************************************)
LEMMA Concatenated ==
  ASSUME NEW S, NEW a \in Seq(S), NEW n \in Seq(S)
  PROVE  /\ Len(a \o n) = Len(a) + Len(n)
         /\ \A i \in 1 .. Len(a) : (a \o n)[i] = a[i]
         /\ \A i \in 1 .. Len(n) : (a \o n)[Len(a) + i] = n[i]
<1>1. Len(a \o n) = Len(a) + Len(n)
  OBVIOUS
<1>2. ASSUME NEW i \in 1 .. Len(a) PROVE (a \o n)[i] = a[i]
  OBVIOUS
<1>3. ASSUME NEW i \in 1 .. Len(n) PROVE (a \o n)[Len(a) + i] = n[i]
  OBVIOUS
<1> QED
  BY <1>1, <1>2, <1>3

(* Paths that begin with as many words are joined in one way.              *)
LEMMA PathsDiffer ==
  ASSUME NEW S, NEW a \in Seq(S), NEW b \in Seq(S), NEW n \in Seq(S),
         NEW m \in Seq(S)
  PROVE  Len(a) = Len(b) /\ a \o n = b \o m => a = b /\ n = m
<1>0. /\ Len(b \o m) = Len(b) + Len(m)
      /\ \A i \in 1 .. Len(b) : (b \o m)[i] = b[i]
      /\ \A i \in 1 .. Len(m) : (b \o m)[Len(b) + i] = m[i]
  BY Concatenated
<1>a. /\ Len(a \o n) = Len(a) + Len(n)
      /\ \A i \in 1 .. Len(a) : (a \o n)[i] = a[i]
      /\ \A i \in 1 .. Len(n) : (a \o n)[Len(a) + i] = n[i]
  BY Concatenated
<1> HAVE Len(a) = Len(b) /\ a \o n = b \o m
<1>1. /\ Len(a) + Len(n) = Len(b) + Len(m)
      /\ \A i \in 1 .. Len(a) : (a \o n)[i] = a[i]
      /\ \A i \in 1 .. Len(b) : (a \o n)[i] = b[i]
      /\ \A i \in 1 .. Len(n) : (a \o n)[Len(a) + i] = n[i]
      /\ \A i \in 1 .. Len(m) : (a \o n)[Len(b) + i] = m[i]
  BY <1>0, <1>a, Zenon
<1>2. /\ Len(a) \in Nat /\ Len(b) \in Nat
      /\ Len(n) \in Nat /\ Len(m) \in Nat
  OBVIOUS
<1>3. a = b
  <2>1. \A i \in 1 .. Len(a) : a[i] = b[i]
    BY <1>1
  <2> QED
    BY <2>1, SeqEqual
<1>4. n = m
  <2>1. Len(n) = Len(m)
    BY <1>1, <1>2
  <2>2. \A i \in 1 .. Len(n) : n[i] = m[i]
    BY <1>1, <2>1, Zenon
  <2> QED
    BY <2>1, <2>2, SeqEqual
<1> QED
  BY <1>3, <1>4

LEMMA PartIdsDiffer ==
  ASSUME NEW a \in Name, NEW b \in Name, NEW n \in Name, NEW m \in Name,
         NEW k, NEW l, Len(a) = 1, Len(b) = 1, PartId(k, a, n) = PartId(l, b, m)
  PROVE  k = l /\ a = b /\ n = m
<1>1. k = l /\ a \o n = b \o m
  BY DEF PartId, Id
<1> QED
  BY <1>1, PathsDiffer DEF Name

LEMMA NodesAppend ==
  ASSUME NEW S, NEW s \in Seq(S), NEW x \in S
  PROVE  /\ Nodes(Append(s, x)) = Nodes(s) \cup {x}
         /\ Distinct(s) /\ x \notin Nodes(s) => Distinct(Append(s, x))
<1>1. /\ Len(s) \in Nat /\ Len(Append(s, x)) = Len(s) + 1
      /\ \A e \in 1 .. Len(s) + 1 :
           Append(s, x)[e] = IF e = Len(s) + 1 THEN x ELSE s[e]
  OBVIOUS
<1>2. Nodes(Append(s, x)) = Nodes(s) \cup {x}
  BY <1>1 DEF Nodes
<1>3. ASSUME Distinct(s), x \notin Nodes(s)
      PROVE  Distinct(Append(s, x))
  BY <1>1, <1>3 DEF Nodes, Distinct
<1> QED
  BY <1>2, <1>3

LEMMA ClippedDistinct ==
  ASSUME NEW s \in Seq(Name), DistinctNames(s)
  PROVE  DistinctNames(Clipped(s))
<1>1. Lesser(Len(s), MaxRows) \in 0 .. Len(s)
  BY LimitsAssumption DEF Lesser
<1> QED
  BY <1>1 DEF Clipped, DistinctNames

LEMMA PartsDiffer ==
  ASSUME NEW o \in Object, DistinctNames(o.columns), DistinctNames(o.indexes)
  PROVE  AllDiffer(PartsOf(o))
<1> DEFINE C == Labelled("columns", o.columns)
           I == IF withIndexes THEN Labelled("indexes", o.indexes) ELSE <<>>
<1>1. o.columns \in Seq(Name) /\ o.indexes \in Seq(Name)
  BY DEF Object
<1>2. /\ C \in Seq(PartKinds \X Name) /\ Len(C) = Len(o.columns)
      /\ \A i \in 1 .. Len(C) : C[i] = <<"columns", o.columns[i]>>
  BY <1>1 DEF Labelled, PartKinds
<1>3. /\ I \in Seq(PartKinds \X Name) /\ Len(I) <= Len(o.indexes)
      /\ \A i \in 1 .. Len(I) : I[i] = <<"indexes", o.indexes[i]>>
  BY <1>1 DEF Labelled, PartKinds
<1> SUFFICES ASSUME NEW p \in 1 .. Len(C \o I), NEW q \in 1 .. Len(C \o I),
                    (C \o I)[p] = (C \o I)[q], (C \o I)[p][2] # <<>>
             PROVE  p = q
  BY DEF AllDiffer, PartsOf
<1> HIDE DEF C, I
<1>4. ASSUME NEW r \in 1 .. Len(C \o I)
      PROVE  \/ r \in 1 .. Len(C) /\ (C \o I)[r] = <<"columns", o.columns[r]>>
             \/ /\ r - Len(C) \in 1 .. Len(I)
                /\ (C \o I)[r] = <<"indexes", o.indexes[r - Len(C)]>>
  <2>1. CASE r <= Len(C)
    <3>1. r \in 1 .. Len(C) /\ (C \o I)[r] = C[r]
      BY <1>2, <1>3, <2>1
    <3> QED
      BY <1>2, <3>1
  <2>2. CASE r > Len(C)
    <3>1. r - Len(C) \in 1 .. Len(I) /\ (C \o I)[r] = I[r - Len(C)]
      BY <1>2, <1>3, <2>2
    <3> QED
      BY <1>3, <3>1
  <2> QED
    BY <1>2, <2>1, <2>2
<1>5. CASE (C \o I)[p][1] = "columns"
  <2>1. /\ p \in 1 .. Len(C) /\ q \in 1 .. Len(C)
        /\ o.columns[p] = o.columns[q] /\ o.columns[p] # <<>>
    BY <1>4, <1>5
  <2> QED
    BY <1>2, <2>1 DEF DistinctNames
<1>6. CASE (C \o I)[p][1] # "columns"
  <2>0. ASSUME NEW r \in {p, q}
        PROVE  /\ r - Len(C) \in 1 .. Len(I)
               /\ (C \o I)[p] = <<"indexes", o.indexes[r - Len(C)]>>
    <3>1. r \in 1 .. Len(C \o I) /\ (C \o I)[r] = (C \o I)[p]
      OBVIOUS
    <3>2. CASE r \in 1 .. Len(C) /\ (C \o I)[r] = <<"columns", o.columns[r]>>
      BY <1>6, <3>1, <3>2
    <3> QED
      BY <1>4, <3>1, <3>2
  <2> DEFINE i == p - Len(C)
             j == q - Len(C)
  <2>1. /\ i \in 1 .. Len(I) /\ j \in 1 .. Len(I)
        /\ (C \o I)[p] = <<"indexes", o.indexes[i]>>
        /\ (C \o I)[p] = <<"indexes", o.indexes[j]>>
    BY <2>0
  <2> HIDE DEF i, j
  <2>2. i = j
    <3>1. o.indexes[i] = o.indexes[j] /\ o.indexes[i] # <<>>
      BY <2>1
    <3>2. i \in 1 .. Len(o.indexes) /\ j \in 1 .. Len(o.indexes)
      BY <1>1, <1>3, <2>1
    <3> QED
      BY <3>1, <3>2 DEF DistinctNames
  <2> USE DEF i, j
  <2>3. Len(C) \in Nat /\ p \in Int /\ q \in Int
    BY <1>2
  <2> QED
    BY <2>2, <2>3
<1> QED
  BY <1>5, <1>6

(* What is plain in the schema is plain in the catalog.                    *)
LEMMA ObjectsPlain ==
  ASSUME IInv, Reflected, PlainNames, NEW i \in 1 .. Len(objects)
  PROVE  /\ objects[i] \in Object /\ objects[i].name \in Name
         /\ Len(objects[i].name) = 1
         /\ \A j \in 1 .. Len(objects) :
              objects[i].name = objects[j].name => i = j
         /\ DistinctNames(objects[i].columns)
         /\ DistinctNames(objects[i].indexes)
<1>0. \A j \in 1 .. Len(objects) : j \in 1 .. Len(source)
  BY DEF Reflected, IInv, Shapes
<1>1. ASSUME NEW j \in 1 .. Len(objects)
      PROVE  /\ source[j] \in Object /\ objects[j].name = source[j].name
             /\ objects[j].columns = Clipped(source[j].columns)
             /\ objects[j].indexes = Clipped(source[j].indexes)
  <2>1. source[j] \in Object /\ objects[j] = Catalogued(source[j])
    BY <1>0 DEF Reflected, IInv, Shapes
  <2> QED
    BY <2>1 DEF Catalogued, Object
<1>2. objects[i] \in Object
  BY DEF IInv, Shapes
<1>3. /\ source[i].columns \in Seq(Name) /\ source[i].indexes \in Seq(Name)
      /\ objects[i].name \in Name
  BY <1>1, <1>2 DEF Object
<1>4. DistinctNames(objects[i].columns) /\ DistinctNames(objects[i].indexes)
  BY <1>0, <1>1, <1>3, ClippedDistinct DEF PlainNames
<1> QED
  BY <1>0, <1>1, <1>2, <1>3, <1>4 DEF PlainNames

LEMMA TypesDiffer ==
  ASSUME NEW o \in Object
  PROVE  o.type \in {"table", "view"}
BY DEF Object

(***************************************************************************)
(* The steps                                                               *)
(***************************************************************************)
LEMMA InitNInv == Init => NInv
<1> SUFFICES ASSUME Init PROVE NInv
  OBVIOUS
<1>1. Len(source) \in Nat
  BY SourcesAssumption DEF Init
<1>2. objects = <<>> /\ entities = <<>> /\ parts = <<>>
  BY DEF Init
<1> QED
  BY <1>1, <1>2
  DEF NInv, Reflected, Owners, Nodes, PartsFresh, AllDiffer, Distinct

(* Before the mapper starts there is nothing to tell apart.                *)
LEMMA ReflectNames ==
  ASSUME IInv, NInv, ReflectObject
  PROVE  NInv'
<1> DEFINE n == Len(objects) + 1
<1>1. /\ objects' = Append(objects, Catalogued(source[n]))
      /\ UNCHANGED <<source, at, parts, entities>>
      /\ entities = <<>> /\ parts = <<>>
  BY DEF ReflectObject, IInv, Started, inputs
<1>2. n \in 1 .. Len(source)
  <2>1. Cap \in Nat /\ Len(source) \in Nat /\ Len(objects) \in Nat
    BY LimitsAssumption DEF Cap, Lesser, IInv, TypeOK, Shapes
  <2> QED
    BY <2>1 DEF ReflectObject, MoreObjects, Lesser
<1>3. Catalogued(source[n]) \in Object
  BY <1>2, CataloguedObject DEF IInv, Shapes
<1>4. Reflected'
  <2>1. /\ Len(objects') = n
        /\ \A i \in 1 .. n : objects'[i] = IF i = n THEN Catalogued(source[n])
                                           ELSE objects[i]
    BY <1>1, <1>3 DEF IInv, Shapes
  <2> QED
    BY <1>1, <1>2, <2>1 DEF NInv, Reflected, IInv, Shapes
<1> QED
  BY <1>1, <1>4 DEF NInv, Owners, Nodes, PartsFresh, AllDiffer, Distinct

LEMMA StartNames ==
  ASSUME IInv, NInv, CatalogEnds
  PROVE  NInv'
<1>1. /\ entities' = <<SchemaId>> /\ parts' = <<>>
      /\ UNCHANGED <<source, objects>>
  BY DEF CatalogEnds, IInv, Started, inputs
<1>2. Len(entities') = 1 /\ entities'[1] = SchemaId /\ Len(parts') = 0
  BY <1>1
<1> QED
  BY <1>1, <1>2
  DEF NInv, Reflected, Owners, Nodes, Owned, PartsFresh, AllDiffer, Distinct

(* A node of an object is new, and so will be those of its parts, since    *)
(* its name is.                                                            *)
LEMMA OpenNames ==
  ASSUME IInv, NInv, OpenObject
  PROVE  NInv'
<1> DEFINE o == objects[at + 1]
           id == Id(o.type, o.name)
<1>0. /\ at' = at + 1 /\ entities' = Append(entities, id)
      /\ UNCHANGED <<source, withIndexes, objects>>
      /\ parts = <<>>
      /\ IF o.type = "table" THEN parts' = PartsOf(o) ELSE parts' = parts
  BY DEF OpenObject, TableDone, inputs, catalog
<1>1. at \in Nat /\ at + 1 \in 1 .. Len(objects) /\ at \in 0 .. Len(objects)
  BY DEF OpenObject, MayOpen, IInv, TypeOK, Shapes
<1>2. Reflected'
  BY <1>0 DEF NInv, Reflected
<1> SUFFICES ASSUME PlainNames
             PROVE  Owners' /\ PartsFresh' /\ AllDiffer(parts') /\ Distinct(entities')
  BY <1>0, <1>2 DEF NInv, PlainNames, AllDiffer, Distinct
<1> USE DEF NInv
<1>3. /\ o \in Object /\ o.name \in Name /\ Len(o.name) = 1
      /\ DistinctNames(o.columns) /\ DistinctNames(o.indexes)
  BY <1>1, ObjectsPlain
<1>4. o.type \in {"table", "view"}
  BY <1>3, TypesDiffer
<1>5. ASSUME NEW i \in 1 .. at
      PROVE  /\ objects[i].name \in Name /\ Len(objects[i].name) = 1
             /\ objects[i].type \in {"table", "view"}
             /\ objects[i].name # o.name
  <2>1. i \in 1 .. Len(objects) /\ i # at + 1
    BY <1>1
  <2> QED
    BY <1>1, <2>1, ObjectsPlain, TypesDiffer
<1>6. id \notin Nodes(entities)
  <2>1. id # SchemaId
    BY <1>4 DEF SchemaId, Id
  <2>2. ASSUME NEW i \in 1 .. at PROVE ~ OfObject(id, i)
    BY <1>5 DEF OfObject, Id
  <2>3. ASSUME NEW i \in 1 .. at PROVE ~ OfPart(id, i)
    BY <1>4 DEF OfPart, PartId, Id, PartKinds
  <2> QED
    BY <2>1, <2>2, <2>3 DEF Owners, Owned
<1>7. ASSUME NEW kind \in PartKinds, NEW name \in Name
      PROVE  PartId(kind, o.name, name) \notin Nodes(entities) \cup {id}
  <2>1. PartId(kind, o.name, name) \notin {SchemaId, id}
    BY <1>4 DEF SchemaId, PartId, Id, PartKinds
  <2>2. ASSUME NEW i \in 1 .. at
        PROVE  ~ OfObject(PartId(kind, o.name, name), i)
    BY <1>5 DEF OfObject, PartId, Id, PartKinds
  <2>3. ASSUME NEW i \in 1 .. at
        PROVE  ~ OfPart(PartId(kind, o.name, name), i)
    BY <1>3, <1>5, PartIdsDiffer DEF OfPart
  <2> QED
    BY <2>1, <2>2, <2>3 DEF Owners, Owned
<1>8. id \in Ids /\ entities \in Seq(Ids)
  BY <1>3, <1>4, IdShape DEF NodeKinds, IInv, Shapes
<1>9. Nodes(entities') = Nodes(entities) \cup {id} /\ Distinct(entities')
  BY <1>0, <1>6, <1>8, NodesAppend
<1>10. Owners'
  <2>1. ASSUME NEW x, Owned(x) PROVE Owned(x)'
    BY <1>0, <1>1, <2>1 DEF Owned, OfObject, OfPart
  <2>2. ASSUME NEW x, x = id PROVE Owned(x)'
    <3>1. OfObject(x, at)'
      BY <1>0, <2>2 DEF OfObject
    <3> QED
      BY <1>0, <1>1, <3>1 DEF Owned
  <2> QED
    BY <1>9, <2>1, <2>2 DEF Owners
<1>11. AllDiffer(parts') /\ parts' \in Seq(PartKinds \X Name)
  <2>1. CASE o.type = "table"
    <3>1. AllDiffer(PartsOf(o)) /\ PartsOf(o) \in Seq(PartKinds \X Name)
      BY <1>3, PartsDiffer, PartsShape DEF PartKinds
    <3> QED
      BY <1>0, <2>1, <3>1
  <2>2. CASE o.type # "table"
    BY <1>0, <2>2 DEF AllDiffer
  <2> QED
    BY <2>1, <2>2
<1>12. PartsFresh'
  <2> SUFFICES ASSUME NEW p \in 1 .. Len(parts')
               PROVE  PartId(parts'[p][1], o.name, parts'[p][2])
                        \notin Nodes(entities')
    BY <1>0 DEF PartsFresh, AtHand
  <2>1. parts'[p] \in PartKinds \X Name
    BY <1>11, ElementOfSeq
  <2>2. parts'[p][1] \in PartKinds /\ parts'[p][2] \in Name
    BY <2>1
  <2> QED
    BY <1>7, <1>9, <2>2
<1> QED
  BY <1>9, <1>10, <1>11, <1>12

(* A part gets a node, which none of the parts after it will get.          *)
LEMMA PartNames ==
  ASSUME IInv, NInv, AddPart \/ PassPart
  PROVE  NInv'
<1> DEFINE kind == Head(parts)[1]
           name == Head(parts)[2]
           id == PartId(kind, objects[at].name, name)
<1>0. /\ parts # <<>> /\ parts' = Tail(parts)
      /\ UNCHANGED <<source, objects, at>>
      /\ \/ entities' = Append(entities, id) /\ name # <<>>
         \/ UNCHANGED entities
  BY DEF AddPart, PassPart, inputs, catalog
<1>1. Reflected'
  BY <1>0 DEF NInv, Reflected
<1> SUFFICES ASSUME PlainNames
             PROVE  Owners' /\ PartsFresh' /\ AllDiffer(parts') /\ Distinct(entities')
  BY <1>0, <1>1 DEF NInv, PlainNames, AllDiffer, Distinct
<1> USE DEF NInv
<1>2. /\ parts \in Seq(PartKinds \X Name) /\ entities \in Seq(Ids)
      /\ at \in 1 .. Len(objects)
  BY <1>0 DEF IInv, Shapes, Started, TypeOK, PartKinds
<1>3. /\ objects[at].name \in Name /\ Len(objects[at].name) = 1
  BY <1>2, ObjectsPlain
<1>4. /\ Len(parts) > 0 /\ Head(parts) = parts[1]
      /\ Len(parts') = Len(parts) - 1
      /\ \A p \in 1 .. Len(parts') : p + 1 \in 1 .. Len(parts)
                                     /\ parts'[p] = parts[p + 1]
  BY <1>0, <1>2
<1>5. kind \in PartKinds /\ name \in Name /\ parts[1] = <<kind, name>>
  <2>1. parts[1] \in PartKinds \X Name
    BY <1>2, <1>4, ElementOfSeq
  <2> QED
    BY <1>4, <2>1
<1>6. AllDiffer(parts')
  BY <1>2, <1>4 DEF AllDiffer
<1>7. ASSUME NEW p \in 1 .. Len(parts'), parts'[p][2] # <<>>
      PROVE  PartId(parts'[p][1], objects[at].name, parts'[p][2])
               \notin Nodes(entities)
  BY <1>4, <1>7 DEF PartsFresh, Named, AtHand
<1>8. ASSUME NEW x, Owned(x) PROVE Owned(x)'
  BY <1>0, <1>8 DEF Owned, OfObject, OfPart
<1>9. CASE UNCHANGED entities
  <2>1. Owners'
    BY <1>8, <1>9 DEF Owners
  <2>2. PartsFresh'
    BY <1>0, <1>7, <1>9 DEF PartsFresh, Named, AtHand
  <2> QED
    BY <1>6, <1>9, <2>1, <2>2 DEF Distinct
<1>10. CASE entities' = Append(entities, id) /\ name # <<>>
  <2>1. id \in Ids
    BY <1>3, <1>5, IdShape DEF PartKinds, NodeKinds
  <2>2. id \notin Nodes(entities)
    BY <1>2, <1>4, <1>10 DEF PartsFresh, Named, AtHand
  <2>3. Nodes(entities') = Nodes(entities) \cup {id} /\ Distinct(entities')
    BY <1>2, <1>10, <2>1, <2>2, NodesAppend
  <2>4. Owners'
    <3>1. OfPart(id, at) /\ at \in 1 .. at
      BY <1>2, <1>5 DEF OfPart, IInv, Shapes
    <3>2. ASSUME NEW x, x = id PROVE Owned(x)
      BY <3>1, <3>2 DEF Owned
    <3> QED
      BY <1>8, <2>3, <3>2 DEF Owners
  <2>5. PartsFresh'
    <3> SUFFICES ASSUME NEW p \in 1 .. Len(parts'), parts'[p][2] # <<>>
                 PROVE  PartId(parts'[p][1], objects[at].name, parts'[p][2])
                          \notin Nodes(entities')
      BY <1>0 DEF PartsFresh, Named, AtHand
    <3>1. p + 1 \in 1 .. Len(parts) /\ parts'[p] = parts[p + 1]
      BY <1>4
    <3>2. parts'[p] \in PartKinds \X Name
      BY <1>2, <3>1, ElementOfSeq
    <3>3. parts'[p] # parts[1]
      <4>1. p + 1 # 1 /\ 1 \in 1 .. Len(parts)
        BY <1>2, <1>4
      <4>2. AllDiffer(parts)
        OBVIOUS
      <4> QED
        BY <3>1, <4>1, <4>2 DEF AllDiffer
    <3>4. id # PartId(parts'[p][1], objects[at].name, parts'[p][2])
      <4>1. parts'[p] = <<parts'[p][1], parts'[p][2]>>
            /\ parts'[p][2] \in Name
        BY <3>2
      <4> QED
        BY <1>3, <1>5, <3>3, <4>1, PartIdsDiffer
    <3> QED
      BY <1>7, <2>3, <3>4
  <2> QED
    BY <1>6, <2>3, <2>4, <2>5
<1> QED
  BY <1>0, <1>9, <1>10

LEMMA OtherNames ==
  ASSUME NInv, ReflectionFails \/ AddKey \/ MappingEnds \/ Submit
               \/ UNCHANGED vars
  PROVE  NInv'
<1>1. UNCHANGED <<source, objects, at, parts, entities>>
  BY DEF ReflectionFails, AddKey, MappingEnds, Submit, vars, inputs, catalog
<1>2. Reflected' <=> Reflected
  BY <1>1 DEF Reflected
<1>3. PlainNames' <=> PlainNames
  BY <1>1 DEF PlainNames
<1>4. \A x : Owned(x)' <=> Owned(x)
  BY <1>1 DEF Owned, OfObject, OfPart
<1>5. (Owners' <=> Owners) /\ (PartsFresh' <=> PartsFresh)
  BY <1>1, <1>4 DEF Owners, PartsFresh, Named, AtHand
<1>6. /\ AllDiffer(parts)' <=> AllDiffer(parts)
      /\ Distinct(entities)' <=> Distinct(entities)
  BY <1>1
<1> QED
  BY <1>2, <1>3, <1>5, <1>6 DEF NInv

(* No two nodes of the graph have one identifier, for every schema whose   *)
(* tables and views have names of one word (catalog_to_entities).          *)
THEOREM CatalogDistinct == Spec => []NodesDistinct
<1>1. IInv /\ NInv /\ [Next]_vars => NInv'
  BY ReflectNames, StartNames, OpenNames, PartNames, OtherNames DEF Next
<1>2. NInv => NodesDistinct
  BY DEF NInv, NodesDistinct
<1> QED
  BY InitNInv, <1>1, <1>2, CatalogInvariance, PTL DEF Spec
=============================================================================
