---------------------------- MODULE CatalogIngest ----------------------------
(***************************************************************************)
(* sql_ingest_schema: schema_catalog reflects the tables and views of a    *)
(* schema under the caps of the client, catalog_to_entities maps them to   *)
(* the nodes and links of the knowledge graph under caps of its own, and   *)
(* ingest_entities submits these in one transaction.  A call starts here   *)
(* once allow_kg_ingest() has let it pass; otherwise it does nothing.      *)
(*                                                                         *)
(* A name is a sequence of words, as dots join them in identifiers, and    *)
(* <<>> the missing name of an unnamed index.  Of a column, an index or a  *)
(* foreign key only its name and the table it refers to are kept.          *)
(***************************************************************************)
EXTENDS Integers, Sequences

CONSTANTS
  Words,
  Sources,    \* the schemas there may be: sequences of objects
  Requests,   \* the max_objects a caller may pass
  MaxObjects, \* _MAX_OBJECTS
  MaxRows,    \* SqlApi.max_rows
  MaxBytes    \* SqlApi.max_result_bytes

Name == Seq(Words)
Object ==
  [type : {"table", "view"}, name : Name, size : Nat,
   keys : Seq(Name), columns : Seq(Name), indexes : Seq(Name)]

ASSUME SourcesAssumption == Sources \subseteq Seq(Object)
ASSUME LimitsAssumption ==
  /\ MaxObjects \in Nat \ {0} /\ MaxRows \in Nat \ {0}
  /\ MaxBytes \in Nat \ {0}
  /\ Requests \subseteq 1 .. MaxObjects

RelationshipsPerObject == 4

VARIABLES
  source,        \* the tables, then the views, of the database
  wanted,        \* max_objects
  withIndexes,   \* include_indexes
  phase,         \* what the tool is doing
  objects,       \* "objects" of the catalog
  bytes,         \* its bytes_returned
  truncated,     \* its "truncated", returned as source_truncated
  at,            \* number of objects the mapper has begun
  keys, parts,   \* the foreign keys, columns and indexes of the table at hand
                 \* that it has yet to look at
  entities, relationships

vars == <<source, wanted, withIndexes, phase, objects, bytes, truncated, at,
          keys, parts, entities, relationships>>
inputs == <<source, wanted, withIndexes>>
catalog == <<objects, bytes, truncated>>

Lesser(a, b) == IF a <= b THEN a ELSE b

(* An identifier: its kind, and the names that dots join.                  *)
Id(kind, path) == <<kind, path>>
SchemaId == Id("schema", <<>>)
TableId(name) == Id("table", name)
PartIdUnqualified(kind, table, name) == Id(kind, name)              \* faulty
PartId(kind, table, name) == Id(kind, table \o name)

(***************************************************************************)
(* schema_catalog                                                          *)
(***************************************************************************)
Cap == Lesser(wanted, MaxRows)

(* [: self.max_rows] in the records of a table.                            *)
Clipped(s) == SubSeq(s, 1, Lesser(Len(s), MaxRows))
Catalogued(o) == [o EXCEPT !.keys = Clipped(@), !.columns = Clipped(@),
                           !.indexes = Clipped(@)]

TooManyFrom(n, cap) == n >= cap                                     \* faulty
TooMany(n, cap) == n > cap

Init ==
  /\ source \in Sources
  /\ wanted \in Requests
  /\ withIndexes \in BOOLEAN
  /\ phase = "reflect"
  /\ objects = <<>>
  /\ bytes = 0
  /\ truncated = TooMany(Len(source), Cap)
  /\ at = 0
  /\ keys = <<>> /\ parts = <<>>
  /\ entities = <<>> /\ relationships = <<>>

MoreObjects == Len(objects) < Lesser(Len(source), Cap)
Fits(o) == bytes + o.size <= MaxBytes

ReflectObject ==
  LET o == source[Len(objects) + 1]
  IN /\ phase = "reflect" /\ MoreObjects /\ Fits(o)
     /\ objects' = Append(objects, Catalogued(o))
     /\ bytes' = bytes + o.size
     /\ UNCHANGED <<inputs, phase, truncated, at, keys, parts, entities,
                    relationships>>

(* The catalog is complete or too large; the mapper starts with the node   *)
(* of the schema.                                                          *)
CatalogEnds ==
  /\ phase = "reflect"
  /\ \/ ~ MoreObjects /\ UNCHANGED truncated
     \/ /\ MoreObjects /\ ~ Fits(source[Len(objects) + 1])
        /\ truncated' = TRUE
  /\ phase' = "map"
  /\ entities' = <<SchemaId>>
  /\ UNCHANGED <<inputs, objects, bytes, at, keys, parts, relationships>>

(* Reflection raises or runs out of time, and nothing is ingested.         *)
ReflectionFails ==
  /\ phase = "reflect"
  /\ phase' = "failed"
  /\ UNCHANGED <<inputs, catalog, at, keys, parts, entities, relationships>>

(***************************************************************************)
(* catalog_to_entities                                                     *)
(***************************************************************************)
Full == Len(entities) >= wanted

(* add_relationship: dropped without a word beyond the cap.                *)
RelationshipLimit == RelationshipsPerObject * wanted
UnscaledLimit(from, to, kind) ==                                    \* faulty
  relationships' = IF Len(relationships) < wanted
                     THEN Append(relationships, <<from, to, kind>>)
                     ELSE relationships
UnlessFull(from, to, kind) ==                                       \* faulty
  relationships' = IF ~ Full \/ kind # "keys"
                     THEN Append(relationships, <<from, to, kind>>)
                     ELSE relationships
AddRelationship(from, to, kind) ==
  relationships' = IF Len(relationships) < RelationshipLimit
                     THEN Append(relationships, <<from, to, kind>>)
                     ELSE relationships

(* The columns of a table, then its indexes if they are wanted.            *)
Labelled(kind, names) == [i \in 1 .. Len(names) |-> <<kind, names[i]>>]
PartsOf(o) ==
  Labelled("columns", o.columns) \o
    (IF withIndexes THEN Labelled("indexes", o.indexes) ELSE <<>>)

TableDone == keys = <<>> /\ parts = <<>>

MayOpen == at < Len(objects) /\ ~ Full

(* _add_catalog_object, for a view and for a table up to its first part.   *)
OpenObject ==
  LET o == objects[at + 1]
      id == Id(o.type, o.name)
  IN /\ phase = "map" /\ TableDone /\ MayOpen
     /\ at' = at + 1
     /\ entities' = Append(entities, id)
     /\ AddRelationship(SchemaId, id, o.type)
     /\ IF o.type = "table"
          THEN keys' = o.keys /\ parts' = PartsOf(o)
          ELSE UNCHANGED <<keys, parts>>
     /\ UNCHANGED <<inputs, phase, catalog>>

(* _add_foreign_key_relationships: the table referred to need not be in    *)
(* the catalog.                                                            *)
AddKey ==
  /\ phase = "map" /\ keys # <<>>
  /\ AddRelationship(TableId(objects[at].name), TableId(Head(keys)), "keys")
  /\ keys' = Tail(keys)
  /\ UNCHANGED <<inputs, phase, catalog, at, parts, entities>>

(* _add_column_entities and _add_index_entities.                           *)
AddPart ==
  LET kind == Head(parts)[1]
      name == Head(parts)[2]
      id == PartId(kind, objects[at].name, name)
  IN /\ phase = "map" /\ keys = <<>> /\ parts # <<>>
     /\ ~ Full /\ name # <<>>
     /\ entities' = Append(entities, id)
     /\ AddRelationship(TableId(objects[at].name), id, kind)
     /\ parts' = Tail(parts)
     /\ UNCHANGED <<inputs, phase, catalog, at, keys>>

(* An unnamed index is passed over; nothing is added once it is full.      *)
PassPart ==
  /\ phase = "map" /\ keys = <<>> /\ parts # <<>>
  /\ Full \/ Head(parts)[2] = <<>>
  /\ parts' = Tail(parts)
  /\ UNCHANGED <<inputs, phase, catalog, at, keys, entities, relationships>>

MappingEnds ==
  /\ phase = "map" /\ TableDone /\ ~ MayOpen
  /\ phase' = "submit"
  /\ UNCHANGED <<inputs, catalog, at, keys, parts, entities, relationships>>

(* ingest_entities: one transaction, which commits or raises IngestError.  *)
Submit ==
  /\ phase = "submit"
  /\ phase' \in {"done", "failed"}
  /\ UNCHANGED <<inputs, catalog, at, keys, parts, entities, relationships>>

Next ==
  \/ ReflectObject \/ CatalogEnds \/ ReflectionFails
  \/ OpenObject \/ AddKey \/ AddPart \/ PassPart \/ MappingEnds
  \/ Submit

Spec == Init /\ [][Next]_vars

(***************************************************************************)
(* Properties                                                              *)
(***************************************************************************)
TypeOK ==
  /\ source \in Sources /\ wanted \in Requests /\ withIndexes \in BOOLEAN
  /\ phase \in {"reflect", "map", "submit", "done", "failed"}
  /\ bytes \in 0 .. MaxBytes /\ truncated \in BOOLEAN
  /\ Len(objects) <= Cap /\ at \in 0 .. Len(objects)
  /\ Len(entities) <= wanted
  /\ Len(relationships) <= RelationshipLimit

(* Foreign keys compete with the links that tie every node to its table or *)
(* schema for the relationships there may be.  A schema whose tables have  *)
(* fewer foreign keys than _RELATIONSHIPS_PER_OBJECT loses none of these   *)
(* links (add_relationship).                                               *)
FewKeys == \A i \in 1 .. Len(source) :
             Len(source[i].keys) < RelationshipsPerObject
LinkIn(links, id) == \E i \in 1 .. Len(links) :
                       links[i][2] = id /\ links[i][3] # "keys"
EveryNodeLinked ==
  FewKeys => \A i \in 2 .. Len(entities) : LinkIn(relationships, entities[i])

(* Nor does it lose a foreign key of a table that is ingested: keys do not *)
(* stop where columns do, when there are enough nodes.                     *)
EveryKeyKept ==
  FewKeys /\ phase \in {"submit", "done"} =>
    \A i \in 1 .. at : \A k \in 1 .. Len(objects[i].keys) :
      objects[i].type = "table" =>
        \E j \in 1 .. Len(relationships) :
          relationships[j] =
            <<TableId(objects[i].name), TableId(objects[i].keys[k]), "keys">>

(* Tables and views whose names have no dot get identifiers, and give      *)
(* their columns and indexes identifiers, that no other node has, so the   *)
(* graph, which merges nodes by identifier, keeps them apart.              *)
Distinct(s) == \A i, j \in 1 .. Len(s) : s[i] = s[j] => i = j
DistinctNames(s) ==
  \A i, j \in 1 .. Len(s) : s[i] = s[j] /\ s[i] # <<>> => i = j
PlainNames ==
  \A i \in 1 .. Len(source) :
    /\ Len(source[i].name) = 1
    /\ \A j \in 1 .. Len(source) : source[i].name = source[j].name => i = j
    /\ DistinctNames(source[i].columns)
    /\ DistinctNames(source[i].indexes)
NodesDistinct == PlainNames => Distinct(entities)

(* The catalog says that it is truncated exactly when it lacks an object   *)
(* of the schema.                                                          *)
CatalogIsHonest ==
  phase \in {"map", "submit", "done"} =>
    (truncated <=> Len(objects) < Len(source))
=============================================================================
