----------------------------- MODULE CatalogCache -----------------------------
(***************************************************************************)
(* A catalog as the code holds it and the CatalogCache that finds its      *)
(* objects by their names (src/ddl/catalog_cache.go).                      *)
(*                                                                         *)
(* A catalog is a tree of slices: of schemas, of the tables of a schema, of *)
(* the columns of a table.  A slice is known by its slot, the kind of its  *)
(* objects and the positions of the schema and of the table (or view) that *)
(* it is in; the slot stands for the pointer that the callers hold, which  *)
(* they use before anything is added to the slice it points into.  The     *)
(* cache has a map for each kind, from the names on the way to an object to *)
(* its position; here they are one function, index, and the map is a part  *)
(* of the key.  Position 0 is nil.                                         *)
(*                                                                         *)
(* The functions of every kind are alike: Get, GetOrCreate and AddOrUpdate *)
(* are written once, for a slot.                                           *)
(***************************************************************************)
EXTENDS Naturals, Sequences

PRIMARY_KEY == "PRIMARY KEY"
UNIQUE == "UNIQUE"
FOREIGN_KEY == "FOREIGN KEY"

Slot(kind, at) == [kind |-> kind, at |-> at]

Extensions == Slot("extensions", <<>>)
Schemas == Slot("schemas", <<>>)
Enums(s) == Slot("enums", <<s>>)
Domains(s) == Slot("domains", <<s>>)
Routines(s) == Slot("routines", <<s>>)
Views(s) == Slot("views", <<s>>)
Tables(s) == Slot("tables", <<s>>)
Columns(s, t) == Slot("columns", <<s, t>>)
Constraints(s, t) == Slot("constraints", <<s, t>>)
Indexes(s, t) == Slot("indexes", <<s, t>>)
Triggers(s, t) == Slot("triggers", <<s, t>>)
ViewIndexes(s, v) == Slot("view_indexes", <<s, v>>)
ViewTriggers(s, v) == Slot("view_triggers", <<s, v>>)

Kinds ==
  {"extensions", "schemas", "enums", "domains", "routines", "views", "tables", "columns", "constraints",
   "indexes", "triggers", "view_indexes", "view_triggers"}

\* Names are numbers; the constraints of SQLite have none.
NoName == 0

\* args are the identity arguments of a routine, which Postgres tells apart.  What else the
\* code knows of an object is in data.
Object(name, args, type, data) ==
  [name |-> name, args |-> args, type |-> type, data |-> data, ignore |-> FALSE]

EmptyCache ==
  [slices |-> [slot \in {} |-> <<>>], index |-> [id \in {} |-> 0],
   pkeys |-> [path \in {} |-> 0], fkeys |-> [path \in {} |-> {}]]

Slice(c, slot) == IF slot \in DOMAIN c.slices THEN c.slices[slot] ELSE <<>>

\* The slot with the table or the view that a slot is in.
Holder(slot) ==
  IF slot.kind \in {"view_indexes", "view_triggers"} THEN Views(slot.at[1]) ELSE Tables(slot.at[1])

Path(c, slot) ==
  CASE Len(slot.at) = 1 -> <<Slice(c, Schemas)[slot.at[1]].name>>
    [] Len(slot.at) = 2 -> <<Slice(c, Schemas)[slot.at[1]].name, Slice(c, Holder(slot))[slot.at[2]].name>>
    [] OTHER -> <<>>

\* Tables and views share the maps of indexes and triggers.
MapOf(kind) ==
  CASE kind = "view_indexes" -> "indexes"
    [] kind = "view_triggers" -> "triggers"
    [] OTHER -> kind

Id(c, slot, name, args) ==
  [map |-> MapOf(slot.kind), path |-> Path(c, slot), name |-> name, args |-> args]

Position(c, id) == IF id \in DOMAIN c.index THEN c.index[id] ELSE 0

\* What is marked Ignore is not found.
Get(c, slot, name, args) ==
  LET i == Position(c, Id(c, slot, name, args))
  IN IF i # 0 /\ ~Slice(c, slot)[i].ignore THEN i ELSE 0

With(f, x, y) == [z \in DOMAIN f \cup {x} |-> IF z = x THEN y ELSE f[z]]

GetOrNone(f, x, none) == IF x \in DOMAIN f THEN f[x] ELSE none

Appended(c, slot, o) == With(c.slices, slot, Append(Slice(c, slot), o))

Indexed(c, slot, o) ==
  With(c.index, Id(c, slot, o.name, o.args), Len(Slice(c, slot)) + 1)

\* Mutant: the constraints that make the keys of a table are not remembered.
AppendOnly(c, slot, o, named) ==
  [c EXCEPT !.slices = Appended(c, slot, o),
            !.index = IF named THEN Indexed(c, slot, o) ELSE @]

\* The new object is the last one of its slice.  A constraint is remembered as a key of
\* its table, too.
Add(c, slot, o, named) ==
  LET i == Len(Slice(c, slot)) + 1
      path == Path(c, slot)
      is(type) == slot.kind = "constraints" /\ o.type = type
  IN [slices |-> Appended(c, slot, o),
      index |-> IF named THEN Indexed(c, slot, o) ELSE c.index,
      pkeys |-> IF is(PRIMARY_KEY) THEN With(c.pkeys, path, i) ELSE c.pkeys,
      fkeys |-> IF is(FOREIGN_KEY) THEN With(c.fkeys, path, GetOrNone(c.fkeys, path, {}) \cup {i})
                ELSE c.fkeys]

GetOrCreate(c, slot, o) ==
  IF Get(c, slot, o.name, o.args) # 0 THEN c ELSE Add(c, slot, o, TRUE)

\* An object that replaces another one brings slices of its own, empty ones for all the
\* callers there are; the maps still have what was in the slices of the other.
Replace(c, slot, i, o) ==
  LET within(s) == /\ Len(s.at) > Len(slot.at)
                   /\ slot.kind = "schemas" \/ (Len(s.at) = 2 /\ Holder(s) = slot)
                   /\ s.at[Len(slot.at) + 1] = i
  IN [c EXCEPT !.slices = [s \in {r \in DOMAIN @ : ~within(r)} |->
                             IF s = slot THEN [@[s] EXCEPT ![i] = o] ELSE @[s]]]


\* SQLite constraints will have no name.
AddOrUpdate(c, slot, o) ==
  LET i == Get(c, slot, o.name, o.args)
  IN IF i # 0 THEN Replace(c, slot, i, o)
     ELSE Add(c, slot, o, slot.kind # "constraints" \/ o.name # NoName)

GetPrimaryKey(c, s, t) ==
  LET i == GetOrNone(c.pkeys, Path(c, Constraints(s, t)), 0)
  IN IF i # 0 /\ ~Slice(c, Constraints(s, t))[i].ignore THEN i ELSE 0

GetForeignKeys(c, s, t) ==
  {i \in GetOrNone(c.fkeys, Path(c, Constraints(s, t)), {}) : ~Slice(c, Constraints(s, t))[i].ignore}

-----------------------------------------------------------------------------

Latest(S) == CHOOSE x \in S : \A y \in S : y <= x

\* The objects of the catalog, by slot and position.
Places(c) == UNION {{slot} \X DOMAIN c.slices[slot] : slot \in DOMAIN c.slices}

\* Mutant: the constraints of SQLite, which have no name, are in the new cache.
IsInNewCacheUnnamed(c, slot, i) ==
  CASE slot.kind = "view_indexes" -> Slice(c, Views(slot.at[1]))[slot.at[2]].type = "MATERIALIZED"
    [] slot.kind = "view_triggers" -> Slice(c, Views(slot.at[1]))[slot.at[2]].type # "MATERIALIZED"
    [] slot.kind = "extensions" -> FALSE
    [] OTHER -> TRUE

\* Only a materialized view has its indexes in a new cache, and only one that is not has
\* its triggers.  Extensions are names, which nobody looks up.
IsInNewCache(c, slot, i) ==
  CASE slot.kind = "view_indexes" -> Slice(c, Views(slot.at[1]))[slot.at[2]].type = "MATERIALIZED"
    [] slot.kind = "view_triggers" -> Slice(c, Views(slot.at[1]))[slot.at[2]].type # "MATERIALIZED"
    [] slot.kind = "constraints" -> c.slices[slot][i].name # NoName
    [] slot.kind = "extensions" -> FALSE
    [] OTHER -> TRUE

\* The cache that is made for a catalog: of namesakes the last one counts.
NewCatalogCache(c) ==
  LET IdAt(p) == Id(c, p[1], c.slices[p[1]][p[2]].name, c.slices[p[1]][p[2]].args)
      named == {p \in Places(c) : IsInNewCache(c, p[1], p[2])}
      Of(type) == {p \in Places(c) : p[1].kind = "constraints" /\ c.slices[p[1]][p[2]].type = type}
      Paths(P) == {Path(c, p[1]) : p \in P}
      At(P, path) == {p[2] : p \in {q \in P : Path(c, q[1]) = path}}
  IN [slices |-> c.slices,
      index |-> [id \in {IdAt(p) : p \in named} |-> Latest({p[2] : p \in {q \in named : IdAt(q) = id}})],
      pkeys |-> [path \in Paths(Of(PRIMARY_KEY)) |-> Latest(At(Of(PRIMARY_KEY), path))],
      fkeys |-> [path \in Paths(Of(FOREIGN_KEY)) |-> At(Of(FOREIGN_KEY), path)]]
=============================================================================
