----------------------------- MODULE StructParser -----------------------------
(***************************************************************************)
(* StructParser (src/ddl/struct_parser.go): a catalog is made of table     *)
(* structs, one modifier after the other, and validated.  The structs are  *)
(* those that the tables command has written of a database, in whatever    *)
(* order the user has left them, or the user's own.                        *)
(*                                                                         *)
(* The dialect that the structs are read for is that of the database.      *)
(***************************************************************************)
EXTENDS TableStructs

CONSTANTS
  Dialects,   \* of {"sqlite", "postgres", "mysql", "sqlserver"}
  Databases,  \* catalogs of each dialect, as introspected
  Written,    \* sequences of structs by users
  Current     \* CurrentSchema

VARIABLES
  dialect,
  source,     \* the database; EmptyCache for structs of the user
  structs,
  todo,       \* what WriteCatalog has yet to come to: see Items
  p,          \* the StructParser and its catalog
  phase,      \* "tables", "parse", "done"
  again       \* structs have been written of the parsed catalog, too

vars == <<dialect, source, structs, todo, p, phase, again>>

\* here is the table or the column that WriteCatalog is at, as positions in the catalog,
\* and dialects those that its dialect modifier names; explicit are the columns of an
\* explicit type.
Parser(c) ==
  [catalog |-> c, reports |-> {}, explicit |-> {}, panic |-> FALSE, here |-> <<0, 0>>, column |-> NoWord,
   dialects |-> {}]

Report(q, what) == [q EXCEPT !.reports = @ \cup {what}]

Excludes(m) == m.dialects # {} /\ dialect \notin m.dialects

\* The items of a struct: the table, its fields with their modifiers, and its end.
Item(op, struct, field, mod) == [op |-> op, struct |-> struct, field |-> field, mod |-> mod]

NoMod == Modifier("")

Items(ss) ==
  LET OfField(i, j) ==
        LET f == ss[i].fields[j]
            op == IF f.column = NoWord THEN "table modifier" ELSE "column modifier"
        IN <<Item("field", i, j, NoMod)>> \o [k \in DOMAIN f.mods |-> Item(op, i, j, f.mods[k])]
      Of(i) == <<Item("struct", i, 0, NoMod)>> \o FlattenSeq([j \in DOMAIN ss[i].fields |-> OfField(i, j)])
               \o <<Item("end", i, 0, NoMod)>>
  IN FlattenSeq([i \in DOMAIN ss |-> Of(i)])

-----------------------------------------------------------------------------
(* Modifiers of both tables and columns.  columns are those that are meant *)
(* if a modifier has none.                                                 *)

ColumnsOf(m, columns) == IF m.columns = <<>> THEN columns ELSE m.columns

\* The submodifiers that are not for other dialects.
Applicable(m) == SelectSeq(m.subs, LAMBDA s : ~Excludes(s))

Has(m, name) == \E i \in DOMAIN Applicable(m) : Applicable(m)[i].name = name

KnownOnly(q, m, names) ==
  IF \A i \in DOMAIN Applicable(m) : Applicable(m)[i].name \in names THEN q ELSE Report(q, "unknown modifier")

\* The index or the constraint of a generated name, and what its modifier makes of it.
Index_(q, columns) ==
  Index(GenerateName(INDEX, Slice(q.catalog, Tables(q.here[1]))[q.here[2]].name, columns), columns)

Located(c, slot, o) == [catalog |-> c, at |-> Position(c, Id(c, slot, o.name, o.args))]

GetOrCreateAt(c, slot, o) == Located(GetOrCreate(c, slot, o), slot, o)

Name(q, type, columns) ==
  IF dialect = "mysql" /\ type = PRIMARY_KEY THEN <<"PRIMARY">>
  ELSE GenerateName(type, Slice(q.catalog, Tables(q.here[1]))[q.here[2]].name, columns)

KeepsOrder == dialect \in {"postgres", "mysql"}

NeedsColumns(q, columns) == IF columns = <<>> THEN Report(q, "no column provided") ELSE q

IndexedAt(q, g, slot, m) ==
  LET using == {i \in DOMAIN Applicable(m) : Applicable(m)[i].name = "using" /\ KeepsOrder}
  IN [q EXCEPT !.catalog = [g.catalog EXCEPT
        !.slices[slot][g.at].ignore = Excludes(m),
        !.slices[slot][g.at].data.unique = @ \/ Has(m, "unique"),
        !.slices[slot][g.at].data.using = IF using = {} THEN @ ELSE Applicable(m)[Latest(using)].word]]

ParseIndexModifier(q, columns, m) ==
  LET names == ColumnsOf(m, columns)
      slot == Indexes(q.here[1], q.here[2])
      indexed == IndexedAt(q, GetOrCreateAt(q.catalog, slot, Index_(q, names)), slot, m)
  IN KnownOnly(NeedsColumns(indexed, names), m, {"unique", "using"})

\* Constraints are deferred by SQLite and Postgres only.
Deferred(m, deferral) ==
  IF dialect \notin {"sqlite", "postgres"} THEN deferral
  ELSE IF Has(m, "deferred") THEN 2
  ELSE IF Has(m, "deferrable") /\ deferral = 0 THEN 1 ELSE deferral

\* A constraint of that name that is there already is for the dialects of the modifier
\* from now on; its columns remain.
Declared(g, slot, m) ==
  [g EXCEPT !.catalog.slices[slot][g.at].ignore = Excludes(m),
            !.catalog.slices[slot][g.at].data.deferral = Deferred(m, @)]

DeclareConstraint(q, type, columns, m) ==
  LET slot == Constraints(q.here[1], q.here[2])
  IN Declared(GetOrCreateAt(q.catalog, slot, Constraint(Name(q, type, columns), type, columns)), slot, m)

ParsePrimaryKeyUniqueModifier(q, columns, m) ==
  LET names == ColumnsOf(m, columns)
      type == IF m.name = "unique" THEN UNIQUE ELSE PRIMARY_KEY
      r == [q EXCEPT !.catalog = DeclareConstraint(q, type, names, m).catalog]
  IN KnownOnly(NeedsColumns(r, names), m, {"deferrable", "deferred"})

\* Mutant: a path of two parts is a schema and a table.
ReferSchema(data, path, columns) ==
  CASE Len(path) = 1 -> [data EXCEPT !.refTable = path[1], !.refColumns = columns]
    [] Len(path) = 2 -> [data EXCEPT !.refSchema = path[1], !.refTable = path[2], !.refColumns = columns]
    [] Len(path) = 3 -> [data EXCEPT !.refSchema = path[1], !.refTable = path[2], !.refColumns = path[3]]
    [] OTHER -> data

\* A path of two parts is a table and its columns, never a schema and a table.
Refer(data, path, columns) ==
  CASE Len(path) = 1 -> [data EXCEPT !.refTable = path[1], !.refColumns = columns]
    [] Len(path) = 2 -> [data EXCEPT !.refTable = path[1], !.refColumns = path[2]]
    [] Len(path) = 3 -> [data EXCEPT !.refSchema = path[1], !.refTable = path[2], !.refColumns = path[3]]
    [] OTHER -> data

Rules == {"", "cascade", "restrict", "noaction", "setnull", "setdefault"}

\* The rule that the last onupdate or ondelete gives; SQL Server has no RESTRICT.
Rule(m, name, rule) ==
  LET last == Latest({i \in DOMAIN Applicable(m) : Applicable(m)[i].name = name})
      word == Applicable(m)[last].word
  IN IF ~Has(m, name) \/ word \notin Rules THEN rule
     ELSE IF word = "noaction" \/ (word = "restrict" /\ dialect = "sqlserver") THEN "" ELSE word

ParseRules(q, m) ==
  IF \A i \in DOMAIN Applicable(m) : Applicable(m)[i].name \in {"onupdate", "ondelete"} => Applicable(m)[i].word \in Rules
  THEN q ELSE Report(q, "unknown value")

Referring(data, columns, m) ==
  [Refer(data, m.path, columns) EXCEPT !.onupdate = Rule(m, "onupdate", @), !.ondelete = Rule(m, "ondelete", @)]

ReferringAt(q, g, columns, m) ==
  [q EXCEPT !.catalog = [g.catalog EXCEPT
     !.slices[Constraints(q.here[1], q.here[2])][g.at].data = Referring(@, columns, m)]]

\* Of a foreignkey or a references modifier.  One without references is left as it was.
ParseReference(q, columns, m) ==
  LET declared == ReferringAt(q, DeclareConstraint(q, FOREIGN_KEY, columns, m), columns, m)
      WithIndex(s, sub) == IF sub.name = "index" THEN ParseIndexModifier(s, columns, sub) ELSE s
  IN FoldLeft(WithIndex,
              KnownOnly(ParseRules(declared, m), m,
                        {"references", "onupdate", "ondelete", "deferrable", "deferred", "index"}),
              Applicable(m))

\* A path is the submodifier references.  Nothing misses it if there are others.
ParseForeignKeyModifier(q, m) ==
  IF m.columns = <<>> THEN Report(q, "no column(s) provided")
  ELSE IF m.subs = <<>> /\ m.path = <<>> THEN Report(q, "no referenced column(s) provided")
  ELSE ParseReference(q, m.columns, m)

\* No value is a table without a name, which is looked up in the end.
ParseReferencesModifier(q, m) ==
  ParseReference(q, <<q.column>>, IF m.path = <<>> THEN [m EXCEPT !.path = <<NoWord>>] ELSE m)

-----------------------------------------------------------------------------
(* Modifiers of columns only *)

TypeOf(field) ==
  IF field = "ArrayField"
  THEN Each(dialect, <<<<"JSON", "">>, <<"TEXT", "[]">>, <<"JSON", "">>, <<"NVARCHAR", "MAX">>>>)
  ELSE DefaultType(dialect, field, <<"DATETIME", "">>)

HasIdentity == dialect \in {"postgres", "sqlserver"}

Identity(name) == IF dialect = "sqlserver" THEN "identity" ELSE name

\* The data of a column with a modifier that is of nothing else.
Modified(data, m) ==
  CASE m.name = "type" -> [data EXCEPT !.type = m.type]
    [] m.name = "len" -> [data EXCEPT !.type =
         CASE dialect \in {"postgres", "mysql"} -> <<"VARCHAR", m.word>>
           [] dialect = "sqlserver" -> <<"NVARCHAR", m.word>>
           [] OTHER -> @]
    [] m.name = "notnull" -> [data EXCEPT !.notNull = TRUE]
    [] m.name = "default" -> [data EXCEPT !.default = m.word]
    [] m.name = "autoincrement" /\ dialect = "sqlite" ->
         [data EXCEPT !.type = <<"INTEGER", "">>, !.attributes = @ \cup {m.name}]
    [] m.name \in {"auto_increment", "onupdatecurrenttimestamp"} /\ dialect = "mysql" ->
         [data EXCEPT !.attributes = @ \cup {m.name}]
    [] m.name \in {"identity", "alwaysidentity"} /\ HasIdentity ->
         [data EXCEPT !.attributes = (@ \ {"identity", "alwaysidentity"}) \cup {Identity(m.name)}]
    [] m.name \in {"collate", "generated"} -> [data EXCEPT !.attributes = @ \cup {m.name}]
    [] OTHER -> data

OfColumns ==
  {"type", "len", "notnull", "default", "autoincrement", "auto_increment", "onupdatecurrenttimestamp",
   "identity", "alwaysidentity", "collate", "generated"}


\* A dialect modifier stands for the prefix of those after it.
Under(q, m) == IF m.dialects = {} THEN [m EXCEPT !.dialects = q.dialects] ELSE m

ParseColumnModifier(q, m) ==
  LET slot == Columns(q.here[1], q.here[2])
      at == Position(q.catalog, Id(q.catalog, slot, q.column, ""))
      ofOthers == dialect \notin m.named
  IN CASE Excludes(m) -> q
       [] ~Excludes(m) /\ m.name \in OfColumns ->
            [q EXCEPT !.catalog.slices[slot][at].data = Modified(@, m),
                      !.explicit = IF m.name = "type" THEN @ \cup {<<q.here, q.column>>} ELSE @]
       [] ~Excludes(m) /\ m.name = "dialect" ->
            IF m.named = {} THEN Report(q, "dialect value cannot be blank")
            ELSE [q EXCEPT !.catalog.slices[slot][at].ignore = ofOthers, !.dialects = m.named]
       [] ~Excludes(m) /\ m.name = "index" -> ParseIndexModifier(q, <<q.column>>, m)
       [] ~Excludes(m) /\ m.name \in {"primarykey", "unique"} ->
            ParsePrimaryKeyUniqueModifier(q, <<q.column>>, m)
       [] ~Excludes(m) /\ m.name = "foreignkey" -> ParseForeignKeyModifier(q, m)
       [] ~Excludes(m) /\ m.name = "references" -> ParseReferencesModifier(q, m)
       [] OTHER -> Report(q, "unknown modifier")

\* Those of a table are not passed over for other dialects: what they declare is there,
\* but is ignored.
ParseTableModifier(q, m) ==
  LET tables == Tables(q.here[1])
      ofOthers == dialect \notin m.named
  IN CASE m.name = "dialect" ->
            IF m.named = {} THEN Report(q, "dialect value cannot be blank")
            ELSE [q EXCEPT !.catalog.slices[tables][q.here[2]].ignore = ofOthers, !.dialects = m.named]
       [] m.name = "index" -> ParseIndexModifier(q, <<>>, m)
       [] m.name \in {"primarykey", "unique"} -> ParsePrimaryKeyUniqueModifier(q, <<>>, m)
       [] m.name = "foreignkey" -> ParseForeignKeyModifier(q, m)
       [] m.name = "virtual" -> q
       [] OTHER -> Report(q, "unknown modifier")

-----------------------------------------------------------------------------
(* The table of a struct, a column, and the end of a struct *)

OpenAt(q, g) == [q EXCEPT !.catalog = g.catalog, !.here = <<@[1], g.at>>]

OpenTable(q, table) ==
  OpenAt(q, GetOrCreateAt(q.catalog, Tables(q.here[1]), Object(table, "", "TABLE", <<>>)))

OpenSchema(q, schema) ==
  LET g == GetOrCreateAt(q.catalog, Schemas, Object(schema, "", "SCHEMA", <<>>))
  IN [q EXCEPT !.catalog = g.catalog, !.here = <<g.at, 0>>]

OpenStruct(q, struct) ==
  OpenTable(OpenSchema(q, IF struct.schema = NoWord THEN Current ELSE struct.schema), struct.table)

OpenField(q, field) ==
  LET slot == Columns(q.here[1], q.here[2])
      x == Column(field.column, TypeOf(field.type), FALSE, "", {})
  IN [q EXCEPT !.dialects = {}, !.column = field.column,
               !.catalog = IF field.column = NoWord THEN @ ELSE GetOrCreate(@, slot, x)]

Types == {PRIMARY_KEY, UNIQUE, FOREIGN_KEY}

\* Mutant: the columns of indexes are not looked up.
HasColumnsOfKeys(c, columns, o) ==
  o.type = INDEX \/ \A i \in DOMAIN o.data.columns : Get(c, columns, o.data.columns[i], "") # 0

HasColumns(c, columns, o) == \A i \in DOMAIN o.data.columns : Get(c, columns, o.data.columns[i], "") # 0

\* Columns get to know the constraints that are of them alone, a foreign key by the first
\* column that it refers to; an INT that is the primary key of SQLite becomes its rowid,
\* which is the only primary key that is not made NOT NULL.
CloseStruct(q) ==
  LET c == q.catalog
      columns == Columns(q.here[1], q.here[2])
      keys == Slice(c, Constraints(q.here[1], q.here[2]))
      indexes == Slice(c, Indexes(q.here[1], q.here[2]))
      valid == {i \in DOMAIN keys : ~keys[i].ignore /\ HasColumns(c, columns, keys[i])}
      single == {i \in valid : Len(keys[i].data.columns) = 1 /\ keys[i].type \in Types}
      missing == \/ \E i \in DOMAIN keys \ valid : ~keys[i].ignore
                 \/ \E i \in DOMAIN indexes : ~indexes[i].ignore /\ ~HasColumns(c, columns, indexes[i])
      MarksOf(j) == {keys[i].type : i \in {k \in single : Get(c, columns, keys[k].data.columns[1], "") = j}}
      pkey == GetPrimaryKey(c, q.here[1], q.here[2])
      ofKey == IF pkey = 0 THEN {} ELSE {keys[pkey].data.columns[i] : i \in DOMAIN keys[pkey].data.columns}
      Closed(x, j) ==
        LET isRowid == dialect = "sqlite" /\ PRIMARY_KEY \in MarksOf(j)
            type == IF isRowid /\ x.data.type = <<"INT", "">> /\ <<q.here, x.name>> \notin q.explicit
                    THEN <<"INTEGER", "">> ELSE x.data.type
            isKey == x.name \in ofKey /\ j = Get(c, columns, x.name, "")
        IN [x EXCEPT !.data.marks = @ \cup MarksOf(j), !.data.type = type,
                     !.data.notNull = @ \/ (isKey /\ ~(isRowid /\ type = <<"INTEGER", "">>))]
      r == [q EXCEPT
              !.panic = @ \/ \E i \in single : keys[i].type = FOREIGN_KEY /\ keys[i].data.refColumns = <<>>,
              !.catalog.slices = [slot \in DOMAIN @ |->
                IF slot = columns THEN [j \in DOMAIN @[slot] |-> Closed(@[slot][j], j)] ELSE @[slot]]]
  IN IF missing THEN Report(r, "does not exist in the table") ELSE r

\* Whether the column that a foreign key refers to is there.
Exists(c, data, column) ==
  LET s == Get(c, Schemas, IF data.refSchema = NoWord THEN Current ELSE data.refSchema, "")
      t == IF s = 0 THEN 0 ELSE Get(c, Tables(s), data.refTable, "")
  IN t # 0 /\ Get(c, Columns(s, t), column, "") # 0

\* Without a column to look for, the schema and the table are looked up.
HasReferences(c, data) ==
  LET s == Get(c, Schemas, IF data.refSchema = NoWord THEN Current ELSE data.refSchema, "")
  IN /\ s # 0 /\ Get(c, Tables(s), data.refTable, "") # 0
     /\ \A i \in DOMAIN data.refColumns : Exists(c, data, data.refColumns[i])

ValidateForeignKeys(q) ==
  LET dangling == \E pl \in Places(q.catalog) :
        LET o == q.catalog.slices[pl[1]][pl[2]]
        IN o.type = FOREIGN_KEY /\ ~o.ignore /\ ~HasReferences(q.catalog, o.data)
  IN IF dangling THEN Report(q, "does not exist") ELSE q

FieldAt(ss, item) == ss[item.struct].fields[item.field]

-----------------------------------------------------------------------------

Init ==
  /\ dialect \in Dialects /\ p = Parser(EmptyCache) /\ again = FALSE
  /\ \/ source \in Databases[dialect] /\ structs = <<>> /\ todo = <<>> /\ phase = "tables"
     \/ source = EmptyCache /\ structs \in Written /\ todo = Items(structs) /\ phase = "parse"

Named(ss, qualified) == [i \in DOMAIN ss |-> IF qualified THEN Qualified(ss[i], Current) ELSE ss[i]]

Ordered(ss) == {[i \in DOMAIN order |-> ss[order[i]]] : order \in SetToSeqs(DOMAIN ss)}

\* The tables command, and an editor's order of the structs.
WriteTables ==
  /\ phase = "tables"
  /\ \E qualified \in BOOLEAN : structs' \in Ordered(Named(ReadCatalog(source, dialect, Current), qualified))
  /\ todo' = Items(structs') /\ phase' = "parse" /\ p' = Parser(EmptyCache)
  /\ UNCHANGED <<dialect, source, again>>

Parse(op) ==
  /\ phase = "parse" /\ todo # <<>> /\ Head(todo).op = op /\ ~p.panic
  /\ todo' = Tail(todo)
  /\ UNCHANGED <<dialect, source, structs, phase, again>>

Struct == Parse("struct") /\ p' = OpenStruct(p, structs[Head(todo).struct])
Field == Parse("field") /\ p' = OpenField(p, FieldAt(structs, Head(todo)))
TableModifier == Parse("table modifier") /\ p' = ParseTableModifier(p, Under(p, Head(todo).mod))
ColumnModifier == Parse("column modifier") /\ p' = ParseColumnModifier(p, Under(p, Head(todo).mod))
EndOfStruct == Parse("end") /\ p' = CloseStruct(p)

Validate ==
  /\ phase = "parse" /\ todo = <<>> /\ ~p.panic
  /\ p' = ValidateForeignKeys(p) /\ phase' = "done"
  /\ UNCHANGED <<dialect, source, structs, todo, again>>

IsAccepted == phase = "done" /\ p.reports = {}

\* In every dialect the introspection reports a column NOT NULL that is the primary key.
AsIntrospected(c) ==
  LET Reported(x) == [x EXCEPT !.data.notNull = @ \/ PRIMARY_KEY \in x.data.marks]
  IN [c EXCEPT !.slices = [slot \in DOMAIN @ |->
       IF slot.kind = "columns" THEN [j \in DOMAIN @[slot] |-> Reported(@[slot][j])] ELSE @[slot]]]

\* Two primary keys of one table are accepted, but not by a database.
HasTwoPrimaryKeys(c) ==
  \E slot \in DOMAIN c.slices : \E i, j \in DOMAIN c.slices[slot] :
    i # j /\ c.slices[slot][i].type = PRIMARY_KEY /\ c.slices[slot][j].type = PRIMARY_KEY

\* A database is made of what has been declared for it alone, and written again.
Deploy ==
  /\ IsAccepted /\ ~again
  /\ \A pl \in Places(p.catalog) : ~p.catalog.slices[pl[1]][pl[2]].ignore
  /\ ~HasTwoPrimaryKeys(p.catalog)
  /\ source' = AsIntrospected(p.catalog) /\ again' = TRUE /\ phase' = "tables"
  /\ UNCHANGED <<dialect, structs, todo, p>>

Next ==
  WriteTables \/ Struct \/ Field \/ TableModifier \/ ColumnModifier \/ EndOfStruct \/ Validate \/ Deploy

Spec == Init /\ [][Next]_vars

-----------------------------------------------------------------------------
(* Properties *)

\* What a catalog says, but for the names of keys and indexes, which modifiers do not
\* have, and for what is ignored.
Content(c) ==
  LET IsThere(pl) == /\ ~c.slices[pl[1]][pl[2]].ignore
                     /\ Len(pl[1].at) = 2 => ~Slice(c, Tables(pl[1].at[1]))[pl[1].at[2]].ignore
      Of(kind) == {pl \in Places(c) : pl[1].kind = kind /\ IsThere(pl)}
      At(pl) == c.slices[pl[1]][pl[2]]
  IN [tables |-> {<<Path(c, pl[1]), At(pl).name>> : pl \in Of("tables")},
      columns |-> {<<Path(c, pl[1]), At(pl).name, At(pl).data>> : pl \in Of("columns")},
      keys |-> {<<Path(c, pl[1]), At(pl).type,
                  [At(pl).data EXCEPT !.refSchema = IF @ = NoWord /\ At(pl).type = FOREIGN_KEY THEN Current ELSE @]>> :
                  pl \in Of("constraints")},
      indexes |-> {<<Path(c, pl[1]), At(pl).data>> : pl \in {x \in Of("indexes") : At(x).data.simple}}]

\* The constraints and indexes that have different things to say have different generated
\* names.
HasDistinctNames(c) ==
  \A x, y \in {pl \in Places(c) : pl[1].kind \in {"constraints", "indexes"}} :
    LET v == c.slices[x[1]][x[2]]
        w == c.slices[y[1]][y[2]]
    IN /\ x[1] = y[1] /\ v.type = w.type
       /\ GenerateName(v.type, <<>>, v.data.columns) = GenerateName(w.type, <<>>, w.data.columns)
       => v.data = w.data

\* A foreign key to columns of the same names in another schema.
RefersAcross(c) ==
  \E pl \in Places(c) :
    LET o == c.slices[pl[1]][pl[2]]
    IN /\ o.type = FOREIGN_KEY /\ o.data.refSchema \notin {NoWord, Current}
       /\ o.data.refColumns = o.data.columns

\* What becomes of a schema that is written and read.  The tables command leaves TIMESTAMP
\* out as the default of its field, for which the parser of SQLite and MySQL puts DATETIME,
\* and INT, which is INTEGER to the parser if the column is the primary key of SQLite; the
\* columns of SQLite's other primary keys, which may be NULL, are NOT NULL to the parser.
AsRead(c) ==
  LET Key(slot, x) ==
        {k \in Range(Slice(c, Constraints(slot.at[1], slot.at[2]))) :
           k.type = PRIMARY_KEY /\ x.name \in Range(k.data.columns)}
      Type(x) ==
        CASE x.data.type = <<"TIMESTAMP", "">> /\ dialect \in {"sqlite", "mysql"} -> <<"DATETIME", "">>
          [] x.data.type = <<"INT", "">> /\ dialect = "sqlite" /\ PRIMARY_KEY \in x.data.marks -> <<"INTEGER", "">>
          [] OTHER -> x.data.type
      Read(slot, x) ==
        [x EXCEPT !.data.type = Type(x), !.data.notNull = @ \/ (dialect = "sqlite" /\ Key(slot, x) # {})]
  IN [c EXCEPT !.slices = [slot \in DOMAIN @ |->
       IF slot.kind = "columns" THEN [j \in DOMAIN @[slot] |-> Read(slot, @[slot][j])] ELSE @[slot]]]

IsReadAs(c) == p.reports = {} /\ ~p.panic /\ Content(p.catalog) = Content(c)

\* What the tables command writes of a database is read back as the same schema, for each
\* dialect, in any order of the structs and whether or not they are qualified: no key or
\* index lost, split or given to another column, no foreign key to another table, and no
\* column of another type or another NOT NULL, but for the differences that AsRead names.  Else the next generate would change a database that nobody has wanted to change.
ReadBack ==
  phase = "done" /\ source # EmptyCache /\ HasDistinctNames(source) /\ ~RefersAcross(source)
    => IsReadAs(AsRead(source))

\* Without these differences, and with foreign keys to other schemas, as sqddl.md has it.
AllReadBack == phase = "done" /\ source # EmptyCache => IsReadAs(source)

\* A primary key is remembered as that of its table until another one is declared, even if
\* that is for other dialects.
IsRemembered(pl) ==
  p.catalog.pkeys[Path(p.catalog, pl[1])] = pl[2]

\* What WriteCatalog does not complain about is well-formed: keys and indexes are of
\* columns that are there, foreign keys refer to tables and columns that are there, even
\* if those are for some dialects only, no matter which of the structs, fields and
\* modifiers comes first; and a column of the primary key is NOT NULL or the rowid, unless
\* a primary key on other columns is declared after it, for whatever dialect.
Sound ==
  IsAccepted =>
    \A pl \in Places(p.catalog) :
      LET o == p.catalog.slices[pl[1]][pl[2]]
          columns == Columns(pl[1].at[1], pl[1].at[2])
          PartOfKey(i) == p.catalog.slices[columns][Get(p.catalog, columns, o.data.columns[i], "")].data
      IN /\ pl[1].kind \in {"constraints", "indexes"} /\ ~o.ignore =>
              \A i \in DOMAIN o.data.columns : Get(p.catalog, columns, o.data.columns[i], "") # 0
         /\ o.type = FOREIGN_KEY /\ ~o.ignore => HasReferences(p.catalog, o.data)
         /\ o.type = PRIMARY_KEY /\ ~o.ignore /\ IsRemembered(pl) =>
              \A i \in DOMAIN o.data.columns :
                PartOfKey(i).notNull \/ (dialect = "sqlite" /\ PartOfKey(i).type = <<"INTEGER", "">>)

\* The structs without what is for other dialects.
Own(ss) ==
  LET Prefix(f, k) ==
        LET before == {i \in 1 .. (k - 1) : f.mods[i].name = "dialect"}
        IN IF f.mods[k].dialects # {} THEN f.mods[k].dialects
           ELSE IF before = {} THEN {} ELSE f.mods[Latest(before)].named
      Mods(f) == LET own == SelectSeq([k \in DOMAIN f.mods |-> k],
                                      LAMBDA k : Prefix(f, k) = {} \/ dialect \in Prefix(f, k))
                 IN [k \in DOMAIN own |-> f.mods[own[k]]]
  IN [i \in DOMAIN ss |-> [ss[i] EXCEPT !.fields =
        [j \in DOMAIN @ |-> [@[j] EXCEPT !.mods = Mods(ss[i].fields[j])]]]]

Parsed(q, ss, item) ==
  CASE item.op = "struct" -> OpenStruct(q, ss[item.struct])
    [] item.op = "field" -> OpenField(q, FieldAt(ss, item))
    [] item.op = "table modifier" -> ParseTableModifier(q, Under(q, item.mod))
    [] item.op = "column modifier" -> ParseColumnModifier(q, Under(q, item.mod))
    [] item.op = "end" -> CloseStruct(q)

ParsedAlone(ss) ==
  FoldLeft(LAMBDA q, item : Parsed(q, ss, item), Parser(EmptyCache), Items(ss)).catalog

\* A key or an index is ignored, though it has been declared for the dialect: by a table
\* modifier that is for others and names it again.
IsOverruled(alone) ==
  \E pl \in Places(p.catalog) :
    LET o == p.catalog.slices[pl[1]][pl[2]]
    IN /\ pl[1].kind \in {"constraints", "indexes"} /\ o.ignore
       /\ \E x \in Places(alone) : x[1] = pl[1] /\ alone.slices[x[1]][x[2]].name = o.name

\* A primary key of the dialect is forgotten for one that is for others, and whether its
\* columns are NOT NULL is left to their own modifiers.
IsForgotten ==
  \E pl \in Places(p.catalog) :
    LET o == p.catalog.slices[pl[1]][pl[2]]
    IN o.type = PRIMARY_KEY /\ o.ignore /\ IsRemembered(pl)

\* The catalog with all its columns NOT NULL.
AllNotNull(c) ==
  [c EXCEPT !.slices = [slot \in DOMAIN @ |->
    IF slot.kind = "columns" THEN [j \in DOMAIN @[slot] |-> [@[slot][j] EXCEPT !.data.notNull = TRUE]]
    ELSE @[slot]]]

MakeNoDifference(alone) ==
  \/ Content(p.catalog) = Content(alone)
  \/ IsForgotten /\ Content(AllNotNull(p.catalog)) = Content(AllNotNull(alone))
  \/ IsOverruled(alone)


\* A modifier "is only applicable for those dialects", as sqddl.md has it.
OnlyForItsDialects ==
  phase = "done" /\ source = EmptyCache => Content(p.catalog) = Content(ParsedAlone(Own(structs)))
=============================================================================
