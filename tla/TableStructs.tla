----------------------------- MODULE TableStructs -----------------------------
(***************************************************************************)
(* Table structs, the Go structs in which a user declares tables, and what *)
(* the tables command writes of a database (src/ddl/table_structs.go,      *)
(* src/ddl/tables_cmd.go, src/ddl/modifier.go).                            *)
(*                                                                         *)
(* A name is the sequence of its words, which are joined by _.  The        *)
(* catalog is the one of CatalogCache.  Its columns have a type as         *)
(* normalizeColumnType spells it, <<name, argument>>, and attributes of no *)
(* further consequence (an identity, a collation) as a set of modifiers'   *)
(* names.  A struct is [schema, table, fields]; a field is [column, type,  *)
(* mods], without a column if it is of the table.                          *)
(***************************************************************************)
EXTENDS CatalogCache, SequencesExt

INDEX == "INDEX"

NoWord == <<>>

Suffix(type) ==
  CASE type = PRIMARY_KEY -> "pkey"
    [] type = FOREIGN_KEY -> "fkey"
    [] type = UNIQUE -> "key"
    [] type = INDEX -> "idx"

\* 63 characters in Postgres: what exceeds them is cut off before the suffix.
MaxWords == 5

GenerateName(type, table, columns) ==
  LET prefix == table \o FlattenSeq(columns)
  IN SubSeq(prefix, 1, IF Len(prefix) >= MaxWords THEN MaxWords - 1 ELSE Len(prefix))
       \o <<Suffix(type)>>

-----------------------------------------------------------------------------
(* Objects *)

\* marks are the types of the constraints that are of the column alone.
Column(name, type, notNull, default, attributes) ==
  Object(name, "", "COLUMN",
         [type |-> type, notNull |-> notNull, default |-> default, attributes |-> attributes, marks |-> {}])

\* A refSchema or a rule of NO ACTION is not given.  deferral is 1 for DEFERRABLE, 2 for
\* INITIALLY DEFERRED.
Constraint(name, type, columns) ==
  Object(name, "", type,
         [columns |-> columns, refSchema |-> NoWord, refTable |-> NoWord, refColumns |-> <<>>,
          onupdate |-> "", ondelete |-> "", deferral |-> 0])

\* Indexes with a predicate, an order, included columns or expressions are not simple.
Index(name, columns) ==
  Object(name, "", INDEX, [columns |-> columns, unique |-> FALSE, using |-> "", simple |-> TRUE])

\* What a modifier says is a list of columns, a path <<table>>, <<table, columns>> or
\* <<schema, table, columns>>, a type, a list of dialects or else one word.  dialects, its
\* prefix, is empty if the modifier is for all of them.  Its text says the same: a dot
\* stands for a value that is missing where there are submodifiers.
Modifier(name) ==
  [name |-> name, dialects |-> {}, columns |-> <<>>, path |-> <<>>, type |-> <<>>, named |-> {}, word |-> "",
   subs |-> <<>>]

Word(name, word) == [Modifier(name) EXCEPT !.word = word]

If(condition, mod) == IF condition THEN <<mod>> ELSE <<>>

-----------------------------------------------------------------------------
(* Types and fields *)

\* The arrays of Postgres have their brackets in the argument here.  The enums are any
\* type: a type that is written counts, not the field.
FieldType(type) ==
  LET special == [t \in {<<"TINYINT", "1">>, <<"BINARY", "16">>} |->
                    IF t[1] = "TINYINT" THEN "BooleanField" ELSE "UUIDField"]
  IN IF type[2] = "[]" THEN "ArrayField"
     ELSE IF type \in DOMAIN special THEN special[type]
     ELSE CASE type[1] \in {"BYTEA", "BINARY", "VARBINARY", "TINYBLOB", "BLOB", "MEDIUMBLOB", "LONGBLOB",
                            "VARBIT"} -> "BinaryField"
            [] type[1] \in {"BOOLEAN", "BIT"} -> "BooleanField"
            [] type[1] \in {"JSON", "JSONB"} -> "JSONField"
            [] type[1] \in {"TINYINT", "SMALLINT", "MEDIUMINT", "INT", "INTEGER", "BIGINT", "NUMERIC", "FLOAT",
                            "REAL", "DOUBLE PRECISION"} -> "NumberField"
            [] type[1] \in {"TINYTEXT", "TEXT", "MEDIUMTEXT", "LONGTEXT", "CHAR", "VARCHAR", "NVARCHAR"} ->
                 "StringField"
            [] type[1] \in {"DATE", "TIME", "TIMETZ", "DATETIME", "DATETIME2", "SMALLDATETIME",
                            "DATETIMEOFFSET", "TIMESTAMP", "TIMESTAMPTZ"} -> "TimeField"
            [] type[1] \in {"UUID", "UNIQUEIDENTIFIER"} -> "UUIDField"
            [] OTHER -> "AnyField"

NoType == <<"", "">>

\* What a dialect has for a field, of <<sqlite, postgres, mysql, sqlserver>>.
Each(dialect, types) ==
  types[CASE dialect = "sqlite" -> 1 [] dialect = "postgres" -> 2 [] dialect = "mysql" -> 3
          [] dialect = "sqlserver" -> 4]

\* A type that ReadCatalog leaves out, and that WriteCatalog puts in, but for times.
DefaultType(dialect, field, time) ==
  LET text == <<"TEXT", "">>
      nvarchar == <<"NVARCHAR", "255">>
      json == <<"JSON", "">>
      boolean == <<"BOOLEAN", "">>
      uuid == <<"UUID", "">>
  IN CASE field = "BinaryField" ->
            Each(dialect, <<<<"BLOB", "">>, <<"BYTEA", "">>, <<"MEDIUMBLOB", "">>, <<"VARBINARY", "MAX">>>>)
       [] field = "BooleanField" -> Each(dialect, <<boolean, boolean, boolean, <<"BIT", "">>>>)
       [] field = "JSONField" -> Each(dialect, <<json, <<"JSONB", "">>, json, <<"NVARCHAR", "MAX">>>>)
       [] field = "NumberField" -> <<"INT", "">>
       [] field \in {"StringField", "EnumField"} -> Each(dialect, <<text, text, <<"VARCHAR", "255">>, nvarchar>>)
       [] field = "TimeField" -> Each(dialect, <<time, <<"TIMESTAMPTZ", "">>, time, <<"DATETIMEOFFSET", "">>>>)
       [] field = "UUIDField" -> Each(dialect, <<uuid, uuid, <<"BINARY", "16">>, <<"BINARY", "16">>>>)
       [] OTHER -> NoType

-----------------------------------------------------------------------------
(* ReadCatalog: the structs of the tables of a catalog                     *)

\* Of namesakes, or of constraints on the same columns, the last one counts.
IsLast(slice, i) ==
  \A j \in DOMAIN slice : (slice[j].type = slice[i].type /\ slice[j].data.columns = slice[i].data.columns) => j <= i

Deferral(data) ==
  CASE data.deferral = 2 -> <<Modifier("deferred")>>
    [] data.deferral = 1 -> <<Modifier("deferrable")>>
    [] OTHER -> <<>>

IndexModifier(data) ==
  [Modifier("index") EXCEPT
     !.columns = data.columns,
     !.subs = If(data.unique, Modifier("unique")) \o If(data.using # "", Word("using", data.using))]

\* The schema is written if it is another one, the columns if they have other names.
ReferencesPath(data, current) ==
  (IF data.refSchema \notin {NoWord, current} THEN <<data.refSchema>> ELSE <<>>) \o <<data.refTable>> \o
  (IF data.columns # data.refColumns THEN <<data.refColumns>> ELSE <<>>)

\* The modifiers of the simple indexes on the columns of a foreign key are among its own,
\* for the last foreign key on them.
IndexesOfKey(keys, i, indexes) ==
  LET of == SelectSeq(indexes, LAMBDA x : x.data.simple /\ x.data.columns = keys[i].data.columns)
  IN IF keys[i].type = FOREIGN_KEY /\ IsLast(keys, i)
     THEN [j \in DOMAIN of |-> [IndexModifier(of[j].data) EXCEPT !.columns = <<>>]]
     ELSE <<>>

ConstraintModifier(keys, i, indexes, current) ==
  LET data == keys[i].data
      rules == If(data.onupdate # "", Word("onupdate", data.onupdate)) \o
               If(data.ondelete # "", Word("ondelete", data.ondelete))
      name == CASE keys[i].type = PRIMARY_KEY -> "primarykey"
                [] keys[i].type = UNIQUE -> "unique"
                [] keys[i].type = FOREIGN_KEY -> "foreignkey"
  IN [Modifier(name) EXCEPT
        !.columns = data.columns,
        !.path = IF keys[i].type = FOREIGN_KEY THEN ReferencesPath(data, current) ELSE <<>>,
        !.subs = (IF keys[i].type = FOREIGN_KEY THEN rules ELSE <<>>) \o Deferral(data)
                 \o IndexesOfKey(keys, i, indexes)]

\* The modifiers of the last primary key, unique constraint or foreign key of a column.
OfColumn(keys, type, column, indexes, current) ==
  LET is == {i \in DOMAIN keys : /\ keys[i].type = type /\ keys[i].data.columns = <<column>>
                                 /\ IsLast(keys, i)}
      mod(i) == [ConstraintModifier(keys, i, indexes, current) EXCEPT !.columns = <<>>]
  IN IF is = {} THEN <<>>
     ELSE LET m == mod(CHOOSE i \in is : TRUE)
          IN <<IF type = FOREIGN_KEY THEN [m EXCEPT !.name = "references"] ELSE m>>

\* An index that has not gone with a foreign key.
IsOwnIndex(keys, indexes, i) ==
  /\ indexes[i].data.simple
  /\ ~\E k \in DOMAIN keys : keys[k].type = FOREIGN_KEY /\ keys[k].data.columns = indexes[i].data.columns

IsIndexOfColumn(keys, indexes, i, column) ==
  /\ IsOwnIndex(keys, indexes, i) /\ indexes[i].data.columns = <<column>>
  /\ \A j \in DOMAIN indexes : indexes[j].data.simple /\ indexes[j].data.columns = <<column>> => j <= i

ColumnField(dialect, current, x, keys, indexes) ==
  LET field == FieldType(x.data.type)
      pkey == OfColumn(keys, PRIMARY_KEY, x.name, indexes, current)
      isRowid == dialect = "sqlite" /\ pkey # <<>> /\ x.data.type = <<"INTEGER", "">>
      writesType == x.data.type \notin {NoType, DefaultType(dialect, field, <<"TIMESTAMP", "">>)} /\ ~isRowid
      own == SelectSeq([i \in DOMAIN indexes |-> i], LAMBDA i : IsIndexOfColumn(keys, indexes, i, x.name))
  IN [column |-> x.name, type |-> field,
      mods |->
        If(writesType, [Modifier("type") EXCEPT !.type = x.data.type]) \o
        If(x.data.notNull, Modifier("notnull")) \o
        pkey \o OfColumn(keys, UNIQUE, x.name, indexes, current) \o
        OfColumn(keys, FOREIGN_KEY, x.name, indexes, current) \o
        SetToSeq({Modifier(a) : a \in x.data.attributes}) \o
        If(x.data.default # "", Word("default", x.data.default)) \o
        [j \in DOMAIN own |-> [IndexModifier(indexes[own[j]].data) EXCEPT !.columns = <<>>]]]

OfTable(mods) == [column |-> NoWord, type |-> "struct{}", mods |-> mods]

TableStruct(dialect, current, schema, table, columns, keys, indexes) ==
  LET name(j) == columns[j].name
      IsAdded(i) == Len(keys[i].data.columns) = 1 /\ IsLast(keys, i)
      mod(i) == ConstraintModifier(keys, i, indexes, current)
      pkeys == SelectSeq([i \in DOMAIN keys |-> i], LAMBDA i : keys[i].type = PRIMARY_KEY /\ ~IsAdded(i))
      others == SelectSeq([i \in DOMAIN keys |-> i], LAMBDA i : keys[i].type # PRIMARY_KEY /\ ~IsAdded(i))
      own == SelectSeq([i \in DOMAIN indexes |-> i],
                       LAMBDA i : /\ IsOwnIndex(keys, indexes, i)
                                  /\ ~\E j \in DOMAIN columns : IsIndexOfColumn(keys, indexes, i, name(j)))
  IN [schema |-> IF schema = current THEN NoWord ELSE schema, table |-> table,
      fields |->
        <<OfTable([i \in DOMAIN pkeys |-> mod(pkeys[i])])>> \o
        [j \in DOMAIN columns |-> ColumnField(dialect, current, columns[j], keys, indexes)] \o
        [i \in DOMAIN others |-> OfTable(<<mod(others[i])>>)] \o
        [i \in DOMAIN own |-> OfTable(<<IndexModifier(indexes[own[i]].data)>>)]]

\* -schema-qualified-structs writes the current schema, too.
Qualified(struct, current) == [struct EXCEPT !.schema = IF @ = NoWord THEN current ELSE @]

\* MarshalText leaves out the tables that have no columns.
ReadCatalog(c, dialect, current) ==
  LET schemas == Slice(c, Schemas)
      Of(s) == [t \in DOMAIN Slice(c, Tables(s)) |->
                  TableStruct(dialect, current, schemas[s].name, Slice(c, Tables(s))[t].name,
                              Slice(c, Columns(s, t)), Slice(c, Constraints(s, t)), Slice(c, Indexes(s, t)))]
      HasColumn(struct) == \E i \in DOMAIN struct.fields : struct.fields[i].column # NoWord
  IN SelectSeq(FlattenSeq([s \in DOMAIN schemas |-> Of(s)]), HasColumn)
=============================================================================
