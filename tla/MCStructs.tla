------------------------------- MODULE MCStructs -------------------------------
(* Instances of StructParser for TLC. *)
EXTENDS StructParser

t == <<"t">>
u == <<"u">>
a == <<"a">>
b == <<"b">>
main == <<"main">>
other == <<"other">>

\* The types of two columns of a table.
TypesOf ==
  [sqlite |-> {<<<<"INTEGER", "">>, <<"TEXT", "">>>>, <<<<"TIMESTAMP", "">>, <<"DATETIME", "">>>>,
              <<<<"INT", "">>, <<"TEXT", "">>>>},
   postgres |-> {<<<<"INT", "">>, <<"TIMESTAMP", "">>>>, <<<<"TEXT", "">>, <<"INT", "[]">>>>,
                 <<<<"UUID", "">>, <<"TIMESTAMPTZ", "">>>>},
   mysql |-> {<<<<"BIGINT", "">>, <<"TINYINT", "1">>>>, <<<<"BINARY", "16">>, <<"TIMESTAMP", "">>>>,
              <<<<"DATETIME", "">>, <<"VARCHAR", "255">>>>},
   sqlserver |-> {<<<<"INT", "">>, <<"NVARCHAR", "MAX">>>>, <<<<"UNIQUEIDENTIFIER", "">>, <<"BIT", "">>>>}]

AutoOf == [sqlite |-> "autoincrement", postgres |-> "alwaysidentity", mysql |-> "auto_increment", sqlserver |-> "identity"]

Integers_ == {<<"INTEGER", "">>, <<"INT", "">>, <<"BIGINT", "">>}

\* Marks and NOT NULLs as introspected: the loop at the end of WriteCatalog sees to a column
\* that is the primary key, which counts up here, and every database but SQLite to the
\* columns of other primary keys.
Finished(d, columns, keys) ==
  LET Alone(x) == {k.type : k \in {l \in keys : l.data.columns = <<x.name>>}}
      isKey(x) == \/ PRIMARY_KEY \in Alone(x)
                  \/ d # "sqlite" /\ \E k \in keys : k.type = PRIMARY_KEY /\ x.name \in Range(k.data.columns)
      counts(x) == /\ PRIMARY_KEY \in Alone(x) /\ x.data.type \in Integers_
                   /\ d = "sqlite" => x.data.type = <<"INTEGER", "">>
  IN {[x EXCEPT !.data.notNull = @ \/ isKey(x), !.data.marks = Alone(x),
                !.data.attributes = IF counts(x) THEN {AutoOf[d]} ELSE @] : x \in columns}

Filled(c, slot, objects) == FoldLeft(LAMBDA d, o : Add(d, slot, o, TRUE), c, SetToSeq(objects))

\* A table with the columns and the keys that it has been given.
Table(d, s, name, c, columns, keys, indexes) ==
  LET e == GetOrCreate(c, Schemas, Object(s, "", "SCHEMA", <<>>))
      i == Get(e, Schemas, s, "")
      f == GetOrCreate(e, Tables(i), Object(name, "", "TABLE", <<>>))
      j == Get(f, Tables(i), name, "")
  IN Filled(Filled(Filled(f, Columns(i, j), Finished(d, columns, keys)), Constraints(i, j), keys),
            Indexes(i, j), indexes)

Key(n, type, columns) == Constraint(<<n>>, type, columns)

ForeignKey(n, columns, table, refs) ==
  [Constraint(<<n>>, FOREIGN_KEY, columns) EXCEPT !.data.refTable = table, !.data.refColumns = refs]

\* Columns of t are a and b; u has those, too, of the same types.
OfTypes(d, types) ==
  {Column(a, types[1], FALSE, "", {}), Column(b, types[2], FALSE, "1", {})}

Pair(d, types, keys, indexes) ==
  LET tied == {Key("k1", PRIMARY_KEY, <<a, b>>)}
      c == Table(d, main, u, EmptyCache, OfTypes(d, types), tied, {})
  IN Table(d, main, t, c, OfTypes(d, types), keys, indexes)

Deferrable(d) == IF d \in {"sqlite", "postgres"} THEN 2 ELSE 0

KeySets(d) ==
  {(pk \cup un \cup fk) :
     pk \in {{}, {Key("k1", PRIMARY_KEY, <<a>>)}, {Key("k1", PRIMARY_KEY, <<a, b>>)}},
     un \in SUBSET {Key("k2", UNIQUE, <<b>>), [Key("k3", UNIQUE, <<b, a>>) EXCEPT !.data.deferral = Deferrable(d)]},
     fk \in {{}, {ForeignKey("f1", <<b>>, u, <<b>>)}, {ForeignKey("f1", <<a>>, t, <<a>>),
                [ForeignKey("f2", <<b>>, t, <<a>>) EXCEPT !.data.ondelete = "cascade"]},
             {[ForeignKey("f3", <<a, b>>, u, <<b, a>>) EXCEPT !.data.deferral = Deferrable(d)]}}}

IndexSets(d) ==
  {{}, {Index(<<"i1">>, <<b>>)},
   {Index(<<"i1">>, <<b>>), [Index(<<"i2">>, <<a, b>>) EXCEPT !.data.unique = TRUE,
                                !.data.using = IF d = "postgres" THEN "HASH" ELSE ""],
    [Index(<<"i3">>, <<a>>) EXCEPT !.data.simple = FALSE]}}

Introspected ==
  [d \in {"sqlite", "postgres", "mysql", "sqlserver"} |->
     {Pair(d, types, keys, indexes) : types \in TypesOf[d], keys \in KeySets(d), indexes \in IndexSets(d)}]

\* A foreign key to the same column of another schema, the default of one field for the
\* tables command only, and a key whose columns may be NULL or a column of type INT.
OfOwnWays ==
  LET types == <<<<"INT", "">>, <<"TEXT", "">>>>
      keyed == Table("postgres", other, u, EmptyCache, OfTypes("postgres", types), {Key("k1", PRIMARY_KEY, <<a>>)}, {})
  IN [postgres |-> {Table("postgres", main, t, keyed, OfTypes("postgres", types),
                          {[ForeignKey("f1", <<a>>, u, <<a>>) EXCEPT !.data.refSchema = other]}, {})},
      mysql |-> {Table("mysql", main, t, EmptyCache, OfTypes("mysql", <<<<"TIMESTAMP", "">>, <<"INT", "">>>>), {}, {})},
      sqlite |-> {Table("sqlite", main, t, EmptyCache, OfTypes("sqlite", types), {Key("k1", PRIMARY_KEY, columns)}, {}) :
                    columns \in {<<a>>, <<a, b>>}}]

-----------------------------------------------------------------------------
(* Structs of users *)

For(d, mod) == [mod EXCEPT !.dialects = d]
Of(columns, mod) == [mod EXCEPT !.columns = columns]
To(path, mod) == [mod EXCEPT !.path = path]
Dialect(d) == [Modifier("dialect") EXCEPT !.named = d]

Field_(column, mods) == [column |-> column, type |-> "NumberField", mods |-> mods]
Struct_(table, fields) == [schema |-> NoWord, table |-> table, fields |-> fields]

\* Modifiers of column a of table t and of t itself.
ColumnMods ==
  {Modifier("notnull"), For({"mysql"}, Modifier("primarykey")), For({"postgres"}, [Modifier("type") EXCEPT !.type = <<"BIGINT", "">>]),
   Modifier("primarykey"), Dialect({"sqlite", "postgres"}), Dialect({}), To(<<u>>, Modifier("references")),
   To(<<u, <<b>>>>, [Modifier("references") EXCEPT !.subs = <<For({"mysql"}, Word("onupdate", "cascade")), Modifier("index")>>]),
   Modifier("references"), Modifier("index"), Modifier("autoincrement"), Word("len", "8"), Modifier("nonsense")}

TableMods ==
  {Of(<<a, b>>, For({"mysql", "sqlite"}, Modifier("unique"))), Of(<<a>>, Modifier("index")),
   Of(<<b>>, [To(<<u, <<a>>>>, Modifier("foreignkey")) EXCEPT !.subs = <<Word("ondelete", "restrict")>>]),
   Of(<<a>>, For({"postgres"}, [Modifier("primarykey") EXCEPT !.subs = <<Modifier("deferrable")>>])),
   Of(<<b>>, For({"postgres", "mysql"}, Modifier("primarykey"))), Of(<<a, b>>, For({"sqlite"}, Modifier("primarykey"))),
   Modifier("unique"), Dialect({"mysql"})}

\* A table modifier comes before the columns or after them, and either of the tables comes
\* first.
UserStructs ==
  LET Fields(m, f, isLast) ==
        IF isLast THEN <<Field_(a, f), Field_(b, <<>>), OfTable(m)>> ELSE <<OfTable(m), Field_(a, f), Field_(b, <<>>)>>
      ofU == Struct_(u, <<OfTable(<<>>), Field_(a, <<Dialect({"postgres"}), Modifier("notnull")>>)>>)
      ofT == {Struct_(t, Fields(m, f, isLast)) :
                m \in {<<>>} \cup {<<x>> : x \in TableMods}, f \in {<<x, y>> : x \in ColumnMods, y \in ColumnMods},
                isLast \in BOOLEAN}
  IN UNION {{<<x, ofU>>, <<ofU, x>>} : x \in ofT}

\* A primary key of two columns, which Postgres is to defer.
Overruling ==
  {<<Struct_(t, <<OfTable(<<Of(<<a, b>>, Modifier("primarykey")),
                           Of(<<a, b>>, For({"postgres"}, [Modifier("primarykey") EXCEPT !.subs = <<Modifier("deferrable")>>]))>>),
                  Field_(a, <<>>), Field_(b, <<>>)>>)>>}
=============================================================================
