----------------------------- MODULE BatchInsert -----------------------------
(***************************************************************************)
(* BatchInsert (src/ddl/batch_insert.go): the rows of an iterator go into  *)
(* a table by statements of several rows each.  Here are the size of a     *)
(* batch and what an upsert of one does; who calls ExecContext takes the   *)
(* rows one by one and sends a batch when it is full (HistoryCommands).    *)
(* A row is a record with a field key.                                     *)
(***************************************************************************)
EXTENDS Integers, Sequences

CONSTANT
  ParamLimit    \* of each dialect: how many parameters a statement may have

ASSUME ParamLimitAssumption == \A d \in DOMAIN ParamLimit : ParamLimit[d] \in Nat

\* Mutant: the parameters are not counted.
UnlimitedBatchsize(dialect, wanted, columns) == IF wanted <= 0 THEN 500 ELSE wanted

\* The rows of a full batch, wanted being the field Batchsize.
Batchsize(dialect, wanted, columns) ==
  LET given == IF wanted <= 0 THEN 500 ELSE wanted
      capped == IF dialect = "sqlserver" /\ given > 25 THEN 25 ELSE given
      most == ParamLimit[dialect] \div columns - 1
  IN IF capped > most THEN most ELSE capped

\* A batch is sent as soon as it has so many rows; a size of none or less sends each row.
IsFull(batch, size) == Len(batch) >= size

KeysOf(batch) == {batch[i].key : i \in DOMAIN batch}

Repeated(batch) ==
  {k \in KeysOf(batch) : \E i, j \in DOMAIN batch : i # j /\ batch[i].key = k /\ batch[j].key = k}

\* The server takes an upsert of the batch into a table that has rows of the keys in has:
\* Postgres does not update a row twice in a statement; SQL Server first updates what is
\* there, and then inserts the rest.
Accepts(dialect, has, batch) ==
  CASE dialect = "postgres" -> Repeated(batch) = {}
    [] dialect = "sqlserver" -> Repeated(batch) \subseteq has
    [] OTHER -> TRUE

\* The rows that an upsert may leave, by key: the last ones of their keys, but which of
\* several rows SQL Server updates with is not defined.
Upserts(dialect, batch) ==
  {[k \in KeysOf(batch) |-> batch[from[k]]]
   : from \in {g \in [KeysOf(batch) -> DOMAIN batch] :
                 \A k \in KeysOf(batch) :
                   /\ batch[g[k]].key = k
                   /\ \/ dialect = "sqlserver"
                      \/ \A i \in DOMAIN batch : batch[i].key = k => i <= g[k]}}
=============================================================================
