----------------------------- MODULE HistoryProofs -----------------------------
(* Theorems about HistoryCommands, for any number of processes and files. *)
EXTENDS HistoryCommands, TLAPS

(***************************************************************************)
(* Types                                                                   *)
(***************************************************************************)

SharedOK ==
  /\ dialect \in Dialects
  /\ tableExists \in BOOLEAN
  /\ history \in [Files -> Row]
  /\ content \in [Files -> 0 .. MaxVersion]
  /\ theirs \in [Files -> SUBSET (0 .. MaxVersion)]
  /\ runs \in 0 .. MaxRuns
  /\ edits \in 0 .. MaxEdits

Rows == Seq([key : Files, checksum : 0 .. MaxVersion])

PositionsOK ==
  \A p \in Procs :
    /\ todo[p] \subseteq DOMAIN names[p]
    /\ pc[p] = "idle" => todo[p] = {}
    /\ pc[p] \in {"mv", "rename"} => Len(names[p]) = 2

MappingsOK ==
  /\ DOMAIN written = Procs /\ DOMAIN plan = Procs
  /\ \A p \in Procs : IsMapping(written[p]) /\ IsMapping(plan[p])

LocalsOK ==
  /\ pc \in [Procs -> Labels]
  /\ names \in [Procs -> Seq(Files)]
  /\ todo \in [Procs -> SUBSET Nat]
  /\ PositionsOK
  /\ rowvalue \in [Procs -> 0 .. MaxVersion]
  /\ batch \in [Procs -> Rows]
  /\ MappingsOK
  /\ \A p \in Procs : DOMAIN written[p] # {} => pc[p] \in {"next", "upsert", "commit"}
  /\ quiet \in [Procs -> BOOLEAN]

LEMMA TypeParts == (TypeOK <=> SharedOK /\ LocalsOK) /\ (TypeOK' <=> SharedOK' /\ LocalsOK')
<1>1. TypeOK <=> SharedOK /\ LocalsOK
  BY DEF TypeOK, SharedOK, LocalsOK, PositionsOK, MappingsOK, Rows
<1>2. TypeOK' <=> SharedOK' /\ LocalsOK'
  BY DEF TypeOK, SharedOK, LocalsOK, PositionsOK, MappingsOK, Rows
<1>3. QED
  BY <1>1, <1>2

LEMMA Elements == ASSUME NEW S, NEW b \in Seq(S) PROVE \A i \in DOMAIN b : b[i] \in S
  OBVIOUS

LEMMA Appended ==
  ASSUME NEW S, NEW b \in Seq(S), NEW e \in S
  PROVE  /\ Len(Append(b, e)) = Len(b) + 1 /\ Append(b, e) # <<>> /\ Len(b) \in Nat
         /\ \A k \in DOMAIN Append(b, e) :
              Append(b, e)[k] = e \/ (k \in DOMAIN b /\ Append(b, e)[k] = b[k])
<1>1. /\ Len(b) \in Nat /\ Len(Append(b, e)) = Len(b) + 1
      /\ DOMAIN b = 1 .. Len(b) /\ DOMAIN Append(b, e) = 1 .. Len(b) + 1
  OBVIOUS
<1>2. Append(b, e)[Len(b) + 1] = e /\ \A k \in 1 .. Len(b) : Append(b, e)[k] = b[k]
  OBVIOUS
<1>3. Append(b, e) # <<>>
  BY <1>1
<1>4. \A k \in 1 .. Len(b) + 1 : k = Len(b) + 1 \/ k \in 1 .. Len(b)
  BY <1>1
<1>5. ASSUME NEW k \in DOMAIN Append(b, e)
      PROVE  Append(b, e)[k] = e \/ (k \in DOMAIN b /\ Append(b, e)[k] = b[k])
  <2>1. k = Len(b) + 1 \/ k \in 1 .. Len(b)
    BY <1>1, <1>4
  <2>2. ASSUME k = Len(b) + 1 PROVE Append(b, e)[k] = e
    BY <1>2, <2>2, Zenon
  <2>3. ASSUME k \in 1 .. Len(b) PROVE k \in DOMAIN b /\ Append(b, e)[k] = b[k]
    BY <1>1, <1>2, <2>3, Zenon
  <2>4. QED
    BY <2>1, <2>2, <2>3, Zenon
<1>6. QED
  BY <1>1, <1>3, <1>5

LEMMA NothingIsMapping == DOMAIN Nothing = {} /\ IsMapping(Nothing)
  BY DEF Nothing, IsMapping

LEMMA InitType == Init => TypeOK
<1>1. SUFFICES ASSUME Init PROVE SharedOK /\ LocalsOK
  BY TypeParts
<1>2. SharedOK
  <2>1. MaxVersion \in Nat /\ MaxRuns \in Nat /\ MaxEdits \in Nat
    BY HistoryAssumption
  <2>2. history \in [Files -> Row] /\ content \in [Files -> 0 .. MaxVersion]
    BY <1>1, HistoryAssumption DEF Init
  <2>3. \A f \in Files : history[f].checksum \in 0 .. MaxVersion
    BY <2>2 DEF Row
  <2>4. theirs \in [Files -> SUBSET (0 .. MaxVersion)]
    BY <1>1, <2>1, <2>2, <2>3 DEF Init
  <2>5. tableExists \in BOOLEAN
    BY <1>1 DEF Init
  <2>6. QED
    BY <1>1, <2>1, <2>2, <2>4, <2>5 DEF Init, SharedOK
<1>3. LocalsOK
  <2>1. MaxVersion \in Nat
    BY HistoryAssumption
  <2>2. MappingsOK
    BY <1>1, NothingIsMapping DEF Init, MappingsOK
  <2>3. QED
    BY <1>1, <2>1, <2>2, NothingIsMapping DEF Init, LocalsOK, PositionsOK, Rows, Labels
<1>4. QED
  BY <1>2, <1>3

\* The end of a command.
LEMMA EndType ==
  ASSUME LocalsOK, NEW p \in Procs, End(p), quiet' \in [Procs -> BOOLEAN]
  PROVE  LocalsOK'
<1>1. MaxVersion \in Nat
  BY HistoryAssumption
<1>2. pc' \in [Procs -> Labels]
  BY DEF End, Goto, LocalsOK, Labels
<1>3. names' \in [Procs -> Seq(Files)]
  <2>1. <<>> \in Seq(Files)
    OBVIOUS
  <2>2. QED
    BY <2>1 DEF End, LocalsOK
<1>4. todo' \in [Procs -> SUBSET Nat]
  <2>1. {} \in SUBSET Nat
    OBVIOUS
  <2>2. QED
    BY <2>1 DEF End, LocalsOK
<1>5. rowvalue' \in [Procs -> 0 .. MaxVersion]
  <2>1. 0 \in 0 .. MaxVersion
    BY <1>1
  <2>2. QED
    BY <2>1 DEF End, LocalsOK
<1>6. batch' \in [Procs -> Rows]
  <2>1. <<>> \in Rows
    BY DEF Rows
  <2>2. QED
    BY <2>1 DEF End, LocalsOK
<1>7. MappingsOK'
  BY NothingIsMapping DEF End, Rollback, LocalsOK, MappingsOK
<1>8. PositionsOK'
  BY DEF End, Goto, LocalsOK, PositionsOK
<1>9. \A q \in Procs : DOMAIN written'[q] # {} => pc'[q] \in {"next", "upsert", "commit"}
  BY NothingIsMapping DEF End, Rollback, Goto, LocalsOK, MappingsOK
<1>10. QED
  BY <1>2, <1>3, <1>4, <1>5, <1>6, <1>7, <1>8, <1>9 DEF LocalsOK

LEMMA QuietEndType ==
  ASSUME TypeOK, NEW p \in Procs, EndQuietly(p), UNCHANGED <<dialect, shared, runs, edits>>
  PROVE  TypeOK'
<1>1. SharedOK /\ LocalsOK
  BY TypeParts
<1>2. SharedOK'
  BY <1>1 DEF SharedOK, shared
<1>3. quiet' \in [Procs -> BOOLEAN]
  BY <1>1 DEF EndQuietly, LocalsOK
<1>4. LocalsOK'
  BY <1>1, <1>3, EndType DEF EndQuietly
<1>5. QED
  BY <1>2, <1>4, TypeParts

LEMMA DisturbType ==
  ASSUME LocalsOK, NEW p \in Procs, Disturb(p)
  PROVE  quiet' \in [Procs -> BOOLEAN]
  BY DEF Disturb, LocalsOK

LEMMA DisturbingEndType ==
  ASSUME LocalsOK, NEW p \in Procs, EndDisturbing(p)
  PROVE  LocalsOK'
<1>1. quiet' \in [Procs -> BOOLEAN]
  BY DEF EndDisturbing
<1>2. QED
  BY <1>1, EndType DEF EndDisturbing

\* A command goes from one place to another, and has written nothing yet or goes on to write.
LEMMA GotoType ==
  ASSUME LocalsOK, NEW p \in Procs, NEW l \in Labels, Goto(p, l), UNCHANGED written,
         l \in {"next", "upsert", "commit"} \/ pc[p] \notin {"next", "upsert", "commit"}
  PROVE  /\ pc' \in [Procs -> Labels]
         /\ \A q \in Procs : DOMAIN written'[q] # {} => pc'[q] \in {"next", "upsert", "commit"}
  BY DEF LocalsOK, Goto

\* Rows are rows whatever is put over them.
LEMMA OverwrittenType ==
  ASSUME SharedOK, NEW with, IsMapping(with)
  PROVE  Overwritten(history, with) \in [Files -> Row]
  BY DEF SharedOK, Overwritten, IsMapping

LEMMA MovesType ==
  ASSUME LocalsOK, NEW p \in Procs, NEW l \in Labels, Goto(p, l), UNCHANGED locals,
         l # "idle", l \in {"next", "upsert", "commit"} \/ pc[p] \notin {"next", "upsert", "commit"},
         l # "mv", l = "rename" => pc[p] = "mv", quiet' \in [Procs -> BOOLEAN]
  PROVE  LocalsOK'
<1>1. UNCHANGED <<names, todo, rowvalue, batch, written, plan, shown>>
  BY DEF locals
<1>2. /\ pc' \in [Procs -> Labels]
      /\ \A q \in Procs : DOMAIN written'[q] # {} => pc'[q] \in {"next", "upsert", "commit"}
  BY <1>1, GotoType
<1>3. PositionsOK'
  BY <1>1 DEF LocalsOK, Goto, PositionsOK
<1>4. QED
  BY <1>1, <1>2, <1>3 DEF LocalsOK, MappingsOK, IsMapping

LEMMA StartType ==
  ASSUME TypeOK, NEW p \in Procs, NEW l \in Labels, NEW a \in Seq(Files), Start(p, l, a),
         l \notin {"idle", "next", "upsert", "commit", "rename"}, l = "mv" => Len(a) = 2
  PROVE  TypeOK'
<1>1. SharedOK /\ LocalsOK
  BY TypeParts
<1>2. SharedOK'
  <2>1. runs' \in 0 .. MaxRuns
    <3>1. MaxRuns \in Nat
      BY HistoryAssumption
    <3>2. QED
      BY <1>1, <3>1 DEF Start, SharedOK
  <2>2. QED
    BY <1>1, <2>1 DEF Start, SharedOK, shared
<1>3. pc[p] = "idle" /\ Goto(p, l) /\ UNCHANGED <<todo, rowvalue, batch, written, plan, shown>>
  BY DEF Start
<1>4. /\ pc' \in [Procs -> Labels]
      /\ \A q \in Procs : DOMAIN written'[q] # {} => pc'[q] \in {"next", "upsert", "commit"}
  BY <1>1, <1>3, GotoType
<1>5. names' = [names EXCEPT ![p] = a] /\ names' \in [Procs -> Seq(Files)]
  BY <1>1 DEF Start, LocalsOK
<1>6. quiet' \in [Procs -> BOOLEAN]
  BY <1>1 DEF Start, LocalsOK
<1>7. PositionsOK'
  BY <1>1, <1>3, <1>5 DEF LocalsOK, Goto, PositionsOK
<1>8. QED
  BY <1>1, <1>2, <1>3, <1>4, <1>5, <1>6, <1>7, TypeParts DEF LocalsOK, MappingsOK, IsMapping

LEMMA BeginsType ==
  ASSUME TypeOK, NEW p \in Procs, Begins(p)
  PROVE  TypeOK'
<1>1. <<>> \in Seq(Files)
  OBVIOUS
<1>2. ASSUME Touch(p) PROVE TypeOK'
  <2>1. PICK a \in ArgLists : Start(p, "ensure", a)
    BY <1>2 DEF Touch
  <2>2. a \in Seq(Files)
    BY HistoryAssumption
  <2>3. QED
    BY <2>1, <2>2, StartType DEF Labels
<1>3. ASSUME Rm(p) PROVE TypeOK'
  <2>1. PICK a \in ArgLists : Start(p, "rm", a)
    BY <1>3 DEF Rm
  <2>2. a \in Seq(Files)
    BY HistoryAssumption
  <2>3. QED
    BY <2>1, <2>2, StartType DEF Labels
<1>4. ASSUME Mv(p) PROVE TypeOK'
  <2>1. PICK move \in Moves : Start(p, "mv", move)
    BY <1>4 DEF Mv
  <2>2. move \in Files \X Files
    BY HistoryAssumption
  <2>3. move = <<move[1], move[2]>> /\ move[1] \in Files /\ move[2] \in Files
    BY <2>2
  <2>4. <<move[1], move[2]>> \in Seq(Files) /\ Len(<<move[1], move[2]>>) = 2
    BY <2>3
  <2>5. QED
    BY <2>1, <2>3, <2>4, StartType DEF Labels
<1>5. ASSUME Ls(p) PROVE TypeOK'
  BY <1>1, <1>5, StartType DEF Ls, Labels
<1>6. ASSUME Migrate(p) PROVE TypeOK'
  BY <1>1, <1>6, StartType DEF Migrate, Labels
<1>7. QED
  BY <1>2, <1>3, <1>4, <1>5, <1>6 DEF Begins

\* Steps that only go on to the next one.
LEMMA OnlyMovesType ==
  ASSUME TypeOK, NEW p \in Procs, NEW l \in Labels, Goto(p, l),
         UNCHANGED <<dialect, shared, runs, edits, locals, quiet>>, l # "idle",
         l # "mv", l = "rename" => pc[p] = "mv",
         l \in {"next", "upsert", "commit"} \/ pc[p] \notin {"next", "upsert", "commit"}
  PROVE  TypeOK'
<1>1. SharedOK /\ LocalsOK
  BY TypeParts
<1>2. SharedOK'
  BY <1>1 DEF SharedOK, shared
<1>3. quiet' \in [Procs -> BOOLEAN] /\ UNCHANGED locals
  BY <1>1 DEF LocalsOK
<1>4. LocalsOK'
  BY <1>1, <1>3, MovesType
<1>5. QED
  BY <1>2, <1>4, TypeParts

\* What touch and ls make of the names and the positions in them that are left.
LEMMA ListedType ==
  ASSUME LocalsOK, NEW p \in Procs, NEW l \in Labels, Goto(p, l), NEW a \in Seq(Files),
         NEW S \in SUBSET DOMAIN a, l \notin {"idle", "mv", "rename"},
         l \in {"next", "upsert", "commit"} \/ pc[p] \notin {"next", "upsert", "commit"},
         names' = [names EXCEPT ![p] = a], todo' = [todo EXCEPT ![p] = S],
         UNCHANGED <<rowvalue, batch, written, plan, shown, quiet>>
  PROVE  LocalsOK'
<1>1. /\ pc' \in [Procs -> Labels]
      /\ \A q \in Procs : DOMAIN written'[q] # {} => pc'[q] \in {"next", "upsert", "commit"}
  BY GotoType
<1>2. names' \in [Procs -> Seq(Files)]
  BY DEF LocalsOK
<1>3. todo' \in [Procs -> SUBSET Nat]
  <2>1. S \in SUBSET Nat
    OBVIOUS
  <2>2. QED
    BY <2>1 DEF LocalsOK
<1>4. PositionsOK'
  BY DEF LocalsOK, Goto, PositionsOK
<1>5. QED
  BY <1>1, <1>2, <1>3, <1>4 DEF LocalsOK, MappingsOK, IsMapping

LEMMA CreateType == ASSUME TypeOK, NEW p \in Procs, Create(p) PROVE TypeOK'
<1>1. SharedOK /\ LocalsOK
  BY TypeParts
<1>2. SharedOK'
  BY <1>1 DEF SharedOK, Create
<1>3. quiet' \in [Procs -> BOOLEAN]
  BY <1>1, DisturbType DEF Create
<1>4. LocalsOK'
  BY <1>1, <1>3, MovesType DEF Create, Labels
<1>5. QED
  BY <1>2, <1>4, TypeParts

LEMMA ListType == ASSUME TypeOK, NEW p \in Procs, List(p) PROVE TypeOK'
<1>1. SharedOK /\ LocalsOK
  BY TypeParts
<1>2. SharedOK'
  BY <1>1 DEF SharedOK, List, shared
<1>3. PICK a \in Seq(Files) :
        /\ names' = [names EXCEPT ![p] = a]
        /\ todo' = [todo EXCEPT ![p] = {i \in Migrations(a) : content[a[i]] # 0}]
  <2>1. names[p] \in Seq(Files)
    BY <1>1 DEF LocalsOK
  <2>2. Lexical \in Seq(Files)
    BY HistoryAssumption
  <2>3. (IF names[p] = <<>> THEN Lexical ELSE names[p]) \in Seq(Files)
    BY <2>1, <2>2
  <2>4. QED
    BY <2>3 DEF List
<1>4. PICK S \in SUBSET DOMAIN a : todo' = [todo EXCEPT ![p] = S]
  BY <1>3 DEF Migrations
<1>5. LocalsOK'
  BY <1>1, <1>3, <1>4, ListedType DEF List, Labels
<1>6. QED
  BY <1>2, <1>5, TypeParts

LEMMA WalkType == ASSUME TypeOK, NEW p \in Procs, Walk(p) PROVE TypeOK'
<1>1. SharedOK /\ LocalsOK
  BY TypeParts
<1>2. SharedOK'
  BY <1>1 DEF SharedOK, Walk, shared
<1>3. Lexical \in Seq(Files)
  BY HistoryAssumption
<1>4. PICK S \in SUBSET DOMAIN Lexical : todo' = [todo EXCEPT ![p] = S]
  BY DEF Migrations, Walk
<1>5. LocalsOK'
  BY <1>1, <1>3, <1>4, ListedType DEF Walk, Labels
<1>6. QED
  BY <1>2, <1>5, TypeParts

\* A row that touch takes.
LEMMA RowType ==
  ASSUME SharedOK, LocalsOK, NEW p \in Procs, NEW i \in todo[p]
  PROVE  /\ names[p][i] \in Files
         /\ (IF names[p][i] \in Repeatable THEN content[names[p][i]] ELSE rowvalue[p]) \in 0 .. MaxVersion
<1>1. names[p] \in Seq(Files)
  BY DEF LocalsOK
<1>2. names[p][i] \in Files
  <2>1. PositionsOK
    BY DEF LocalsOK
  <2>2. i \in DOMAIN names[p]
    BY <2>1 DEF PositionsOK
  <2>3. QED
    BY <1>1, <2>2, Elements
<1>3. content[names[p][i]] \in 0 .. MaxVersion
  BY <1>2 DEF SharedOK
<1>4. rowvalue[p] \in 0 .. MaxVersion
  BY DEF LocalsOK
<1>5. QED
  BY <1>2, <1>3, <1>4

LEMMA NextRowType == ASSUME TypeOK, NEW p \in Procs, NextRow(p) PROVE TypeOK'
<1>1. SharedOK /\ LocalsOK
  BY TypeParts
<1>2. SharedOK'
  BY <1>1 DEF SharedOK, NextRow, shared
<1>3. PICK i \in todo[p], l \in {"next", "upsert"}, sum \in 0 .. MaxVersion :
        /\ rowvalue' = [rowvalue EXCEPT ![p] = sum]
        /\ batch' = [batch EXCEPT ![p] = Append(batch[p], [key |-> names[p][i], checksum |-> sum])]
        /\ todo' = [todo EXCEPT ![p] = @ \ {i}]
        /\ Goto(p, l)
        /\ pc[p] = "next"
        /\ UNCHANGED <<names, written, plan, shown, quiet>>
  <2>1. PICK i \in todo[p] :
          LET f == names[p][i]
              sum == IF f \in Repeatable THEN content[f] ELSE rowvalue[p]
              rows == Append(batch[p], [key |-> f, checksum |-> sum])
          IN /\ pc[p] = "next"
             /\ rowvalue' = [rowvalue EXCEPT ![p] = sum]
             /\ batch' = [batch EXCEPT ![p] = rows]
             /\ todo' = [todo EXCEPT ![p] = @ \ {i}]
             /\ Goto(p, IF IsFull(rows, Batchsize(dialect, 0, Columns)) THEN "upsert" ELSE "next")
             /\ UNCHANGED <<names, written, plan, shown, quiet>>
    BY DEF NextRow
  <2>2. (IF names[p][i] \in Repeatable THEN content[names[p][i]] ELSE rowvalue[p]) \in 0 .. MaxVersion
    BY <1>1, RowType
  <2>3. QED
    BY <2>1, <2>2
<1>4. rowvalue' \in [Procs -> 0 .. MaxVersion]
  BY <1>1, <1>3 DEF LocalsOK
<1>5. batch' \in [Procs -> Rows]
  <2>1. batch[p] \in Rows
    BY <1>1 DEF LocalsOK
  <2>2. [key |-> names[p][i], checksum |-> sum] \in [key : Files, checksum : 0 .. MaxVersion]
    BY <1>1, RowType
  <2>3. Append(batch[p], [key |-> names[p][i], checksum |-> sum]) \in Rows
    BY <2>1, <2>2 DEF Rows
  <2>4. QED
    BY <1>1, <1>3, <2>3 DEF LocalsOK
<1>6. todo' \in [Procs -> SUBSET Nat]
  BY <1>1, <1>3 DEF LocalsOK
<1>7. /\ pc' \in [Procs -> Labels]
      /\ \A q \in Procs : DOMAIN written'[q] # {} => pc'[q] \in {"next", "upsert", "commit"}
  BY <1>1, <1>3, GotoType DEF Labels
<1>8. PositionsOK'
  BY <1>1, <1>3 DEF LocalsOK, Goto, PositionsOK
<1>9. LocalsOK'
  BY <1>1, <1>3, <1>4, <1>5, <1>6, <1>7, <1>8 DEF LocalsOK, MappingsOK, IsMapping
<1>10. QED
  BY <1>2, <1>9, TypeParts

\* An upsert leaves rows of the batch, each under its key.
LEMMA UpsertedRows ==
  ASSUME NEW d, NEW b \in Rows, NEW rows \in Upserts(d, b)
  PROVE  /\ DOMAIN rows = KeysOf(b) /\ DOMAIN rows \subseteq Files
         /\ \A k \in DOMAIN rows : \E i \in DOMAIN b : b[i].key = k /\ rows[k] = b[i]
         /\ \A k \in DOMAIN rows : rows[k].checksum \in 0 .. MaxVersion
<1>1. PICK from \in [KeysOf(b) -> DOMAIN b] :
        /\ rows = [k \in KeysOf(b) |-> b[from[k]]]
        /\ \A k \in KeysOf(b) : b[from[k]].key = k
  BY DEF Upserts
<1>2. \A i \in DOMAIN b : b[i].key \in Files /\ b[i].checksum \in 0 .. MaxVersion
  <2>1. \A i \in DOMAIN b : b[i] \in [key : Files, checksum : 0 .. MaxVersion]
    BY Elements DEF Rows
  <2>2. QED
    BY <2>1
<1>3. DOMAIN rows = KeysOf(b) /\ \A k \in KeysOf(b) : from[k] \in DOMAIN b /\ rows[k] = b[from[k]]
  BY <1>1
<1>4. KeysOf(b) \subseteq Files
  BY <1>2 DEF KeysOf
<1>5. \A k \in KeysOf(b) : \E i \in DOMAIN b : b[i].key = k /\ rows[k] = b[i]
  BY <1>1, <1>3
<1>6. \A k \in KeysOf(b) : rows[k].checksum \in 0 .. MaxVersion
  BY <1>2, <1>3
<1>7. QED
  BY <1>3, <1>4, <1>5, <1>6

LEMMA UpsertType == ASSUME TypeOK, NEW p \in Procs, Upsert(p) PROVE TypeOK'
<1>1. SharedOK /\ LocalsOK
  BY TypeParts
<1>2. SharedOK'
  BY <1>1 DEF SharedOK, Upsert, shared
<1>3. batch[p] \in Rows
  BY <1>1 DEF LocalsOK
<1>4. PICK rows \in Upserts(dialect, batch[p]) :
        written' = [written EXCEPT ![p] =
                      [f \in DOMAIN @ \cup DOMAIN rows |->
                         IF f \in DOMAIN rows
                         THEN [valid |-> TRUE, checksum |-> rows[f].checksum, success |-> TRUE]
                         ELSE @[f]]]
  BY DEF Upsert
<1>5. IsMapping(written'[p])
  <2> DEFINE more == [f \in DOMAIN written[p] \cup DOMAIN rows |->
                        IF f \in DOMAIN rows
                        THEN [valid |-> TRUE, checksum |-> rows[f].checksum, success |-> TRUE]
                        ELSE written[p][f]]
  <2>1. /\ DOMAIN rows \subseteq Files
        /\ \A f \in DOMAIN rows : rows[f].checksum \in 0 .. MaxVersion
    BY <1>3, UpsertedRows
  <2>2. \A f \in DOMAIN rows : [valid |-> TRUE, checksum |-> rows[f].checksum, success |-> TRUE] \in Row
    BY <2>1 DEF Row
  <2>3. IsMapping(written[p])
    BY <1>1 DEF LocalsOK, MappingsOK
  <2>4. IsMapping(more)
    BY <2>1, <2>2, <2>3 DEF IsMapping
  <2>5. written'[p] = more
    BY <1>1, <1>4 DEF LocalsOK, MappingsOK
  <2>6. QED
    BY <2>4, <2>5
<1>6. MappingsOK'
  <2>1. MappingsOK /\ DOMAIN written' = Procs /\ UNCHANGED plan
    BY <1>1, <1>4 DEF Upsert, LocalsOK, MappingsOK
  <2>2. \A q \in Procs : IsMapping(written'[q])
    BY <1>4, <1>5, <2>1 DEF MappingsOK
  <2>3. QED
    BY <2>1, <2>2 DEF MappingsOK, IsMapping
<1>7. batch' \in [Procs -> Rows]
  <2>1. <<>> \in Rows
    BY DEF Rows
  <2>2. QED
    BY <1>1, <2>1 DEF Upsert, RestRows, LocalsOK
<1>8. pc' \in [Procs -> Labels]
  BY <1>1 DEF Upsert, Goto, LocalsOK, Labels
<1>9. \A q \in Procs : DOMAIN written'[q] # {} => pc'[q] \in {"next", "upsert", "commit"}
  BY <1>1, <1>4 DEF Upsert, Goto, LocalsOK, MappingsOK
<1>10. PositionsOK'
  BY <1>1 DEF Upsert, Goto, LocalsOK, PositionsOK
<1>11. LocalsOK'
  BY <1>1, <1>6, <1>7, <1>8, <1>9, <1>10 DEF Upsert, LocalsOK
<1>12. QED
  BY <1>2, <1>11, TypeParts

LEMMA CommitType == ASSUME TypeOK, NEW p \in Procs, Commit(p) PROVE TypeOK'
<1>1. SharedOK /\ LocalsOK
  BY TypeParts
<1>2. history' \in [Files -> Row]
  BY <1>1, OverwrittenType DEF Commit, LocalsOK, MappingsOK
<1>3. SharedOK'
  BY <1>1, <1>2 DEF SharedOK, Commit
<1>4. LocalsOK'
  BY <1>1, DisturbingEndType DEF Commit
<1>5. QED
  BY <1>3, <1>4, TypeParts

LEMMA TouchesType == ASSUME TypeOK, NEW p \in Procs, Touches(p) PROVE TypeOK'
<1>1. ASSUME Ensure(p) PROVE TypeOK'
  <2>1. PICK l \in {"list", "create"} : Goto(p, l)
    BY <1>1 DEF Ensure
  <2>2. QED
    BY <1>1, <2>1, OnlyMovesType DEF Ensure, Labels
<1>2. ASSUME CreateFails(p) PROVE TypeOK'
  BY <1>2, QuietEndType DEF CreateFails
<1>3. ASSUME FileMissing(p) PROVE TypeOK'
  BY <1>3, QuietEndType DEF FileMissing
<1>4. ASSUME OpenFails(p) PROVE TypeOK'
  BY <1>4, QuietEndType DEF OpenFails
<1>5. ASSUME LastRow(p) PROVE TypeOK'
  <2>1. PICK l \in {"upsert", "commit"} : Goto(p, l)
    BY <1>5 DEF LastRow, Leftover
  <2>2. QED
    BY <1>5, <2>1, OnlyMovesType DEF LastRow, Labels
<1>6. ASSUME UpsertFails(p) PROVE TypeOK'
  BY <1>6, QuietEndType DEF UpsertFails
<1>7. ASSUME Victim(p) PROVE TypeOK'
  BY <1>7, QuietEndType DEF Victim
<1>8. QED
  BY <1>1, <1>2, <1>3, <1>4, <1>5, <1>6, <1>7, CreateType, ListType, NextRowType, UpsertType,
     CommitType DEF Touches

LEMMA NoRowType == NoRow \in Row
<1>1. 0 \in 0 .. MaxVersion
  BY HistoryAssumption
<1>2. QED
  BY <1>1 DEF NoRow, Row

LEMMA NamedType == ASSUME LocalsOK, NEW p \in Procs PROVE Named(p) \subseteq Files
<1>1. names[p] \in Seq(Files)
  BY DEF LocalsOK
<1>2. \A i \in DOMAIN names[p] : names[p][i] \in Files
  BY <1>1, Elements
<1>3. QED
  BY <1>2 DEF Named

LEMMA DeleteType == ASSUME TypeOK, NEW p \in Procs, Delete(p) PROVE TypeOK'
<1>1. SharedOK /\ LocalsOK
  BY TypeParts
<1>2. IsMapping([f \in Named(p) |-> NoRow])
  BY <1>1, NamedType, NoRowType DEF IsMapping
<1>3. history' \in [Files -> Row]
  BY <1>1, <1>2, OverwrittenType DEF Delete
<1>4. SharedOK'
  BY <1>1, <1>3 DEF SharedOK, Delete
<1>5. LocalsOK'
  BY <1>1, DisturbingEndType DEF Delete
<1>6. QED
  BY <1>4, <1>5, TypeParts

LEMMA RenameType == ASSUME TypeOK, NEW p \in Procs, Rename(p) PROVE TypeOK'
<1> DEFINE src == names[p][1]
<1> DEFINE dest == names[p][2]
<1> DEFINE moved == [f \in {src, dest} |-> IF f = dest THEN history[src] ELSE NoRow]
<1>1. SharedOK /\ LocalsOK
  BY TypeParts
<1>2. src \in Files /\ dest \in Files
  <2>1. names[p] \in Seq(Files) /\ PositionsOK
    BY <1>1 DEF LocalsOK
  <2>2. Len(names[p]) = 2
    BY <2>1 DEF PositionsOK, Rename
  <2>3. QED
    BY <2>1, <2>2
<1>3. history' \in [Files -> Row] /\ theirs' \in [Files -> SUBSET (0 .. MaxVersion)]
  <2>1. IsMapping(moved)
    BY <1>1, <1>2, NoRowType DEF IsMapping, SharedOK
  <2>2. history' = Overwritten(history, moved)
    BY DEF Rename
  <2>3. theirs' = [theirs EXCEPT ![dest] = @ \cup theirs[src]]
    BY DEF Rename
  <2> HIDE DEF moved
  <2>4. history' \in [Files -> Row]
    BY <1>1, <2>1, <2>2, OverwrittenType
  <2>5. QED
    BY <1>1, <1>2, <2>3, <2>4 DEF SharedOK
<1>4. SharedOK'
  BY <1>1, <1>3 DEF SharedOK, Rename
<1>5. LocalsOK'
  BY <1>1, DisturbingEndType DEF Rename
<1>6. QED
  BY <1>4, <1>5, TypeParts

LEMMA ChecksumType == ASSUME SharedOK, NEW f \in Files PROVE ChecksumOf(f) \in 0 .. MaxVersion
<1>1. 0 \in 0 .. MaxVersion
  BY HistoryAssumption
<1>2. QED
  BY <1>1 DEF ChecksumOf, SharedOK

\* A process remembers some rows, and goes on.
LEMMA PlanType ==
  ASSUME LocalsOK, NEW p \in Procs, NEW l \in Labels, Goto(p, l), NEW g, IsMapping(g),
         plan' = [plan EXCEPT ![p] = g], l \notin {"idle", "mv", "rename"}, pc[p] \notin {"next", "upsert", "commit"},
         UNCHANGED <<names, todo, rowvalue, batch, written>>, quiet' \in [Procs -> BOOLEAN]
  PROVE  LocalsOK'
<1>1. /\ pc' \in [Procs -> Labels]
      /\ \A q \in Procs : DOMAIN written'[q] # {} => pc'[q] \in {"next", "upsert", "commit"}
  BY GotoType
<1>2. PositionsOK'
  BY DEF LocalsOK, Goto, PositionsOK
<1>3. MappingsOK'
  <2>1. DOMAIN plan' = Procs /\ \A q \in Procs : plan'[q] = g \/ plan'[q] = plan[q]
    BY DEF LocalsOK, MappingsOK
  <2>2. QED
    BY <2>1 DEF LocalsOK, MappingsOK, IsMapping
<1>4. QED
  BY <1>1, <1>2, <1>3 DEF LocalsOK

\* A query returns none but the rows it asks for.
LEMMA ResultsType == ASSUME NEW S PROVE Results(S) \subseteq SUBSET S
  BY DEF Results

LEMMA ReadType == ASSUME TypeOK, NEW p \in Procs, Read(p) PROVE TypeOK'
<1>1. SharedOK /\ LocalsOK
  BY TypeParts
<1>2. SharedOK'
  BY <1>1 DEF SharedOK, Read
<1>3. PICK g : IsMapping(g) /\ plan' = [plan EXCEPT ![p] = g]
  <2>1. PICK T \in SUBSET Files :
          plan' = [plan EXCEPT ![p] =
                     [f \in T |-> [valid |-> TRUE, checksum |-> ChecksumOf(f), success |-> TRUE]]]
    BY DEF Read, Pending, Again
  <2>2. \A f \in T : [valid |-> TRUE, checksum |-> ChecksumOf(f), success |-> TRUE] \in Row
    BY <1>1, ChecksumType DEF Row
  <2>3. IsMapping([f \in T |-> [valid |-> TRUE, checksum |-> ChecksumOf(f), success |-> TRUE]])
    BY <2>2 DEF IsMapping
  <2>4. QED
    BY <2>1, <2>3
<1>5. quiet' \in [Procs -> BOOLEAN]
  BY <1>1, DisturbType DEF Read, LocalsOK
<1>7. LocalsOK'
  BY <1>1, <1>3, <1>5, PlanType DEF Read, Labels
<1>8. QED
  BY <1>2, <1>7, TypeParts

LEMMA SelectType == ASSUME TypeOK, NEW p \in Procs, Select(p) PROVE TypeOK'
<1>1. SharedOK /\ LocalsOK
  BY TypeParts
<1>2. SharedOK'
  BY <1>1 DEF SharedOK, Select, shared
<1>3. \A i \in todo[p] : names[p][i] \in Files
  BY <1>1, RowType
<1>4. PICK S \in SUBSET Files : plan' = [plan EXCEPT ![p] = [f \in S |-> history[f]]]
  <2> DEFINE rows == {f \in {names[p][i] : i \in todo[p]} : history[f].valid}
  <2>1. PICK S \in Results(rows) : plan' = [plan EXCEPT ![p] = [f \in S |-> history[f]]]
    BY DEF Select
  <2>2. rows \subseteq Files
    BY <1>3
  <2>3. S \subseteq rows
    BY ResultsType
  <2>4. QED
    BY <2>1, <2>2, <2>3
<1>5. IsMapping([f \in S |-> history[f]])
  BY <1>1 DEF IsMapping, SharedOK
<1>6. PICK l \in {"print", "tableless"} : Goto(p, l)
  BY DEF Select
<1>7. quiet' \in [Procs -> BOOLEAN]
  BY <1>1 DEF Select, LocalsOK
<1>8. LocalsOK'
  BY <1>1, <1>4, <1>5, <1>6, <1>7, PlanType DEF Select, Labels
<1>9. QED
  BY <1>2, <1>8, TypeParts

LEMMA ApplyType == ASSUME TypeOK, NEW p \in Procs, Apply(p) PROVE TypeOK'
<1>1. SharedOK /\ LocalsOK
  BY TypeParts
<1>2. PICK S \in SUBSET DOMAIN plan[p], ok \in BOOLEAN :
        history' = Overwritten(history, [f \in S |-> [plan[p][f] EXCEPT !.success = ok]])
  BY DEF Apply
<1>3. IsMapping(plan[p])
  BY <1>1 DEF LocalsOK, MappingsOK
<1>4. IsMapping([f \in S |-> [plan[p][f] EXCEPT !.success = ok]])
  BY <1>3 DEF IsMapping, Row
<1>5. history' \in [Files -> Row]
  BY <1>1, <1>2, <1>4, OverwrittenType
<1>6. SharedOK'
  BY <1>1, <1>5 DEF SharedOK, Apply
<1>7. LocalsOK'
  BY <1>1, DisturbingEndType DEF Apply
<1>8. QED
  BY <1>6, <1>7, TypeParts

LEMMA ChangesType == ASSUME TypeOK, NEW p \in Procs, Changes(p) PROVE TypeOK'
<1>1. ASSUME LookUp(p) PROVE TypeOK'
  <2>1. PICK l \in {"delete", "rename"} : Goto(p, l) /\ (l = "rename" => pc[p] = "mv")
    BY <1>1 DEF LookUp
  <2>2. QED
    BY <1>1, <2>1, OnlyMovesType DEF LookUp, Labels
<1>2. ASSUME NothingToChange(p) PROVE TypeOK'
  BY <1>2, QuietEndType DEF NothingToChange
<1>3. ASSUME RenameNothing(p) PROVE TypeOK'
  BY <1>3, QuietEndType DEF RenameNothing
<1>4. QED
  BY <1>1, <1>2, <1>3, DeleteType, RenameType, ReadType, ApplyType DEF Changes

LEMMA PrintLineType == ASSUME TypeOK, NEW p \in Procs, PrintLine(p) PROVE TypeOK'
<1>1. SharedOK /\ LocalsOK
  BY TypeParts
<1>2. SharedOK'
  BY <1>1 DEF SharedOK, PrintLine, shared
<1>3. todo' \in [Procs -> SUBSET Nat] /\ PositionsOK'
  <2>1. PICK i \in todo[p] :
          todo' = [todo EXCEPT ![p] = @ \ {i}] /\ UNCHANGED <<pc, names>>
    BY DEF PrintLine
  <2>2. todo \in [Procs -> SUBSET Nat] /\ PositionsOK
    BY <1>1 DEF LocalsOK
  <2>3. todo' \in [Procs -> SUBSET Nat]
    BY <2>1, <2>2
  <2>4. \A q \in Procs : todo'[q] \subseteq todo[q]
    BY <2>1, <2>2
  <2>5. QED
    BY <2>1, <2>2, <2>3, <2>4 DEF PositionsOK
<1>4. MappingsOK'
  <2>1. MappingsOK /\ UNCHANGED <<written, plan>>
    BY <1>1 DEF PrintLine, LocalsOK
  <2>2. QED
    BY <2>1 DEF MappingsOK, IsMapping
<1>5. UNCHANGED <<pc, names, rowvalue, batch, written, quiet>>
  BY DEF PrintLine
<1>6. LocalsOK'
  BY <1>1, <1>3, <1>4, <1>5 DEF LocalsOK
<1>7. QED
  BY <1>2, <1>6, TypeParts

LEMMA PrintMissingType == ASSUME TypeOK, NEW p \in Procs, PrintMissing(p) PROVE TypeOK'
<1>1. SharedOK /\ LocalsOK
  BY TypeParts
<1>2. SharedOK'
  BY <1>1 DEF SharedOK, PrintMissing, shared
<1>3. /\ Goto(p, "printed") /\ pc[p] \notin {"next", "upsert", "commit"}
      /\ UNCHANGED <<names, todo, rowvalue, batch, written, plan, quiet>>
  BY DEF PrintMissing
<1>4. /\ pc' \in [Procs -> Labels]
      /\ \A q \in Procs : DOMAIN written'[q] # {} => pc'[q] \in {"next", "upsert", "commit"}
  BY <1>1, <1>3, GotoType DEF Labels
<1>5. PositionsOK'
  BY <1>1, <1>3 DEF LocalsOK, Goto, PositionsOK
<1>6. LocalsOK'
  BY <1>1, <1>3, <1>4, <1>5 DEF LocalsOK, MappingsOK, IsMapping
<1>7. QED
  BY <1>2, <1>6, TypeParts

LEMMA ListsType == ASSUME TypeOK, NEW p \in Procs, Lists(p) PROVE TypeOK'
<1>1. ASSUME SelectFails(p) PROVE TypeOK'
  BY <1>1, QuietEndType DEF SelectFails
<1>2. ASSUME PrintFails(p) PROVE TypeOK'
  BY <1>2, QuietEndType DEF PrintFails
<1>3. ASSUME LsEnds(p) PROVE TypeOK'
  BY <1>3, QuietEndType DEF LsEnds
<1>4. QED
  BY <1>1, <1>2, <1>3, WalkType, SelectType, PrintLineType, PrintMissingType DEF Lists

LEMMA EditType == ASSUME TypeOK, NEW f \in Edited, Edit(f) PROVE TypeOK'
<1>1. SharedOK /\ LocalsOK
  BY TypeParts
<1>2. MaxEdits \in Nat /\ MaxVersion \in Nat /\ f \in Files
  BY HistoryAssumption
<1>3. PICK v \in 0 .. MaxVersion :
        /\ edits < MaxEdits /\ edits' = edits + 1
        /\ content' = [content EXCEPT ![f] = v]
        /\ theirs' = [theirs EXCEPT ![f] = IF f \in Repeatable THEN @ \cup {v} ELSE @]
  BY DEF Edit
<1>4. edits' \in 0 .. MaxEdits
  <2>1. edits \in 0 .. MaxEdits
    BY <1>1 DEF SharedOK
  <2>2. QED
    BY <1>2, <1>3, <2>1
<1>5. content' \in [Files -> 0 .. MaxVersion] /\ theirs' \in [Files -> SUBSET (0 .. MaxVersion)]
  <2>1. content' \in [Files -> 0 .. MaxVersion]
    BY <1>1, <1>3 DEF SharedOK
  <2>2. theirs[f] \in SUBSET (0 .. MaxVersion) /\ theirs[f] \cup {v} \in SUBSET (0 .. MaxVersion)
    BY <1>1, <1>2 DEF SharedOK
  <2>3. theirs' \in [Files -> SUBSET (0 .. MaxVersion)]
    BY <1>1, <1>3, <2>2 DEF SharedOK
  <2>4. QED
    BY <2>1, <2>3
<1>6. SharedOK'
  BY <1>1, <1>4, <1>5 DEF SharedOK, Edit
<1>7. quiet' \in [Procs -> BOOLEAN] /\ UNCHANGED <<pc, locals>>
  BY DEF Edit
<1>8. LocalsOK'
  BY <1>1, <1>7 DEF LocalsOK, PositionsOK, MappingsOK, IsMapping, locals
<1>9. QED
  BY <1>6, <1>8, TypeParts

LEMMA TypeStep == TypeOK /\ [Next]_vars => TypeOK'
<1>1. SUFFICES ASSUME TypeOK, [Next]_vars PROVE TypeOK'
  OBVIOUS
<1>2. ASSUME NEW p \in Procs, Begins(p) \/ Step(p) \/ Fail(p) PROVE TypeOK'
  <2>1. ASSUME Fail(p) PROVE TypeOK'
    BY <1>1, <2>1, QuietEndType DEF Fail
  <2>2. QED
    BY <1>1, <1>2, <2>1, BeginsType, TouchesType, ChangesType, ListsType DEF Step
<1>3. ASSUME UNCHANGED vars PROVE TypeOK'
  BY <1>1, <1>3 DEF vars, shared, locals, TypeOK, IsMapping
<1>4. QED
  BY <1>1, <1>2, <1>3, EditType DEF Next

\* Every reachable state is well-typed: rows stay rows whatever is put over them, positions
\* are of names that there are, and only touch holds rows of a transaction.
THEOREM HistoryTypeCorrect == Spec => []TypeOK
<1>1. Init => TypeOK
  BY InitType
<1>2. TypeOK /\ [Next]_vars => TypeOK'
  BY TypeStep
<1>3. QED
  BY <1>1, <1>2, PTL DEF Spec

(***************************************************************************)
(* Checksums and batches                                                   *)
(***************************************************************************)

\* ChecksumsAreTheirs is not inductive: what is to become a row has to be right as well,
\* in the plan of migrate, the batch of touch and its transaction; and so has the value
\* that touch does not clear between rows, which is why the names that are left when it
\* has one are all of repeatable migrations.
Writing == {"next", "upsert", "commit"}

SharedSums ==
  /\ ChecksumsAreTheirs
  /\ \A f \in Files : ChecksumOf(f) \in theirs[f]

Sums(p) ==
  /\ \A f \in DOMAIN written[p] : written[p][f].checksum \in theirs[f]
  /\ \A f \in DOMAIN plan[p] : plan[p][f].checksum \in theirs[f]
  /\ \A i \in DOMAIN batch[p] : batch[p][i].checksum \in theirs[batch[p][i].key]

Uncleared(p) ==
  rowvalue[p] # 0 => pc[p] \in Writing /\ \A i \in todo[p] : names[p][i] \in Repeatable

\* StatementsFit: a batch that has not been sent has room for another row, or none yet.
Fits(p) ==
  /\ pc[p] \notin {"next", "upsert"} => batch[p] = <<>>
  /\ pc[p] = "next" => batch[p] = <<>> \/ Len(batch[p]) < Batchsize(dialect, 0, Columns)
  /\ pc[p] = "upsert" => Len(batch[p]) > 0 /\ Len(batch[p]) * Columns <= ParamLimit[dialect]

Own(p) == Sums(p) /\ Uncleared(p) /\ Fits(p)

Grows == dialect' = dialect /\ \A f \in Files : theirs[f] \subseteq theirs'[f]

\* What a step leaves alone of a process, though there may be less left to do for it.
Same(q) ==
  /\ pc'[q] = pc[q] /\ names'[q] = names[q] /\ todo'[q] \subseteq todo[q]
  /\ rowvalue'[q] = rowvalue[q] /\ batch'[q] = batch[q]
  /\ written'[q] = written[q] /\ plan'[q] = plan[q]

LEMMA KeysType ==
  ASSUME TypeOK, NEW p \in Procs
  PROVE  /\ DOMAIN written[p] \subseteq Files /\ DOMAIN plan[p] \subseteq Files
         /\ batch[p] \in Rows /\ \A i \in DOMAIN batch[p] : batch[p][i].key \in Files
<1>1. LocalsOK
  BY TypeParts
<1>2. IsMapping(written[p]) /\ IsMapping(plan[p]) /\ batch[p] \in Rows
  BY <1>1 DEF LocalsOK, MappingsOK
<1>3. \A i \in DOMAIN batch[p] : batch[p][i] \in [key : Files, checksum : 0 .. MaxVersion]
  BY <1>2, Elements DEF Rows
<1>4. \A i \in DOMAIN batch[p] : batch[p][i].key \in Files
  BY <1>3
<1>5. QED
  BY <1>2, <1>4 DEF IsMapping

LEMMA SameOwn ==
  ASSUME TypeOK, NEW q \in Procs, Own(q), Same(q), Grows
  PROVE  Own(q)'
<1>1. Sums(q)'
  BY KeysType DEF Own, Sums, Same, Grows
<1>2. Uncleared(q)' /\ Fits(q)'
  BY DEF Own, Uncleared, Fits, Same, Grows
<1>3. QED
  BY <1>1, <1>2 DEF Own

\* A process that has not taken a row yet, and may have made a plan.
LEMMA EarlyOwn ==
  ASSUME TypeOK, NEW p \in Procs, Own(p), Grows, pc[p] \notin Writing, pc'[p] \notin {"upsert", "commit"},
         rowvalue'[p] = rowvalue[p], batch'[p] = batch[p], written'[p] = written[p],
         plan'[p] = plan[p] \/ \A f \in DOMAIN plan'[p] : plan'[p][f].checksum \in theirs'[f]
  PROVE  Own(p)'
<1>1. batch[p] = <<>> /\ rowvalue[p] = 0
  BY DEF Own, Uncleared, Fits, Writing
<1>2. Uncleared(p)' /\ Fits(p)'
  BY <1>1 DEF Uncleared, Fits
<1>3. Sums(p)'
  <2>1. DOMAIN written[p] \subseteq Files /\ DOMAIN plan[p] \subseteq Files
    BY KeysType
  <2>2. \A f \in DOMAIN plan'[p] : plan'[p][f].checksum \in theirs'[f]
    BY <2>1 DEF Own, Sums, Grows
  <2>3. \A f \in DOMAIN written'[p] : written'[p][f].checksum \in theirs'[f]
    BY <2>1 DEF Own, Sums, Grows
  <2>4. DOMAIN batch'[p] = {}
    BY <1>1
  <2>5. QED
    BY <2>2, <2>3, <2>4 DEF Sums
<1>4. QED
  BY <1>2, <1>3 DEF Own

\* Nothing is left of a command that has ended.
LEMMA EndOwn ==
  ASSUME TypeOK, \A q \in Procs : Own(q), NEW p \in Procs, End(p), Grows
  PROVE  \A q \in Procs : Own(q)'
<1>1. LocalsOK
  BY TypeParts
<1>2. ASSUME NEW q \in Procs, q # p PROVE Own(q)'
  <2>1. Same(q)
    BY <1>1, <1>2 DEF Same, End, Goto, Rollback, LocalsOK, MappingsOK
  <2>2. QED
    BY <2>1, SameOwn
<1>3. Own(p)'
  <2>1. pc'[p] = "idle" /\ rowvalue'[p] = 0 /\ batch'[p] = <<>>
    BY <1>1 DEF End, Goto, LocalsOK
  <2>2. written'[p] = Nothing /\ plan'[p] = Nothing
    BY <1>1 DEF End, Rollback, LocalsOK, MappingsOK
  <2>3. DOMAIN batch'[p] = {}
    BY <2>1
  <2>4. QED
    BY <2>1, <2>2, <2>3, NothingIsMapping DEF Own, Sums, Uncleared, Fits
<1>4. QED
  BY <1>2, <1>3

LEMMA SharedKept ==
  ASSUME SharedSums, UNCHANGED <<history, content, theirs>>
  PROVE  SharedSums'
  BY DEF SharedSums, ChecksumsAreTheirs, ChecksumOf

\* The parts of the invariant, of the state after a step too.
SumsOf == SharedSums /\ \A q \in Procs : Own(q)

LEMMA QuietEndSums ==
  ASSUME TypeOK, SumsOf, NEW p \in Procs, EndQuietly(p), UNCHANGED <<dialect, shared>>
  PROVE  SumsOf'
<1>1. Grows
  BY DEF Grows, shared
<1>2. \A q \in Procs : Own(q)'
  BY <1>1, EndOwn DEF EndQuietly, SumsOf
<1>3. SharedSums'
  BY SharedKept DEF SumsOf, shared
<1>4. QED
  BY <1>2, <1>3 DEF SumsOf

\* A step of a process that has not taken a row yet, and does not disturb the others.
LEMMA EarlySums ==
  ASSUME TypeOK, SumsOf, NEW p \in Procs, NEW l, Goto(p, l), l \notin {"upsert", "commit"},
         pc[p] \notin Writing, UNCHANGED <<dialect, history, content, theirs, rowvalue, batch, written>>,
         \A q \in Procs \ {p} : names'[q] = names[q] /\ todo'[q] = todo[q] /\ plan'[q] = plan[q],
         plan'[p] = plan[p] \/ \A f \in DOMAIN plan'[p] : plan'[p][f].checksum \in theirs[f]
  PROVE  SumsOf'
<1>1. LocalsOK
  BY TypeParts
<1>2. Grows
  BY DEF Grows
<1>3. ASSUME NEW q \in Procs, q # p PROVE Own(q)'
  <2>1. Same(q)
    BY <1>1, <1>3 DEF Same, Goto, LocalsOK
  <2>2. QED
    BY <1>2, <2>1, SameOwn DEF SumsOf
<1>4. Own(p)'
  <2>1. pc'[p] = l
    BY <1>1 DEF Goto, LocalsOK
  <2>2. QED
    BY <1>2, <2>1, EarlyOwn DEF SumsOf
<1>5. SharedSums'
  BY SharedKept DEF SumsOf
<1>6. QED
  BY <1>3, <1>4, <1>5 DEF SumsOf

LEMMA BeginsSums ==
  ASSUME TypeOK, SumsOf, NEW p \in Procs, Begins(p)
  PROVE  SumsOf'
<1>1. LocalsOK
  BY TypeParts
<1>2. PICK l \in {"ensure", "rm", "mv", "walk", "read"} : \E a : Start(p, l, a)
  BY DEF Begins, Touch, Rm, Mv, Ls, Migrate
<1>3. pc[p] \notin Writing /\ l \notin {"upsert", "commit"}
  BY <1>2 DEF Start, Writing
<1>4. \A q \in Procs \ {p} : names'[q] = names[q] /\ todo'[q] = todo[q] /\ plan'[q] = plan[q]
  BY <1>1, <1>2 DEF Start, LocalsOK
<1>5. QED
  BY <1>2, <1>3, <1>4, EarlySums DEF Start, shared

\* Steps that only go on to the next one.
LEMMA OnlyMovesSums ==
  ASSUME TypeOK, SumsOf, NEW p \in Procs, NEW l, Goto(p, l), l \notin {"upsert", "commit"},
         pc[p] \notin Writing, UNCHANGED <<dialect, history, content, theirs, locals>>
  PROVE  SumsOf'
<1>1. LocalsOK /\ UNCHANGED <<names, todo, rowvalue, batch, written, plan>>
  BY TypeParts DEF locals
<1>2. QED
  BY <1>1, EarlySums

LEMMA ListedSums ==
  ASSUME TypeOK, SumsOf, NEW p \in Procs, List(p) \/ Walk(p)
  PROVE  SumsOf'
<1>1. LocalsOK
  BY TypeParts
<1>2. /\ pc[p] \in {"list", "walk"} /\ \E l \in {"next", "select"} : Goto(p, l)
      /\ UNCHANGED <<dialect, shared, rowvalue, batch, written, plan>>
  BY DEF List, Walk
<1>3. \A q \in Procs \ {p} : names'[q] = names[q] /\ todo'[q] = todo[q]
  BY <1>1 DEF List, Walk, LocalsOK
<1>4. QED
  BY <1>2, <1>3, EarlySums DEF shared, Writing

LEMMA LastRowSums ==
  ASSUME TypeOK, SumsOf, NEW p \in Procs, LastRow(p)
  PROVE  SumsOf'
<1>1. LocalsOK
  BY TypeParts
<1>2. UNCHANGED <<dialect, history, content, theirs, names, todo, rowvalue, batch, written, plan>>
  BY DEF LastRow, locals, shared
<1>3. ASSUME NEW q \in Procs, q # p PROVE Own(q)'
  <2>1. Same(q) /\ Grows
    BY <1>1, <1>2, <1>3 DEF Same, Grows, LastRow, Goto, LocalsOK
  <2>2. QED
    BY <2>1, SameOwn DEF SumsOf
<1>4. Own(p)'
  <2>1. pc[p] = "next" /\ pc'[p] = IF batch[p] # <<>> THEN "upsert" ELSE "commit"
    BY <1>1 DEF LastRow, Leftover, Goto, LocalsOK
  <2>2. Sums(p)' /\ Uncleared(p)'
    BY <1>2, <2>1 DEF SumsOf, Own, Sums, Uncleared, Writing
  <2>3. Fits(p)'
    <3>1. batch[p] \in Rows
      BY KeysType
    <3>2. ASSUME batch[p] # <<>> PROVE Len(batch[p]) > 0 /\ Len(batch[p]) < Batchsize(dialect, 0, Columns)
      BY <2>1, <3>1, <3>2 DEF SumsOf, Own, Fits, Rows
    <3>3. ParamLimit[dialect] \in Nat
      BY <1>1, TypeParts, ParamLimitAssumption, HistoryAssumption DEF SharedOK
    <3>4. ASSUME batch[p] # <<>> PROVE Len(batch[p]) * Columns <= ParamLimit[dialect]
      BY <3>1, <3>2, <3>3, <3>4 DEF Batchsize, Columns, Rows
    <3>5. QED
      BY <1>2, <2>1, <3>2, <3>4 DEF Fits
  <2>4. QED
    BY <2>2, <2>3 DEF Own
<1>5. SharedSums'
  BY <1>2, SharedKept DEF SumsOf
<1>6. QED
  BY <1>3, <1>4, <1>5 DEF SumsOf

\* Touch takes a row.  If it is the first one of a repeatable migration, those of others
\* have all been taken, and the next row of one of them would inherit its checksum.
LEMMA NextRowSums ==
  ASSUME TypeOK, SumsOf, NEW p \in Procs, NextRow(p)
  PROVE  SumsOf'
<1>1. LocalsOK /\ SharedOK
  BY TypeParts
<1>2. UNCHANGED <<dialect, history, content, theirs, names, written, plan>>
  BY DEF NextRow, shared
<1>3. PICK i \in todo[p] :
        LET f == names[p][i]
            sum == IF f \in Repeatable THEN content[f] ELSE rowvalue[p]
            rows == Append(batch[p], [key |-> f, checksum |-> sum])
        IN /\ pc[p] = "next"
           /\ \A j \in todo[p] : Before(names[p], i, j)
           /\ rowvalue' = [rowvalue EXCEPT ![p] = sum]
           /\ batch' = [batch EXCEPT ![p] = rows]
           /\ todo' = [todo EXCEPT ![p] = @ \ {i}]
           /\ Goto(p, IF IsFull(rows, Batchsize(dialect, 0, Columns)) THEN "upsert" ELSE "next")
  BY DEF NextRow
<1> DEFINE f == names[p][i]
<1> DEFINE sum == IF f \in Repeatable THEN content[f] ELSE rowvalue[p]
<1> DEFINE row == [key |-> f, checksum |-> sum]
<1>4. ASSUME NEW q \in Procs, q # p PROVE Own(q)'
  <2>1. Same(q) /\ Grows
    BY <1>1, <1>2, <1>3, <1>4 DEF Same, Grows, Goto, LocalsOK
  <2>2. QED
    BY <2>1, SameOwn DEF SumsOf
<1>5. /\ rowvalue'[p] = sum /\ batch'[p] = Append(batch[p], row) /\ todo'[p] \subseteq todo[p]
      /\ pc'[p] = IF IsFull(batch'[p], Batchsize(dialect, 0, Columns)) THEN "upsert" ELSE "next"
  BY <1>1, <1>3 DEF Goto, LocalsOK
<1>6. f \in Files /\ sum \in theirs[f]
  <2>1. f \in Files /\ ChecksumOf(f) \in theirs[f]
    BY <1>1, RowType DEF SumsOf, SharedSums
  <2>2. ASSUME f \notin Repeatable PROVE rowvalue[p] = 0
    BY <2>2 DEF SumsOf, Own, Uncleared
  <2>3. QED
    BY <2>1, <2>2 DEF ChecksumOf
<1>7. Uncleared(p)'
  <2>1. ASSUME f \in Repeatable PROVE \A j \in todo[p] : names[p][j] \in Repeatable
    BY <1>3, <2>1 DEF Before
  <2>2. ASSUME f \notin Repeatable PROVE rowvalue[p] = 0
    BY <2>2 DEF SumsOf, Own, Uncleared
  <2>3. QED
    BY <1>2, <1>5, <2>1, <2>2 DEF Uncleared, Writing
<1>8. batch[p] \in Rows /\ row \in [key : Files, checksum : 0 .. MaxVersion]
  BY <1>1, RowType, KeysType
<1> HIDE DEF row
<1>9. /\ Len(batch'[p]) = Len(batch[p]) + 1 /\ batch'[p] # <<>> /\ Len(batch[p]) \in Nat
      /\ \A k \in DOMAIN batch'[p] :
           batch'[p][k] = row \/ (k \in DOMAIN batch[p] /\ batch'[p][k] = batch[p][k])
  <2>1. batch'[p] = Append(batch[p], row)
    BY <1>5
  <2>2. PICK S : batch[p] \in Seq(S) /\ row \in S
    BY <1>8 DEF Rows
  <2>3. QED
    BY <2>1, <2>2, Appended
<1>10. Sums(p)'
  <2>1. row.key = f /\ row.checksum = sum
    BY DEF row
  <2>2. \A k \in DOMAIN batch'[p] : batch'[p][k].checksum \in theirs[batch'[p][k].key]
    BY <1>6, <1>9, <2>1 DEF SumsOf, Own, Sums
  <2>3. QED
    BY <1>2, <2>2 DEF SumsOf, Own, Sums
<1>11. Fits(p)'
  <2> DEFINE size == Batchsize(dialect, 0, Columns)
  <2>1. ParamLimit[dialect] \in Nat /\ ParamLimit[dialect] >= Columns
    BY <1>1, ParamLimitAssumption, HistoryAssumption DEF SharedOK
  <2>2. size \in Int /\ size * Columns <= ParamLimit[dialect]
    BY <2>1 DEF Batchsize, Columns
  <2>3. Len(batch[p]) = 0 \/ Len(batch[p]) < size
    BY <1>3, <1>8 DEF SumsOf, Own, Fits, Rows
  <2> HIDE DEF size
  <2>4. ASSUME Len(batch'[p]) >= size PROVE Len(batch'[p]) * Columns <= ParamLimit[dialect]
    BY <1>9, <2>1, <2>2, <2>3 DEF Columns
  <2>5. QED
    BY <1>2, <1>5, <1>9, <2>2, <2>4 DEF Fits, IsFull, size
<1>12. SharedSums'
  BY <1>2, SharedKept DEF SumsOf
<1>13. QED
  BY <1>4, <1>7, <1>10, <1>11, <1>12 DEF SumsOf, Own

LEMMA UpsertSums ==
  ASSUME TypeOK, SumsOf, NEW p \in Procs, Upsert(p)
  PROVE  SumsOf'
<1>1. LocalsOK
  BY TypeParts
<1>2. UNCHANGED <<dialect, history, content, theirs, names, todo, rowvalue, plan>>
  BY DEF Upsert, shared
<1>3. PICK rows \in Upserts(dialect, batch[p]) :
        written' = [written EXCEPT ![p] =
                      [f \in DOMAIN @ \cup DOMAIN rows |->
                         IF f \in DOMAIN rows
                         THEN [valid |-> TRUE, checksum |-> rows[f].checksum, success |-> TRUE]
                         ELSE @[f]]]
  BY DEF Upsert
<1>4. ASSUME NEW q \in Procs, q # p PROVE Own(q)'
  <2>1. Same(q) /\ Grows
    BY <1>1, <1>2, <1>3, <1>4 DEF Upsert, Same, Grows, Goto, LocalsOK, MappingsOK
  <2>2. QED
    BY <2>1, SameOwn DEF SumsOf
<1>5. pc[p] = "upsert" /\ pc'[p] = "next" /\ batch'[p] = <<>>
  BY <1>1 DEF Upsert, RestRows, Goto, LocalsOK
<1>6. \A f \in DOMAIN written'[p] : written'[p][f].checksum \in theirs[f]
  <2> DEFINE more == [f \in DOMAIN written[p] \cup DOMAIN rows |->
                        IF f \in DOMAIN rows
                        THEN [valid |-> TRUE, checksum |-> rows[f].checksum, success |-> TRUE]
                        ELSE written[p][f]]
  <2>1. \A k \in DOMAIN rows : \E i \in DOMAIN batch[p] : batch[p][i].key = k /\ rows[k] = batch[p][i]
    BY KeysType, UpsertedRows
  <2>2. \A k \in DOMAIN rows : rows[k].checksum \in theirs[k]
    BY <2>1 DEF SumsOf, Own, Sums
  <2>3. \A f \in DOMAIN written[p] : written[p][f].checksum \in theirs[f]
    BY DEF SumsOf, Own, Sums
  <2>4. written'[p] = more
    BY <1>1, <1>3 DEF LocalsOK, MappingsOK
  <2>5. \A f \in DOMAIN more : more[f].checksum \in theirs[f]
    BY <2>2, <2>3
  <2>6. QED
    BY <2>4, <2>5
<1>7. Own(p)'
  <2>1. DOMAIN batch'[p] = {}
    BY <1>5
  <2>2. Sums(p)'
    BY <1>2, <1>6, <2>1 DEF SumsOf, Own, Sums
  <2>3. Uncleared(p)' /\ Fits(p)'
    BY <1>2, <1>5 DEF SumsOf, Own, Uncleared, Fits, Writing
  <2>4. QED
    BY <2>2, <2>3 DEF Own
<1>8. SharedSums'
  BY <1>2, SharedKept DEF SumsOf
<1>9. QED
  BY <1>4, <1>7, <1>8 DEF SumsOf

\* What migrate plans and what ls reads: checksums of files that there are, or rows.
LEMMA PlanSums ==
  ASSUME TypeOK, SumsOf, NEW p \in Procs, Read(p) \/ Select(p)
  PROVE  SumsOf'
<1>1. LocalsOK /\ SharedOK
  BY TypeParts
<1>2. /\ \E l \in {"apply", "print", "tableless"} : Goto(p, l)
      /\ pc[p] \in {"read", "select"}
      /\ UNCHANGED <<dialect, history, content, theirs, names, todo, rowvalue, batch, written>>
  BY DEF Read, Select, shared
<1>3. \A q \in Procs \ {p} : plan'[q] = plan[q]
  BY <1>1 DEF Read, Select, LocalsOK, MappingsOK
<1>4. \A f \in DOMAIN plan'[p] : plan'[p][f].checksum \in theirs[f]
  <2>1. ASSUME Read(p) PROVE \A f \in DOMAIN plan'[p] : plan'[p][f].checksum \in theirs[f]
    <3>1. PICK T \in SUBSET Files :
            plan'[p] = [f \in T |-> [valid |-> TRUE, checksum |-> ChecksumOf(f), success |-> TRUE]]
      BY <1>1, <2>1 DEF Read, LocalsOK, MappingsOK, Pending, Again
    <3>2. \A f \in T : ChecksumOf(f) \in theirs[f]
      BY DEF SumsOf, SharedSums
    <3>3. QED
      BY <3>1, <3>2
  <2>2. ASSUME Select(p) PROVE \A f \in DOMAIN plan'[p] : plan'[p][f].checksum \in theirs[f]
    <3>1. PICK S : /\ \A f \in S : f \in Files /\ history[f].valid
                   /\ plan'[p] = [f \in S |-> history[f]]
      <4>1. \A i \in todo[p] : names[p][i] \in Files
        BY <1>1, RowType
      <4>2. PICK S : /\ S \subseteq {g \in {names[p][i] : i \in todo[p]} : history[g].valid}
                     /\ plan'[p] = [f \in S |-> history[f]]
        BY <1>1, <2>2, ResultsType DEF Select, LocalsOK, MappingsOK
      <4>3. QED
        BY <4>1, <4>2
    <3>2. QED
      BY <3>1 DEF SumsOf, SharedSums, ChecksumsAreTheirs
  <2>3. QED
    BY <2>1, <2>2
<1>5. QED
  BY <1>2, <1>3, <1>4, EarlySums DEF Writing

LEMMA PrintLineSums ==
  ASSUME TypeOK, SumsOf, NEW p \in Procs, PrintLine(p)
  PROVE  SumsOf'
<1>1. LocalsOK
  BY TypeParts
<1>2. \A q \in Procs : todo'[q] \subseteq todo[q]
  BY <1>1 DEF PrintLine, LocalsOK
<1>3. Grows /\ \A q \in Procs : Same(q)
  BY <1>2 DEF PrintLine, Same, Grows, shared
<1>4. \A q \in Procs : Own(q)'
  BY <1>3, SameOwn DEF SumsOf
<1>5. SharedSums'
  BY SharedKept DEF SumsOf, PrintLine, shared
<1>6. QED
  BY <1>4, <1>5 DEF SumsOf

LEMMA PrintMissingSums ==
  ASSUME TypeOK, SumsOf, NEW p \in Procs, PrintMissing(p)
  PROVE  SumsOf'
<1>1. /\ Goto(p, "printed") /\ pc[p] \notin Writing
      /\ UNCHANGED <<dialect, history, content, theirs, names, todo, rowvalue, batch, written, plan>>
  BY DEF PrintMissing, Writing, shared
<1>2. QED
  BY <1>1, EarlySums

\* A change of the history by a command that ends.
LEMMA ChangeSums ==
  ASSUME TypeOK, SumsOf, NEW p \in Procs, End(p), UNCHANGED <<dialect, content>>,
         Grows, ChecksumsAreTheirs'
  PROVE  SumsOf'
<1>1. \A q \in Procs : Own(q)'
  BY EndOwn DEF SumsOf
<1>2. \A f \in Files : ChecksumOf(f)' = ChecksumOf(f)
  BY DEF ChecksumOf
<1>3. \A f \in Files : ChecksumOf(f)' \in theirs'[f]
  BY <1>2 DEF SumsOf, SharedSums, Grows
<1>4. QED
  BY <1>1, <1>3 DEF SumsOf, SharedSums

LEMMA CommitSums ==
  ASSUME TypeOK, SumsOf, NEW p \in Procs, Commit(p)
  PROVE  SumsOf'
<1>1. history' = Overwritten(history, written[p]) /\ UNCHANGED <<dialect, theirs, content>> /\ End(p)
  BY DEF Commit, EndDisturbing
<1>2. ChecksumsAreTheirs'
  BY <1>1 DEF Overwritten, SumsOf, SharedSums, Own, Sums, ChecksumsAreTheirs
<1>3. QED
  BY <1>1, <1>2, ChangeSums DEF Grows

LEMMA DeleteSums ==
  ASSUME TypeOK, SumsOf, NEW p \in Procs, Delete(p)
  PROVE  SumsOf'
<1>1. /\ history' = [f \in Files |-> IF f \in Named(p) THEN NoRow ELSE history[f]]
      /\ UNCHANGED <<dialect, theirs, content>> /\ End(p)
  BY DEF Delete, EndDisturbing, Overwritten
<1>2. ChecksumsAreTheirs'
  BY <1>1 DEF NoRow, SumsOf, SharedSums, ChecksumsAreTheirs
<1>3. QED
  BY <1>1, <1>2, ChangeSums DEF Grows

LEMMA RenameSums ==
  ASSUME TypeOK, SumsOf, NEW p \in Procs, Rename(p)
  PROVE  SumsOf'
<1> DEFINE src == names[p][1]
<1> DEFINE dest == names[p][2]
<1>1. SharedOK /\ LocalsOK
  BY TypeParts
<1>2. src \in Files /\ dest \in Files
  <2>1. names[p] \in Seq(Files) /\ PositionsOK
    BY <1>1 DEF LocalsOK
  <2>2. Len(names[p]) = 2
    BY <2>1 DEF PositionsOK, Rename
  <2>3. QED
    BY <2>1, <2>2
<1>3. /\ history[src].valid
      /\ history' = [f \in Files |-> IF f \in {src, dest}
                                     THEN IF f = dest THEN history[src] ELSE NoRow
                                     ELSE history[f]]
      /\ theirs' = [theirs EXCEPT ![dest] = @ \cup theirs[src]]
      /\ UNCHANGED <<dialect, content>> /\ End(p)
  BY DEF Rename, EndDisturbing, Overwritten
<1>4. Grows /\ theirs[src] \subseteq theirs'[dest]
  BY <1>1, <1>2, <1>3 DEF Grows, SharedOK
<1>5. ChecksumsAreTheirs'
  BY <1>2, <1>3, <1>4 DEF NoRow, Grows, SumsOf, SharedSums, ChecksumsAreTheirs
<1>6. QED
  BY <1>3, <1>4, <1>5, ChangeSums

LEMMA ApplySums ==
  ASSUME TypeOK, SumsOf, NEW p \in Procs, Apply(p)
  PROVE  SumsOf'
<1>1. LocalsOK
  BY TypeParts
<1>2. PICK S \in SUBSET DOMAIN plan[p], ok \in BOOLEAN :
        history' = [f \in Files |-> IF f \in S THEN [plan[p][f] EXCEPT !.success = ok] ELSE history[f]]
  BY DEF Apply, Overwritten
<1>3. \A f \in S : [plan[p][f] EXCEPT !.success = ok].checksum = plan[p][f].checksum
  BY <1>1 DEF LocalsOK, MappingsOK, IsMapping, Row
<1>4. \A f \in Files : history'[f].valid => history'[f].checksum \in theirs[f]
  BY <1>2, <1>3 DEF SumsOf, SharedSums, Own, Sums, ChecksumsAreTheirs
<1>5. UNCHANGED <<dialect, theirs, content>> /\ End(p)
  BY DEF Apply, EndDisturbing
<1>6. QED
  BY <1>4, <1>5, ChangeSums DEF Grows, ChecksumsAreTheirs

LEMMA EditSums ==
  ASSUME TypeOK, SumsOf, NEW f \in Edited, Edit(f)
  PROVE  SumsOf'
<1>1. SharedOK /\ f \in Files
  BY TypeParts, HistoryAssumption
<1>2. PICK v \in 0 .. MaxVersion :
        /\ content' = [content EXCEPT ![f] = v]
        /\ theirs' = [theirs EXCEPT ![f] = IF f \in Repeatable THEN @ \cup {v} ELSE @]
  BY DEF Edit
<1>3. UNCHANGED <<dialect, history, pc, names, todo, rowvalue, batch, written, plan>>
  BY DEF Edit, locals
<1>4. Grows /\ \A q \in Procs : Same(q)
  BY <1>1, <1>2, <1>3 DEF Grows, Same, SharedOK
<1>5. \A q \in Procs : Own(q)'
  BY <1>4, SameOwn DEF SumsOf
<1>6. ChecksumsAreTheirs'
  BY <1>3, <1>4 DEF Grows, SumsOf, SharedSums, ChecksumsAreTheirs
<1>7. \A g \in Files : ChecksumOf(g)' \in theirs'[g]
  BY <1>1, <1>2, <1>4 DEF ChecksumOf, Grows, SumsOf, SharedSums, SharedOK
<1>8. QED
  BY <1>5, <1>6, <1>7 DEF SumsOf, SharedSums

LEMMA StepSums ==
  ASSUME TypeOK, SumsOf, NEW p \in Procs, Step(p) \/ Fail(p)
  PROVE  SumsOf'
<1>1. ASSUME \/ CreateFails(p) \/ FileMissing(p) \/ OpenFails(p) \/ UpsertFails(p) \/ Victim(p)
             \/ NothingToChange(p) \/ RenameNothing(p) \/ SelectFails(p) \/ PrintFails(p)
             \/ LsEnds(p) \/ Fail(p)
      PROVE  SumsOf'
  <2>1. EndQuietly(p) /\ UNCHANGED <<dialect, shared>>
    BY <1>1 DEF CreateFails, FileMissing, OpenFails, UpsertFails, Victim, NothingToChange,
       RenameNothing, SelectFails, PrintFails, LsEnds, Fail
  <2>2. QED
    BY <2>1, QuietEndSums
<1>2. ASSUME Ensure(p) \/ Create(p) \/ LookUp(p) PROVE SumsOf'
  <2>1. /\ \E l \in {"list", "create", "delete", "rename"} : Goto(p, l)
        /\ pc[p] \notin Writing /\ UNCHANGED <<dialect, history, content, theirs, locals>>
    BY <1>2 DEF Ensure, Create, LookUp, Writing, shared
  <2>2. QED
    BY <2>1, OnlyMovesSums
<1>3. QED
  BY <1>1, <1>2, ListedSums, NextRowSums, LastRowSums, UpsertSums, CommitSums, DeleteSums,
     RenameSums, PlanSums, ApplySums, PrintLineSums, PrintMissingSums DEF Step, Touches, Changes, Lists

LEMMA InitSums == Init => SumsOf
<1>1. SUFFICES ASSUME Init PROVE SumsOf
  OBVIOUS
<1>2. SharedSums
  <2>1. history \in [Files -> Row] /\ \A f \in Files \ Repeatable : history[f].checksum = 0
    BY <1>1, HistoryAssumption DEF Init
  <2>2. QED
    BY <1>1, <2>1 DEF Init, SharedSums, ChecksumsAreTheirs, ChecksumOf
<1>3. ASSUME NEW p \in Procs PROVE Own(p)
  <2>1. /\ pc[p] = "idle" /\ rowvalue[p] = 0 /\ batch[p] = <<>>
        /\ written[p] = Nothing /\ plan[p] = Nothing
    BY <1>1 DEF Init
  <2>2. DOMAIN batch[p] = {}
    BY <2>1
  <2>3. QED
    BY <2>1, <2>2, NothingIsMapping DEF Own, Sums, Uncleared, Fits
<1>4. QED
  BY <1>2, <1>3 DEF SumsOf

LEMMA SumsStep == TypeOK /\ SumsOf /\ [Next]_vars => SumsOf'
<1>1. SUFFICES ASSUME TypeOK, SumsOf, [Next]_vars PROVE SumsOf'
  OBVIOUS
<1>2. ASSUME UNCHANGED vars PROVE SumsOf'
  <2>1. UNCHANGED <<dialect, history, content, theirs, pc, names, todo, rowvalue, batch, written, plan>>
    BY <1>2 DEF vars, shared, locals
  <2>2. Grows /\ \A q \in Procs : Same(q)
    BY <2>1 DEF Grows, Same
  <2>3. QED
    BY <1>1, <2>1, <2>2, SameOwn, SharedKept DEF SumsOf
<1>3. QED
  BY <1>1, <1>2, BeginsSums, StepSums, EditSums DEF Next

LEMMA SumsHold == Spec => [](TypeOK /\ SumsOf)
<1>1. Init => TypeOK /\ SumsOf
  BY InitType, InitSums
<1>2. TypeOK /\ SumsOf /\ [Next]_vars => TypeOK' /\ SumsOf'
  BY TypeStep, SumsStep
<1>3. QED
  BY <1>1, <1>2, PTL DEF Spec

\* No file's row gets the checksum of another file, or of a content that it never had,
\* however touch, mv and migrate of several processes and the edits of users interleave.
THEOREM HistoryChecksumsAreTheirs == Spec => []ChecksumsAreTheirs
<1>1. TypeOK /\ SumsOf => ChecksumsAreTheirs
  BY DEF SumsOf, SharedSums
<1>2. QED
  BY <1>1, SumsHold, PTL

\* No statement of touch has more parameters than the database takes, however many files
\* there are and whatever the limit of the dialect is, if one row fits.
THEOREM HistoryStatementsFit == Spec => []StatementsFit
<1>1. TypeOK /\ SumsOf => StatementsFit
  BY DEF SumsOf, Own, Fits, StatementsFit
<1>2. QED
  BY <1>1, SumsHold, PTL
(***************************************************************************)
(* What ls shows and touch leaves, if nobody interferes                    *)
(***************************************************************************)

\* The directory is walked as a whole.
WalksAll == \A f \in Files : \E i \in DOMAIN Lexical : Lexical[i] = f

\* The positions in a of the migrations that there are files of.
ToDo(a) == {i \in Migrations(a) : content[a[i]] # 0}

\* Rows are of a table, and it is never dropped.
TableInv ==
  /\ \A f \in Files : history[f].valid => tableExists
  /\ \A p \in Procs :
       pc[p] \in {"list", "next", "upsert", "commit", "apply", "print"} => tableExists

\* What ls has read still holds, and of each file that is not left to be shown there is the
\* line that it would get now; when it is done, there are lines of other rows besides.
Looking == {"print", "tableless"}

Listed == {Lexical[i] : i \in ToDo(Lexical)}

ReadRows(p) ==
  /\ DOMAIN plan[p] \subseteq {f \in Listed : history[f].valid}
  /\ \A f \in DOMAIN plan[p] : plan[p][f] = history[f]

Lines(p, S) == {<<Status(p, Lexical[i]), Lexical[i]>> : i \in S}

Looks(p) ==
  /\ pc[p] \notin Looking \cup {"printed"} => shown[p] = {}
  /\ quiet[p] /\ pc[p] = "select" => names[p] = Lexical /\ todo[p] = ToDo(Lexical)
  /\ quiet[p] /\ pc[p] \in Looking =>
       /\ names[p] = Lexical /\ todo[p] \subseteq ToDo(Lexical)
       /\ ReadRows(p)
       /\ shown[p] = Lines(p, ToDo(Lexical) \ todo[p])
  /\ quiet[p] /\ pc[p] = "printed" =>
       /\ ReadRows(p)
       /\ \E S : /\ S \cap Listed = {}
               /\ shown[p] = Lines(p, ToDo(Lexical)) \cup {<<"missing", f>> : f \in S}

\* What touch has taken is in its batch or in its transaction, with the checksum of the file.
Adopts(p) ==
  quiet[p] /\ pc[p] \in Writing =>
    /\ \A i \in ToDo(names[p]) \ todo[p] :
         names[p][i] \in KeysOf(batch[p]) \cup DOMAIN written[p]
    /\ \A i \in DOMAIN batch[p] :
         batch[p][i].key \in Repeatable => batch[p][i].checksum = content[batch[p][i].key]
    /\ \A f \in DOMAIN written[p] :
         /\ written[p][f].valid /\ written[p][f].success
         /\ f \in Repeatable => written[p][f].checksum = content[f]
    /\ pc[p] = "commit" => todo[p] = {} /\ batch[p] = <<>>

QuietInv ==
  /\ TableInv
  /\ DOMAIN shown = Procs
  /\ \A p \in Procs : Looks(p) /\ Adopts(p)

\* What a step of one process leaves alone of another one.
Unseen(p) ==
  /\ pc'[p] = pc[p] /\ names'[p] = names[p] /\ todo'[p] = todo[p] /\ batch'[p] = batch[p]
  /\ written'[p] = written[p] /\ plan'[p] = plan[p] /\ shown'[p] = shown[p]
  /\ quiet'[p] => quiet[p] /\ UNCHANGED <<tableExists, history, content>>

LEMMA OthersUnseen ==
  ASSUME TypeOK, NEW p \in Procs, NEW q \in Procs, p # q, Begins(q) \/ Step(q) \/ Fail(q)
  PROVE  Unseen(p)
<1>1. LocalsOK
  BY TypeParts
<1>2. ASSUME End(q), quiet'[p] => quiet[p] /\ UNCHANGED <<tableExists, history, content>>
      PROVE  Unseen(p)
  BY <1>1, <1>2 DEF End, Rollback, Goto, LocalsOK, MappingsOK, Unseen
<1>3. ASSUME EndQuietly(q), UNCHANGED shared PROVE Unseen(p)
  BY <1>1, <1>2, <1>3 DEF EndQuietly, shared, LocalsOK, Unseen
<1>4. ASSUME EndDisturbing(q) PROVE Unseen(p)
  BY <1>2, <1>4 DEF EndDisturbing
<1>5. ASSUME Begins(q) PROVE Unseen(p)
  BY <1>1, <1>5 DEF Begins, Touch, Rm, Mv, Ls, Migrate, Start, Goto, shared, LocalsOK, Unseen
<1>6. ASSUME \/ CreateFails(q) \/ FileMissing(q) \/ OpenFails(q) \/ UpsertFails(q) \/ Victim(q)
             \/ NothingToChange(q) \/ RenameNothing(q) \/ SelectFails(q) \/ PrintFails(q)
             \/ LsEnds(q) \/ Fail(q)
      PROVE  Unseen(p)
  <2>1. EndQuietly(q) /\ UNCHANGED shared
    BY <1>6 DEF CreateFails, FileMissing, OpenFails, UpsertFails, Victim, NothingToChange,
       RenameNothing, SelectFails, PrintFails, LsEnds, Fail, shared
  <2>2. QED
    BY <1>3, <2>1
<1>7. ASSUME Commit(q) \/ Delete(q) \/ Rename(q) \/ Apply(q) PROVE Unseen(p)
  <2>1. EndDisturbing(q)
    BY <1>7 DEF Commit, Delete, Rename, Apply
  <2>2. QED
    BY <1>4, <2>1
<1>8. ASSUME Ensure(q) \/ LastRow(q) \/ LookUp(q) PROVE Unseen(p)
  BY <1>1, <1>8 DEF Ensure, LastRow, LookUp, Goto, locals, shared, LocalsOK, Unseen
<1>9. ASSUME Create(q) PROVE Unseen(p)
  BY <1>1, <1>9 DEF Create, Disturb, Goto, locals, LocalsOK, Unseen
<1>10. ASSUME List(q) \/ Walk(q) PROVE Unseen(p)
  BY <1>1, <1>10 DEF List, Walk, Goto, shared, LocalsOK, Unseen
<1>11. ASSUME NextRow(q) PROVE Unseen(p)
  BY <1>1, <1>11 DEF NextRow, Goto, shared, LocalsOK, Unseen
<1>12. ASSUME Upsert(q) PROVE Unseen(p)
  BY <1>1, <1>12 DEF Upsert, Goto, shared, LocalsOK, MappingsOK, Unseen
<1>13. ASSUME Read(q) PROVE Unseen(p)
  <2>1. /\ pc'[p] = pc[p] /\ plan'[p] = plan[p] /\ UNCHANGED <<names, todo, batch, written, shown>>
        /\ UNCHANGED <<history, content>>
    BY <1>1, <1>13 DEF Read, Goto, LocalsOK, MappingsOK
  <2>2. quiet'[p] => quiet[p] /\ tableExists' = tableExists
    BY <1>1, <1>13 DEF Read, Disturb, LocalsOK, TypeOK
  <2>3. QED
    BY <2>1, <2>2 DEF Unseen
<1>14. ASSUME Select(q) PROVE Unseen(p)
  <2>1. pc'[p] = pc[p] /\ UNCHANGED <<tableExists, history, content, names, todo, batch, written, shown, quiet>>
    BY <1>1, <1>14 DEF Select, Goto, shared, LocalsOK
  <2>2. plan'[p] = plan[p]
    BY <1>1, <1>14 DEF Select, LocalsOK, MappingsOK
  <2>3. QED
    BY <2>1, <2>2 DEF Unseen
<1>15. ASSUME PrintLine(q) \/ PrintMissing(q) PROVE Unseen(p)
  <2>1. CASE PrintLine(q)
    BY <1>1, <2>1 DEF PrintLine, shared, LocalsOK, Unseen
  <2>2. CASE PrintMissing(q)
    <3>1. PICK g : shown' = [shown EXCEPT ![q] = g]
      BY <2>2 DEF PrintMissing
    <3>2. shown'[p] = shown[p]
      BY <3>1
    <3>3. pc'[p] = pc[p]
      BY <1>1, <2>2 DEF PrintMissing, Goto, LocalsOK
    <3>4. QED
      BY <2>2, <3>2, <3>3 DEF PrintMissing, shared, Unseen
  <2>3. QED
    BY <1>15, <2>1, <2>2
<1>16. QED
  BY <1>5, <1>6, <1>7, <1>8, <1>9, <1>10, <1>11, <1>12, <1>13, <1>14, <1>15
     DEF Step, Touches, Changes, Lists

(* The table *)

\* Commands that have the table, or are about to.
Tabled == {"list", "next", "upsert", "commit", "apply", "print"}

LEMMA TableStays ==
  ASSUME TypeOK, [Next]_vars, tableExists
  PROVE  tableExists'
<1>1. ASSUME NEW p \in Procs, Begins(p) PROVE tableExists'
  BY <1>1 DEF Begins, Touch, Rm, Mv, Ls, Migrate, Start, shared
<1>2. ASSUME NEW p \in Procs, Touches(p) \/ Fail(p) PROVE tableExists'
  BY <1>2 DEF Touches, Fail, Ensure, Create, CreateFails, List, FileMissing, NextRow, OpenFails,
     LastRow, Upsert, UpsertFails, Victim, Commit, shared
<1>3. ASSUME NEW p \in Procs, Changes(p) PROVE tableExists'
  BY <1>3 DEF Changes, LookUp, NothingToChange, Delete, Rename, RenameNothing, Read, Apply, shared
<1>4. ASSUME NEW p \in Procs, Lists(p) PROVE tableExists'
  BY <1>4 DEF Lists, Walk, Select, SelectFails, PrintLine, PrintFails, PrintMissing, LsEnds, shared
<1>5. ASSUME (\E f \in Edited : Edit(f)) \/ UNCHANGED vars PROVE tableExists'
  BY <1>5 DEF Edit, vars, shared
<1>6. QED
  BY <1>1, <1>2, <1>3, <1>4, <1>5 DEF Next, Step

\* Where the step of a command leads.
LEMMA TabledStep ==
  ASSUME TypeOK, TableInv, NEW p \in Procs, Begins(p) \/ Step(p) \/ Fail(p), pc'[p] \in Tabled
  PROVE  tableExists'
<1>1. LocalsOK
  BY TypeParts
<1>2. TypeOK /\ [Next]_vars
  BY DEF Next
<1>3. CASE pc[p] \in Tabled
  BY <1>2, <1>3, TableStays DEF TableInv, Tabled
<1>4. ASSUME End(p) PROVE FALSE
  BY <1>1, <1>4 DEF End, Goto, LocalsOK, Tabled
<1>5. ASSUME Begins(p) PROVE FALSE
  BY <1>1, <1>5 DEF Begins, Touch, Rm, Mv, Ls, Migrate, Start, Goto, LocalsOK, Tabled
<1>6. ASSUME pc[p] \notin Tabled, Touches(p) \/ Fail(p) PROVE tableExists'
  <2>1. Ensure(p) \/ Create(p)
    BY <1>4, <1>6 DEF Touches, Fail, CreateFails, List, FileMissing, NextRow, OpenFails, LastRow, Upsert,
       UpsertFails, Victim, Commit, EndQuietly, EndDisturbing, Tabled
  <2>2. QED
    BY <1>1, <2>1 DEF Ensure, Create, Goto, LocalsOK, Tabled, shared
<1>7. ASSUME Changes(p) PROVE tableExists'
  <2>1. LookUp(p) \/ Read(p)
    BY <1>4, <1>7 DEF Changes, NothingToChange, Delete, Rename, RenameNothing, Apply,
       EndQuietly, EndDisturbing
  <2>2. QED
    BY <1>1, <2>1 DEF LookUp, Read, Goto, LocalsOK, Tabled
<1>8. ASSUME pc[p] \notin Tabled, Lists(p) PROVE tableExists'
  <2>1. Walk(p) \/ Select(p) \/ PrintLine(p) \/ PrintMissing(p)
    BY <1>4, <1>8 DEF Lists, SelectFails, PrintFails, LsEnds, EndQuietly
  <2>2. QED
    BY <1>1, <1>8, <2>1 DEF Walk, Select, PrintLine, PrintMissing, Goto, LocalsOK, Tabled, shared
<1>9. QED
  BY <1>3, <1>5, <1>6, <1>7, <1>8 DEF Step

\* Whose rows there are.
LEMMA RowsStep ==
  ASSUME TypeOK, TableInv, [Next]_vars, NEW f \in Files, history'[f].valid
  PROVE  tableExists'
<1>1. SUFFICES ASSUME ~tableExists PROVE FALSE
  BY TableStays
<1>2. \A g \in Files : ~history[g].valid
  BY <1>1 DEF TableInv
<1>3. ASSUME NEW p \in Procs, Commit(p) \/ Apply(p) PROVE FALSE
  BY <1>1, <1>3 DEF Commit, Apply, TableInv
<1>4. ASSUME NEW p \in Procs, Delete(p) PROVE FALSE
  BY <1>2, <1>4 DEF Delete, Overwritten, NoRow
<1>5. ASSUME NEW p \in Procs, Rename(p) PROVE FALSE
  <2>1. names[p] \in Seq(Files) /\ Len(names[p]) = 2
    BY <1>5 DEF TypeOK, Rename
  <2>2. names[p][1] \in Files
    BY <2>1
  <2>3. QED
    BY <1>2, <1>5, <2>2 DEF Rename
<1>6. ASSUME UNCHANGED history PROVE FALSE
  BY <1>2, <1>6
<1>7. ASSUME NEW p \in Procs, Begins(p) PROVE UNCHANGED history
  BY <1>7 DEF Begins, Touch, Rm, Mv, Ls, Migrate, Start, shared
<1>8. ASSUME NEW p \in Procs, Touches(p) \/ Fail(p), ~Commit(p) PROVE UNCHANGED history
  BY <1>8 DEF Touches, Fail, Ensure, Create, CreateFails, List, FileMissing, NextRow, OpenFails,
     LastRow, Upsert, UpsertFails, Victim, shared
<1>9. ASSUME NEW p \in Procs, LookUp(p) \/ NothingToChange(p) \/ RenameNothing(p) \/ Read(p)
      PROVE  UNCHANGED history
  BY <1>9 DEF LookUp, NothingToChange, RenameNothing, Read, shared
<1>10. ASSUME NEW p \in Procs, Lists(p) PROVE UNCHANGED history
  BY <1>10 DEF Lists, Walk, Select, SelectFails, PrintLine, PrintFails, PrintMissing, LsEnds, shared
<1>11. ASSUME (\E g \in Edited : Edit(g)) \/ UNCHANGED vars PROVE UNCHANGED history
  BY <1>11 DEF Edit, vars, shared
<1>12. QED
  BY <1>3, <1>4, <1>5, <1>6, <1>7, <1>8, <1>9, <1>10, <1>11 DEF Next, Step, Changes

LEMMA TableStep ==
  ASSUME TypeOK, TableInv, [Next]_vars
  PROVE  TableInv'
<1>1. \A f \in Files : history'[f].valid => tableExists'
  BY RowsStep
<1>2. ASSUME NEW p \in Procs, pc'[p] \in Tabled PROVE tableExists'
  <2>1. CASE pc[p] = pc'[p]
    BY <1>2, <2>1, TableStays DEF TableInv, Tabled
  <2>2. CASE pc[p] # pc'[p]
    <3>1. ~((\E f \in Edited : Edit(f)) \/ UNCHANGED vars)
      BY <2>2 DEF Edit, vars
    <3>2. PICK q \in Procs : Begins(q) \/ Step(q) \/ Fail(q)
      BY <3>1 DEF Next
    <3>3. p = q
      BY <2>2, <3>2, OthersUnseen DEF Unseen
    <3>4. QED
      BY <1>2, <3>2, <3>3, TabledStep
  <2>3. QED
    BY <2>1, <2>2
<1>3. QED
  BY <1>1, <1>2 DEF TableInv, Tabled

LEMMA UnseenKeeps ==
  ASSUME NEW p \in Procs, Unseen(p), Looks(p), Adopts(p)
  PROVE  Looks(p)' /\ Adopts(p)'
<1>1. ASSUME quiet'[p]
      PROVE  /\ \A a : ToDo(a)' = ToDo(a)
             /\ \A f : Status(p, f)' = Status(p, f)
             /\ quiet[p] /\ UNCHANGED <<tableExists, history, content>>
  BY <1>1 DEF Unseen, ToDo, Migrations, Status
<1>2. Looks(p)'
  <2>1. pc'[p] \notin Looking \cup {"printed"} => shown'[p] = {}
    BY DEF Unseen, Looks
  <2>2. ASSUME quiet'[p], pc'[p] = "select" PROVE names'[p] = Lexical /\ todo'[p] = ToDo(Lexical)'
    BY <1>1, <2>2 DEF Unseen, Looks
  <2>3. ASSUME quiet'[p]
        PROVE  /\ Listed' = Listed /\ (ReadRows(p) => ReadRows(p)')
               /\ \A S : Lines(p, S)' = Lines(p, S)
    BY <1>1, <2>3 DEF Unseen, Listed, ReadRows, Lines
  <2>4. ASSUME quiet'[p], pc'[p] \in Looking
        PROVE  /\ names'[p] = Lexical /\ todo'[p] \subseteq ToDo(Lexical)'
               /\ ReadRows(p)'
               /\ shown'[p] = Lines(p, ToDo(Lexical) \ todo[p])'
    BY <1>1, <2>3, <2>4 DEF Unseen, Looks
  <2>5. ASSUME quiet'[p], pc'[p] = "printed"
        PROVE  /\ ReadRows(p)'
               /\ \E S : /\ S \cap Listed' = {}
                       /\ shown'[p] = Lines(p, ToDo(Lexical))' \cup {<<"missing", f>> : f \in S}
    <3>1. /\ ReadRows(p)
          /\ \E S : /\ S \cap Listed = {}
                  /\ shown[p] = Lines(p, ToDo(Lexical)) \cup {<<"missing", f>> : f \in S}
      BY <1>1, <2>5 DEF Unseen, Looks
    <3>2. Lines(p, ToDo(Lexical))' = Lines(p, ToDo(Lexical)) /\ shown'[p] = shown[p]
      BY <1>1, <2>5 DEF Unseen, Lines
    <3>3. QED
      BY <2>3, <2>5, <3>1, <3>2
  <2>6. QED
    BY <2>1, <2>2, <2>4, <2>5 DEF Looks
<1>3. Adopts(p)'
  BY <1>1 DEF Unseen, Adopts, KeysOf
<1>4. QED
  BY <1>2, <1>3

(* ls *)

\* What ends, or has begun.
LEMMA NotLooking ==
  ASSUME NEW p \in Procs, shown'[p] = {}, pc'[p] \notin Looking \cup {"select", "printed"}
  PROVE  Looks(p)'
  BY DEF Looks

LEMMA EndLooks ==
  ASSUME TypeOK, DOMAIN shown = Procs, NEW p \in Procs, End(p)
  PROVE  Looks(p)'
<1>1. pc'[p] = "idle" /\ shown'[p] = {}
  BY DEF End, Goto, TypeOK
<1>2. QED
  BY <1>1, NotLooking DEF Looking

LEMMA WalkLooks ==
  ASSUME TypeOK, NEW p \in Procs, Looks(p), Walk(p)
  PROVE  Looks(p)'
<1>1. /\ pc'[p] = "select" /\ names'[p] = Lexical /\ todo'[p] = ToDo(Lexical)
      /\ shown' = shown /\ content' = content /\ pc[p] = "walk"
  BY DEF Walk, Goto, TypeOK, shared, ToDo
<1>2. ToDo(Lexical)' = ToDo(Lexical)
  BY <1>1 DEF ToDo, Migrations
<1>3. QED
  BY <1>1, <1>2 DEF Looks, Looking

LEMMA SelectLooks ==
  ASSUME TypeOK, NEW p \in Procs, Looks(p), Select(p)
  PROVE  Looks(p)'
<1>1. /\ pc'[p] = IF tableExists THEN "print" ELSE "tableless"
      /\ UNCHANGED <<names, todo, shown, quiet, content, history>> /\ pc[p] = "select"
  BY DEF Select, Goto, TypeOK, shared
<1>2. PICK S : /\ S \subseteq {f \in {names[p][i] : i \in todo[p]} : history[f].valid}
               /\ plan'[p] = [f \in S |-> history[f]]
  BY ResultsType DEF Select, TypeOK
<1>3. ToDo(Lexical)' = ToDo(Lexical) /\ shown'[p] = {}
  BY <1>1 DEF ToDo, Migrations, Looks, Looking
<1>4. pc'[p] \in Looking /\ pc'[p] \notin {"select", "printed"}
  BY <1>1 DEF Looking
<1>5. ASSUME quiet'[p]
      PROVE  /\ names'[p] = Lexical /\ todo'[p] \subseteq ToDo(Lexical)'
             /\ ReadRows(p)'
             /\ shown'[p] = Lines(p, ToDo(Lexical) \ todo[p])'
  <2>1. names[p] = Lexical /\ todo[p] = ToDo(Lexical)
    BY <1>1, <1>5 DEF Looks
  <2>2. ToDo(Lexical)' \ todo'[p] = {} /\ Listed' = {names[p][i] : i \in todo[p]}
    BY <1>1, <1>3, <2>1 DEF Listed
  <2>3. ReadRows(p)'
    BY <1>1, <1>2, <2>2 DEF ReadRows
  <2>4. Lines(p, ToDo(Lexical) \ todo[p])' = {}
    BY <2>2 DEF Lines
  <2>5. QED
    BY <1>1, <1>3, <2>1, <2>3, <2>4
<1>6. QED
  BY <1>4, <1>5 DEF Looks

LEMMA PrintLineLooks ==
  ASSUME TypeOK, DOMAIN shown = Procs, NEW p \in Procs, Looks(p), PrintLine(p)
  PROVE  Looks(p)'
<1>1. PICK i \in todo[p] :
        /\ shown' = [shown EXCEPT ![p] = @ \cup {<<Status(p, names[p][i]), names[p][i]>>}]
        /\ todo' = [todo EXCEPT ![p] = @ \ {i}]
  BY DEF PrintLine
<1>2. /\ shown'[p] = shown[p] \cup {<<Status(p, names[p][i]), names[p][i]>>}
      /\ todo'[p] = todo[p] \ {i} /\ pc[p] \in Looking
      /\ UNCHANGED <<names, plan, quiet, content, history, pc>>
  BY <1>1 DEF PrintLine, TypeOK, shared, Looking
<1>3. /\ ToDo(Lexical)' = ToDo(Lexical) /\ (ReadRows(p) => ReadRows(p)')
      /\ \A S : Lines(p, S)' = Lines(p, S)
  BY <1>2 DEF ToDo, Migrations, Status, Listed, ReadRows, Lines
<1>4. ASSUME quiet[p]
      PROVE  /\ names[p] = Lexical /\ todo'[p] \subseteq ToDo(Lexical)
             /\ ReadRows(p)
             /\ shown'[p] = Lines(p, ToDo(Lexical) \ todo'[p])
  <2>1. /\ names[p] = Lexical /\ todo[p] \subseteq ToDo(Lexical)
        /\ ReadRows(p)
        /\ shown[p] = Lines(p, ToDo(Lexical) \ todo[p])
    BY <1>2, <1>4 DEF Looks
  <2>2. ToDo(Lexical) \ todo'[p] = (ToDo(Lexical) \ todo[p]) \cup {i}
    BY <1>2, <2>1
  <2>3. shown'[p] = Lines(p, ToDo(Lexical) \ todo'[p])
    BY <1>2, <2>1, <2>2 DEF Lines
  <2>4. QED
    BY <1>2, <2>1, <2>3
<1>5. pc'[p] \in Looking /\ pc'[p] \notin {"select", "printed"}
  BY <1>2 DEF Looking
<1>6. Lines(p, ToDo(Lexical) \ todo[p])' = Lines(p, ToDo(Lexical) \ todo'[p])
  BY <1>2, <1>3 DEF Lines, Status
<1>7. QED
  BY <1>2, <1>3, <1>4, <1>5, <1>6 DEF Looks

LEMMA PrintMissingLooks ==
  ASSUME TypeOK, DOMAIN shown = Procs, NEW p \in Procs, Looks(p), PrintMissing(p)
  PROVE  Looks(p)'
<1>1. PICK S \in SUBSET Missing(p) : shown'[p] = shown[p] \cup {<<"missing", f>> : f \in S}
  BY ResultsType DEF PrintMissing
<1>2. /\ pc[p] \in Looking /\ todo[p] = {} /\ pc'[p] = "printed"
      /\ UNCHANGED <<names, plan, quiet, content, history>>
  BY DEF PrintMissing, Looking, Goto, TypeOK, shared
<1>3. /\ Listed' = Listed /\ (ReadRows(p) => ReadRows(p)')
      /\ Lines(p, ToDo(Lexical))' = Lines(p, ToDo(Lexical))
  BY <1>2 DEF ToDo, Migrations, Status, Listed, ReadRows, Lines
<1>4. ASSUME quiet[p]
      PROVE  ReadRows(p) /\ shown[p] = Lines(p, ToDo(Lexical)) /\ S \cap Listed = {}
  <2>1. ReadRows(p) /\ shown[p] = Lines(p, ToDo(Lexical) \ todo[p])
    BY <1>2, <1>4 DEF Looks
  <2>2. shown[p] = Lines(p, ToDo(Lexical))
    BY <1>2, <2>1
  <2>3. \A i \in ToDo(Lexical) :
          /\ <<Status(p, Lexical[i]), Lexical[i]>> \in shown[p]
          /\ <<Status(p, Lexical[i]), Lexical[i]>>[2] = Lexical[i]
    BY <2>2 DEF Lines
  <2>4. Listed \subseteq {line[2] : line \in shown[p]}
    BY <2>3 DEF Listed
  <2>5. QED
    BY <2>1, <2>2, <2>4 DEF Missing
<1>5. pc'[p] \notin Looking \cup {"select"} /\ pc'[p] = "printed"
  BY <1>2 DEF Looking
<1>6. QED
  BY <1>1, <1>2, <1>3, <1>4, <1>5 DEF Looks

LEMMA StepLooks ==
  ASSUME TypeOK, DOMAIN shown = Procs, NEW p \in Procs, Looks(p), Begins(p) \/ Step(p) \/ Fail(p)
  PROVE  Looks(p)'
<1>1. ASSUME Begins(p) PROVE Looks(p)'
  <2>1. pc[p] = "idle" /\ pc'[p] \in {"ensure", "rm", "mv", "walk", "read"} /\ shown' = shown
    BY <1>1 DEF Begins, Touch, Rm, Mv, Ls, Migrate, Start, Goto, TypeOK
  <2>2. QED
    BY <2>1, NotLooking DEF Looks, Looking
<1>2. ASSUME Touches(p) \/ Changes(p), ~End(p) PROVE Looks(p)'
  <2>1. Ensure(p) \/ Create(p) \/ List(p) \/ NextRow(p) \/ LastRow(p) \/ Upsert(p) \/ LookUp(p) \/ Read(p)
    BY <1>2 DEF Touches, CreateFails, FileMissing, OpenFails, UpsertFails, Victim, Commit, Changes,
       NothingToChange, Delete, Rename, RenameNothing, Apply, EndQuietly, EndDisturbing
  <2>2. /\ pc[p] \notin Looking \cup {"printed"} /\ pc'[p] \notin Looking \cup {"select", "printed"}
        /\ shown' = shown
    BY <2>1 DEF Ensure, Create, List, NextRow, LastRow, Leftover, Upsert, LookUp, Read, Goto, TypeOK,
       locals, Looking
  <2>3. QED
    BY <2>2, NotLooking DEF Looks
<1>3. ASSUME Lists(p), ~End(p) PROVE Looks(p)'
  BY <1>3, WalkLooks, SelectLooks, PrintLineLooks, PrintMissingLooks
     DEF Lists, SelectFails, PrintFails, LsEnds, EndQuietly
<1>4. QED
  BY <1>1, <1>2, <1>3, EndLooks DEF Step, Fail, EndQuietly

(* touch *)

LEMMA NotAdopting ==
  ASSUME NEW p \in Procs, pc'[p] \notin Writing
  PROVE  Adopts(p)'
  BY DEF Adopts

LEMMA ListAdopts ==
  ASSUME TypeOK, NEW p \in Procs, Own(p), List(p)
  PROVE  Adopts(p)'
<1>1. /\ pc[p] = "list" /\ pc'[p] = "next" /\ todo'[p] = ToDo(names'[p])
      /\ UNCHANGED <<batch, written, content>>
  BY DEF List, Goto, TypeOK, shared, ToDo
<1>2. batch[p] = <<>> /\ DOMAIN written[p] = {}
  BY <1>1 DEF Own, Fits, TypeOK
<1>3. ToDo(names[p])' = todo'[p]
  BY <1>1 DEF ToDo, Migrations
<1>4. DOMAIN batch[p] = {}
  BY <1>2
<1>5. QED
  BY <1>1, <1>2, <1>3, <1>4 DEF Adopts

LEMMA NextRowAdopts ==
  ASSUME TypeOK, NEW p \in Procs, Adopts(p), NextRow(p)
  PROVE  Adopts(p)'
<1>1. LocalsOK /\ SharedOK
  BY TypeParts
<1>2. PICK i \in todo[p] :
        LET f == names[p][i]
            sum == IF f \in Repeatable THEN content[f] ELSE rowvalue[p]
        IN /\ batch' = [batch EXCEPT ![p] = Append(batch[p], [key |-> f, checksum |-> sum])]
           /\ todo' = [todo EXCEPT ![p] = @ \ {i}]
  BY DEF NextRow
<1> DEFINE f == names[p][i]
           sum == IF f \in Repeatable THEN content[f] ELSE rowvalue[p]
           row == [key |-> f, checksum |-> sum]
<1>3. /\ pc[p] = "next" /\ pc'[p] \in {"next", "upsert"}
      /\ batch'[p] = Append(batch[p], row) /\ todo'[p] = todo[p] \ {i}
      /\ UNCHANGED <<names, written, quiet, content>>
  BY <1>1, <1>2 DEF NextRow, Goto, LocalsOK, shared
<1>4. SUFFICES ASSUME quiet[p] PROVE Adopts(p)'
  BY <1>3 DEF Adopts
<1>5. batch[p] \in Rows /\ row \in [key : Files, checksum : 0 .. MaxVersion]
  BY <1>1, RowType, KeysType
<1>6. row.key = f /\ row.checksum = sum
  OBVIOUS
<1> HIDE DEF row
<1>7. /\ DOMAIN batch'[p] = 1 .. Len(batch[p]) + 1 /\ DOMAIN batch[p] = 1 .. Len(batch[p])
      /\ Len(batch[p]) \in Nat /\ batch'[p][Len(batch[p]) + 1] = row
      /\ \A k \in DOMAIN batch[p] : batch'[p][k] = batch[p][k]
  BY <1>3, <1>5 DEF Rows
<1>8. KeysOf(batch'[p]) = KeysOf(batch[p]) \cup {f}
  BY SMTT(30), <1>6, <1>7 DEF KeysOf
<1>9. ToDo(names[p])' = ToDo(names[p]) /\ KeysOf(batch[p])' = KeysOf(batch'[p])
  BY <1>3 DEF ToDo, Migrations, KeysOf
<1>10. \A k \in ToDo(names[p])' \ todo'[p] :
         names'[p][k] \in KeysOf(batch[p])' \cup DOMAIN written'[p]
  <2>1. \A k \in ToDo(names[p]) \ todo[p] :
          names[p][k] \in KeysOf(batch[p]) \cup DOMAIN written[p]
    BY <1>3, <1>4 DEF Adopts, Writing
  <2>2. ASSUME NEW k \in ToDo(names[p])' \ todo'[p]
        PROVE  names'[p][k] \in KeysOf(batch[p])' \cup DOMAIN written'[p]
    <3>1. k \in ToDo(names[p]) /\ (k = i \/ k \notin todo[p])
      BY <1>3, <1>9, <2>2
    <3>2. QED
      BY <1>3, <1>8, <1>9, <2>1, <3>1
  <2>3. QED
    BY <2>2
<1>11. \A k \in DOMAIN batch'[p] :
         batch'[p][k].key \in Repeatable => batch'[p][k].checksum = content'[batch'[p][k].key]
  <2>1. f \in Repeatable => sum = content[f]
    OBVIOUS
  <2>2. \A k \in DOMAIN batch[p] :
          batch[p][k].key \in Repeatable => batch[p][k].checksum = content[batch[p][k].key]
    BY <1>3, <1>4 DEF Adopts, Writing
  <2> HIDE DEF sum, f
  <2>3. ASSUME NEW k \in DOMAIN batch'[p]
        PROVE  batch'[p][k] = row \/ (k \in DOMAIN batch[p] /\ batch'[p][k] = batch[p][k])
    BY <1>7, <2>3
  <2>4. QED
    BY <1>3, <1>6, <2>1, <2>2, <2>3
<1>12. \A g \in DOMAIN written'[p] :
         /\ written'[p][g].valid /\ written'[p][g].success
         /\ g \in Repeatable => written'[p][g].checksum = content'[g]
  BY <1>3, <1>4 DEF Adopts, Writing
<1>13. QED
  BY <1>3, <1>10, <1>11, <1>12 DEF Adopts

LEMMA LastRowAdopts ==
  ASSUME TypeOK, NEW p \in Procs, Adopts(p), LastRow(p)
  PROVE  Adopts(p)'
<1>1. /\ pc[p] = "next" /\ todo[p] = {} /\ pc'[p] = IF batch[p] # <<>> THEN "upsert" ELSE "commit"
      /\ UNCHANGED <<names, todo, batch, written, quiet, content>>
  BY DEF LastRow, Leftover, Goto, TypeOK, shared, locals
<1>2. ToDo(names[p])' = ToDo(names[p]) /\ KeysOf(batch[p])' = KeysOf(batch[p])
  BY <1>1 DEF ToDo, Migrations, KeysOf
<1>3. QED
  BY <1>1, <1>2 DEF Adopts, Writing

LEMMA UpsertAdopts ==
  ASSUME TypeOK, NEW p \in Procs, Adopts(p), Upsert(p)
  PROVE  Adopts(p)'
<1>1. LocalsOK
  BY TypeParts
<1>2. PICK rows \in Upserts(dialect, batch[p]) :
        written' = [written EXCEPT ![p] =
                      [f \in DOMAIN @ \cup DOMAIN rows |->
                         IF f \in DOMAIN rows
                         THEN [valid |-> TRUE, checksum |-> rows[f].checksum, success |-> TRUE]
                         ELSE @[f]]]
  BY DEF Upsert
<1>3. /\ pc[p] = "upsert" /\ pc'[p] = "next" /\ batch'[p] = <<>>
      /\ UNCHANGED <<names, todo, quiet, content>>
  BY <1>1 DEF Upsert, RestRows, Goto, LocalsOK, shared
<1>4. written'[p] = [f \in DOMAIN written[p] \cup DOMAIN rows |->
                       IF f \in DOMAIN rows
                       THEN [valid |-> TRUE, checksum |-> rows[f].checksum, success |-> TRUE]
                       ELSE written[p][f]]
  BY <1>1, <1>2 DEF LocalsOK, MappingsOK
<1>5. /\ DOMAIN rows = KeysOf(batch[p])
      /\ \A k \in DOMAIN rows : \E i \in DOMAIN batch[p] : batch[p][i].key = k /\ rows[k] = batch[p][i]
  <2>1. batch[p] \in Rows
    BY <1>1 DEF LocalsOK
  <2>2. QED
    BY <2>1, UpsertedRows
<1>6. SUFFICES ASSUME quiet[p] PROVE Adopts(p)'
  BY <1>3 DEF Adopts
<1>7. ToDo(names[p])' = ToDo(names[p]) /\ DOMAIN batch'[p] = {}
  BY <1>3 DEF ToDo, Migrations
<1>8. \A i \in ToDo(names[p])' \ todo'[p] : names'[p][i] \in DOMAIN written'[p]
  BY <1>3, <1>4, <1>5, <1>6, <1>7 DEF Adopts, Writing
<1>9. \A f \in DOMAIN written'[p] :
        /\ written'[p][f].valid /\ written'[p][f].success
        /\ f \in Repeatable => written'[p][f].checksum = content'[f]
  <2>1. \A f \in DOMAIN rows : f \in Repeatable => rows[f].checksum = content[f]
    BY <1>3, <1>5, <1>6 DEF Adopts, Writing
  <2>2. \A f \in DOMAIN written[p] :
          /\ written[p][f].valid /\ written[p][f].success
          /\ f \in Repeatable => written[p][f].checksum = content[f]
    BY <1>3, <1>6 DEF Adopts, Writing
  <2>3. QED
    BY <1>3, <1>4, <2>1, <2>2
<1>10. QED
  BY <1>3, <1>7, <1>8, <1>9 DEF Adopts

LEMMA StepAdopts ==
  ASSUME TypeOK, NEW p \in Procs, Own(p), Adopts(p), Begins(p) \/ Step(p) \/ Fail(p)
  PROVE  Adopts(p)'
<1>1. ASSUME End(p) PROVE pc'[p] \notin Writing
  BY <1>1 DEF End, Goto, TypeOK, Writing
<1>2. ASSUME Begins(p) PROVE pc'[p] \notin Writing
  BY <1>2 DEF Begins, Touch, Rm, Mv, Ls, Migrate, Start, Goto, TypeOK, Writing
<1>3. ASSUME Touches(p), ~End(p) PROVE Adopts(p)'
  <2>1. CASE Ensure(p) \/ Create(p)
    <3>1. pc'[p] \notin Writing
      BY <2>1 DEF Ensure, Create, Goto, TypeOK, Writing
    <3>2. QED
      BY <3>1, NotAdopting
  <2>2. QED
    BY <1>3, <2>1, ListAdopts, NextRowAdopts, LastRowAdopts, UpsertAdopts
       DEF Touches, CreateFails, FileMissing, OpenFails, UpsertFails, Victim, Commit,
           EndQuietly, EndDisturbing
<1>4. ASSUME Changes(p), ~End(p) PROVE pc'[p] \notin Writing
  <2>1. LookUp(p) \/ Read(p)
    BY <1>4 DEF Changes, NothingToChange, Delete, Rename, RenameNothing, Apply,
       EndQuietly, EndDisturbing
  <2>2. QED
    BY <2>1 DEF LookUp, Read, Goto, TypeOK, Writing
<1>5. ASSUME Lists(p), ~End(p) PROVE pc'[p] \notin Writing
  <2>1. Walk(p) \/ Select(p) \/ PrintLine(p) \/ PrintMissing(p)
    BY <1>5 DEF Lists, SelectFails, PrintFails, LsEnds, EndQuietly
  <2>2. QED
    BY <2>1 DEF Walk, Select, PrintLine, PrintMissing, Goto, TypeOK, Writing
<1>6. QED
  BY <1>1, <1>2, <1>3, <1>4, <1>5, NotAdopting DEF Step, Fail, EndQuietly

LEMMA QuietStep ==
  ASSUME TypeOK, SumsOf, QuietInv, [Next]_vars
  PROVE  QuietInv'
<1>1. TableInv'
  BY TableStep DEF QuietInv
<1>2. DOMAIN shown' = Procs
  <2>1. \A p \in Procs : End(p) => DOMAIN shown' = DOMAIN shown
    BY DEF End
  <2>2. ASSUME NEW p \in Procs, Begins(p) \/ Touches(p) \/ Fail(p) PROVE DOMAIN shown' = DOMAIN shown
    BY <2>1, <2>2 DEF Begins, Touch, Rm, Mv, Ls, Migrate, Start, Touches, Fail, Ensure, Create,
       CreateFails, List, FileMissing, NextRow, OpenFails, LastRow, Upsert, UpsertFails, Victim,
       Commit, EndQuietly, EndDisturbing, locals
  <2>3. ASSUME NEW p \in Procs, Changes(p) \/ Lists(p) PROVE DOMAIN shown' = DOMAIN shown
    BY <2>1, <2>3 DEF Changes, Lists, LookUp, NothingToChange, Delete, Rename, RenameNothing, Read,
       Apply, Walk, Select, SelectFails, PrintLine, PrintFails, PrintMissing, LsEnds, EndQuietly,
       EndDisturbing, locals
  <2>4. ASSUME (\E f \in Edited : Edit(f)) \/ UNCHANGED vars PROVE DOMAIN shown' = DOMAIN shown
    BY <2>4 DEF Edit, vars, locals
  <2>5. QED
    BY <2>2, <2>3, <2>4 DEF QuietInv, Next, Step
<1>3. ASSUME NEW p \in Procs PROVE Looks(p)' /\ Adopts(p)'
  <2>1. TypeOK /\ DOMAIN shown = Procs /\ Looks(p) /\ Adopts(p) /\ Own(p)
    BY DEF QuietInv, SumsOf
  <2>2. CASE Begins(p) \/ Step(p) \/ Fail(p)
    BY <2>1, <2>2, StepLooks, StepAdopts
  <2>3. ASSUME NEW q \in Procs, q # p, Begins(q) \/ Step(q) \/ Fail(q) PROVE Unseen(p)
    BY <2>3, OthersUnseen
  <2>4. ASSUME (\E f \in Edited : Edit(f)) \/ UNCHANGED vars PROVE Unseen(p)
    BY <2>4 DEF Edit, vars, locals, shared, Unseen
  <2>5. QED
    BY <2>1, <2>2, <2>3, <2>4, UnseenKeeps DEF Next
<1>4. QED
  BY <1>1, <1>2, <1>3 DEF QuietInv

LEMMA QuietHolds == Spec => [](TypeOK /\ SumsOf /\ QuietInv)
<1>1. Init => QuietInv
  <2>1. SUFFICES ASSUME Init PROVE QuietInv
    OBVIOUS
  <2>2. TableInv /\ DOMAIN shown = Procs
    BY <2>1 DEF Init, TableInv
  <2>3. \A p \in Procs : Looks(p) /\ Adopts(p)
    BY <2>1 DEF Init, Looks, Looking, Adopts
  <2>4. QED
    BY <2>2, <2>3 DEF QuietInv
<1>2. TypeOK /\ SumsOf /\ QuietInv /\ [Next]_vars => QuietInv'
  BY QuietStep
<1>3. QED
  BY <1>1, <1>2, SumsHold, PTL DEF Spec

\* Of what migrate would run, an ls that nobody interferes with leaves nothing out, wherever
\* its queries break off, and it shows no more than that if it has read all the rows of the
\* files, however many others there are and whatever they do meanwhile that does not concern
\* the history or the directory.
THEOREM LsShowsPending ==
  ASSUME WalksAll
  PROVE  Spec => []LsTellsMigrate
<1>1. Listed = {f \in Files : f \notin Reserved /\ content[f] # 0}
  <2>1. \A i \in DOMAIN Lexical : Lexical[i] \in Files
    BY HistoryAssumption, Elements
  <2>2. QED
    BY <2>1 DEF Listed, ToDo, Migrations, WalksAll
<1>2. ASSUME TypeOK, QuietInv, NEW p \in Procs, pc[p] = "printed", quiet[p]
      PROVE  /\ Pending \subseteq ToRun(p)
             /\ \A l, m \in shown[p] : l[2] = m[2] => l = m
             /\ ReadAll(p) => ToRun(p) = Pending
  <2>1. PICK S : /\ ReadRows(p)
                 /\ S \cap Listed = {}
                 /\ shown[p] = Lines(p, ToDo(Lexical)) \cup {<<"missing", f>> : f \in S}
    BY <1>2 DEF QuietInv, Looks
  <2>2. /\ \A f \in Listed : <<Status(p, f), f>> \in shown[p]
        /\ \A l \in shown[p] : \/ \E f \in Listed : l = <<Status(p, f), f>>
                               \/ \E f \in S : l = <<"missing", f>>
    BY <2>1 DEF Lines, Listed
  <2>3. \A f \in Listed : ~UpToDate(f) => Status(p, f) \in {"pending", "failed"}
    <3>1. \A f \in DOMAIN plan[p] : plan[p][f] = history[f] /\ history[f].valid
      BY <2>1 DEF ReadRows
    <3>2. QED
      BY <1>1, <1>2, <3>1, TypeParts DEF Status, UpToDate, SharedOK, Row
  <2>4. ASSUME ReadAll(p), NEW f \in Listed, Status(p, f) \in {"pending", "failed"}
        PROVE  ~UpToDate(f)
    <3>1. history[f].valid => f \in DOMAIN plan[p] /\ plan[p][f] = history[f]
      BY <1>1, <2>1, <2>4 DEF ReadAll, ReadRows
    <3>2. QED
      BY <1>1, <1>2, <2>4, <3>1, TypeParts DEF Status, UpToDate, SharedOK, Row
  <2>5. Pending = {f \in Listed : ~UpToDate(f)}
    BY <1>1 DEF Pending
  <2> DEFINE Running(l) == l[1] \in {"pending", "failed"}
  <2>6. ASSUME NEW f \in Pending PROVE f \in ToRun(p)
    <3>1. <<Status(p, f), f>> \in shown[p] /\ Status(p, f) \in {"pending", "failed"}
      BY <2>2, <2>3, <2>5
    <3>2. <<Status(p, f), f>>[1] = Status(p, f) /\ <<Status(p, f), f>>[2] = f
      OBVIOUS
    <3>3. QED
      BY <3>1, <3>2 DEF ToRun
  <2>7. ASSUME ReadAll(p), NEW l \in shown[p], Running(l) PROVE l[2] \in Pending
    <3>1. CASE \E f \in S : l = <<"missing", f>>
      BY <2>7, <3>1
    <3>2. CASE \E f \in Listed : l = <<Status(p, f), f>>
      BY <2>4, <2>5, <2>7, <3>2
    <3>3. QED
      BY <2>2, <3>1, <3>2
  <2>8. ReadAll(p) => ToRun(p) = Pending
    BY <2>6, <2>7 DEF ToRun
  <2>9. ASSUME NEW l \in shown[p], NEW m \in shown[p], l[2] = m[2] PROVE l = m
    <3>1. \A f \in S : f \notin Listed
      BY <2>1
    <3>2. QED
      BY <2>2, <2>9, <3>1
  <2>10. QED
    BY <2>6, <2>8, <2>9
<1>3. TypeOK /\ QuietInv => LsTellsMigrate
  BY <1>2 DEF LsTellsMigrate
<1>4. QED
  BY <1>3, QuietHolds, PTL

\* A touch that nobody has interfered with leaves nothing for migrate of what it was given,
\* in however many batches it has sent it.
THEOREM TouchLeavesNothing == Spec => TouchAdopts
<1>1. ASSUME TypeOK, QuietInv, NEW p \in Procs, Commit(p), quiet[p], NEW i \in DOMAIN names[p]
      PROVE  names[p][i] \notin Pending'
  <2>1. SharedOK /\ LocalsOK
    BY <1>1, TypeParts
  <2>2. PICK f \in Files : f = names[p][i]
    BY <1>1, <2>1, Elements DEF LocalsOK
  <2>3. /\ history' = [g \in Files |-> IF g \in DOMAIN written[p] THEN written[p][g] ELSE history[g]]
        /\ content' = content /\ pc[p] = "commit"
    BY <1>1 DEF Commit, Overwritten
  <2>4. /\ \A k \in ToDo(names[p]) \ todo[p] :
             names[p][k] \in KeysOf(batch[p]) \cup DOMAIN written[p]
        /\ \A g \in DOMAIN written[p] :
             /\ written[p][g].valid /\ written[p][g].success
             /\ g \in Repeatable => written[p][g].checksum = content[g]
        /\ todo[p] = {} /\ batch[p] = <<>>
    BY <1>1, <2>3 DEF QuietInv, Adopts, Writing
  <2>5. KeysOf(batch[p]) = {}
    BY <2>4 DEF KeysOf
  <2>6. f \notin Reserved /\ content[f] # 0 => f \in DOMAIN written[p]
    BY <1>1, <2>2, <2>4, <2>5 DEF ToDo, Migrations
  <2>7. ASSUME f \in DOMAIN written[p] PROVE UpToDate(f)'
    <3>1. history'[f] = written[p][f]
      BY <2>2, <2>3, <2>7
    <3>2. QED
      BY <2>3, <2>4, <2>7, <3>1 DEF UpToDate
  <2>8. f \in Pending' => f \notin Reserved /\ content'[f] # 0 /\ ~UpToDate(f)'
    BY DEF Pending
  <2>9. QED
    BY <2>2, <2>3, <2>6, <2>7, <2>8
<1>2. TypeOK /\ QuietInv =>
        [\A p \in Procs : Commit(p) /\ quiet[p] =>
           \A i \in DOMAIN names[p] : names[p][i] \notin Pending']_vars
  BY <1>1
<1>3. QED
  BY <1>2, QuietHolds, PTL DEF TouchAdopts

=============================================================================
