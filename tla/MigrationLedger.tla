--------------------------- MODULE MigrationLedger ---------------------------
(***************************************************************************)
(* What `sqddl migrate` promises for migrations that run in transactions:  *)
(* some of the migrations that are left to do are applied and recorded in  *)
(* one atomic step, or they are recorded as failed and nothing else        *)
(* changes.  Batches, retries, crashes and the history a run has read are  *)
(* not visible at this level.                                              *)
(***************************************************************************)
EXTENDS Naturals

CONSTANTS Files, Repeatable, MaxVersion

VARIABLES
  history,  \* the history table
  times,    \* how often the effects of a migration are in the database
  version,  \* the contents of a migration that ran last
  content   \* the contents of its file

vars == <<history, times, version, content>>

Checksum(f) == IF f \in Repeatable THEN content[f] ELSE 0

\* What is left to do.
Pending ==
  {f \in Files : ~(history[f].success /\ history[f].checksum = Checksum(f))}

Marked(S, ok) ==
  [f \in Files |->
     IF f \in S THEN [valid |-> TRUE, checksum |-> Checksum(f), success |-> ok]
     ELSE history[f]]

Init ==
  /\ history = [f \in Files |-> [valid |-> FALSE, checksum |-> 0, success |-> FALSE]]
  /\ times = [f \in Files |-> 0]
  /\ version = [f \in Files |-> 0]
  /\ content = [f \in Files |-> 1]

\* A migration that is not repeatable has no effects yet when it is applied.
Apply(S) ==
  /\ \A f \in S \ Repeatable : times[f] = 0
  /\ times' = [f \in Files |-> IF f \notin S THEN times[f]
                               ELSE IF times[f] = 0 THEN 1 ELSE 2]
  /\ version' = [f \in Files |-> IF f \in S THEN content[f] ELSE version[f]]
  /\ history' = Marked(S, TRUE)
  /\ UNCHANGED content

Reject(S) ==
  /\ history' = Marked(S, FALSE)
  /\ UNCHANGED <<times, version, content>>

Edit(f) ==
  /\ \E v \in 1 .. MaxVersion : content' = [content EXCEPT ![f] = v]
  /\ UNCHANGED <<history, times, version>>

Next ==
  \/ \E S \in SUBSET Pending : Apply(S) \/ Reject(S)
  \/ \E f \in Repeatable : Edit(f)

Spec == Init /\ [][Next]_vars
=============================================================================
