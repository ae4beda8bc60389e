-------------------------------- MODULE MCLoad --------------------------------
(* Instances of Load for TLC. *)
EXTENDS Load

CONSTANTS k1, k2

Kind(d, c) == [dialect |-> d, container |-> c]

\* All that the code tells apart: goroutines, one file after the other on the
\* connection of Run, and each way to treat the session setting.
Usual ==
  {Kind("postgres", "dir"), Kind("mysql", "dir"), Kind("sqlserver", "dir"),
   Kind("postgres", "tgz"), Kind("mysql", "tgz"),
   Kind("sqlite", "dir"), Kind("sqlite", "zip")}

Zip == {Kind("postgres", "zip")}
=============================================================================
