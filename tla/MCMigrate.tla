------------------------------ MODULE MCMigrate ------------------------------
(* Instances of Migrate for TLC. *)
EXTENDS Migrate

CONSTANTS a, b, c, o, r, s

\* The whole directory, and part of it in an order of the user's own.
Directory == {<<r, a, b, c, s>>}
DirectoryOrSome == {<<r, a, b, c, s>>, <<c, a>>}
WithTxoff == {<<o, r, a>>}
Some == {<<c, a>>}
Twice == {<<a, a>>}
OnlyTxoff == {<<o>>}
=============================================================================
