---------------------------- MODULE MCMigrations ---------------------------
(* Instances of Migrations for TLC: the constants are in the .cfg files.   *)
EXTENDS Migrations
=============================================================================
