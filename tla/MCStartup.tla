----------------------------- MODULE MCStartup -----------------------------
(* Startup for TLC: three statements and three files stand for the ones of  *)
(* internal/migrate/migrations; the last file can be run twice.             *)
EXTENDS Startup, TLC
=============================================================================
