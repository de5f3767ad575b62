------------------------------ MODULE MCStartup ------------------------------
(* Startup on two tables of records: the client list and the one with a first *)
(* row; the schema has one table more, that of the changes.                   *)
EXTENDS Startup

CONSTANTS client, meta, f1, v1, v2

MCBlank == [f \in Field |-> v1]
=============================================================================
