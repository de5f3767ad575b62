--------------------------- MODULE MCRecordObject ---------------------------
(* One client with a course, new or read. *)
EXTENDS RecordObject

CONSTANTS client, course, meta, f1, f2, v1, v2, c1

MCBlank == [f \in Field |-> v1]
MCQueries == {}
=============================================================================
