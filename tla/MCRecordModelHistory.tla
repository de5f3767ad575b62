------------------------ MODULE MCRecordModelHistory ------------------------
(* RecordModelHistory for one client showing all the courses. *)
EXTENDS RecordModelHistory

CONSTANTS client, course, meta, f1, v1, v2, c1, c2, c3

MCBlank == [f \in Field |-> v1]
MCAll == {[table |-> course, ids |-> Id, accepts |-> [f \in Field |-> Value]]}
=============================================================================
