----------------------- MODULE MCAbstractRecordModel -----------------------
(* One client showing the courses, all of them or those with one value. *)
EXTENDS AbstractRecordModel

CONSTANTS client, course, meta, f1, v1, v2, c1, c2, c3

MCBlank == [f \in Field |-> v1]
MCAll == {[table |-> course, ids |-> Id, accepts |-> [f \in Field |-> Value]]}
MCFiltered == {[table |-> course, ids |-> Id,
                accepts |-> [f \in Field |-> {v}]] : v \in Value}
=============================================================================
