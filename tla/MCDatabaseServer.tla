-------------------------- MODULE MCDatabaseServer --------------------------
(* DatabaseServer with clients that ask for two queries: the client list and  *)
(* all of meta, the table that has a record as soon as it exists.           *)
EXTENDS DatabaseServer

CONSTANTS client, meta, f1, v1, c1, c2, c3

MCBlank == [f \in Field |-> v1]
MCQueries == {[table |-> t, ids |-> Id, accepts |-> [f \in Field |-> Value]] :
                 t \in Table}
MCSymmetry == Permutations(Connection)
=============================================================================
