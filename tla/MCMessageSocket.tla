-------------------------- MODULE MCMessageSocket --------------------------
(* Four messages of one to three bytes over up to three connections. *)
EXTENDS MessageSocket

MCSize(m) == 1 + (m % 3)
MCMisread == {-2, 0, 3, 1000}
=============================================================================
