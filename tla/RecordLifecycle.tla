--------------------------- MODULE RecordLifecycle ---------------------------
(***************************************************************************)
(* What the storage engine promises about one record, whatever tables and  *)
(* transactions it is built from: it is born once, edited while it lives,  *)
(* dies once and stays dead, and every one of these steps gives it a       *)
(* version newer than that of any record.  Volatile records (the list of   *)
(* connected clients) may be forgotten, all of them together.              *)
(***************************************************************************)
EXTENDS Integers

CONSTANTS Key,       \* identities of records
          Seed,      \* records that live from the beginning
          Volatile   \* records that may be forgotten

VARIABLES life, version

vars == <<life, version>>

Life == {"absent", "live", "deleted"}

Init ==
    /\ life = [k \in Key |-> IF k \in Seed THEN "live" ELSE "absent"]
    /\ version = [k \in Key |-> 0]

\* The version of k becomes some number above all versions.
Bump(k) ==
    /\ \A j \in Key : version[j] < version'[k]
    /\ version' = [version EXCEPT ![k] = version'[k]]

Move(k, from, to) ==
    /\ life[k] = from
    /\ life' = [life EXCEPT ![k] = to]
    /\ Bump(k)

Born(k) == Move(k, "absent", "live")
Edited(k) == Move(k, "live", "live")
Dies(k) == Move(k, "live", "deleted")

Forget ==
    /\ life' = [k \in Key |-> IF k \in Volatile THEN "absent" ELSE life[k]]
    /\ version' = [k \in Key |-> IF k \in Volatile THEN 0 ELSE version[k]]

Next ==
    \/ \E k \in Key : Born(k) \/ Edited(k) \/ Dies(k)
    \/ Forget

Spec == Init /\ [][Next]_vars
=============================================================================
