------------------------------- MODULE Startup -------------------------------
(***************************************************************************)
(* The start of a server (server/main.cpp, server/DatabaseMigration.cpp):  *)
(* the schema is created, upgraded or checked before the engine is built   *)
(* on the database.  The process may die at any point, also between the    *)
(* statements of the creation, which are one transaction only where the    *)
(* database has transactional DDL.                                         *)
(*                                                                         *)
(* The rows of DatabaseEngine are those the tables have once they exist.   *)
(***************************************************************************)
EXTENDS DatabaseEngine

CONSTANT SchemaSize     \* the CREATE TABLE statements, that of meta first

ASSUME SchemaSizeAssumption == SchemaSize \in Nat \ {0}

LatestVersion == 1

VARIABLES
    transactional,  \* external: DDL is part of the transaction (not on MySQL)
    tables,         \* how many of the tables exist
    versionRow,     \* the value of meta's row `version': a set of at most one
    process         \* "off", "creating", "prepared" (prepare() has returned)

schemaVars == <<transactional, tables, versionRow, process>>
startupVars == <<vars, schemaVars>>

\* A database without tables, or that of this program, of an older one, whose
\* tables are the same (upgrade() only sets the number), or of a newer one.
StartupInit ==
    /\ Init
    /\ transactional \in BOOLEAN
    /\ process = "off"
    /\ \/ tables = 0 /\ versionRow = {}
       \/ /\ tables = SchemaSize
          /\ \E version \in 0..LatestVersion + 1 : versionRow = {version}

\* Mutant of HasVersion: a missing row reads as 0.
HasVersionOrZero(v) ==
    IF tables = 0 THEN v = -1 ELSE v \in versionRow \/ (versionRow = {} /\ v = 0)

\* currentVersion() returns v; it throws if meta has no such row.
HasVersion(v) == IF tables = 0 THEN v = -1 ELSE v \in versionRow

BeginCreation ==
    /\ process = "off" /\ HasVersion(-1)
    /\ process' = "creating"
    /\ UNCHANGED <<vars, transactional, tables, versionRow>>

CreateTable ==
    /\ process = "creating" /\ tables < SchemaSize
    /\ tables' = tables + 1
    /\ UNCHANGED <<vars, transactional, versionRow, process>>

InsertVersion ==
    /\ process = "creating" /\ tables = SchemaSize
    /\ versionRow' = {LatestVersion}
    /\ process' = "prepared"
    /\ UNCHANGED <<vars, transactional, tables>>

\* The user lets it.
Upgrade ==
    /\ process = "off"
    /\ \E v \in 0..LatestVersion - 1 : HasVersion(v)
    /\ versionRow' = {LatestVersion : v \in versionRow}
    /\ process' = "prepared"
    /\ UNCHANGED <<vars, transactional, tables>>

\* check(): every table is there, with its fields.
Check ==
    /\ process = "off" /\ HasVersion(LatestVersion)
    /\ tables = SchemaSize
    /\ process' = "prepared"
    /\ UNCHANGED <<vars, transactional, tables, versionRow>>

\* Mutant of Crash: the creation is not one transaction.
CrashHalfWay ==
    /\ process # "off" /\ phase = "down"
    /\ process' = "off"
    /\ UNCHANGED <<vars, transactional, tables, versionRow>>

\* The process dies before it has built the engine.
Crash ==
    /\ process # "off" /\ phase = "down"
    /\ process' = "off"
    /\ tables' = IF process = "creating" /\ transactional THEN 0 ELSE tables
    /\ UNCHANGED <<vars, transactional, versionRow>>

\* The engine is built and serves until the process ends.
EngineActs ==
    /\ process = "prepared"
    /\ Next
    /\ process' = IF phase # "down" /\ phase' = "down" THEN "off" ELSE process
    /\ UNCHANGED <<transactional, tables, versionRow>>

StartupNext ==
    \/ BeginCreation \/ CreateTable \/ InsertVersion \/ Upgrade \/ Check
    \/ Crash \/ EngineActs

StartupSpec == StartupInit /\ [][StartupNext]_startupVars

-----------------------------------------------------------------------------
(* Properties. *)

\* The server never works on a database that lacks a table or the version of
\* this program, wherever an earlier start died (DatabaseMigration.cpp:136-155):
\* where the creation stopped half-way, prepare() throws.
ServesCompleteSchema ==
    phase # "down" => tables = SchemaSize /\ versionRow = {LatestVersion}

\* Where DDL is transactional a start that died leaves nothing or everything
\* (DatabaseMigration.cpp:77-85), so that the next one can go on.
CreationIsAllOrNothing ==
    transactional /\ process = "off" =>
        \/ tables = 0 /\ versionRow = {}
        \/ tables = SchemaSize /\ versionRow # {}
=============================================================================
