---------------------------- MODULE Startup_proofs ----------------------------
(***************************************************************************)
(* A server that starts as Startup says is the engine of DatabaseEngine,   *)
(* whose theorems therefore hold of it, and it only ever works on a        *)
(* complete schema.                                                        *)
(***************************************************************************)
EXTENDS Startup, TLAPS

\* Everything before and after the life of an engine is a stuttering step of
\* it, and it is built on a database that is as the creation leaves it.
THEOREM StartupImplementsEngine == StartupSpec => Spec
<1>1. StartupInit => Init
  BY DEF StartupInit
<1>2. [StartupNext]_startupVars => [Next]_vars
  BY DEF StartupNext, startupVars, BeginCreation, CreateTable, InsertVersion,
         Upgrade, Check, Crash, EngineActs
<1> QED
  BY <1>1, <1>2, PTL DEF StartupSpec, Spec

-----------------------------------------------------------------------------
\* What the two properties need: the version is written last, so it is there
\* only when all tables are, and only a prepared process gets past "down".
SchemaInv ==
    /\ tables \in 0..SchemaSize
    /\ versionRow \in {{}} \cup {{v} : v \in 0..LatestVersion + 1}
    /\ process \in {"off", "creating", "prepared"}
    /\ versionRow # {} => tables = SchemaSize
    /\ process = "creating" => versionRow = {}
    /\ process = "prepared" => versionRow = {LatestVersion}
    /\ process # "prepared" => phase = "down"
    /\ CreationIsAllOrNothing

LEMMA SchemaInvInit == StartupInit => SchemaInv
  BY SchemaSizeAssumption
  DEF StartupInit, Init, SchemaInv, CreationIsAllOrNothing, LatestVersion

LEMMA SchemaInvStep == SchemaInv /\ [StartupNext]_startupVars => SchemaInv'
<1> SUFFICES ASSUME SchemaInv, [StartupNext]_startupVars
             PROVE  SchemaInv'
  OBVIOUS
<1> USE SchemaSizeAssumption DEF SchemaInv, CreationIsAllOrNothing, LatestVersion
<1>1. CASE BeginCreation
  BY <1>1 DEF BeginCreation, HasVersion, vars
<1>2. CASE CreateTable
  BY <1>2 DEF CreateTable, vars
<1>3. CASE InsertVersion
  BY <1>3 DEF InsertVersion, vars
<1>4. CASE Upgrade
  <2>1. PICK v \in 0..LatestVersion - 1 : HasVersion(v)
    BY <1>4 DEF Upgrade
  <2>2. v \in versionRow
    BY <2>1 DEF HasVersion
  <2>3. versionRow' = {LatestVersion}
    BY <1>4, <2>2 DEF Upgrade
  <2> QED
    BY <1>4, <2>2, <2>3 DEF Upgrade, vars
<1>5. CASE Check
  BY <1>5 DEF Check, HasVersion, vars
<1>6. CASE Crash
  BY <1>6 DEF Crash, vars
<1>7. CASE EngineActs
  BY <1>7 DEF EngineActs
<1>8. CASE UNCHANGED startupVars
  BY <1>8 DEF startupVars, schemaVars, vars
<1> QED
  BY <1>1, <1>2, <1>3, <1>4, <1>5, <1>6, <1>7, <1>8 DEF StartupNext

LEMMA SchemaInvHolds == StartupSpec => []SchemaInv
  BY SchemaInvInit, SchemaInvStep, PTL DEF StartupSpec

\* However often and wherever a start dies, the server works on a database
\* with all its tables and the version of this program (ServesCompleteSchema).
THEOREM CompleteSchemaServed == StartupSpec => []ServesCompleteSchema
<1>1. SchemaInv => ServesCompleteSchema
  BY DEF SchemaInv, ServesCompleteSchema
<1> QED
  BY <1>1, SchemaInvHolds, PTL

\* A start that died leaves all of the schema or nothing where DDL is
\* transactional (CreationIsAllOrNothing).
THEOREM CreationNeverHalfDone == StartupSpec => []CreationIsAllOrNothing
<1>1. SchemaInv => CreationIsAllOrNothing
  BY DEF SchemaInv
<1> QED
  BY <1>1, SchemaInvHolds, PTL
=============================================================================
