----------------------------- MODULE Validators -----------------------------
(***************************************************************************)
(* Which types of value the fields of a record take                        *)
(* (commonlib/Validators.cpp): what a client checks before it sends a      *)
(* record, and what both ends make of one that they read from JSON.  A     *)
(* value is its QVariant type here, but for a string that is the text of   *)
(* an IP address: that is an "Address", as validateField() tells it from   *)
(* others.  The texts that convert() could not parse are left out, for     *)
(* this program does not write any.                                        *)
(***************************************************************************)
EXTENDS TLC

FieldType == {"ID", "Char", "String", "Integer", "Real", "Boolean", "Date",
              "Time", "DateTime", "IP", "JSON"}

StageId == "stage_id" :> "ID"
Name == "name" :> "String"

\* The fields of each table.
FieldsOf ==
    [meta |-> [key |-> "String", value |-> "String"],
     change |-> [type |-> "Char", record_id |-> "ID", record_table |-> "String",
                 timestamp |-> "Integer", fields |-> "String"],
     profile |-> Name @@ [type |-> "String", value |-> "JSON"],
     client |-> Name @@ [ip |-> "IP"],
     competition |-> Name @@ [sport |-> "String"],
     stage |-> Name @@ [competition_id |-> "ID", type |-> "String",
                        discipline |-> "String", date |-> "Date",
                        in_totals |-> "Boolean"],
     control |-> StageId @@ Name @@ [special |-> "String"],
     course |-> StageId @@ Name,
     course_control |-> [control_id |-> "ID", course_id |-> "ID",
                         order |-> "Integer", distance_from_previous |-> "Real"],
     class |-> StageId @@ Name]

ValidatedTable == DOMAIN FieldsOf
TypeOf(table, field) == FieldsOf[table][field]

IntegerVariant == {"Char", "Int", "UInt", "LongLong", "ULongLong"}

\* A text, which may be that of an IP address.
StringVariant == {"String", "Address"}

\* What validateField() lets pass.
Accepted(type) ==
    CASE type \in {"ID", "Integer"} -> IntegerVariant
      [] type = "Real" -> IntegerVariant \cup {"Double"}
      [] type = "Boolean" -> {"Bool"}
      [] type = "String" -> StringVariant
      [] type = "IP" -> {"Address"}
      [] type = "JSON" -> {"QJsonObject"}
      [] OTHER -> {type}

ValidField(table, field, variant) ==
    field \in DOMAIN FieldsOf[table] /\ variant \in Accepted(TypeOf(table, field))

\* validateRecord(): `variants' is the type of every value of the record.
ValidRecord(table, variants) ==
    /\ DOMAIN FieldsOf[table] \subseteq DOMAIN variants
    /\ \A field \in DOMAIN variants : ValidField(table, field, variants[field])

\* Mutant of MetaType: dates come back with a time.
MetaTypeTimed(type) ==
    CASE type = "ID" -> "ULongLong"
      [] type = "Integer" -> "LongLong"
      [] type = "Real" -> "Double"
      [] type = "Boolean" -> "Bool"
      [] type = "IP" -> "String"
      [] type = "JSON" -> "QJsonDocument"
      [] type = "Date" -> "DateTime"
      [] OTHER -> type

MetaType(type) ==
    CASE type = "ID" -> "ULongLong"
      [] type = "Integer" -> "LongLong"
      [] type = "Real" -> "Double"
      [] type = "Boolean" -> "Bool"
      [] type = "IP" -> "String"
      [] type = "JSON" -> "QJsonDocument"
      [] OTHER -> type

\* External: JSON has numbers, strings, truth values and objects, and so what
\* fromJson() finds for a value that was written as a variant.
InJson(variant) ==
    CASE variant \in {"Int", "UInt", "LongLong", "ULongLong", "Double"} -> "Double"
      [] variant \in {"QJsonObject", "QJsonDocument"} -> "QJsonObject"
      [] variant \in {"Bool", "Address"} -> variant
      [] OTHER -> "String"

\* External: what QVariant::convert() can make of it.
Convertible(variant) ==
    CASE variant = "Double" -> {"Double", "LongLong", "ULongLong", "Bool", "String"}
      [] variant \in StringVariant -> {"String", "Date", "Time", "DateTime",
                                       "LongLong", "ULongLong", "Double", "Bool"}
      [] OTHER -> {variant}

\* coerce(), for a value that convert() can make sense of; it throws otherwise.
Coercible(table, field, variant) ==
    /\ field \in DOMAIN FieldsOf[table]
    /\ MetaType(TypeOf(table, field)) \in Convertible(variant)

\* What coerce() then gives; a text stays what it is.
Coerced(table, field, variant) ==
    IF variant \in StringVariant /\ MetaType(TypeOf(table, field)) = "String"
    THEN variant ELSE MetaType(TypeOf(table, field))

\* coerceRecord(): the types of a record whose values all convert.
CoercedRecord(table, variants) ==
    [field \in DOMAIN variants |-> Coerced(table, field, variants[field])]
=============================================================================
