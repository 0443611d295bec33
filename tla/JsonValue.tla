-------------------------------- MODULE JsonValue ------------------------------
(***************************************************************************)
(* Json::Value (Data/JSON/json_value.cpp), as far as the server uses it:    *)
(* what a value holds, how members and elements are reached and what the    *)
(* conversions do.  A conversion that does not apply throws; an access that *)
(* only an assert forbids is undefined.                                     *)
(***************************************************************************)
EXTENDS Integers, Sequences, FiniteSets, FiniteSetsExt

CONSTANT MaxInt  \* Value::maxInt, 2^31 - 1 in the code

ASSUME MaxIntAssumption == MaxInt \in Nat \ {0}

MinInt == -(MaxInt + 1)
MaxUInt == 2 * MaxInt + 1

\* Arrays and objects are maps from indices and from names.  A real number is
\* counted in tenths.
Make(type, value) == [type |-> type, value |-> value]
Null == Make("null", 0)
Empty(type) ==
    CASE type \in {"int", "uint", "real"} -> Make(type, 0)
      [] type = "boolean" -> Make(type, FALSE)
      [] type = "string" -> Make(type, <<>>)
      [] type \in {"array", "object"} -> Make(type, [none \in {} |-> Null])
      [] OTHER -> Null

\* The constant Int of the NULL the server passes as a default.
Zero == Make("int", 0)

\* operator ==
RECURSIVE Equal(_, _)
Equal(v, w) ==
    /\ v.type = w.type
    /\ IF v.type \in {"array", "object"}
       THEN /\ DOMAIN v.value = DOMAIN w.value
            /\ \A key \in DOMAIN v.value : Equal(v.value[key], w.value[key])
       ELSE v.value = w.value

\* size: of an array its highest index and one.
Size(v) ==
    CASE v.type = "object" -> Cardinality(DOMAIN v.value)
      [] v.type = "array" /\ DOMAIN v.value # {} -> Max(DOMAIN v.value) + 1
      [] OTHER -> 0

-----------------------------------------------------------------------------
(* Access.  The asserts admit null as an empty array or object.              *)

Indexable(v) == v.type \in {"null", "array"}
Keyed(v) == v.type \in {"null", "object"}

Holds(v, key) == v.type \in {"array", "object"} /\ key \in DOMAIN v.value

\* The constant operator[], with an index of an Indexable or a name of a Keyed.
Lookup(v, key) == IF Holds(v, key) THEN v.value[key] ELSE Null

\* get
Get(v, key, default) == IF Holds(v, key) THEN v.value[key] ELSE default

\* The operator[] of a value that may change, and an assignment through it:
\* what is not there yet is inserted.
Insert(v, type, key, element) ==
    Make(type, [k \in (IF v.type = "null" THEN {} ELSE DOMAIN v.value) \cup {key} |->
                   IF k = key THEN element ELSE v.value[k]])
Reference(v, type, key) ==
    IF Holds(v, key) THEN v ELSE Insert(v, type, key, Null)

\* append
Appended(v, element) == Insert(v, "array", Size(v), element)

-----------------------------------------------------------------------------
(* Conversions                                                               *)

Converted(value) == [outcome |-> "ok", value |-> value]
Throws == [outcome |-> "throws", value |-> 0]

\* Int(real) and UInt(real) cut towards zero.
Whole(tenths) == IF tenths >= 0 THEN tenths \div 10 ELSE -((-tenths) \div 10)

AsString(v) ==
    CASE v.type = "null" -> Converted(<<>>)
      [] v.type = "string" -> Converted(v.value)
      [] v.type = "boolean" -> Converted(IF v.value THEN <<"true">> ELSE <<"false">>)
      [] OTHER -> Throws

AsInt(v) ==
    CASE v.type \in {"null", "int"} -> Converted(v.value)
      [] v.type = "uint" /\ v.value < MaxInt -> Converted(v.value)
      [] v.type = "real" /\ v.value \in 10 * MinInt .. 10 * MaxInt ->
            Converted(Whole(v.value))
      [] v.type = "boolean" -> Converted(IF v.value THEN 1 ELSE 0)
      [] OTHER -> Throws

AsUInt(v) ==
    CASE v.type \in {"null", "uint"} -> Converted(v.value)
      [] v.type = "int" /\ v.value >= 0 -> Converted(v.value)
      [] v.type = "real" /\ v.value \in 0 .. 10 * MaxUInt ->
            Converted(Whole(v.value))
      [] v.type = "boolean" -> Converted(IF v.value THEN 1 ELSE 0)
      [] OTHER -> Throws

\* In tenths.
AsDouble(v) ==
    CASE v.type = "null" -> Converted(0)
      [] v.type \in {"int", "uint"} -> Converted(10 * v.value)
      [] v.type = "real" -> Converted(v.value)
      [] v.type = "boolean" -> Converted(IF v.value THEN 10 ELSE 0)
      [] OTHER -> Throws

AsBool(v) ==
    CASE v.type = "null" -> FALSE
      [] v.type \in {"int", "uint", "real"} -> v.value # 0
      [] v.type = "boolean" -> v.value
      [] v.type = "string" -> v.value # <<>>
      [] OTHER -> Size(v) # 0
===============================================================================
