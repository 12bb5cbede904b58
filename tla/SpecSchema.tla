----------------------------- MODULE SpecSchema -----------------------------
(***************************************************************************)
(* schema_match and schema_errors of the expression language: whether a    *)
(* value fits a schema (_schema_validate).  A schema is a function from    *)
(* its keys to what they say; a message is a place and a complaint.  Left  *)
(* out: the text of messages and the regular expressions of pattern.       *)
(***************************************************************************)
EXTENDS SpecValues

NoSchema == [not_a_mapping |-> TRUE]
SchemaKeys == {"type", "required", "properties", "allow_extra", "items", "min_items", "max_items",
               "min_length", "max_length", "const", "enum", "all_of", "any_of", "not"}

TypeOk(v, name) ==
    IF name = "integer" THEN Is("num", v) ELSE JsonType(v) = TypeToken(name)

Complain(path, what, if) == IF if THEN {[at |-> path, what |-> what]} ELSE {}

(* A bound on a length: malformed, of the wrong kind of value, or missed. *)
SizeOrZero(v) == IF Is("list", v) THEN Len(v.list) ELSE IF Is("str", v) THEN Len(v.str) ELSE 0
LengthErrors(v, schema, path, key, kind) ==
    LET bound == schema[key]
        missed == IF key \in {"min_length", "min_items"} THEN SizeOrZero(v) < bound ELSE SizeOrZero(v) > bound
    IN  IF key \notin DOMAIN schema THEN {} ELSE Complain(path, key, bound < 0 \/ ~Is(kind, v) \/ missed)

(* What the value itself must be. *)
ScalarErrors(v, schema, path) ==
    Complain(path, "unknown key", ~DOMAIN schema \subseteq SchemaKeys)
    \cup Complain(path, "type", "type" \in DOMAIN schema /\
             ~TypeOk(v, schema.type))
    \cup Complain(path, "const", "const" \in DOMAIN schema /\ ~DeepEquals(v, schema.const))
    \cup Complain(path, "enum", "enum" \in DOMAIN schema /\
             (schema.enum = <<>> \/ ~IncludesDeep(schema.enum, v)))
    \cup LengthErrors(v, schema, path, "min_length", "str")
    \cup LengthErrors(v, schema, path, "max_length", "str")
    \cup LengthErrors(v, schema, path, "min_items", "list")
    \cup LengthErrors(v, schema, path, "max_items", "list")

RequiredErrors(v, schema, path) ==
    CASE "required" \notin DOMAIN schema -> {}
      [] ~Is("dict", v) -> Complain(path, "required", TRUE)
      [] OTHER -> {[at |-> Append(path, k), what |-> "missing"] : k \in schema.required \ DOMAIN v.dict}

(* Slip: an alternative is chosen by its own keywords, not by its parts. *)
RECURSIVE ShallowErrors(_, _, _)
ShallowErrors(v, schema, path) ==
    IF schema = NoSchema THEN Complain(path, "mapping", TRUE)
    ELSE ScalarErrors(v, schema, path) \cup RequiredErrors(v, schema, path)
         \cup (IF "all_of" \in DOMAIN schema
               THEN UNION {ShallowErrors(v, schema.all_of[i], path) : i \in 1 .. Len(schema.all_of)} ELSE {})
RECURSIVE SchemaErrors(_, _, _)
SchemaErrors(v, schema, path) ==
    IF schema = NoSchema THEN Complain(path, "mapping", TRUE)
    ELSE ScalarErrors(v, schema, path)
         \cup RequiredErrors(v, schema, path)
         \cup (CASE "properties" \notin DOMAIN schema -> {}
                 [] ~Is("dict", v) -> Complain(path, "properties", TRUE)
                 [] OTHER ->
                    UNION {SchemaErrors(v.dict[k], schema.properties[k], Append(path, k)) :
                               k \in DOMAIN schema.properties \cap DOMAIN v.dict}
                    \cup (IF "allow_extra" \in DOMAIN schema /\ ~schema.allow_extra
                          THEN {[at |-> Append(path, k), what |-> "extra"] :
                                    k \in DOMAIN v.dict \ DOMAIN schema.properties}
                          ELSE {}))
         \cup (CASE "items" \notin DOMAIN schema -> {}
                 [] ~Is("list", v) -> Complain(path, "items", TRUE)
                 [] OTHER -> UNION {SchemaErrors(v.list[i], schema.items, Append(path, ToString(i))) :
                                        i \in 1 .. Len(v.list)})
         \cup (IF "all_of" \notin DOMAIN schema THEN {}
               ELSE Complain(path, "all_of", schema.all_of = <<>>)
                    \cup UNION {SchemaErrors(v, schema.all_of[i], Append(path, "all_of")) : i \in 1 .. Len(schema.all_of)})
         \cup Complain(path, "any_of", "any_of" \in DOMAIN schema /\
                 \A i \in 1 .. Len(schema.any_of) : SchemaErrors(v, schema.any_of[i], path) # {})
         (* a schema that is malformed under not fits nothing, so not holds *)
         \cup Complain(path, "not", "not" \in DOMAIN schema /\ SchemaErrors(v, schema.not, path) = {})

SchemaMatch(v, schema) == SchemaErrors(v, schema, <<"$">>) = {}
=============================================================================
