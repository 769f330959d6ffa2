----------------------------- MODULE JsonSchema -----------------------------
(***************************************************************************)
(* json-schema.c: the validator that cper-convert and the tests run on an  *)
(* IR before it is turned into CPER.                                       *)
(*                                                                         *)
(* SchemaCall has the steps of a call; here is what validate_field()       *)
(* answers, which is what Validation is, and what it means.               *)
(*                                                                         *)
(* A schema is the function of the keywords it has ("ref" for "$ref",      *)
(* "version" for "$schema"); a keyword whose value is of a type the        *)
(* validator does not expect is IllTyped.  A document is a record with its *)
(* JSON type and, for an object, its "fields", for an array its "items",   *)
(* for an integer its "value".  The value null is NULL in json-c: a member *)
(* that is null counts as absent.                                          *)
(*                                                                         *)
(* Schemas nest, and so do documents: the functions over them are defined  *)
(* by recursion, as validate_field() is written.                           *)
(***************************************************************************)
EXTENDS SchemaCall, FiniteSetsExt

CONSTANTS
  IllTyped,     (* a keyword's value of the wrong type                     *)
  Modulus,      (* 2^64, the integers of the bounds' comparison            *)
  IntMax,       (* INT_MAX, what a bound is cut down to                    *)
  Schemas,      (* all schemas there are, parts and referenced ones too    *)
  Documents,    (* all documents there are, and parts of documents         *)
  SchemaDepth(_), DocumentDepth(_)   (* how deep one of these nests        *)

(* A keyword the validator takes notice of.                                *)
Given(schema, keyword) == Has(schema, keyword) /\ schema[keyword] # IllTyped

Present(object, key) ==
  key \in DOMAIN object.fields /\ object.fields[key].type # "null"

ValidTypes == {"object", "array", "integer", "string", "boolean", "double"}
TypesMatch(type, object) == type = object.type /\ type \in ValidTypes

(* Where json_object_get_uint64() and the bound meet: json_object_get_int() *)
(* cuts it down to an int, which is cast to uint64_t.                      *)
AsUint64(value) == IF value < 0 THEN 0 ELSE value
Bound(value) ==
  LET int == IF value > IntMax THEN IntMax
             ELSE IF value < -IntMax - 1 THEN -IntMax - 1 ELSE value
  IN  IF int < 0 THEN int + Modulus ELSE int

ValidateInteger(schema, object) ==
  IF \/ Given(schema, "minimum") /\ AsUint64(object.value) < Bound(schema.minimum)
     \/ Given(schema, "maximum") /\ AsUint64(object.value) > Bound(schema.maximum)
  THEN 0 ELSE 1

(* Mutant: what is not excluded is allowed.                                *)
AdditionalAllowedByDefault(schema) ==
  Given(schema, "additionalProperties") => schema.additionalProperties

AdditionalAllowed(schema) ==
  Given(schema, "additionalProperties") /\ schema.additionalProperties

(* validated[s][o] is what validate_field() answers for s and o.           *)
ValidateObject(validated, schema, object) ==
  IF \/ /\ Given(schema, "required")
        /\ \E i \in DOMAIN schema.required :
             \/ schema.required[i] = IllTyped
             \/ ~Present(object, schema.required[i])
     \/ /\ Given(schema, "properties")
        /\ \/ \E key \in DOMAIN schema.properties :
                /\ Present(object, key)
                /\ Rejected(validated[schema.properties[key]][object.fields[key]])
           \/ /\ ~AdditionalAllowed(schema)
              /\ ~(DOMAIN object.fields \subseteq DOMAIN schema.properties)
  THEN 0 ELSE 1

ValidateArray(validated, schema, object) ==
  IF /\ Given(schema, "items")
     /\ \E i \in DOMAIN object.items :
          Rejected(validated[schema.items][object.items[i]])
  THEN 0 ELSE 1

OptionsOf(schema) == {i \in DOMAIN schema.oneOf : schema.oneOf[i] # IllTyped}

(* The first option that does not fail decides; -1 does not fail.          *)
OneOfResult(validated, schema, object) ==
  LET taken == {i \in OptionsOf(schema) : ~Rejected(validated[schema.oneOf[i]][object])}
  IN  IF taken = {} THEN 0 ELSE validated[schema.oneOf[Min(taken)]][object]

ValidateType(validated, schema, object) ==
  IF object.type = "integer" THEN ValidateInteger(schema, object)
  ELSE IF object.type = "object" THEN ValidateObject(validated, schema, object)
  ELSE IF object.type = "array" THEN ValidateArray(validated, schema, object)
  ELSE 1

(* -1 for an error, 0 for a rejection and 1.  The schema that "$ref" names *)
(* is loaded, and dropped.                                                 *)
FieldResult(validated, schema, object) ==
  IF Given(schema, "ref") /\ schema.ref \notin DOMAIN Files THEN -1
  ELSE IF ~Given(schema, "type") THEN -1
  ELSE IF ~TypesMatch(schema.type, object) THEN 0
  ELSE LET option == IF Given(schema, "oneOf")
                       THEN OneOfResult(validated, schema, object) ELSE 1
       IN  IF option # 1 THEN option ELSE ValidateType(validated, schema, object)

Validated[schema \in Schemas] ==
  [object \in Documents |-> FieldResult(Validated, schema, object)]

ValidateField(schema, object) == Validated[schema][object]

ASSUME ValidatesFields ==
  \A s \in KnownSchemas, c \in Calls : Validation(s, c.object) = ValidateField(s, c.object)
----------------------------------------------------------------------------
(***************************************************************************)
(* What a schema means.  "$ref" is the schema of that file, applied beside *)
(* the other keywords; a keyword that is not given says nothing.  As in    *)
(* the validator, there are six types, what is required has a name, one of *)
(* the options of oneOf is enough, and properties other than the listed    *)
(* ones have to be allowed explicitly.  within is whether o, if it is an   *)
(* integer, is in its bounds, meets[t][d] whether d satisfies t.           *)
(***************************************************************************)
Satisfies(meets, within, s, o) ==
  /\ Given(s, "ref") /\ s.ref \in DOMAIN Files => meets[Files[s.ref]][o]
  /\ Given(s, "type") => TypesMatch(s.type, o)
  /\ Given(s, "oneOf") => \E i \in OptionsOf(s) : meets[s.oneOf[i]][o]
  /\ within
  /\ o.type = "array" /\ Given(s, "items") =>
       \A i \in DOMAIN o.items : meets[s.items][o.items[i]]
  /\ o.type = "object" =>
       /\ Given(s, "required") =>
            \A i \in DOMAIN s.required : s.required[i] # IllTyped /\ Present(o, s.required[i])
       /\ Given(s, "properties") =>
            \A key \in DOMAIN o.fields :
              IF key \in DOMAIN s.properties
                THEN Present(o, key) => meets[s.properties[key]][o.fields[key]]
                ELSE Given(s, "additionalProperties") /\ s.additionalProperties

(* The bounds as they are written.                                         *)
Within(s, o) ==
  o.type = "integer" =>
    /\ Given(s, "minimum") => o.value >= s.minimum
    /\ Given(s, "maximum") => o.value <= s.maximum

Meets[s \in Schemas] == [o \in Documents |-> Satisfies(Meets, Within(s, o), s, o)]

Valid(s, o) == Meets[s][o]

(***************************************************************************)
(* The bounds as they are read: a value below 0 counts as 0, and a bound   *)
(* above INT_MAX as INT_MAX.  A bound below 0 is none that JSON Schema     *)
(* knows: no value reaches such a minimum, none exceeds such a maximum.    *)
(***************************************************************************)
Lesser(a, b) == IF a < b THEN a ELSE b

WithinAsRead(s, o) ==
  o.type = "integer" =>
    LET value == IF o.value < 0 THEN 0 ELSE o.value IN
      /\ Given(s, "minimum") => s.minimum >= 0 /\ value >= Lesser(s.minimum, IntMax)
      /\ Given(s, "maximum") => s.maximum < 0 \/ value <= Lesser(s.maximum, IntMax)

MeetsAsRead[s \in Schemas] ==
  [o \in Documents |-> Satisfies(MeetsAsRead, WithinAsRead(s, o), s, o)]

ValidAsRead(s, o) == MeetsAsRead[s][o]

(* The schemas directly inside a schema, those it refers to, and the       *)
(* documents directly inside a document.                                   *)
SubSchemas(s) ==
  (IF Given(s, "oneOf") THEN {s.oneOf[i] : i \in OptionsOf(s)} ELSE {})
    \union (IF Given(s, "properties")
              THEN {s.properties[key] : key \in DOMAIN s.properties} ELSE {})
    \union (IF Given(s, "items") THEN {s.items} ELSE {})
Referenced(s) ==
  IF Given(s, "ref") /\ s.ref \in DOMAIN Files THEN {Files[s.ref]} ELSE {}
SubDocuments(o) ==
  IF o.type = "object" THEN {o.fields[key] : key \in DOMAIN o.fields}
  ELSE IF o.type = "array" THEN {o.items[i] : i \in DOMAIN o.items}
  ELSE {}

(***************************************************************************)
(* Keywords have values of the types the validator expects, or are         *)
(* IllTyped; a part that is no object (none is null) says as little as one *)
(* without keywords, <<>>.  Schemas do not contain themselves, nor refer   *)
(* to themselves: such a reference would say nothing.                      *)
(***************************************************************************)
ASSUME SchemasAssumption ==
  /\ KnownSchemas \subseteq Schemas
  /\ \A s \in Schemas :
       /\ SchemaDepth(s) \in Nat
       /\ \A t \in SubSchemas(s) \union Referenced(s) :
            t \in Schemas /\ SchemaDepth(t) < SchemaDepth(s)
       /\ Given(s, "oneOf") => DOMAIN s.oneOf \subseteq Nat
       /\ \A bound \in {"minimum", "maximum"} : Given(s, bound) => s[bound] \in Int
       /\ Given(s, "additionalProperties") => s.additionalProperties \in BOOLEAN

ASSUME DocumentsAssumption ==
  /\ \A c \in Calls : c.object \in Documents
  /\ \A o \in Documents :
       /\ DocumentDepth(o) \in Nat
       /\ \A t \in SubDocuments(o) :
            t \in Documents /\ DocumentDepth(t) < DocumentDepth(o)
       /\ o.type = "integer" => o.value \in Int

ASSUME IntAssumption == IntMax \in Nat /\ Modulus \in Nat /\ IntMax + 1 < Modulus

(* A schema or a document with everything in it.                           *)
SchemaParts[s \in Schemas] ==
  {s} \union UNION {SchemaParts[sub] : sub \in SubSchemas(s)}
DocumentParts[o \in Documents] ==
  {o} \union UNION {DocumentParts[sub] : sub \in SubDocuments(o)}

(* A schema on its own: every part of it states its type, none refers.     *)
SelfContained(s) ==
  \A part \in SchemaParts[s] : ~Has(part, "ref") /\ Given(part, "type")

(* No integer in the document is so large that a bound below 0, as an      *)
(* unsigned number, is not above it.                                       *)
Ordinary(o) ==
  \A part \in DocumentParts[o] :
    part.type = "integer" => part.value < Modulus - (IntMax + 1)

(***************************************************************************)
(* A schema on its own, whose options, properties and items may be nested  *)
(* as deep as they like, gets every document right, or as right as its     *)
(* bounds are read: 1 for those that satisfy it, 0 for the others, never   *)
(* -1 -- and 0 for every document where the validation is not come to, as  *)
(* with no directory, which for just these schemas is called valid         *)
(* (json-schema.c:67).                                                     *)
(***************************************************************************)
AgreesWithoutRefs ==
  pc \in {"failed", "returned"} /\ (Admitted => SelfContained(SchemaOfCall))
      /\ Ordinary(call.object) =>
    result = IF Admitted /\ ValidAsRead(SchemaOfCall, call.object) THEN 1 ELSE 0

(***************************************************************************)
(* A document is refused for a reason: also where the schema refers to     *)
(* others, or has parts the validator gives up on, one that satisfies it,  *)
(* with its bounds as they are read, is only refused when the validation   *)
(* is not come to: no schema, none of the version, no directory, or a      *)
(* getcwd() or chdir() that the system refuses.                            *)
(***************************************************************************)
RejectionsSound ==
  pc \in {"failed", "returned"} /\ result = 0 /\ Ordinary(call.object) =>
    ~Admitted \/ ~ValidAsRead(SchemaOfCall, call.object)

(***************************************************************************)
(* "returning 1 on success and 0 on failure to validate": what the callers *)
(* take for success, any result but 0, is that the document satisfies the  *)
(* schema.                                                                 *)
(***************************************************************************)
AcceptedIsValid ==
  pc = "returned" /\ result # 0 => Valid(root, call.object)
=============================================================================
