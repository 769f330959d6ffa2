---------------------------- MODULE MCJsonSchema ----------------------------
(* Schemas that combine the keywords, and documents that differ in what    *)
(* they look at.                                                           *)
EXTENDS JsonSchema, TLC

Object(fields) == [type |-> "object", fields |-> fields]
Array(items) == [type |-> "array", items |-> items]
Integer(value) == [type |-> "integer", value |-> value]
Text == [type |-> "string"]
NullValue == [type |-> "null"]

Schema(keywords) == [version |-> "2020-12", type |-> "object"] @@ keywords

(* In the shape of specification/json: a record, one section, the choice.  *)
SectionSchema ==
  [version |-> "2020-12", type |-> "object", required |-> <<"data">>,
   additionalProperties |-> FALSE, properties |-> [data |-> [type |-> "string"]]]
FullLog ==
  [type |-> "object", required |-> <<"header", "sections">>, additionalProperties |-> FALSE,
   properties |->
     [header   |-> [type |-> "integer", minimum |-> 1],
      sections |-> [type |-> "array",
                    items |-> [type |-> "object", oneOf |-> <<[ref |-> "section"]>>]]]]
SectionLog ==
  [type |-> "object", required |-> <<"section">>, additionalProperties |-> FALSE,
   properties |-> [section |-> [ref |-> "section"]]]
CperJson == Schema([oneOf |-> <<[ref |-> "full-log"], [ref |-> "section-log"]>>])

(* Self-contained, with every keyword.                                     *)
Bounded == [type |-> "integer", minimum |-> 1, maximum |-> 2]
Flat == Schema([required |-> <<"a">>, properties |-> [a |-> Bounded, b |-> [type |-> "string"]]])
Open == Schema([additionalProperties |-> TRUE, properties |-> [a |-> Bounded]])
Nested ==
  Schema([properties |->
    [a |-> [type |-> "array", items |-> Bounded],
     b |-> [type |-> "object", required |-> <<"a">>,
            properties |-> [a |-> [type |-> "integer", minimum |-> 2]]]]])
Options ==
  Schema([oneOf |-> <<[type |-> "object", required |-> <<"a">>],
                      [type |-> "object", properties |-> [b |-> [type |-> "string"]]]>>,
          properties |-> [a |-> Bounded, b |-> [type |-> "string"]]])

(* With what the validator gives up on.                                    *)
Untyped == Schema([properties |-> [a |-> [minimum |-> 1], b |-> [type |-> "string"]]])
TypedRef == Schema([ref |-> "section", required |-> <<"a">>])
Dangling == Schema([oneOf |-> <<[ref |-> "missing", type |-> "object"],
                                [type |-> "object", required |-> <<"a">>]>>])
LateOption == Schema([oneOf |-> <<IllTyped, [type |-> "object", required |-> <<"a">>],
                                  [required |-> <<"b">>]>>])
Negative == Schema([properties |-> [a |-> [type |-> "integer", minimum |-> -2],
                                    b |-> [type |-> "integer", maximum |-> -2]]])
(* Bounds that are no int: they are cut down.                              *)
Clamped == Schema([properties |-> [a |-> [type |-> "integer", maximum |-> 6],
                                   b |-> [type |-> "integer", minimum |-> 6]]])
IllRequired == Schema([required |-> <<IllTyped>>])
NoVersion == [type |-> "object"]
OldVersion == [version |-> "draft-07", type |-> "object"]

MCSchemas ==
  {CperJson, Flat, Open, Nested, Options, Untyped, TypedRef, Dangling, LateOption,
   Negative, Clamped, IllRequired, NoVersion, OldVersion}

Values == {Integer(v) : v \in {-1, 0, 1, 2, 3, 4, 5, Modulus - 1}}
  \union {Text, NullValue, Object(<<>>), Object([a |-> Integer(1)]), Object([a |-> Integer(2)]),
          Array(<<>>), Array(<<Integer(1)>>), Array(<<Integer(2), Integer(3)>>),
          Array(<<NullValue>>)}

MCDocuments ==
  {Object(<<>>), Array(<<>>), Text,
   Object([data |-> Text]), Object([data |-> Integer(1)]),
   Object([section |-> Object([data |-> Text])]),
   Object([section |-> Object(<<>>)]),
   Object([header |-> Integer(0), sections |-> Array(<<>>)])}
  \union {Object([a |-> v]) : v \in Values}
  \union {Object([b |-> v]) : v \in Values}
  \union {Object([a |-> v, b |-> Text]) : v \in Values}
  \union {Object([a |-> Integer(1), c |-> v]) : v \in {Text, NullValue}}

SpecFiles == [section |-> SectionSchema, cper |-> CperJson]
  @@ [n \in {"full-log", "section-log"} |-> IF n = "full-log" THEN FullLog ELSE SectionLog]

(* Everything in a schema and in a document, and how deep it is.           *)
RECURSIVE Parts(_), Depth(_)
Parts(s) == {s} \union UNION {Parts(t) : t \in SubSchemas(s) \union Referenced(s)}
Depth(s) ==
  LET inside == {Depth(t) : t \in SubSchemas(s) \union Referenced(s)}
  IN  IF inside = {} THEN 0
      ELSE 1 + CHOOSE d \in inside : \A e \in inside : e <= d

RECURSIVE PartsOf(_), DepthOf(_)
PartsOf(o) == {o} \union UNION {PartsOf(t) : t \in SubDocuments(o)}
DepthOf(o) ==
  LET inside == {DepthOf(t) : t \in SubDocuments(o)}
  IN  IF inside = {} THEN 0
      ELSE 1 + CHOOSE d \in inside : \A e \in inside : e <= d

AllSchemas ==
  UNION {Parts(s) : s \in MCSchemas \union {SpecFiles[f] : f \in DOMAIN SpecFiles}}
    \union {<<>>}
AllDocuments == UNION {PartsOf(d) : d \in MCDocuments}

FileCalls(files, documents) ==
  {[file |-> f, schema |-> <<>>, dir |-> SchemaDir, object |-> d] : f \in files, d \in documents}

AllCalls ==
  FileCalls({"cper", "section", "missing"}, MCDocuments)
    \union {[file |-> Null, schema |-> s, dir |-> SchemaDir, object |-> d] :
              s \in MCSchemas, d \in MCDocuments}
    \union {[file |-> Null, schema |-> s, dir |-> Null, object |-> d] :
              s \in {Flat, CperJson}, d \in MCDocuments}

(* cper-convert to-cper with the schema of the specification.              *)
ConvertCalls == FileCalls({"cper"}, MCDocuments)
=============================================================================
