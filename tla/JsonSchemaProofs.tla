-------------------------- MODULE JsonSchemaProofs --------------------------
(***************************************************************************)
(* A call of the validator, for all sets of schemas, documents and files:  *)
(* the types of its state, where it leaves the process, what it returns,   *)
(* and what validate_field() answers.                                      *)
(*                                                                         *)
(* The first part is about a call, whatever the answer is.  The second     *)
(* shows that the recursive definitions of JsonSchema have the values that *)
(* they say, and by induction on the depth of the schema that a rejection  *)
(* has a reason and that an acceptance by a schema on its own is right.    *)
(***************************************************************************)
EXTENDS JsonSchema, TLAPS

(* Induction on the natural numbers.                                       *)
Numbers == INSTANCE SectionPartsProofs
----------------------------------------------------------------------------
(***************************************************************************)
(* The inductive invariant.  The process is away exactly from the chdir()  *)
(* that succeeded to the one that brings it back, and while it is away the *)
(* way back is known; there is no answer before the validation, and        *)
(* nothing changes it afterwards.  The validation is come to exactly where *)
(* nothing of Admitted fails, and then with the schema of the call.        *)
(***************************************************************************)
Before == {"load", "version", "getcwd", "enter"}

CallInv ==
  /\ TypeOK
  /\ pc \notin {"load", "failed"} => root \in KnownSchemas
  /\ pc \notin {"load", "failed"} =>
       call.file \in DOMAIN Files \union {Null} /\ root = SchemaOfCall
  /\ pc = "load" => call.file # Null
  /\ pc \in {"getcwd", "enter", "validate", "leave", "returned"} =>
       Has(root, "version") /\ root.version = "2020-12"
  /\ pc \in Before => refused = {}
  /\ pc \in {"validate", "leave", "returned"} =>
       call.dir # Null /\ refused \subseteq {"leave"}
  /\ pc = "failed" => ~Admitted
  /\ pc \in Before \union {"failed"} => cwd = Home /\ result = 0
  /\ pc \in {"enter", "validate", "leave", "returned"} => saved = Home
  /\ pc \in {"validate", "leave"} => cwd = SchemaDir
  /\ pc = "returned" => cwd = Home \/ "leave" \in refused
  /\ pc \in {"leave", "returned"} => result = Validation(root, call.object)

LEMMA CallInit == Init => CallInv
<1> SUFFICES ASSUME Init PROVE CallInv
  OBVIOUS
<1>1. TypeOK
  BY DEF Init, TypeOK
<1>2. pc \in {"load", "version"}
  BY DEF Init
<1>3. pc = "version" => root \in KnownSchemas
  BY DEF Init, KnownSchemas
<1> QED
  BY <1>1, <1>2, <1>3 DEF Init, CallInv, Before, SchemaOfCall

LEMMA CallStep == CallInv /\ [Next]_vars => CallInv'
<1> SUFFICES ASSUME CallInv, [Next]_vars PROVE CallInv'
  OBVIOUS
<1> USE DEF CallInv, TypeOK, Before, SchemaOfCall, Admitted
<1>1. CASE LoadSchema
  <2>1. CASE call.file \in DOMAIN Files
    <3>1. Files[call.file] \in KnownSchemas
      BY <2>1 DEF KnownSchemas
    <3> QED
      BY <1>1, <2>1, <3>1 DEF LoadSchema
  <2>2. CASE call.file \notin DOMAIN Files
    BY <1>1, <2>2 DEF LoadSchema, Fail
  <2> QED
    BY <2>1, <2>2
<1>2. CASE CheckVersion
  BY <1>2 DEF CheckVersion, Fail
<1>3. CASE GetCwd
  BY <1>3 DEF GetCwd, Fail
<1>4. CASE EnterSchemaDir
  <2>1. call.dir # Null => call.dir = SchemaDir
    BY DirectoriesAssumption
  <2> QED
    BY <1>4, <2>1 DEF EnterSchemaDir, Fail
<1>5. CASE Validate
  <2>1. root \in KnownSchemas /\ call \in Calls
    BY <1>5 DEF Validate
  <2>2. Validation(root, call.object) \in {-1, 0, 1}
    BY <2>1, ValidationAssumption, Zenon
  <2> QED
    BY <1>5, <2>2 DEF Validate
<1>6. CASE LeaveSchemaDir
  BY <1>6 DEF LeaveSchemaDir
<1>7. CASE Returned
  BY <1>7 DEF Returned, vars
<1>8. CASE UNCHANGED vars
  BY <1>8 DEF vars
<1> QED
  BY <1>1, <1>2, <1>3, <1>4, <1>5, <1>6, <1>7, <1>8 DEF Next

(* Every state of a call satisfies the invariant.                          *)
THEOREM CallInvariant == Spec => []CallInv
BY CallInit, CallStep, PTL DEF Spec

(* The types of a call's state (json-schema.c:66-117).                     *)
THEOREM CallTyped == Spec => []TypeOK
<1>1. CallInv => TypeOK
  BY DEF CallInv
<1> QED
  BY <1>1, CallInvariant, PTL

(***************************************************************************)
(* On every path out of validate_schema_from_file(), the early returns at  *)
(* :47, :78, :89 and :97 included, the process is in the directory it was  *)
(* called in, unless the chdir() at :104 was refused.                      *)
(***************************************************************************)
THEOREM DirectoryRestored == Spec => []CwdRestored
<1>1. CallInv => CwdRestored
  BY DEF CallInv, CwdRestored, Before
<1> QED
  BY <1>1, CallInvariant, PTL

(***************************************************************************)
(* While validate_field() runs, and opens what "$ref" names by relative    *)
(* paths (:134), the process is in the directory of the schemas; and what  *)
(* it answers is what the call returns, whether the chdir() back succeeds  *)
(* or not, while every early return is 0.                                  *)
(***************************************************************************)
AnsweredInPlace ==
  /\ pc = "validate" => cwd = SchemaDir
  /\ pc = "failed" => result = 0
  /\ pc = "returned" => result = Validation(root, call.object)

THEOREM AnswerStands == Spec => []AnsweredInPlace
<1>1. CallInv => AnsweredInPlace
  BY DEF CallInv, AnsweredInPlace, Before
<1> QED
  BY <1>1, CallInvariant, PTL
----------------------------------------------------------------------------
(* Induction on a depth.                                                   *)
LEMMA DepthInduction ==
  ASSUME NEW X, NEW depth \in [X -> Nat], NEW P,
         \A x \in X : (\A y \in X : depth[y] < depth[x] => y \in P) => x \in P
  PROVE  X \subseteq P
<1> DEFINE Below == {n \in Nat : \A x \in X : depth[x] < n => x \in P}
<1>1. 0 \in Below
  OBVIOUS
<1>2. ASSUME NEW n \in Nat, n \in Below PROVE n + 1 \in Below
  <2> SUFFICES ASSUME NEW x \in X, depth[x] < n + 1 PROVE x \in P
    OBVIOUS
  <2>1. \A y \in X : depth[y] < depth[x] => y \in P
    BY <1>2
  <2> QED
    BY <2>1
<1> HIDE DEF Below
<1>3. Nat \subseteq Below
  BY <1>1, <1>2, Numbers!NumbersInduction
<1>4. ASSUME NEW x \in X PROVE x \in P
  <2>1. depth[x] + 1 \in Below
    BY <1>3
  <2> QED
    BY <2>1 DEF Below
<1> QED
  BY <1>4

(* A definition by recursion on a depth has a solution: where what a step  *)
(* says of x depends only on what is said of those less deep.              *)
LEMMA RecursionSolved ==
  ASSUME NEW X, NEW Y, NEW y0 \in Y, NEW depth \in [X -> Nat],
         NEW step \in [[X -> Y] -> [X -> Y]],
         \A f, g \in [X -> Y] : \A x \in X :
           (\A y \in X : depth[y] < depth[x] => f[y] = g[y]) => step[f][x] = step[g][x]
  PROVE  \E f \in [X -> Y] : f = step[f]
<1> DEFINE Solves(f, n) == \A x \in X : depth[x] < n => f[x] = step[f][x]
           Solved == {n \in Nat : \E f \in [X -> Y] : Solves(f, n)}
<1>1. 0 \in Solved
  <2>1. [x \in X |-> y0] \in [X -> Y] /\ Solves([x \in X |-> y0], 0)
    OBVIOUS
  <2> QED
    BY <2>1
<1>2. ASSUME NEW n \in Nat, n \in Solved PROVE n + 1 \in Solved
  <2>1. PICK f \in [X -> Y] : Solves(f, n)
    BY <1>2
  <2>2. step[f] \in [X -> Y]
    OBVIOUS
  <2>3. ASSUME NEW x \in X, depth[x] < n + 1 PROVE step[f][x] = step[step[f]][x]
    <3>1. \A y \in X : depth[y] < depth[x] => f[y] = step[f][y]
      BY <2>1, <2>3
    <3> QED
      BY <2>2, <3>1
  <2>4. Solves(step[f], n + 1)
    BY <2>3
  <2> QED
    BY <2>2, <2>4
<1> HIDE DEF Solved
<1>3. Nat \subseteq Solved
  BY <1>1, <1>2, Numbers!NumbersInduction
<1>4. ASSUME NEW n \in Nat, NEW f \in [X -> Y], NEW g \in [X -> Y], Solves(f, n), Solves(g, n),
             NEW z \in X, depth[z] < n
      PROVE  f[z] = g[z]
  <2> DEFINE P == {x \in X : depth[x] < n => f[x] = g[x]}
  <2>1. ASSUME NEW x \in X, \A y \in X : depth[y] < depth[x] => y \in P PROVE x \in P
    <3> SUFFICES ASSUME depth[x] < n PROVE f[x] = g[x]
      OBVIOUS
    <3>1. \A y \in X : depth[y] < depth[x] => f[y] = g[y]
      BY <2>1
    <3>2. step[f][x] = step[g][x]
      BY <3>1
    <3> QED
      BY <1>4, <3>2
  <2> HIDE DEF P
  <2>2. X \subseteq P
    BY <2>1, DepthInduction
  <2> QED
    BY <1>4, <2>2 DEF P
<1> DEFINE At(n) == CHOOSE f \in [X -> Y] : Solves(f, n)
           F == [x \in X |-> At(depth[x] + 1)[x]]
<1>5. \A n \in Nat : At(n) \in [X -> Y] /\ Solves(At(n), n)
  <2> TAKE n \in Nat
  <2>1. \E f \in [X -> Y] : Solves(f, n)
    BY <1>3 DEF Solved
  <2> HIDE DEF Solves
  <2> QED
    BY <2>1
<1> HIDE DEF At
<1>6. F \in [X -> Y]
  BY <1>5
<1>7. ASSUME NEW x \in X PROVE F[x] = step[F][x]
  <2> DEFINE f == At(depth[x] + 1)
  <2>1. f \in [X -> Y] /\ Solves(f, depth[x] + 1)
    BY <1>5
  <2>2. ASSUME NEW y \in X, depth[y] < depth[x] PROVE F[y] = f[y]
    <3>1. At(depth[y] + 1) \in [X -> Y] /\ Solves(At(depth[y] + 1), depth[y] + 1)
      BY <1>5
    <3>2. Solves(f, depth[y] + 1)
      BY <2>1, <2>2
    <3> HIDE DEF Solves, f
    <3>3. depth[y] + 1 \in Nat /\ depth[y] < depth[y] + 1
      OBVIOUS
    <3> QED
      BY <1>4, <2>1, <3>1, <3>2, <3>3
  <2>3. step[F][x] = step[f][x]
    <3> HIDE DEF F, f
    <3> QED
      BY <1>6, <2>1, <2>2
  <2>4. f[x] = step[f][x]
    BY <2>1
  <2> QED
    BY <2>3, <2>4
<1> HIDE DEF F
<1>8. step[F] \in [X -> Y]
  BY <1>6
<1>9. F = step[F]
  BY <1>6, <1>7, <1>8
<1> QED
  BY <1>6, <1>9

(* The depths, as functions.                                               *)
SchemaDepths == [s \in Schemas |-> SchemaDepth(s)]
DocumentDepths == [o \in Documents |-> DocumentDepth(o)]

LEMMA SchemaParted ==
  ASSUME NEW s \in Schemas, NEW t \in SubSchemas(s) \union Referenced(s)
  PROVE  t \in Schemas /\ SchemaDepths[t] < SchemaDepths[s]
BY SchemasAssumption DEF SchemaDepths

LEMMA SchemaDepthsTyped == SchemaDepths \in [Schemas -> Nat]
BY SchemasAssumption DEF SchemaDepths

LEMMA DocumentParted ==
  ASSUME NEW o \in Documents, NEW t \in SubDocuments(o)
  PROVE  t \in Documents /\ DocumentDepths[t] < DocumentDepths[o]
BY DocumentsAssumption DEF DocumentDepths

LEMMA DocumentDepthsTyped == DocumentDepths \in [Documents -> Nat]
BY DocumentsAssumption DEF DocumentDepths

(* What a schema's keywords contain are its parts.                         *)
LEMMA KeywordParts ==
  ASSUME NEW s
  PROVE  /\ Given(s, "oneOf") => \A i \in OptionsOf(s) : s.oneOf[i] \in SubSchemas(s)
         /\ Given(s, "properties") =>
              \A key \in DOMAIN s.properties : s.properties[key] \in SubSchemas(s)
         /\ Given(s, "items") => s.items \in SubSchemas(s)
         /\ Given(s, "ref") /\ s.ref \in DOMAIN Files => Files[s.ref] \in Referenced(s)
BY DEF SubSchemas, Referenced

(* The answer for oneOf is 0 if that is the answer for every option, and   *)
(* otherwise the answer, not 0, for one of them.                           *)
LEMMA OneOfDecided ==
  ASSUME NEW validated, NEW s \in Schemas, NEW o, Given(s, "oneOf")
  PROVE  \/ /\ OneOfResult(validated, s, o) = 0
            /\ \A i \in OptionsOf(s) : validated[s.oneOf[i]][o] = 0
         \/ \E i \in OptionsOf(s) :
              /\ OneOfResult(validated, s, o) = validated[s.oneOf[i]][o]
              /\ validated[s.oneOf[i]][o] # 0
<1> DEFINE taken == {i \in OptionsOf(s) : ~Rejected(validated[s.oneOf[i]][o])}
<1>1. CASE taken = {}
  BY <1>1 DEF OneOfResult, Rejected
<1>2. CASE taken # {}
  <2>1. taken \subseteq Nat
    BY SchemasAssumption DEF OptionsOf
  <2>2. \E i \in taken : \A j \in taken : i <= j
    <3> HIDE DEF taken
    <3> QED
      BY <1>2, <2>1, Numbers!LeastNumber
  <2>3. Min(taken) \in taken
    <3> HIDE DEF taken
    <3> QED
      BY <2>2 DEF Min
  <2>4. OneOfResult(validated, s, o) = validated[s.oneOf[Min(taken)]][o]
    BY <1>2 DEF OneOfResult
  <2>5. validated[s.oneOf[Min(taken)]][o] # 0
    BY <2>3 DEF Rejected
  <2> QED
    BY <2>3, <2>4, <2>5
<1> QED
  BY <1>1, <1>2

LEMMA FieldResultTyped ==
  ASSUME NEW validated \in [Schemas -> [Documents -> {-1, 0, 1}]],
         NEW s \in Schemas, NEW o \in Documents
  PROVE  FieldResult(validated, s, o) \in {-1, 0, 1}
<1>1. ASSUME Given(s, "oneOf") PROVE OneOfResult(validated, s, o) \in {-1, 0, 1}
  <2>1. \A i \in OptionsOf(s) : s.oneOf[i] \in Schemas
    BY <1>1, KeywordParts, SchemaParted
  <2>2. \A i \in OptionsOf(s) : validated[s.oneOf[i]][o] \in {-1, 0, 1}
    BY <2>1
  <2>3. \/ /\ OneOfResult(validated, s, o) = 0
           /\ \A i \in OptionsOf(s) : validated[s.oneOf[i]][o] = 0
        \/ \E i \in OptionsOf(s) :
             /\ OneOfResult(validated, s, o) = validated[s.oneOf[i]][o]
             /\ validated[s.oneOf[i]][o] # 0
    BY <1>1, OneOfDecided
  <2> QED
    BY <2>2, <2>3
<1>2. ValidateType(validated, s, o) \in {0, 1}
  BY DEF ValidateType, ValidateInteger, ValidateObject, ValidateArray
<1> QED
  BY <1>1, <1>2 DEF FieldResult

(* What is answered for a schema depends on the answers for its parts.     *)
LEMMA FieldResultLocal ==
  ASSUME NEW f, NEW g, NEW s \in Schemas, NEW o, \A t \in SubSchemas(s) : f[t] = g[t]
  PROVE  FieldResult(f, s, o) = FieldResult(g, s, o)
<1>1. ASSUME Given(s, "oneOf") PROVE OneOfResult(f, s, o) = OneOfResult(g, s, o)
  <2>1. \A i \in OptionsOf(s) : f[s.oneOf[i]][o] = g[s.oneOf[i]][o]
    BY <1>1, KeywordParts
  <2> DEFINE taken == {i \in OptionsOf(s) : ~Rejected(f[s.oneOf[i]][o])}
  <2>2. taken = {i \in OptionsOf(s) : ~Rejected(g[s.oneOf[i]][o])}
    BY <2>1
  <2>3. OneOfResult(f, s, o) = IF taken = {} THEN 0 ELSE f[s.oneOf[Min(taken)]][o]
    BY DEF OneOfResult
  <2>4. OneOfResult(g, s, o) = IF taken = {} THEN 0 ELSE g[s.oneOf[Min(taken)]][o]
    BY <2>2 DEF OneOfResult
  <2>5. taken # {} => Min(taken) \in OptionsOf(s)
    <3>1. taken \subseteq OptionsOf(s)
      OBVIOUS
    <3>2. OptionsOf(s) \subseteq Nat
      BY <1>1, SchemasAssumption DEF OptionsOf
    <3> HIDE DEF taken
    <3>3. taken # {} => \E i \in taken : \A j \in taken : i <= j
      BY <3>1, <3>2, Numbers!LeastNumber
    <3> QED
      BY <3>1, <3>3 DEF Min
  <2> HIDE DEF taken
  <2> QED
    BY <2>1, <2>3, <2>4, <2>5
<1>2. ValidateObject(f, s, o) = ValidateObject(g, s, o)
  <2>1. Given(s, "properties") =>
          \A key \in DOMAIN s.properties : f[s.properties[key]] = g[s.properties[key]]
    BY KeywordParts
  <2> QED
    BY <2>1 DEF ValidateObject
<1>3. ValidateArray(f, s, o) = ValidateArray(g, s, o)
  <2>1. Given(s, "items") => f[s.items] = g[s.items]
    BY KeywordParts
  <2> QED
    BY <2>1 DEF ValidateArray
<1> QED
  BY <1>1, <1>2, <1>3 DEF FieldResult, ValidateType

LEMMA SchemaRecursionSolved ==
  ASSUME NEW Y, NEW y0 \in Y, NEW step \in [[Schemas -> Y] -> [Schemas -> Y]],
         \A f, g \in [Schemas -> Y] : \A s \in Schemas :
           (\A t \in Schemas : SchemaDepths[t] < SchemaDepths[s] => f[t] = g[t])
             => step[f][s] = step[g][s]
  PROVE  \E f \in [Schemas -> Y] : f = step[f]
BY SchemaDepthsTyped, RecursionSolved

LEMMA ValidatedUnfolds ==
  \A s \in Schemas, o \in Documents : Validated[s][o] = FieldResult(Validated, s, o)
<1> DEFINE Answers == [Documents -> {-1, 0, 1}]
           Step(f) == [s \in Schemas |-> [o \in Documents |-> FieldResult(f, s, o)]]
           step == [f \in [Schemas -> Answers] |-> Step(f)]
<1>1. \A f \in [Schemas -> Answers] : Step(f) \in [Schemas -> Answers]
  BY FieldResultTyped
<1>2. step \in [[Schemas -> Answers] -> [Schemas -> Answers]]
  BY <1>1
<1>3. ASSUME NEW f \in [Schemas -> Answers], NEW g \in [Schemas -> Answers], NEW s \in Schemas,
             \A t \in Schemas : SchemaDepths[t] < SchemaDepths[s] => f[t] = g[t]
      PROVE  step[f][s] = step[g][s]
  <2>1. \A t \in SubSchemas(s) : f[t] = g[t]
    BY <1>3, SchemaParted
  <2>2. \A o \in Documents : FieldResult(f, s, o) = FieldResult(g, s, o)
    BY <2>1, FieldResultLocal
  <2> QED
    BY <2>2
<1>4. \E answer : answer \in Answers
  <2>1. [o \in Documents |-> 0] \in Answers
    OBVIOUS
  <2> QED
    BY <2>1
<1>5. \E f \in [Schemas -> Answers] : f = step[f]
  <2>1. \A f, g \in [Schemas -> Answers] : \A s \in Schemas :
          (\A t \in Schemas : SchemaDepths[t] < SchemaDepths[s] => f[t] = g[t])
            => step[f][s] = step[g][s]
    <3> HIDE DEF step, Answers
    <3> QED
      BY <1>3
  <2> HIDE DEF step, Answers
  <2>2. PICK answer : answer \in Answers
    BY <1>4
  <2> QED
    BY <1>2, <2>1, <2>2, SchemaRecursionSolved
<1>6. \E f : f = Step(f)
  BY <1>5
<1>7. Validated = CHOOSE f : f = Step(f)
  BY DEF Validated
<1>8. Validated = Step(Validated)
  <2> HIDE DEF Step
  <2> QED
    BY <1>6, <1>7
<1> QED
  BY <1>8

LEMMA SatisfiesLocal ==
  ASSUME NEW f, NEW g, NEW within, NEW s, NEW o,
         \A t \in SubSchemas(s) \union Referenced(s) : f[t] = g[t]
  PROVE  Satisfies(f, within, s, o) <=> Satisfies(g, within, s, o)
<1>1. Given(s, "ref") /\ s.ref \in DOMAIN Files => f[Files[s.ref]] = g[Files[s.ref]]
  BY KeywordParts
<1>2. Given(s, "oneOf") => \A i \in OptionsOf(s) : f[s.oneOf[i]] = g[s.oneOf[i]]
  BY KeywordParts
<1>3. Given(s, "properties") =>
        \A key \in DOMAIN s.properties : f[s.properties[key]] = g[s.properties[key]]
  BY KeywordParts
<1>4. Given(s, "items") => f[s.items] = g[s.items]
  BY KeywordParts
<1> QED
  BY <1>1, <1>2, <1>3, <1>4 DEF Satisfies

LEMMA MeetsAsReadUnfolds ==
  \A s \in Schemas, o \in Documents :
    MeetsAsRead[s][o] <=> Satisfies(MeetsAsRead, WithinAsRead(s, o), s, o)
<1> DEFINE Answers == [Documents -> BOOLEAN]
           Step(f) == [s \in Schemas |->
                        [o \in Documents |-> Satisfies(f, WithinAsRead(s, o), s, o)]]
           step == [f \in [Schemas -> Answers] |-> Step(f)]
<1>0. \A f, s, o : Satisfies(f, WithinAsRead(s, o), s, o) \in BOOLEAN
  BY DEF Satisfies
<1>1. \A f \in [Schemas -> Answers] : Step(f) \in [Schemas -> Answers]
  BY <1>0
<1>2. step \in [[Schemas -> Answers] -> [Schemas -> Answers]]
  BY <1>1
<1>3. ASSUME NEW f \in [Schemas -> Answers], NEW g \in [Schemas -> Answers], NEW s \in Schemas,
             \A t \in Schemas : SchemaDepths[t] < SchemaDepths[s] => f[t] = g[t]
      PROVE  step[f][s] = step[g][s]
  <2>1. \A t \in SubSchemas(s) \union Referenced(s) : f[t] = g[t]
    BY <1>3, SchemaParted
  <2>2. \A o \in Documents :
          Satisfies(f, WithinAsRead(s, o), s, o) = Satisfies(g, WithinAsRead(s, o), s, o)
    BY <1>0, <2>1, SatisfiesLocal
  <2> QED
    BY <2>2
<1>4. \E answer : answer \in Answers
  <2>1. [o \in Documents |-> FALSE] \in Answers
    OBVIOUS
  <2> QED
    BY <2>1
<1>5. \E f \in [Schemas -> Answers] : f = step[f]
  <2>1. \A f, g \in [Schemas -> Answers] : \A s \in Schemas :
          (\A t \in Schemas : SchemaDepths[t] < SchemaDepths[s] => f[t] = g[t])
            => step[f][s] = step[g][s]
    <3> HIDE DEF step, Answers
    <3> QED
      BY <1>3
  <2> HIDE DEF step, Answers
  <2>2. PICK answer : answer \in Answers
    BY <1>4
  <2> QED
    BY <1>2, <2>1, <2>2, SchemaRecursionSolved
<1>6. \E f : f = Step(f)
  BY <1>5
<1>7. MeetsAsRead = CHOOSE f : f = Step(f)
  BY DEF MeetsAsRead
<1>8. MeetsAsRead = Step(MeetsAsRead)
  <2> HIDE DEF Step
  <2> QED
    BY <1>6, <1>7
<1>9. \A s \in Schemas, o \in Documents :
        MeetsAsRead[s][o] = Satisfies(MeetsAsRead, WithinAsRead(s, o), s, o)
  BY <1>8
<1> QED
  BY <1>9

(* A schema's parts are itself and the parts of the schemas inside it.     *)
LEMMA SchemaPartsUnfold ==
  \A s \in Schemas : SchemaParts[s] = {s} \union UNION {SchemaParts[t] : t \in SubSchemas(s)}
<1> DEFINE Step(f) == [s \in Schemas |-> {s} \union UNION {f[t] : t \in SubSchemas(s)}]
           step == [f \in [Schemas -> SUBSET Schemas] |-> Step(f)]
<1>1. ASSUME NEW f \in [Schemas -> SUBSET Schemas] PROVE Step(f) \in [Schemas -> SUBSET Schemas]
  <2>1. ASSUME NEW s \in Schemas, NEW t \in SubSchemas(s) PROVE f[t] \subseteq Schemas
    BY SchemaParted
  <2>2. \A s \in Schemas : {s} \union UNION {f[t] : t \in SubSchemas(s)} \subseteq Schemas
    BY <2>1
  <2> QED
    BY <2>2
<1>2. step \in [[Schemas -> SUBSET Schemas] -> [Schemas -> SUBSET Schemas]]
  BY <1>1
<1>3. \A f, g \in [Schemas -> SUBSET Schemas] : \A s \in Schemas :
        (\A t \in Schemas : SchemaDepths[t] < SchemaDepths[s] => f[t] = g[t])
          => step[f][s] = step[g][s]
  <2> TAKE f, g \in [Schemas -> SUBSET Schemas]
  <2> TAKE s \in Schemas
  <2> HAVE \A t \in Schemas : SchemaDepths[t] < SchemaDepths[s] => f[t] = g[t]
  <2>1. \A t \in SubSchemas(s) : f[t] = g[t]
    BY SchemaParted
  <2> QED
    BY <2>1
<1>4. \E f \in [Schemas -> SUBSET Schemas] : f = step[f]
  <2>1. {} \in SUBSET Schemas
    OBVIOUS
  <2> HIDE DEF step
  <2> QED
    BY <1>2, <1>3, <2>1, SchemaRecursionSolved
<1>5. \E f : f = Step(f)
  BY <1>4
<1>6. SchemaParts = CHOOSE f : f = Step(f)
  BY DEF SchemaParts
<1>7. SchemaParts = Step(SchemaParts)
  <2> HIDE DEF Step
  <2> QED
    BY <1>5, <1>6
<1> QED
  BY <1>7

LEMMA DocumentRecursionSolved ==
  ASSUME NEW Y, NEW y0 \in Y, NEW step \in [[Documents -> Y] -> [Documents -> Y]],
         \A f, g \in [Documents -> Y] : \A o \in Documents :
           (\A t \in Documents : DocumentDepths[t] < DocumentDepths[o] => f[t] = g[t])
             => step[f][o] = step[g][o]
  PROVE  \E f \in [Documents -> Y] : f = step[f]
BY DocumentDepthsTyped, RecursionSolved

LEMMA DocumentPartsUnfold ==
  \A o \in Documents :
    DocumentParts[o] = {o} \union UNION {DocumentParts[t] : t \in SubDocuments(o)}
<1> DEFINE Step(f) == [o \in Documents |-> {o} \union UNION {f[t] : t \in SubDocuments(o)}]
           step == [f \in [Documents -> SUBSET Documents] |-> Step(f)]
<1>1. ASSUME NEW f \in [Documents -> SUBSET Documents]
      PROVE  Step(f) \in [Documents -> SUBSET Documents]
  <2>1. ASSUME NEW o \in Documents, NEW t \in SubDocuments(o) PROVE f[t] \subseteq Documents
    BY DocumentParted
  <2>2. \A o \in Documents : {o} \union UNION {f[t] : t \in SubDocuments(o)} \subseteq Documents
    BY <2>1
  <2> QED
    BY <2>2
<1>2. step \in [[Documents -> SUBSET Documents] -> [Documents -> SUBSET Documents]]
  BY <1>1
<1>3. \A f, g \in [Documents -> SUBSET Documents] : \A o \in Documents :
        (\A t \in Documents : DocumentDepths[t] < DocumentDepths[o] => f[t] = g[t])
          => step[f][o] = step[g][o]
  <2> TAKE f, g \in [Documents -> SUBSET Documents]
  <2> TAKE o \in Documents
  <2> HAVE \A t \in Documents : DocumentDepths[t] < DocumentDepths[o] => f[t] = g[t]
  <2>1. \A t \in SubDocuments(o) : f[t] = g[t]
    BY DocumentParted
  <2> QED
    BY <2>1
<1>4. \E f \in [Documents -> SUBSET Documents] : f = step[f]
  <2>1. {} \in SUBSET Documents
    OBVIOUS
  <2> HIDE DEF step
  <2> QED
    BY <1>2, <1>3, <2>1, DocumentRecursionSolved
<1>5. \E f : f = Step(f)
  BY <1>4
<1>6. DocumentParts = CHOOSE f : f = Step(f)
  BY DEF DocumentParts
<1>7. DocumentParts = Step(DocumentParts)
  <2> HIDE DEF Step
  <2> QED
    BY <1>5, <1>6
<1> QED
  BY <1>7

(* What is asked of all parts of a schema, or of a document, holds of it   *)
(* and is asked of what is inside it.                                      *)
LEMMA SelfContainedParts ==
  ASSUME NEW s \in Schemas, SelfContained(s)
  PROVE  /\ ~Given(s, "ref") /\ Given(s, "type")
         /\ \A t \in SubSchemas(s) : SelfContained(t)
<1>1. s \in SchemaParts[s] /\ \A t \in SubSchemas(s) : SchemaParts[t] \subseteq SchemaParts[s]
  BY SchemaPartsUnfold
<1> QED
  BY <1>1 DEF SelfContained, Given

LEMMA OrdinaryParts ==
  ASSUME NEW o \in Documents, Ordinary(o)
  PROVE  /\ o.type = "integer" => o.value < Modulus - (IntMax + 1)
         /\ \A t \in SubDocuments(o) : Ordinary(t)
<1>1. /\ o \in DocumentParts[o]
      /\ \A t \in SubDocuments(o) : DocumentParts[t] \subseteq DocumentParts[o]
  BY DocumentPartsUnfold
<1> QED
  BY <1>1 DEF Ordinary

(* What is in an object or in an array is a document.                      *)
LEMMA ContentIsInside ==
  ASSUME NEW o
  PROVE  /\ o.type = "object" => \A key \in DOMAIN o.fields : o.fields[key] \in SubDocuments(o)
         /\ o.type = "array" => \A i \in DOMAIN o.items : o.items[i] \in SubDocuments(o)
BY DEF SubDocuments
----------------------------------------------------------------------------
(***************************************************************************)
(* A bound, cut down to an int and made unsigned: below 2^31 if it was not *)
(* negative, and otherwise not below 2^64 - 2^31.                          *)
(***************************************************************************)
LEMMA BoundAsRead ==
  ASSUME NEW value \in Int
  PROVE  IF value < 0 THEN Bound(value) \in Int /\ Bound(value) >= Modulus - (IntMax + 1)
                      ELSE Bound(value) = Lesser(value, IntMax)
BY IntAssumption DEF Bound, Lesser

(* The comparisons with such bounds are those of WithinAsRead.             *)
LEMMA IntegerDecided ==
  ASSUME NEW s \in Schemas, NEW o \in Documents, o.type = "integer", Ordinary(o)
  PROVE  ValidateInteger(s, o) = 0 <=> ~WithinAsRead(s, o)
<1>1. o.value \in Int /\ o.value < Modulus - (IntMax + 1)
  BY DocumentsAssumption, OrdinaryParts
<1>2. ASSUME Given(s, "minimum")
      PROVE  AsUint64(o.value) < Bound(s.minimum)
               <=> ~(s.minimum >= 0 /\ AsUint64(o.value) >= Lesser(s.minimum, IntMax))
  <2>1. s.minimum \in Int
    BY <1>2, SchemasAssumption
  <2> QED
    BY <1>1, <2>1, BoundAsRead, IntAssumption DEF AsUint64, Lesser
<1>3. ASSUME Given(s, "maximum")
      PROVE  AsUint64(o.value) > Bound(s.maximum)
               <=> ~(s.maximum < 0 \/ AsUint64(o.value) <= Lesser(s.maximum, IntMax))
  <2>1. s.maximum \in Int
    BY <1>3, SchemasAssumption
  <2> QED
    BY <1>1, <2>1, BoundAsRead, IntAssumption DEF AsUint64, Lesser
<1> QED
  BY <1>2, <1>3 DEF ValidateInteger, WithinAsRead, AsUint64

(***************************************************************************)
(* By induction on the depth of the schema: each reason the validator has  *)
(* to answer 0 (:178, :220, :263, :277, :321, :333, :364, :383, :406) is   *)
(* one for the document not to satisfy the schema, given that it is for    *)
(* the schemas inside it.                                                  *)
(***************************************************************************)
LEMMA RejectedIsInvalid ==
  ASSUME NEW schema \in Schemas, NEW object \in Documents, Ordinary(object),
         ValidateField(schema, object) = 0
  PROVE  ~ValidAsRead(schema, object)
<1> DEFINE Sound == {s \in Schemas :
                       \A o \in Documents :
                         Ordinary(o) /\ Validated[s][o] = 0 => ~MeetsAsRead[s][o]}
<1>1. ASSUME NEW s \in Schemas,
             \A t \in Schemas : SchemaDepths[t] < SchemaDepths[s] => t \in Sound
      PROVE  s \in Sound
  <2> SUFFICES ASSUME NEW o \in Documents, Ordinary(o), Validated[s][o] = 0, MeetsAsRead[s][o]
               PROVE  FALSE
    OBVIOUS
  <2>1. FieldResult(Validated, s, o) = 0 /\ Satisfies(MeetsAsRead, WithinAsRead(s, o), s, o)
    BY ValidatedUnfolds, MeetsAsReadUnfolds
  <2>2. \A t \in SubSchemas(s), d \in Documents :
          Ordinary(d) /\ Validated[t][d] = 0 => ~MeetsAsRead[t][d]
    BY <1>1, SchemaParted
  <2>3. \A t \in SubDocuments(o) : t \in Documents /\ Ordinary(t)
    BY DocumentParted, OrdinaryParts
  <2> HIDE DEF Sound
  <2>4. Given(s, "type") /\ TypesMatch(s.type, o)
    BY <2>1 DEF FieldResult, Satisfies
  <2>5. Given(s, "oneOf") => OneOfResult(Validated, s, o) # 0
    <3> SUFFICES ASSUME Given(s, "oneOf"), OneOfResult(Validated, s, o) = 0 PROVE FALSE
      OBVIOUS
    <3>1. \A i \in OptionsOf(s) : Validated[s.oneOf[i]][o] = 0
      BY OneOfDecided
    <3>2. \A i \in OptionsOf(s) : ~MeetsAsRead[s.oneOf[i]][o]
      BY <2>2, <3>1, KeywordParts
    <3> QED
      BY <2>1, <3>2 DEF Satisfies
  <2>6. ValidateType(Validated, s, o) = 0
    BY <2>1, <2>4, <2>5 DEF FieldResult
  <2>7. CASE o.type = "integer"
    <3>1. ValidateInteger(s, o) = 0
      BY <2>6, <2>7 DEF ValidateType
    <3>2. WithinAsRead(s, o)
      BY <2>1 DEF Satisfies
    <3> QED
      BY <2>7, <3>1, <3>2, IntegerDecided
  <2>8. CASE o.type = "object"
    <3>1. ValidateObject(Validated, s, o) = 0
      BY <2>6, <2>8 DEF ValidateType
    <3>2. /\ Given(s, "required") =>
               \A i \in DOMAIN s.required : s.required[i] # IllTyped /\ Present(o, s.required[i])
          /\ Given(s, "properties") =>
               \A key \in DOMAIN o.fields :
                 IF key \in DOMAIN s.properties
                   THEN Present(o, key) => MeetsAsRead[s.properties[key]][o.fields[key]]
                   ELSE Given(s, "additionalProperties") /\ s.additionalProperties
      BY <2>1, <2>8 DEF Satisfies
    <3>4. ASSUME Given(s, "properties"), NEW key \in DOMAIN s.properties, Present(o, key)
          PROVE  Validated[s.properties[key]][o.fields[key]] # 0
      <4>1. key \in DOMAIN o.fields
        BY <3>4 DEF Present
      <4>2. s.properties[key] \in SubSchemas(s) /\ o.fields[key] \in SubDocuments(o)
        BY <2>8, <3>4, <4>1, KeywordParts, ContentIsInside
      <4>3. MeetsAsRead[s.properties[key]][o.fields[key]]
        BY <3>2, <3>4, <4>1
      <4> QED
        BY <2>2, <2>3, <4>2, <4>3
    <3>5. Given(s, "properties") =>
            AdditionalAllowed(s) \/ DOMAIN o.fields \subseteq DOMAIN s.properties
      BY <3>2 DEF AdditionalAllowed
    <3> QED
      BY <3>1, <3>2, <3>4, <3>5 DEF ValidateObject, Rejected
  <2>9. CASE o.type = "array"
    <3>1. ValidateArray(Validated, s, o) = 0
      BY <2>6, <2>9 DEF ValidateType
    <3>2. PICK i \in DOMAIN o.items : Given(s, "items") /\ Validated[s.items][o.items[i]] = 0
      BY <3>1 DEF ValidateArray, Rejected
    <3>3. s.items \in SubSchemas(s) /\ o.items[i] \in SubDocuments(o)
      BY <2>9, <3>2, KeywordParts, ContentIsInside
    <3>4. MeetsAsRead[s.items][o.items[i]]
      BY <2>1, <2>9, <3>2 DEF Satisfies
    <3> QED
      BY <2>2, <2>3, <3>2, <3>3, <3>4
  <2> QED
    BY <2>6, <2>7, <2>8, <2>9 DEF ValidateType
<1> HIDE DEF Sound
<1>2. Schemas \subseteq Sound
  BY <1>1, SchemaDepthsTyped, DepthInduction
<1> QED
  BY <1>2 DEF Sound, ValidateField, ValidAsRead

(***************************************************************************)
(* By the same induction: for a schema on its own there is no -1 (:140,    *)
(* :157), and what is accepted satisfies the schema.                       *)
(***************************************************************************)
LEMMA AcceptedAloneIsValid ==
  ASSUME NEW schema \in Schemas, SelfContained(schema),
         NEW object \in Documents, Ordinary(object), ValidateField(schema, object) # 0
  PROVE  ValidateField(schema, object) = 1 /\ ValidAsRead(schema, object)
<1> DEFINE Complete == {s \in Schemas : SelfContained(s) =>
                          \A o \in Documents : Ordinary(o) /\ Validated[s][o] # 0 =>
                            Validated[s][o] = 1 /\ MeetsAsRead[s][o]}
<1>1. ASSUME NEW s \in Schemas,
             \A t \in Schemas : SchemaDepths[t] < SchemaDepths[s] => t \in Complete
      PROVE  s \in Complete
  <2> SUFFICES ASSUME SelfContained(s), NEW o \in Documents, Ordinary(o),
                      Validated[s][o] # 0
               PROVE  Validated[s][o] = 1 /\ MeetsAsRead[s][o]
    OBVIOUS
  <2>1. FieldResult(Validated, s, o) # 0 /\ Validated[s][o] = FieldResult(Validated, s, o)
    BY ValidatedUnfolds
  <2>2. \A t \in SubSchemas(s), d \in Documents :
          Ordinary(d) /\ Validated[t][d] # 0 => Validated[t][d] = 1 /\ MeetsAsRead[t][d]
    BY <1>1, SchemaParted, SelfContainedParts
  <2>3. \A t \in SubDocuments(o) : t \in Documents /\ Ordinary(t)
    BY DocumentParted, OrdinaryParts
  <2> HIDE DEF Complete
  <2>4. ~Given(s, "ref") /\ Given(s, "type") /\ TypesMatch(s.type, o)
    BY <2>1, SelfContainedParts DEF FieldResult
  <2>5. ASSUME Given(s, "oneOf")
        PROVE  OneOfResult(Validated, s, o) = 1 /\ \E i \in OptionsOf(s) : MeetsAsRead[s.oneOf[i]][o]
    <3>1. OneOfResult(Validated, s, o) # 0
      BY <2>1, <2>4, <2>5 DEF FieldResult
    <3>2. \/ /\ OneOfResult(Validated, s, o) = 0
             /\ \A i \in OptionsOf(s) : Validated[s.oneOf[i]][o] = 0
          \/ \E i \in OptionsOf(s) :
               /\ OneOfResult(Validated, s, o) = Validated[s.oneOf[i]][o]
               /\ Validated[s.oneOf[i]][o] # 0
      BY <2>5, OneOfDecided
    <3>3. PICK i \in OptionsOf(s) : /\ OneOfResult(Validated, s, o) = Validated[s.oneOf[i]][o]
                                    /\ Validated[s.oneOf[i]][o] # 0
      BY <3>1, <3>2
    <3>4. s.oneOf[i] \in SubSchemas(s)
      BY <2>5, KeywordParts
    <3> QED
      BY <2>2, <3>3, <3>4
  <2>6. FieldResult(Validated, s, o) = ValidateType(Validated, s, o)
    BY <2>1, <2>4, <2>5 DEF FieldResult
  <2>7. ValidateType(Validated, s, o) = 1
    BY <2>1, <2>6 DEF ValidateType, ValidateInteger, ValidateObject, ValidateArray
  <2>8. WithinAsRead(s, o)
    <3>1. o.type = "integer" => ValidateInteger(s, o) # 0
      BY <2>7 DEF ValidateType
    <3> QED
      BY <3>1, IntegerDecided DEF WithinAsRead
  <2>9. o.type = "array" /\ Given(s, "items") =>
          \A i \in DOMAIN o.items : MeetsAsRead[s.items][o.items[i]]
    <3> SUFFICES ASSUME o.type = "array", Given(s, "items"), NEW i \in DOMAIN o.items
                 PROVE  MeetsAsRead[s.items][o.items[i]]
      OBVIOUS
    <3>1. ValidateArray(Validated, s, o) # 0
      BY <2>7 DEF ValidateType
    <3>2. Validated[s.items][o.items[i]] # 0
      BY <3>1 DEF ValidateArray, Rejected
    <3>3. s.items \in SubSchemas(s) /\ o.items[i] \in SubDocuments(o)
      BY KeywordParts, ContentIsInside
    <3> QED
      BY <2>2, <2>3, <3>2, <3>3
  <2>10. o.type = "object" =>
           /\ Given(s, "required") =>
                \A i \in DOMAIN s.required : s.required[i] # IllTyped /\ Present(o, s.required[i])
           /\ Given(s, "properties") =>
                \A key \in DOMAIN o.fields :
                  IF key \in DOMAIN s.properties
                    THEN Present(o, key) => MeetsAsRead[s.properties[key]][o.fields[key]]
                    ELSE Given(s, "additionalProperties") /\ s.additionalProperties
    <3> SUFFICES ASSUME o.type = "object"
                 PROVE  /\ Given(s, "required") =>
                             \A i \in DOMAIN s.required :
                               s.required[i] # IllTyped /\ Present(o, s.required[i])
                        /\ Given(s, "properties") =>
                             \A key \in DOMAIN o.fields :
                               IF key \in DOMAIN s.properties
                                 THEN Present(o, key) => MeetsAsRead[s.properties[key]][o.fields[key]]
                                 ELSE Given(s, "additionalProperties") /\ s.additionalProperties
      OBVIOUS
    <3>1. ValidateObject(Validated, s, o) # 0
      BY <2>7 DEF ValidateType
    <3>2. Given(s, "required") =>
            \A i \in DOMAIN s.required : s.required[i] # IllTyped /\ Present(o, s.required[i])
      BY <3>1 DEF ValidateObject
    <3>3. ASSUME Given(s, "properties"), NEW key \in DOMAIN o.fields, key \notin DOMAIN s.properties
          PROVE  Given(s, "additionalProperties") /\ s.additionalProperties
      BY <3>1, <3>3 DEF ValidateObject, AdditionalAllowed
    <3>4. ASSUME Given(s, "properties"), NEW key \in DOMAIN o.fields, key \in DOMAIN s.properties,
                 Present(o, key)
          PROVE  MeetsAsRead[s.properties[key]][o.fields[key]]
      <4>1. Validated[s.properties[key]][o.fields[key]] # 0
        BY <3>1, <3>4 DEF ValidateObject, Rejected
      <4>2. s.properties[key] \in SubSchemas(s) /\ o.fields[key] \in SubDocuments(o)
        BY <3>4, KeywordParts, ContentIsInside
      <4> QED
        BY <2>2, <2>3, <4>1, <4>2
    <3> QED
      BY <3>2, <3>3, <3>4
  <2>11. Satisfies(MeetsAsRead, WithinAsRead(s, o), s, o)
    BY <2>4, <2>5, <2>8, <2>9, <2>10 DEF Satisfies
  <2> QED
    BY <2>1, <2>6, <2>7, <2>11, MeetsAsReadUnfolds
<1> HIDE DEF Complete
<1>2. Schemas \subseteq Complete
  BY <1>1, SchemaDepthsTyped, DepthInduction
<1> QED
  BY <1>2 DEF Complete, ValidateField, ValidAsRead

(* A call that returns has validated, with its own schema, or was stopped. *)
LEMMA AnswerIsValidateField ==
  ASSUME CallInv, pc \in {"failed", "returned"}
  PROVE  IF Admitted THEN /\ result = ValidateField(SchemaOfCall, call.object)
                          /\ SchemaOfCall \in Schemas /\ call.object \in Documents
                     ELSE result = 0
<1>1. CASE pc = "failed"
  BY <1>1 DEF CallInv, Before
<1>2. CASE pc = "returned"
  <2>1. /\ root \in KnownSchemas /\ call \in Calls /\ result = Validation(root, call.object)
        /\ root = SchemaOfCall /\ Admitted
    BY <1>2 DEF CallInv, TypeOK, Admitted
  <2>2. Validation(root, call.object) = ValidateField(root, call.object)
    BY <2>1, ValidatesFields, Zenon
  <2> QED
    BY <2>1, <2>2, SchemasAssumption, DocumentsAssumption
<1> QED
  BY <1>1, <1>2

(***************************************************************************)
(* No document that satisfies a schema is rejected by it, its bounds taken *)
(* as they are read, whatever else the schema refers to and whatever the   *)
(* validator gives up on (validate_field(), json-schema.c:120); and of the *)
(* calls that answer 0 without looking at the document, each lacked one of *)
(* what Admitted lists (:47, :78, :89, :97).                               *)
(***************************************************************************)
THEOREM RejectionsHaveReasons == Spec => []RejectionsSound
<1>1. CallInv => RejectionsSound
  <2> SUFFICES ASSUME CallInv, pc \in {"failed", "returned"}, result = 0,
                      Ordinary(call.object), Admitted
               PROVE  ~ValidAsRead(SchemaOfCall, call.object)
    BY DEF RejectionsSound
  <2>1. /\ ValidateField(SchemaOfCall, call.object) = 0
        /\ SchemaOfCall \in Schemas /\ call.object \in Documents
    BY AnswerIsValidateField
  <2> QED
    BY <2>1, RejectedIsInvalid
<1> QED
  BY <1>1, CallInvariant, PTL

(***************************************************************************)
(* With a schema on its own, however its options, properties and items are *)
(* nested, every call comes to 1 for a document that satisfies it, its     *)
(* bounds taken as they are read, to 0 for the others and never to -1; and *)
(* without a directory, or where the system refuses to go there, to 0.     *)
(***************************************************************************)
THEOREM AgreesOnItsOwn == Spec => []AgreesWithoutRefs
<1>1. CallInv => AgreesWithoutRefs
  <2> SUFFICES ASSUME CallInv, pc \in {"failed", "returned"},
                      Admitted => SelfContained(SchemaOfCall), Ordinary(call.object)
               PROVE  result = IF Admitted /\ ValidAsRead(SchemaOfCall, call.object) THEN 1 ELSE 0
    BY DEF AgreesWithoutRefs
  <2>1. CASE ~Admitted
    BY <2>1, AnswerIsValidateField
  <2>2. CASE Admitted
    <3>1. /\ result = ValidateField(SchemaOfCall, call.object)
          /\ SchemaOfCall \in Schemas /\ call.object \in Documents
      BY <2>2, AnswerIsValidateField
    <3>2. ValidateField(SchemaOfCall, call.object) = 0 => ~ValidAsRead(SchemaOfCall, call.object)
      BY <3>1, RejectedIsInvalid
    <3>3. ValidateField(SchemaOfCall, call.object) # 0 =>
            /\ ValidateField(SchemaOfCall, call.object) = 1
            /\ ValidAsRead(SchemaOfCall, call.object)
      BY <2>2, <3>1, AcceptedAloneIsValid
    <3> QED
      BY <2>2, <3>1, <3>2, <3>3
  <2> QED
    BY <2>1, <2>2
<1> QED
  BY <1>1, CallInvariant, PTL
=============================================================================
