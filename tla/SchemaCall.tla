----------------------------- MODULE SchemaCall -----------------------------
(***************************************************************************)
(* One call of validate_schema_from_file(), or of validate_schema() with a *)
(* schema already read (json-schema.c).  Around the validation proper the  *)
(* call moves the process into the directory of the schema, where the      *)
(* paths of "$ref" are looked up, and back.                                *)
(*                                                                         *)
(* What validate_field() answers is a parameter here: JsonSchema defines   *)
(* it.  A schema is the function of the keywords it has.                   *)
(***************************************************************************)
EXTENDS Integers

CONSTANTS
  Home,         (* the directory of the process                            *)
  SchemaDir,    (* the directory of the schemas                            *)
  Null,         (* no directory, no file                                   *)
  Files,        (* the schemas in SchemaDir, by name                       *)
  Calls,        (* [file, schema, dir, object]: file is Null for           *)
                (* validate_schema(), schema an argument of it only        *)
  Validation(_, _)   (* validate_field() on a schema and a document        *)

KnownSchemas == {c.schema : c \in Calls} \union {Files[f] : f \in DOMAIN Files}

ASSUME DirectoriesAssumption ==
  /\ Home # SchemaDir /\ Null \notin {Home, SchemaDir}
  /\ \A c \in Calls : c.dir \in {SchemaDir, Null}

(* An error of the schema, a rejection, or 1.                              *)
ASSUME ValidationAssumption ==
  \A s \in KnownSchemas, c \in Calls : Validation(s, c.object) \in {-1, 0, 1}

Has(schema, keyword) == keyword \in DOMAIN schema

(* Mutant: an error of the schema counts as well.                          *)
RejectedOrError(result) == result # 1

(* "!validate_field(...)": -1 is not a rejection.                          *)
Rejected(result) == result = 0

VARIABLES
  call,      (* the arguments                                              *)
  pc,        (* where the call is; "failed" is a return before validation  *)
  root,      (* the schema to validate against                             *)
  cwd,       (* the directory of the process                               *)
  saved,     (* original_cwd                                               *)
  refused,   (* what the system refused though nothing was wrong with it:  *)
             (* "getcwd", the chdir() to "enter" or the one to "leave"     *)
  result

vars == <<call, pc, root, cwd, saved, refused, result>>

Init ==
  /\ call \in Calls
  /\ IF call.file = Null THEN pc = "version" /\ root = call.schema
                         ELSE pc = "load" /\ root = <<>>
  /\ cwd = Home
  /\ saved = Null
  /\ refused = {}
  /\ result = 0

Fail == pc' = "failed" /\ result' = 0

LoadSchema ==
  /\ pc = "load"
  /\ IF call.file \in DOMAIN Files
       THEN pc' = "version" /\ root' = Files[call.file] /\ UNCHANGED result
       ELSE Fail /\ UNCHANGED root
  /\ UNCHANGED <<call, cwd, saved, refused>>

CheckVersion ==
  /\ pc = "version"
  /\ IF Has(root, "version") /\ root.version = "2020-12"
       THEN pc' = "getcwd" /\ UNCHANGED result
       ELSE Fail
  /\ UNCHANGED <<call, root, cwd, saved, refused>>

(* Mutant: the directory is not kept.                                      *)
GetCwdDropped ==
  /\ pc = "getcwd"
  /\ \/ pc' = "enter" /\ UNCHANGED <<saved, refused, result>>
     \/ Fail /\ refused' = {"getcwd"} /\ UNCHANGED saved
  /\ UNCHANGED <<call, root, cwd>>

GetCwd ==
  /\ pc = "getcwd"
  /\ \/ pc' = "enter" /\ saved' = cwd /\ UNCHANGED <<refused, result>>
     \/ Fail /\ refused' = {"getcwd"} /\ UNCHANGED saved
  /\ UNCHANGED <<call, root, cwd>>

(* chdir() of a NULL directory always fails, of another it may.            *)
EnterSchemaDir ==
  /\ pc = "enter"
  /\ \/ /\ call.dir # Null
        /\ \/ cwd' = call.dir /\ pc' = "validate" /\ UNCHANGED <<refused, result>>
           \/ Fail /\ refused' = {"enter"} /\ UNCHANGED cwd
     \/ /\ call.dir = Null
        /\ Fail /\ UNCHANGED <<refused, cwd>>
  /\ UNCHANGED <<call, root, saved>>

(* Mutant: a rejection returns at once.                                    *)
ValidateOrReturn ==
  /\ pc = "validate"
  /\ result' = Validation(root, call.object)
  /\ pc' = IF Rejected(result') THEN "returned" ELSE "leave"
  /\ UNCHANGED <<call, root, cwd, saved, refused>>

Validate ==
  /\ pc = "validate"
  /\ result' = Validation(root, call.object)
  /\ pc' = "leave"
  /\ UNCHANGED <<call, root, cwd, saved, refused>>

(* The result does not depend on whether the way back is open.             *)
LeaveSchemaDir ==
  /\ pc = "leave"
  /\ \/ cwd' = saved /\ UNCHANGED refused
     \/ refused' = {"leave"} /\ UNCHANGED cwd
  /\ pc' = "returned"
  /\ UNCHANGED <<call, root, saved, result>>

Returned == pc \in {"failed", "returned"} /\ UNCHANGED vars

Next ==
  \/ LoadSchema \/ CheckVersion \/ GetCwd \/ EnterSchemaDir
  \/ Validate \/ LeaveSchemaDir \/ Returned

Spec == Init /\ [][Next]_vars
----------------------------------------------------------------------------
TypeOK ==
  /\ call \in Calls
  /\ pc \in {"load", "version", "getcwd", "enter", "validate", "leave",
             "failed", "returned"}
  /\ cwd \in {Home, SchemaDir}
  /\ saved \in {Home, Null}
  /\ refused \in SUBSET {"getcwd", "enter", "leave"}
  /\ result \in {-1, 0, 1}

(***************************************************************************)
(* Whatever ends the call, the process is where it was: cper-convert opens *)
(* its output, a relative path, after the validation.  Only a chdir() back *)
(* that the system refuses prevents it.                                    *)
(***************************************************************************)
CwdRestored ==
  pc \in {"failed", "returned"} => cwd = Home \/ "leave" \in refused

(***************************************************************************)
(* What it takes for the document to be looked at at all: a schema of the  *)
(* version, and a way into its directory.  A directory has to be given     *)
(* whatever the schema is; that NULL will do for one without "$ref"        *)
(* (json-schema.c:67) is not so, chdir(NULL) fails.                        *)
(***************************************************************************)
SchemaOfCall == IF call.file = Null THEN call.schema ELSE Files[call.file]

Admitted ==
  /\ call.file \in DOMAIN Files \union {Null}
  /\ Has(SchemaOfCall, "version") /\ SchemaOfCall.version = "2020-12"
  /\ call.dir # Null
  /\ refused \subseteq {"leave"}
=============================================================================
