--------------------------- MODULE MCCperGenerate ---------------------------
(***************************************************************************)
(* CperGenerate on requests for up to three sections.                      *)
(***************************************************************************)
EXTENDS CperGenerate

CONSTANTS Fixed, Variable, Unknown, Undefined,  (* section names           *)
          FixedGuid, VariableGuid               (* GUIDs                   *)

MCNames == {Fixed, Variable, Unknown, Undefined}
MCTypes == {FixedGuid, VariableGuid}

(* Only "unknown" (rand() % 256 bytes) may come out empty.                 *)
MCLengths ==
  [name \in MCNames |->
    CASE name = Fixed    -> {3}
      [] name = Variable -> {1, 4}
      [] name = Unknown  -> {0, 2}
      [] OTHER           -> {0}]

MCGuids ==
  [name \in MCNames |->
    CASE name = Fixed    -> {FixedGuid}
      [] name = Variable -> {VariableGuid}
      [] name = Unknown  -> MCTypes
      [] OTHER           -> {}]

Some(api, names, lens) ==
  {[api |-> api, names |-> s] : s \in UNION {[1..l -> names] : l \in lens}}

AllRequests == Some("record", MCNames, 0..3) \union Some("section", MCNames, {1})
============================================================================
