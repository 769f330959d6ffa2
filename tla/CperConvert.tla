---------------------------- MODULE CperConvert ----------------------------
(***************************************************************************)
(* cli-app/cper-convert.c: "to-json" (or "to-json-section") on a CPER file *)
(* into a JSON file, "to-cper" on that file or on another one, and         *)
(* "to-json" again on what that wrote.  The tests in tests/ir-tests.cpp    *)
(* take the same trip without the program.                                 *)
(*                                                                         *)
(* The reader is CperParse, instantiated, and the writer IrToCper, which   *)
(* this module extends; its own part is what the program does between      *)
(* their calls: which files it opens, when, and what stops it.  The        *)
(* verdict of the validation (JsonSchema) may be either.                   *)
(***************************************************************************)
EXTENDS IrToCper, Functions

CONSTANT Residue   (* what bytes outside the table decode to               *)

ASSUME ResidueAssumption == Residue \in Descriptor

VARIABLES
  stage,     (* "read", "toCper", "validate", "open", "write", "reread" or *)
             (* "over"                                                     *)
  jsonFile,  (* what "to-cper" is given: "none" before there is a file,    *)
             (* then "null" or "ir"                                        *)
  first,     (* the IR in it                                               *)
  verdict,   (* of the validation: "none", "valid", "invalid", or          *)
             (* "unchecked" with --no-validate                             *)
  cperFile,  (* its output: "old", until it is "open" and then "closed"    *)
  (* the reader's state, for both readings                                 *)
  input, pos, rpc, ri, descriptorsIR, sectionsIR, result

files == <<jsonFile, first, verdict, cperFile>>
reader == <<input, pos, rpc, ri, descriptorsIR, sectionsIR, result>>
writer == <<ir, pc, i, output>>
convertVars == <<stage, files, reader, writer>>

P == INSTANCE CperParse WITH pc <- rpc, i <- ri

NoIR ==
  [api |-> "record", count |-> 0, descriptors |-> <<>>, sections |-> <<>>]

(* A CPER file, or a JSON file with an IR from elsewhere.                  *)
ConvertInit ==
  /\ verdict = "none" /\ cperFile = "old"
  /\ Start(NoIR)
  /\ \/ /\ stage = "read" /\ jsonFile = "none" /\ first = NoIR
        /\ P!Init
     \/ /\ stage = "toCper" /\ jsonFile = "ir" /\ first \in IRs
        /\ input = [api |-> "record", backing |-> "file", size |-> 0, base |-> 0,
                    magic |-> FALSE, count |-> 0,
                    at |-> [p \in 0..MaxStream |-> Residue]]
        /\ pos = 0 /\ rpc = "done" /\ ri = 0
        /\ descriptorsIR = <<>> /\ sectionsIR = <<>>
        /\ result = "none"
----------------------------------------------------------------------------
(* cper_to_ir() or cper_single_section_to_ir(), on either CPER file.       *)
Read ==
  /\ stage \in {"read", "reread"}
  /\ P!Step
  /\ UNCHANGED <<stage, files, writer>>

(* The IR, or the null there is instead of one, goes into the file.        *)
WriteJson ==
  /\ stage = "read"
  /\ result # "none"
  /\ jsonFile' = result
  /\ first' = [api         |-> input.api,
               count       |-> input.count,
               descriptors |-> descriptorsIR,
               sections    |-> sectionsIR]
  /\ stage' = "toCper"
  /\ UNCHANGED <<verdict, cperFile, reader, writer>>

(* A mutant: the output is opened, and emptied, before the validation.     *)
ReadJsonOpening ==
  /\ stage = "toCper"
  /\ jsonFile = "ir"
  /\ stage' = "validate"
  /\ cperFile' = "open"
  /\ UNCHANGED <<jsonFile, first, verdict, reader, writer>>

(* json_object_from_file() returns the IR.                                 *)
ReadJson ==
  /\ stage = "toCper"
  /\ jsonFile = "ir"
  /\ stage' = "validate"
  /\ UNCHANGED <<files, reader, writer>>

Validate ==
  /\ stage = "validate"
  /\ verdict' \in {"valid", "invalid", "unchecked"}
  /\ stage' = IF verdict' = "invalid" THEN "over" ELSE "open"
  /\ UNCHANGED <<jsonFile, first, cperFile, reader, writer>>

(* A mutant: every file is taken for a whole log.                          *)
OpenCperAsRecord ==
  /\ stage = "open"
  /\ cperFile' = "open"
  /\ stage' = "write"
  /\ ir' = first
  /\ pc' = "header"
  /\ i' = 0 /\ size' = 0
  /\ slotStarts' = <<>> /\ sectionStarts' = <<>> /\ sectionLengths' = <<>>
  /\ undecoded' = FALSE
  /\ UNCHANGED <<jsonFile, first, verdict, reader>>

(* fopen(out_file, "w") empties the file.  An IR with a "header" is a      *)
(* whole log, any other a single section.                                  *)
OpenCper ==
  /\ stage = "open"
  /\ cperFile' = "open"
  /\ stage' = "write"
  /\ ir' = first
  /\ pc' = IF first.api = "record" THEN "header" ELSE "descriptors"
  /\ i' = 0 /\ size' = 0
  /\ slotStarts' = <<>> /\ sectionStarts' = <<>> /\ sectionLengths' = <<>>
  /\ undecoded' = FALSE
  /\ UNCHANGED <<jsonFile, first, verdict, reader>>

Write ==
  /\ stage = "write"
  /\ Step
  /\ UNCHANGED <<stage, files, reader>>

(***************************************************************************)
(* The file that was written: its descriptors where the writer put them,   *)
(* and nothing known of the bytes in between.                              *)
(***************************************************************************)
DescriptorAt(p) ==
  IF \E k \in 1..Len(slotStarts) : slotStarts[k] = p
    THEN ir.descriptors[CHOOSE k \in 1..Len(slotStarts) : slotStarts[k] = p]
    ELSE Residue

Written ==
  [api |-> ir.api, backing |-> "file", size |-> size, base |-> 0,
   magic |-> TRUE, count |-> ir.count,
   at |-> [p \in 0..MaxStream |-> DescriptorAt(p)]]

(* fclose(), and if the IR was read from a CPER file, it is read again.    *)
CloseCper ==
  /\ stage = "write"
  /\ pc = "done"
  /\ cperFile' = "closed"
  /\ IF result = "ir" /\ size <= MaxStream   \* bound on the streams considered
       THEN /\ stage' = "reread"
            /\ input' = Written
            /\ pos' = 0
            /\ rpc' = IF ir.api = "record" THEN "header" ELSE "descriptor"
            /\ ri' = 0
            /\ descriptorsIR' = <<>> /\ sectionsIR' = <<>>
            /\ result' = "none"
       ELSE stage' = "over" /\ UNCHANGED reader
  /\ UNCHANGED <<jsonFile, first, verdict, writer>>

(* A file cannot be opened, or none was named for the output; "to-json"    *)
(* prints the IR then.                                                     *)
NotOpened ==
  /\ \/ stage = "read" /\ pos = input.base /\ ri = 0 /\ rpc \in {"header", "descriptor"}
     \/ stage = "read" /\ result # "none"
     \/ stage = "toCper" /\ jsonFile = "ir"
     \/ stage = "open"
  /\ stage' = "over"
  /\ UNCHANGED <<files, reader, writer>>

(* json_object_from_file() returns NULL for a file with null.              *)
NoJson ==
  /\ stage = "toCper"
  /\ jsonFile = "null"
  /\ stage' = "over"
  /\ UNCHANGED <<files, reader, writer>>

(* The writer has crashed, or everything has been read again.              *)
Exit ==
  /\ \/ stage = "write" /\ pc = "crashed"
     \/ stage = "reread" /\ result # "none"
  /\ stage' = "over"
  /\ UNCHANGED <<files, reader, writer>>

Over == stage = "over" /\ UNCHANGED convertVars

Progress ==
  \/ Read \/ WriteJson
  \/ ReadJson \/ Validate \/ OpenCper \/ Write \/ CloseCper
  \/ NotOpened \/ NoJson \/ Exit

ConvertNext == Progress \/ Over

(* The program is sequential code that runs to its end.                    *)
ConvertSpec == ConvertInit /\ [][ConvertNext]_convertVars /\ WF_convertVars(Progress)
----------------------------------------------------------------------------
(***************************************************************************)
(* A file that the validation refuses, or that holds no IR -- such as the  *)
(* null that "to-json" writes for a record it cannot read -- leaves the    *)
(* output file of json_to_cper() as it was.                                *)
(***************************************************************************)
RefusedFileKept ==
  verdict \in {"none", "invalid"} \/ jsonFile # "ir" => cperFile = "old"

(***************************************************************************)
(* The streams a round trip is claimed for: if the table is there at all,  *)
(* its sections follow it and each other without a gap, and one with a     *)
(* converter has the length of the structure the converter writes.  The    *)
(* generator makes no others (CperGenerate).                               *)
(***************************************************************************)
LaidOut(api, descriptors) ==
  /\ IF api = "record" THEN Contiguous(descriptors)
                       ELSE descriptors[1].offset = DescriptorSize
  /\ \A k \in 1..Len(descriptors) :
       HasConverter(descriptors[k].type)
         => descriptors[k].length = CodecSize[descriptors[k].type]

InputsLaidOut ==
  \A in \in Inputs :
    (\A k \in 1..Count(in) : CanRead(in, Slot(in, k), DescriptorSize))
      => LaidOut(in.api, [k \in 1..Count(in) |-> in.at[Slot(in, k)]])

Reread == stage = "over" /\ cperFile = "closed" /\ input = Written

(* Every section was read, converted and written; one that is null in the  *)
(* IR, or that base64.c ran out of memory for, has no data to keep.        *)
Kept(sections) ==
  /\ \A k \in 1..Len(sections) : sections[k].conv \in {"codec", "base64"}
  /\ ~undecoded

(***************************************************************************)
(* "A library which can readily convert back and forth between the         *)
(* standard CPER binary format and the specified structured JSON"          *)
(* (README.md): reading what was written gives the same descriptors, and   *)
(* for every section the bytes that this very section was written as,      *)
(* converted in the same way.                                              *)
(***************************************************************************)
RoundTripPreserves ==
  Reread /\ Kept(first.sections) /\ "nodata" \notin {s.conv : s \in Range(sectionsIR)} =>
    /\ result = "ir"
    /\ descriptorsIR = first.descriptors
    /\ \A k \in 1..Len(first.sections) :
         sectionsIR[k] = [conv   |-> first.sections[k].conv,
                          from   |-> sectionStarts[k],
                          length |-> sectionLengths[k]]

(* The program comes to its end, whatever file it is given.                *)
TripEnds == <>(stage = "over")
============================================================================
