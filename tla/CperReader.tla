---------------------------- MODULE CperReader ----------------------------
(***************************************************************************)
(* What cper_to_ir() and cper_single_section_to_ir() promise, with no word *)
(* on how the stream is walked: the call returns once, either nothing or   *)
(* the whole IR, and the IR depends on the record alone.                   *)
(***************************************************************************)
EXTENDS CperRecord

VARIABLES
  input,     (* the stream the call is made on                             *)
  result,    (* "none" until the call returns, then "null" or "ir"         *)
  ir         (* the IR returned: its descriptors and its sections          *)

NoIR == [descriptors |-> <<>>, sections |-> <<>>]

(* A call is answered with an IR iff the header and every slot of the      *)
(* descriptor table are in the stream and the header is that of a record.  *)
Accepted(in) ==
  /\ in.api = "record" => CanRead(in, in.base, HeaderSize) /\ in.magic
  /\ \A k \in 1..Count(in) : CanRead(in, Slot(in, k), DescriptorSize)

(* What the section that descriptor d describes may become.                *)
SectionMeanings(in, d) ==
  IF Readable(in, d) THEN Conversions(d, in.base + d.offset) ELSE {Null}

(* The IRs of the record in stream in: one entry per slot of its table.    *)
Descriptors(in) == [k \in 1..Count(in) |-> in.at[Slot(in, k)]]

Meanings(in) ==
  {[descriptors |-> Descriptors(in), sections |-> s] :
     s \in {t \in [1..Count(in) ->
                    UNION {SectionMeanings(in, Descriptors(in)[k]) :
                             k \in 1..Count(in)}] :
            \A k \in 1..Count(in) :
              t[k] \in SectionMeanings(in, Descriptors(in)[k])}}

ReaderInit ==
  /\ input \in Input
  /\ result = "none"
  /\ ir = NoIR

(* The promise is made for records whose sections can all be read.         *)
Reject ==
  /\ result = "none"
  /\ AllReadable(input)
  /\ ~Accepted(input)
  /\ result' = "null"
  /\ UNCHANGED <<input, ir>>

Answer ==
  /\ result = "none"
  /\ AllReadable(input)
  /\ Accepted(input)
  /\ result' = "ir"
  /\ ir' \in Meanings(input)
  /\ UNCHANGED input

(* For other records, whose table is lost with the first section that      *)
(* cannot be read, any result may be returned, once.                       *)
AnyResult ==
  /\ result = "none"
  /\ ~AllReadable(input)
  /\ result' # "none"
  /\ UNCHANGED input

readerVars == <<input, result, ir>>

ReaderSafety == ReaderInit /\ [][Reject \/ Answer \/ AnyResult]_readerVars

(* What is promised is returned at some time.                              *)
ReaderSpec == ReaderSafety /\ WF_readerVars(Reject \/ Answer)
============================================================================
