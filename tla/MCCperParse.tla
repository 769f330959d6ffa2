---------------------------- MODULE MCCperParse ----------------------------
(***************************************************************************)
(* CperParse on small streams: a header of two bytes, descriptors of two,  *)
(* at most three sections, streams of at most 9 bytes.                     *)
(***************************************************************************)
EXTENDS CperParse

CONSTANTS Arm, Ipf   (* a GUID with a converter, and one listed without    *)

MCTypes == {Arm, Ipf}
MCTable == <<[guid |-> Ipf, converts |-> FALSE], [guid |-> Arm, converts |-> TRUE]>>

(* Records of up to three sections, a header that is no record's, and a    *)
(* section on its own, whose stream has no header.                         *)
Calls ==
  [api : {"record"}, magic : {TRUE}, count : 0..3]
  \union {[api |-> "record", magic |-> FALSE, count |-> 1],
          [api |-> "section", magic |-> TRUE, count |-> 0]}

(***************************************************************************)
(* The first two slots of the table hold any descriptor of "descriptors";  *)
(* anywhere else the bytes decode to a descriptor told by its position.    *)
(***************************************************************************)
Elsewhere(p) == [offset |-> p, length |-> 1, type |-> Arm]

Streams(backings, sizes, descriptors) ==
  {[api     |-> k.api, backing |-> b, size |-> s, base |-> o,
    magic   |-> k.magic, count |-> k.count,
    at      |-> [p \in 0..MaxStream |->
                  LET first == IF k.api = "record" THEN o + HeaderSize ELSE o IN
                  CASE p = first                  -> d1
                    [] p = first + DescriptorSize -> d2
                    [] OTHER                      -> Elsewhere(p)]] :
     k \in Calls, b \in backings, s \in sizes, o \in {0, 1},
     d1 \in descriptors, d2 \in descriptors}

(* Sections inside the table, after it, and outside the stream; empty ones. *)
AnyDescriptor ==
  {d \in [offset : {2, 6, 20}, length : {0, 1, 3}, type : {Arm, Ipf}] :
     d.type = Ipf => d.length = 3}

ReadableDescriptor == [offset : {0, 6}, length : {1, 2}, type : {Arm, Ipf}]

(* Files of every kind, with sections that can be read and that cannot.    *)
FileInputs ==
  Streams({"file"}, {1, 3, 6, 9}, AnyDescriptor)

(* Buffers of every kind.                                                  *)
MemoryInputs ==
  Streams({"memory"}, {3, 6, 9}, AnyDescriptor)

(***************************************************************************)
(* Files of every kind, and streams in which every section described by a  *)
(* slot of the table that is within the stream can be read.                *)
(***************************************************************************)
ReadInputs ==
  FileInputs \union
  {in \in Streams(Backings, {1, 3, 6, 9}, ReadableDescriptor) :
     AllReadable(in)}
============================================================================
