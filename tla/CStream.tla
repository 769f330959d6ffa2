------------------------------ MODULE CStream ------------------------------
(***************************************************************************)
(* The C stdio stream the library reads from, as the callers in            *)
(* cper-parse.c use it: fopen()ed files and fmemopen()ed buffers.  It is   *)
(* the one part of the model that is not code of the repository.           *)
(*                                                                         *)
(* A stream is a record with at least a "backing" and a "size" field; its  *)
(* read position is kept by the module that uses it.                       *)
(***************************************************************************)
EXTENDS Integers

Backings == {"file", "memory"}

(***************************************************************************)
(* fseek(stream, target, SEEK_SET), whose return value the library never   *)
(* tests.  A file may be positioned past its end; an fmemopen()ed buffer   *)
(* refuses the seek and stays where it was.                                *)
(***************************************************************************)
SeekTo(stream, pos, target) ==
  IF stream.backing = "memory" /\ target > stream.size THEN pos ELSE target

(***************************************************************************)
(* fread(buf, n, 1, stream) = 1: one whole item of n bytes was read.  An   *)
(* item of zero bytes is never counted as read.                            *)
(***************************************************************************)
CanRead(stream, pos, n) == n > 0 /\ pos + n <= stream.size

(***************************************************************************)
(* The position after that fread(): past the item, or at the end of the    *)
(* stream after a short read, or unchanged when nothing was asked for or   *)
(* the position was already beyond the end.                                *)
(***************************************************************************)
PosAfterRead(stream, pos, n) ==
  IF CanRead(stream, pos, n) THEN pos + n
  ELSE IF n > 0 /\ pos < stream.size THEN stream.size ELSE pos
============================================================================
