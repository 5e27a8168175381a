-------------------------------- MODULE Ring --------------------------------
(***************************************************************************)
(* The ring buffer of pipe.c (pipeline_t), as operators on a record.       *)
(*                                                                         *)
(* A ring of Size bytes holds at most Size - 1.  PIPE_FLAG_OPEN is always  *)
(* set and PIPE_FLAG_BLOCK never, so a write to a full ring drops the      *)
(* oldest byte.  writep is an unsigned counter that is never reduced: it   *)
(* wraps at Wrap (2^32) and is reduced modulo Size where it is used.       *)
(***************************************************************************)
EXTENDS Integers, Sequences, SequencesExt

CONSTANTS
  Size,     \* line->size: 256 for a pipe, 128 for the keyboard
  Wrap,     \* 2^32, the number of values of an unsigned
  Byte,     \* the bytes that are written
  NoByte    \* what a byte of the buffer holds before it is written

ASSUME RingAssumption ==
  /\ Size \in Nat /\ Size >= 2
  /\ Wrap \in Nat \ {0} /\ Wrap % Size = 0
  /\ NoByte \notin Byte

Index == 0..(Size - 1)

RingType == [buf : [Index -> Byte \cup {NoByte}], avail : Index,
             writep : 0..(Wrap - 1), readp : Index]

(* pipe_create: kmalloc does not clear the buffer. *)
NewRing == [buf |-> [i \in Index |-> NoByte], avail |-> 0, writep |-> 0, readp |-> 0]

(* Faulty variant of Put: a full ring does not move its reading position. *)
PutKeepingReadp(r, b) ==
  [r EXCEPT !.avail = IF @ = Size - 1 THEN @ ELSE @ + 1,
            !.buf[r.writep % Size] = b,
            !.writep = (@ + 1) % Wrap]

(* Faulty variant of Put: the ring is taken to hold Size bytes. *)
PutToSize(r, b) ==
  LET full == r.avail = Size
  IN  [r EXCEPT !.readp = IF full THEN (@ + 1) % Size ELSE @,
                !.avail = IF full THEN @ ELSE @ + 1,
                !.buf[r.writep % Size] = b,
                !.writep = (@ + 1) % Wrap]

(* The body of pipe_write's loop: one byte. *)
Put(r, b) ==
  LET full == r.avail = Size - 1
  IN  [r EXCEPT !.readp = IF full THEN (@ + 1) % Size ELSE @,
                !.avail = IF full THEN @ ELSE @ + 1,
                !.buf[r.writep % Size] = b,
                !.writep = (@ + 1) % Wrap]

(* pipe_write of the bytes bs *)
Write(r, bs) == FoldLeft(Put, r, bs)

(* pipeline_read of n bytes: what it copies, and the ring it leaves. *)
Readable(r, n) == IF n < r.avail THEN n ELSE r.avail

BytesRead(r, n) ==
  [i \in 1..Readable(r, n) |-> r.buf[(r.readp + i - 1) % Size]]

AfterRead(r, n) ==
  [r EXCEPT !.readp = (@ + Readable(r, n)) % Size, !.avail = @ - Readable(r, n)]
=============================================================================
