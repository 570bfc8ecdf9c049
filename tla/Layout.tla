------------------------------- MODULE Layout -------------------------------
(***************************************************************************)
(* How XIRASM turns an ordered list of fragments into offsets.  The code   *)
(* has two independent implementations of it and so has this module:       *)
(*                                                                         *)
(*  - the incremental cursor of frontend/lower/layout_cursor.zig, which    *)
(*    answers here(), file_offset(), ... while statements are lowered;     *)
(*  - the final layout of frontend/layout.zig, which the writer and the    *)
(*    fixup pass use.                                                      *)
(*                                                                         *)
(* A fragment is a record with the fields                                  *)
(*   kind     "bytes", "reserve", "alignment" or "isa"                     *)
(*   section  the section it was appended to                               *)
(*   n        size of bytes/reserve, alignment of an alignment, current    *)
(*            encoded size of an instruction (0 until it is encoded)       *)
(*   text     the instruction text, "" for the other kinds                 *)
(*   data     the bytes, the encoded bytes, or the fill byte               *)
(***************************************************************************)
EXTENDS Integers, Sequences, FiniteSetsExt

Bytes(s, d) ==
  [kind |-> "bytes", section |-> s, n |-> Len(d), text |-> "", data |-> d]

Reserve(s, size) ==
  [kind |-> "reserve", section |-> s, n |-> size, text |-> "", data |-> <<>>]

Alignment(s, a, fill) ==
  [kind |-> "alignment", section |-> s, n |-> a, text |-> "", data |-> <<fill>>]

Instruction(s, t) ==
  [kind |-> "isa", section |-> s, n |-> 0, text |-> t, data |-> <<>>]

\* Smallest multiple of a that is not below v.
AlignUp(v, a) == IF v % a = 0 THEN v ELSE v + (a - (v % a))

IsPowerOfTwo(v) == v # 0 /\ \E e \in 0 .. v : v = 2 ^ e

-----------------------------------------------------------------------------
(* The incremental cursor: a logical offset and the part of it that is     *)
(* already backed by file bytes.                                           *)

StartOfRegion == [offset |-> 0, fileOffset |-> 0]

\* Bytes that follow a reserve turn the reserve into a gap of the file.
Materialized(off, file) == IF off > file THEN off ELSE file

NextOffset(f, off) ==
  IF f.kind = "alignment" THEN AlignUp(off, f.n) ELSE off + f.n

\* Mutant of NextFileOffset: alignment forgets a reserve before it.
NextFileOffsetDropsGap(f, off, file) ==
  CASE f.kind = "reserve" -> file
    [] f.kind = "alignment" ->
         IF AlignUp(off, f.n) = off THEN file ELSE AlignUp(file, f.n)
    [] OTHER -> IF f.n = 0 THEN file ELSE Materialized(off, file) + f.n

NextFileOffset(f, off, file) ==
  CASE f.kind = "reserve" -> file
    [] f.kind = "alignment" ->
         IF AlignUp(off, f.n) = off THEN file
         ELSE AlignUp(Materialized(off, file), f.n)
    [] OTHER -> IF f.n = 0 THEN file ELSE Materialized(off, file) + f.n

CursorAfter(f, c) ==
  [offset     |-> NextOffset(f, c.offset),
   fileOffset |-> NextFileOffset(f, c.offset, c.fileOffset)]

\* The cursor after each of the fragments of fs from number `from` on, when
\* the fragments up to `from` end at `start`.
Walk(fs, from, start) ==
  LET at[k \in from .. Len(fs)] ==
        IF k = from THEN start ELSE CursorAfter(fs[k], at[k - 1])
  IN  at

-----------------------------------------------------------------------------
(* The final layout of one section.                                        *)

\* Padding counts as the size of an alignment; its entry starts before it.
LogicalFragmentSize(f, off) ==
  IF f.kind = "alignment" THEN AlignUp(off, f.n) - off ELSE f.n

\* Offsets(fs)[k] is where fragment k + 1 starts, and where fragment k ends.
Offsets(fs) ==
  LET off[k \in 0 .. Len(fs)] ==
        IF k = 0 THEN 0
        ELSE off[k - 1] + LogicalFragmentSize(fs[k], off[k - 1])
  IN  off

LogicalSize(fs) == Offsets(fs)[Len(fs)]

\* The fragments that keep the file from being trimmed: everything that is
\* neither empty nor a reserve.
Initialized(fs) ==
  {k \in 1 .. Len(fs) :
     /\ fs[k].kind # "reserve"
     /\ LogicalFragmentSize(fs[k], Offsets(fs)[k - 1]) > 0}

\* File size before file_size_alignment: trailing reserves are trimmed.
FileSize(fs) ==
  IF Initialized(fs) = {} THEN 0 ELSE Offsets(fs)[Max(Initialized(fs))]
=============================================================================
