-------------------------------- MODULE Copy --------------------------------
(***************************************************************************)
(* Lab06/src/01 copy/copy.c: a file is copied block by block.  read() and  *)
(* write() may do less than they are asked for, so a loop fills the block, *)
(* and another writes it out.  A destination that exists is opened without *)
(* O_TRUNC and keeps what the copy does not reach.                         *)
(*                                                                         *)
(* A byte is its place in its file: k in the source, -k in the old         *)
(* destination, so that no two are equal.                                  *)
(***************************************************************************)
EXTENDS Integers, Sequences

CONSTANTS SOURCE_SIZES, OLD_SIZES, BLOCK_SIZES

\* What the constants are (assumed where the module is instantiated).
FilesAssumption ==
  /\ SOURCE_SIZES \subseteq Nat /\ OLD_SIZES \subseteq Nat
  /\ BLOCK_SIZES \subseteq Nat \ {0}

VARIABLES source, old, block_size,     \* the two files and the block, fixed at the start
          dest,                        \* the destination
          buf,                         \* the block
          src_offset, dest_offset,     \* the offsets of the two descriptors
          read_bytes, written_bytes,
          copier                       \* where the program stands

inputs == <<source, old, block_size>>
vars == <<inputs, dest, buf, src_offset, dest_offset, read_bytes, written_bytes, copier>>

Nothing == 0

Init == /\ \E s \in SOURCE_SIZES, o \in OLD_SIZES :
             /\ source = [k \in 1..s |-> k]
             /\ old = [k \in 1..o |-> -k]
        /\ block_size \in BLOCK_SIZES
        /\ dest = old
        /\ buf = [k \in 1..block_size |-> Nothing]
        /\ src_offset = 0 /\ dest_offset = 0
        /\ read_bytes = 0 /\ written_bytes = 0
        /\ copier = "off"

\* The bytes of file, from offset on, that an operation on n bytes concerns.
Overwrite(file, offset, bytes) ==
  LET new == offset + Len(bytes)
  IN  [k \in 1..(IF new > Len(file) THEN new ELSE Len(file)) |->
         IF offset < k /\ k <= new THEN bytes[k - offset] ELSE file[k]]

Open == /\ copier = "off"
        /\ copier' = "read"
        /\ UNCHANGED <<inputs, dest, buf, src_offset, dest_offset, read_bytes, written_bytes>>

-----------------------------------------------------------------------------
(* performCopyBetweenDescriptors *)

\* Mutation: what a second read() brings is put at the start of the block.
ReadAtStart ==
  /\ copier = "read" /\ read_bytes < block_size
  /\ \E ret \in 1..(block_size - read_bytes) :
        /\ src_offset + ret <= Len(source)
        /\ buf' = Overwrite(buf, 0, SubSeq(source, src_offset + 1, src_offset + ret))
        /\ read_bytes' = read_bytes + ret
        /\ src_offset' = src_offset + ret
  /\ UNCHANGED <<inputs, dest, dest_offset, written_bytes, copier>>

\* read() returns any number of the bytes there are, up to bytes_left.
Read ==
  /\ copier = "read" /\ read_bytes < block_size
  /\ \E ret \in 1..(block_size - read_bytes) :
        /\ src_offset + ret <= Len(source)
        /\ buf' = Overwrite(buf, read_bytes, SubSeq(source, src_offset + 1, src_offset + ret))
        /\ read_bytes' = read_bytes + ret
        /\ src_offset' = src_offset + ret
  /\ UNCHANGED <<inputs, dest, dest_offset, written_bytes, copier>>

\* The block is full, or read() has returned 0: write it, or end with it empty.
ReadEnds == /\ copier = "read"
            /\ read_bytes = block_size \/ src_offset = Len(source)
            /\ copier' = IF read_bytes = 0 THEN "ended" ELSE "write"
            /\ written_bytes' = 0
            /\ UNCHANGED <<inputs, dest, buf, src_offset, dest_offset, read_bytes>>

Write ==
  /\ copier = "write" /\ written_bytes < read_bytes
  /\ \E ret2 \in 1..(read_bytes - written_bytes) :
        /\ dest' = Overwrite(dest, dest_offset,
                             SubSeq(buf, written_bytes + 1, written_bytes + ret2))
        /\ dest_offset' = dest_offset + ret2
        /\ written_bytes' = written_bytes + ret2
  /\ UNCHANGED <<inputs, buf, src_offset, read_bytes, copier>>

WriteEnds == /\ copier = "write" /\ written_bytes = read_bytes
             /\ copier' = "read"
             /\ read_bytes' = 0
             /\ UNCHANGED <<inputs, dest, buf, src_offset, dest_offset, written_bytes>>

-----------------------------------------------------------------------------
PerformCopy == Read \/ ReadEnds \/ Write \/ WriteEnds

Next == Open \/ PerformCopy

\* Once started the program runs; a call that is interrupted is repeated.
Fairness == WF_vars(PerformCopy)

Spec == Init /\ [][Next]_vars /\ Fairness

-----------------------------------------------------------------------------
TypeOK ==
  /\ block_size \in BLOCK_SIZES
  /\ dest \in Seq(Int) /\ buf \in Seq(Int) /\ Len(buf) = block_size
  /\ src_offset \in 0..Len(source) /\ dest_offset \in 0..Len(source)
  /\ read_bytes \in 0..block_size /\ written_bytes \in 0..block_size
  /\ copier \in {"off", "read", "write", "ended"}

(***************************************************************************)
(* At any time the destination is what has been copied of the source, in   *)
(* order and without gaps, followed by what the old file had beyond it;    *)
(* and at the end all of the source is there, however read() and write()   *)
(* have split it.                                                          *)
(***************************************************************************)
CopiesInOrder ==
  /\ dest = Overwrite(old, 0, SubSeq(source, 1, dest_offset))
  /\ copier = "ended" => dest_offset = Len(source)

\* The copy comes to its end.
CopyEnds == []<>(copier \in {"off", "ended"})
=============================================================================
