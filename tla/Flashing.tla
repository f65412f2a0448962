------------------------------ MODULE Flashing ------------------------------
(***************************************************************************)
(* How minfastbootd writes a downloaded buffer to an image file or to the  *)
(* system partition: native/jni/minfastbootd/flashing.cpp.                 *)
(*                                                                         *)
(* A file is a sequence of blocks.  A buffer is a list of chunks, as       *)
(* libsparse reports them: raw data, or blocks to skip.  Block b of the    *)
(* image is the number b, so that a block in the wrong place shows.        *)
(***************************************************************************)
EXTENDS Integers, Sequences, FiniteSets

CONSTANTS
  OldLength,   \* blocks of the file, or of the partition, before the flash
  ImageLength, \* blocks of the image
  WORD         \* 2^32 in blocks: int, size_t and off_t are 32 bits wide

Zero == 0      \* a block nothing was written to
Old  == -1     \* a block of what was there before

MaxLength == IF OldLength > ImageLength THEN OldLength ELSE ImageLength

ASSUME LengthAssumption ==
  OldLength \in Nat /\ ImageLength \in Nat \ {0} /\ WORD \in Nat \ {0}

Chunks == [kind : {"raw", "skip"}, at : 0..ImageLength, len : 1..ImageLength]

(* The data of a raw chunk. *)
Blocks(c) == [k \in 1..c.len |-> c.at + k]

VARIABLES
  kind,   \* what is flashed: the image "file" or the "device" paralloid
  file,   \* its blocks
  pos,    \* the offset of the descriptor
  data,   \* the buffer taken from download_data()
  next,   \* the chunk of it that comes next
  left,   \* the blocks of the raw chunk not yet written
  step,   \* the next statement of the flash: "idle", "chunk" or "write"
  kept    \* history: an ftruncate() of this client run was refused

flashVars == <<kind, file, pos, data, next, left, step, kept>>

FlashInit ==
  /\ kind \in {"file", "device"}
  /\ file = [b \in 1..OldLength |-> Old]
  /\ pos = 0 /\ data = <<>> /\ next = 1 /\ left = <<>>
  /\ step = "idle" /\ kept = FALSE

-----------------------------------------------------------------------------
(* File operations. *)

Truncated(f, n) == [b \in 1..n |-> IF b <= Len(f) THEN f[b] ELSE Zero]

Appended(f, p, d) == f \o d  \* a mutant: the descriptor is opened for appending

(* write() at offset p, which may lie beyond the end. *)
Written(f, p, d) ==
  [b \in 1..(IF p + Len(d) > Len(f) THEN p + Len(d) ELSE Len(f)) |->
     IF b \in p + 1..p + Len(d) THEN d[b - p]
     ELSE IF b <= Len(f) THEN f[b] ELSE Zero]

BufferSize(p, len) == len  \* a mutant: truncates to the size of the chunk alone

(* cur_pos + len: an int and a size_t make a size_t, which becomes an off_t. *)
TruncateLength(p, len) ==
  LET n == (p + len) % WORD IN IF 2 * n < WORD THEN n ELSE n - WORD

NeverTruncates(f, n) == f  \* a mutant: no ftruncate()

(* What ftruncate(fd, n) leaves when the filesystem supports it.  A        *)
(* negative length is refused, and so is a block device.                   *)
Ftruncated(f, n) == IF n < 0 \/ kind = "device" THEN f ELSE Truncated(f, n)

-----------------------------------------------------------------------------
(* FlashFd() of the buffer d. *)
FlashBegin(d) ==
  /\ data' = d /\ next' = 1 /\ pos' = 0
  /\ step' = "chunk"
  /\ UNCHANGED <<kind, file, left, kept>>

(* WriteCallback() without data: lseek64(). *)
SkipChunk ==
  /\ step = "chunk" /\ next <= Len(data) /\ data[next].kind = "skip"
  /\ pos' = pos + data[next].len
  /\ next' = next + 1
  /\ UNCHANGED <<kind, file, data, left, step, kept>>

(* FlashRawDataChunk(), up to its loop: any error of ftruncate() is        *)
(* ignored.                                                                *)
RawChunk ==
  /\ step = "chunk" /\ next <= Len(data) /\ data[next].kind = "raw"
  /\ \/ file' = Ftruncated(file, TruncateLength(pos, data[next].len)) /\ UNCHANGED kept
     \/ UNCHANGED file /\ kept' = TRUE
  /\ left' = Blocks(data[next])
  /\ step' = "write"
  /\ UNCHANGED <<kind, pos, data, next>>

(* One write(), which may be a short one. *)
WriteSome ==
  /\ step = "write"
  /\ \E n \in 1..Len(left) :
       /\ kind = "device" => pos + n <= Len(file)
       /\ file' = Written(file, pos, SubSeq(left, 1, n))
       /\ pos' = pos + n
       /\ left' = SubSeq(left, n + 1, Len(left))
       /\ IF n = Len(left) THEN step' = "chunk" /\ next' = next + 1
                           ELSE UNCHANGED <<step, next>>
  /\ UNCHANGED <<kind, data, kept>>

FlashStep == SkipChunk \/ RawChunk \/ WriteSome

FlashDone == step = "chunk" /\ next > Len(data)

(* The flash returns to FlashHandler(), or is cut short. *)
FlashEnd ==
  /\ step' = "idle" /\ data' = <<>> /\ next' = 1 /\ pos' = 0 /\ left' = <<>>
  /\ UNCHANGED <<kind, file, kept>>
=============================================================================
