-------------------------------- MODULE FwLoad --------------------------------
(***************************************************************************)
(* tvw_load_fw (util.c): a firmware file is sent in chunks, each a write   *)
(* to device page 0x1001 at the 16-bit offset of the chunk.                *)
(*                                                                         *)
(* The bytes of the file are named by their positions.  image is the       *)
(* device memory behind page 0x1001 (external): what each offset was last  *)
(* written with.  File positions have the width of size_t, SizeWrap        *)
(* values; offsets have OffsetWrap.  Names that ServiceCall has too carry  *)
(* Load, so that the proofs can EXTEND both.                               *)
(***************************************************************************)
EXTENDS Integers

CONSTANTS Chunk,       \* bytes of a full chunk, 512
          OffsetWrap,  \* 2^16: the offset is (uint16_t)fpos
          SizeWrap,    \* 2^64: values of a size_t
          MaxLen       \* bound: length of the file

ASSUME LoadAssumption ==
    /\ Chunk \in Nat \ {0} /\ OffsetWrap \in Nat /\ SizeWrap \in Nat /\ MaxLen \in Nat
    /\ Chunk <= OffsetWrap /\ OffsetWrap % Chunk = 0
    /\ MaxLen + Chunk < SizeWrap

VARIABLES
    loadPc,  \* "enter", "loop", "ok" (returns 0) or "failed" (returns -1)
    flen,    \* length of the file
    fpos,    \* next byte to send
    buf,     \* the file buffer is allocated
    image,   \* [offset -> file position, or -1: not written by this load]
    partial, \* a failed write may have reached the device: its file positions
    lastLen  \* length of the last data phase on the endpoint, -1 before any

loadVars == <<loadPc, flen, fpos, buf, image, partial, lastLen>>

Unwritten == -1
Offsets == 0..(OffsetWrap - 1)

\* Subtraction of size_t values.
Minus(a, b) == (a - b) % SizeWrap

LoadInit ==
    /\ loadPc = "enter"
    /\ flen \in 0..MaxLen
    /\ fpos = 0
    /\ buf = FALSE
    /\ image = [o \in Offsets |-> Unwritten]
    /\ partial = {}
    /\ lastLen = -1

\* open, fstat, malloc or read fails, or the file is empty: read is the only
\* one of these that comes after the allocation, and it frees the buffer.
\* The descriptor is not closed on any path.
Refuse ==
    /\ loadPc = "enter"
    /\ loadPc' = "failed"
    /\ UNCHANGED <<flen, fpos, buf, image, partial, lastLen>>

\* The whole file is in memory.
Enter ==
    /\ loadPc = "enter"
    /\ flen > 0
    /\ buf' = TRUE
    /\ loadPc' = "loop"
    /\ UNCHANGED <<flen, fpos, image, partial, lastLen>>

\* Mutants of LastChunk: the guard against unsigned wrap is dropped, or the
\* comparison is off by one.
LastChunkNoGuard == Minus(flen, Chunk) < fpos
LastChunkLate == flen < Chunk \/ Minus(flen, Chunk) + 1 < fpos

LastChunk == flen < Chunk \/ Minus(flen, Chunk) < fpos

wlen == IF LastChunk THEN flen - fpos ELSE Chunk

\* Mutant of Offset: the chunk number is sent for its offset.
OffsetInChunks == (fpos \div Chunk) % OffsetWrap

Offset == fpos % OffsetWrap

\* The device stores a chunk at consecutive offsets; no chunk straddles the
\* end of the offset range.
Stored ==
    [o \in Offsets |->
        IF o \in Offset..(Offset + wlen - 1) THEN fpos + (o - Offset) ELSE image[o]]

\* One turn of the for loop; the zero-length packet is left as a FIXME.
SendChunk ==
    /\ loadPc = "loop"
    /\ fpos < flen
    /\ image' = Stored
    /\ lastLen' = wlen
    /\ fpos' = fpos + Chunk
    /\ UNCHANGED <<loadPc, flen, buf, partial>>

\* Mutant of FailChunk: the error path keeps the buffer.
FailChunkKeepsBuffer ==
    /\ loadPc = "loop" /\ fpos < flen
    /\ loadPc' = "failed"
    /\ UNCHANGED <<flen, fpos, buf, image, partial, lastLen>>

\* internal_write_reg reports an error, with or without effect.
FailChunk ==
    /\ loadPc = "loop"
    /\ fpos < flen
    /\ image' \in {image, Stored}
    /\ partial' = fpos..(fpos + wlen - 1)
    /\ loadPc' = "failed"
    /\ buf' = FALSE
    /\ UNCHANGED <<flen, fpos, lastLen>>

Return ==
    /\ loadPc = "loop"
    /\ ~(fpos < flen)
    /\ loadPc' = "ok"
    /\ buf' = FALSE
    /\ UNCHANGED <<flen, fpos, image, partial, lastLen>>

LoadNext == Refuse \/ Enter \/ SendChunk \/ FailChunk \/ Return

LoadSpec == LoadInit /\ [][LoadNext]_loadVars

-----------------------------------------------------------------------------

\* Every variable has its type, and the file buffer is allocated exactly while
\* the loop runs: it is freed on every path, error paths included.
LoadTypeOK ==
    /\ loadPc \in {"enter", "loop", "ok", "failed"}
    /\ flen \in 0..MaxLen
    /\ fpos \in 0..(MaxLen + Chunk)
    /\ \E k \in 0..MaxLen : fpos = k * Chunk
    /\ buf = (loadPc = "loop")
    /\ image \in [Offsets -> 0..MaxLen \cup {Unwritten}]
    /\ partial \subseteq 0..MaxLen
    /\ lastLen \in (-1)..Chunk

\* A chunk never takes a byte from behind the end of the file buffer.
ChunkInFile == loadPc = "loop" /\ fpos < flen => 0 < wlen /\ wlen <= Chunk /\ fpos + wlen <= flen

\* When a file no longer than the offset can express has been sent, the
\* device holds it byte for byte, and nothing else was written: 0 is returned
\* for no other image.
ImageIsFile ==
    loadPc = "ok" /\ flen <= OffsetWrap =>
        \A o \in Offsets : image[o] = (IF o < flen THEN o ELSE Unwritten)

\* A load that fails leaves a beginning of the file, with at most the chunk
\* that failed behind it; what a later load must overwrite is bounded.
FailureLeavesPrefix ==
    loadPc = "failed" /\ flen <= OffsetWrap =>
        \A o \in Offsets :
            /\ o < fpos => image[o] = o
            /\ o >= fpos => image[o] = Unwritten \/ (image[o] = o /\ o \in partial)

\* "according to the USB spec, we need to send a 0 byte packet to terminate
\* the transmission" when its last chunk is a full one: the last thing sent
\* is shorter than a full packet.
Terminated == loadPc = "ok" => lastLen < Chunk

=============================================================================
