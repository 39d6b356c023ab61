------------------------------ MODULE BootProofs ------------------------------
(***************************************************************************)
(* Theorems about the two things the driver does to boot the 8051:         *)
(* FwLoad, for every chunk size, offset width and file length that satisfy *)
(* LoadAssumption, and ServiceCall, for every number of calls, polls,      *)
(* sessions and failed register accesses.                                  *)
(***************************************************************************)
EXTENDS ServiceCall, FwLoad, TLAPS

-----------------------------------------------------------------------------
(* Loading the firmware. *)

\* A value below the modulus is its own residue: no conversion in the loop
\* changes fpos or flen - Chunk while the file fits the offset range.
LEMMA SmallMod ==
    ASSUME NEW m \in Nat, NEW x \in 0..(m - 1)
    PROVE  x % m = x
  OBVIOUS

\* What the program keeps between two turns of the loop.  The image is known
\* only for files that the 16-bit offset can express.
Sent ==
    flen <= OffsetWrap =>
        \A o \in Offsets :
            image[o] = (IF o < fpos /\ o < flen THEN o ELSE Unwritten)

LoadIInv ==
    /\ loadPc \in {"enter", "loop", "ok", "failed"}
    /\ flen \in 0..MaxLen
    /\ fpos \in Nat
    /\ image \in [Offsets -> Int]
    /\ loadPc = "enter" => fpos = 0
    /\ loadPc = "ok" => flen <= fpos
    /\ loadPc # "failed" => Sent
    /\ FailureLeavesPrefix

\* The test for the last chunk, with its subtraction of unsigned values, keeps
\* every chunk inside the file.
LEMMA ChunkBounds ==
    ASSUME LoadIInv, fpos < flen
    PROVE  0 < wlen /\ wlen <= Chunk /\ fpos + wlen <= flen /\ wlen \in Nat
  <1> USE LoadAssumption DEF LoadIInv
  <1>1. CASE flen < Chunk
    BY <1>1 DEF wlen, LastChunk
  <1>2. CASE ~(flen < Chunk)
    <2>1. flen - Chunk \in 0..(SizeWrap - 1)
      BY <1>2
    <2>2. Minus(flen, Chunk) = flen - Chunk
      BY <2>1, SmallMod DEF Minus
    <2> QED
      BY <1>2, <2>2 DEF wlen, LastChunk
  <1> QED
    BY <1>1, <1>2

\* Where a chunk goes in the device.
LEMMA StoredIs ==
    ASSUME LoadIInv, fpos < flen, flen <= OffsetWrap, NEW o \in Offsets
    PROVE  /\ Offset = fpos
           /\ Stored[o] = IF o \in fpos..(fpos + wlen - 1) THEN o ELSE image[o]
           /\ Stored \in [Offsets -> Int]
  <1> USE LoadAssumption
  <1>1. fpos \in 0..(OffsetWrap - 1)
    BY DEF LoadIInv
  <1>2. Offset = fpos
    BY <1>1, SmallMod DEF Offset
  <1>3. wlen \in Nat
    BY ChunkBounds
  <1>4. Stored[o] = IF o \in fpos..(fpos + wlen - 1) THEN fpos + (o - fpos) ELSE image[o]
    BY <1>2 DEF Stored
  <1>5. Stored[o] = IF o \in fpos..(fpos + wlen - 1) THEN o ELSE image[o]
    BY <1>1, <1>4 DEF Offsets
  <1>6. \A p \in Offsets : fpos + (p - Offset) \in Int /\ image[p] \in Int
    BY <1>1, <1>2 DEF Offsets, LoadIInv
  <1>7. Stored \in [Offsets -> Int]
    BY <1>6 DEF Stored
  <1> QED
    BY <1>2, <1>5, <1>7


-----------------------------------------------------------------------------
\* The inductive invariant.

LEMMA InitLoadIInv == LoadInit => LoadIInv
  BY LoadAssumption DEF LoadInit, LoadIInv, Sent, FailureLeavesPrefix, Unwritten, Offsets

LEMMA EnterLoadIInv == LoadIInv /\ (Refuse \/ Enter) => LoadIInv'
  <1> SUFFICES ASSUME LoadIInv, Refuse \/ Enter PROVE LoadIInv'
    OBVIOUS
  <1> USE LoadAssumption DEF LoadIInv, Sent, FailureLeavesPrefix, Unwritten
  <1>1. CASE Refuse
    <2>1. \A o \in Offsets : flen <= OffsetWrap => image[o] = Unwritten
      BY <1>1 DEF Refuse, Offsets
    <2>2. fpos = 0 /\ fpos' = 0 /\ image' = image /\ flen' = flen /\ loadPc' = "failed"
      BY <1>1 DEF Refuse
    <2>3. FailureLeavesPrefix'
      BY <2>1, <2>2 DEF Offsets
    <2> QED
      BY <2>2, <2>3
  <1>2. CASE Enter
    BY <1>2 DEF Enter
  <1> QED
    BY <1>1, <1>2

\* A full chunk moves fpos to the end of what is stored; the last one, which
\* may be shorter, moves it to or past the end of the file.
LEMMA SendChunkIInv == LoadIInv /\ SendChunk => LoadIInv'
  <1> SUFFICES ASSUME LoadIInv, SendChunk PROVE LoadIInv'
    OBVIOUS
  <1> USE LoadAssumption
  <1>1. /\ loadPc = "loop" /\ fpos < flen
        /\ image' = Stored /\ fpos' = fpos + Chunk
        /\ loadPc' = "loop" /\ flen' = flen
    BY DEF SendChunk
  <1>2. wlen = flen - fpos \/ wlen = Chunk
    BY DEF wlen
  <1>3. 0 < wlen /\ wlen <= Chunk /\ fpos + wlen <= flen /\ wlen \in Nat
    BY <1>1, ChunkBounds
  <1>4. flen \in Nat /\ fpos \in Nat /\ Chunk \in Nat
    BY DEF LoadIInv
  <1>5. Sent'
    <2> SUFFICES ASSUME flen <= OffsetWrap, NEW o \in Offsets
                 PROVE  image'[o] = IF o < fpos' /\ o < flen THEN o ELSE Unwritten
      BY <1>1 DEF Sent, Offsets
    <2>1. image[o] = IF o < fpos /\ o < flen THEN o ELSE Unwritten
      BY <1>1 DEF LoadIInv, Sent
    <2>2. image'[o] = IF o \in fpos..(fpos + wlen - 1) THEN o ELSE image[o]
      BY <1>1, StoredIs
    <2>3. o \in Nat
      BY DEF Offsets
    <2>4. (o < fpos' /\ o < flen) <=> (o < fpos \/ o \in fpos..(fpos + wlen - 1))
      <3>1. CASE wlen = Chunk
        BY <1>1, <1>3, <1>4, <2>3, <3>1
      <3>2. CASE wlen = flen - fpos
        BY <1>1, <1>3, <1>4, <2>3, <3>2
      <3> QED
        BY <1>2, <3>1, <3>2
    <2>5. o < fpos => o < flen /\ o \notin fpos..(fpos + wlen - 1)
      BY <1>1, <1>4, <2>3
    <2> QED
      BY <2>1, <2>2, <2>4, <2>5
  <1>6. image' \in [Offsets -> Int]
    <2>1. \A o \in Offsets : fpos + (o - Offset) \in Int /\ image[o] \in Int
      <3>1. Offset \in Int
        BY <1>4 DEF Offset
      <3> QED
        BY <1>4, <3>1 DEF Offsets, LoadIInv
    <2> QED
      BY <1>1, <2>1 DEF Stored
  <1> QED
    BY <1>1, <1>4, <1>5, <1>6 DEF LoadIInv, FailureLeavesPrefix

LEMMA FailChunkIInv == LoadIInv /\ FailChunk => LoadIInv'
  <1> SUFFICES ASSUME LoadIInv, FailChunk PROVE LoadIInv'
    OBVIOUS
  <1> USE LoadAssumption
  <1>1. /\ loadPc = "loop" /\ fpos < flen
        /\ image' \in {image, Stored} /\ fpos' = fpos
        /\ partial' = fpos..(fpos + wlen - 1)
        /\ loadPc' = "failed" /\ flen' = flen
    BY DEF FailChunk
  <1>2. 0 < wlen /\ wlen <= Chunk /\ fpos + wlen <= flen /\ wlen \in Nat
    BY <1>1, ChunkBounds
  <1>3. flen \in Nat /\ fpos \in Nat /\ Chunk \in Nat
    BY DEF LoadIInv
  <1>4. FailureLeavesPrefix'
    <2> SUFFICES ASSUME flen <= OffsetWrap, NEW o \in Offsets
                 PROVE  /\ o < fpos => image'[o] = o
                        /\ o >= fpos => \/ image'[o] = Unwritten
                                        \/ image'[o] = o /\ o \in partial'
      BY <1>1 DEF FailureLeavesPrefix, Offsets
    <2>1. image[o] = IF o < fpos /\ o < flen THEN o ELSE Unwritten
      BY <1>1 DEF LoadIInv, Sent
    <2>2. \/ image'[o] = image[o]
          \/ image'[o] = IF o \in fpos..(fpos + wlen - 1) THEN o ELSE image[o]
      BY <1>1, StoredIs
    <2>3. o \in Nat
      BY DEF Offsets
    <2> QED
      BY <1>1, <1>2, <1>3, <2>1, <2>2, <2>3
  <1>5. image' \in [Offsets -> Int]
    <2>1. \A o \in Offsets : fpos + (o - Offset) \in Int /\ image[o] \in Int
      <3>1. Offset \in Int
        BY <1>3 DEF Offset
      <3> QED
        BY <1>3, <3>1 DEF Offsets, LoadIInv
    <2> QED
      BY <1>1, <2>1 DEF Stored, LoadIInv
  <1> QED
    BY <1>1, <1>3, <1>4, <1>5 DEF LoadIInv

LEMMA ReturnLoadIInv == LoadIInv /\ Return => LoadIInv'
  BY LoadAssumption DEF LoadIInv, Return, Sent, FailureLeavesPrefix, Offsets, Unwritten

LEMMA LoadInductive == LoadSpec => []LoadIInv
  <1>1. LoadIInv /\ [LoadNext]_loadVars => LoadIInv'
    <2> SUFFICES ASSUME LoadIInv, [LoadNext]_loadVars PROVE LoadIInv'
      OBVIOUS
    <2>1. CASE Refuse \/ Enter
      BY <2>1, EnterLoadIInv
    <2>2. CASE SendChunk
      BY <2>2, SendChunkIInv
    <2>3. CASE FailChunk
      BY <2>3, FailChunkIInv
    <2>4. CASE Return
      BY <2>4, ReturnLoadIInv
    <2>5. CASE UNCHANGED loadVars
      BY <2>5 DEF loadVars, LoadIInv, Sent, FailureLeavesPrefix
    <2> QED
      BY <2>1, <2>2, <2>3, <2>4, <2>5 DEF LoadNext
  <1> QED
    BY <1>1, InitLoadIInv, PTL DEF LoadSpec

-----------------------------------------------------------------------------
\* The type invariant: fpos counts whole chunks and overshoots the file by less
\* than one, and what is stored are positions of the file.

LEMMA InitLoadTypeOK == LoadInit => LoadTypeOK
  <1> SUFFICES ASSUME LoadInit PROVE LoadTypeOK
    OBVIOUS
  <1>1. fpos = 0 * Chunk /\ 0 \in 0..MaxLen
    BY LoadAssumption DEF LoadInit
  <1>2. \E k \in 0..MaxLen : fpos = k * Chunk
    BY <1>1
  <1>3. fpos \in 0..(MaxLen + Chunk) /\ flen \in 0..MaxLen /\ lastLen \in (-1)..Chunk
    BY LoadAssumption DEF LoadInit
  <1>4. buf = (loadPc = "loop")
    BY DEF LoadInit
  <1> QED
    BY <1>2, <1>3, <1>4 DEF LoadInit, LoadTypeOK

LEMMA StoredLoadTypeOK ==
    ASSUME LoadIInv, LoadTypeOK, fpos < flen
    PROVE  /\ Stored \in [Offsets -> 0..MaxLen \cup {Unwritten}]
           /\ fpos..(fpos + wlen - 1) \subseteq 0..MaxLen
           /\ wlen \in 1..Chunk
  <1> USE LoadAssumption
  <1>1. 0 < wlen /\ wlen <= Chunk /\ fpos + wlen <= flen /\ wlen \in Nat
    BY ChunkBounds
  <1>2. flen \in 0..MaxLen /\ fpos \in Nat /\ Chunk \in Nat
    BY DEF LoadIInv
  <1>3. Offset \in Int
    BY <1>2 DEF Offset
  <1>4. ASSUME NEW o \in Offsets, o \in Offset..(Offset + wlen - 1)
        PROVE  fpos + (o - Offset) \in 0..MaxLen
    BY <1>1, <1>2, <1>3, <1>4 DEF Offsets
  <1>5. \A o \in Offsets : image[o] \in 0..MaxLen \cup {Unwritten}
    BY DEF LoadTypeOK
  <1>6. Stored \in [Offsets -> 0..MaxLen \cup {Unwritten}]
    BY <1>4, <1>5 DEF Stored
  <1>7. fpos..(fpos + wlen - 1) \subseteq 0..MaxLen
    BY <1>1, <1>2
  <1> QED
    BY <1>1, <1>2, <1>6, <1>7

LEMMA NextLoadTypeOK == LoadIInv /\ LoadTypeOK /\ [LoadNext]_loadVars => LoadTypeOK'
  <1> SUFFICES ASSUME LoadIInv, LoadTypeOK, [LoadNext]_loadVars PROVE LoadTypeOK'
    OBVIOUS
  <1> USE LoadAssumption
  <1>1. CASE SendChunk
    <2>1. /\ loadPc = "loop" /\ loadPc' = loadPc /\ fpos < flen
          /\ fpos' = fpos + Chunk /\ image' = Stored /\ lastLen' = wlen
          /\ flen' = flen /\ buf' = buf /\ partial' = partial
      BY <1>1 DEF SendChunk
    <2>2. flen \in 0..MaxLen /\ fpos \in Nat /\ Chunk \in Nat \ {0}
      BY DEF LoadIInv
    <2>3. PICK k \in 0..MaxLen : fpos = k * Chunk
      BY DEF LoadTypeOK
    <2>4. k <= k * Chunk
      BY <2>2
    <2>5. k + 1 \in 0..MaxLen
      BY <2>1, <2>2, <2>3, <2>4
    <2>6. fpos' = (k + 1) * Chunk
      BY <2>1, <2>2, <2>3
    <2>7. fpos' \in 0..(MaxLen + Chunk)
      BY <2>1, <2>2
    <2>8. image' \in [Offsets -> 0..MaxLen \cup {Unwritten}] /\ lastLen' \in (-1)..Chunk
      BY <2>1, <2>2, StoredLoadTypeOK
    <2> QED
      BY <2>1, <2>5, <2>6, <2>7, <2>8 DEF LoadTypeOK
  <1>2. CASE FailChunk
    <2>1. /\ fpos < flen
          /\ image' \in {image, Stored} /\ partial' = fpos..(fpos + wlen - 1)
          /\ loadPc' = "failed" /\ buf' = FALSE /\ UNCHANGED <<flen, fpos, lastLen>>
      BY <1>2 DEF FailChunk
    <2>2. image' \in [Offsets -> 0..MaxLen \cup {Unwritten}] /\ partial' \subseteq 0..MaxLen
      BY <2>1, StoredLoadTypeOK DEF LoadTypeOK
    <2> QED
      BY <2>1, <2>2 DEF LoadTypeOK
  <1>3. CASE Refuse \/ Enter \/ Return \/ UNCHANGED loadVars
    BY <1>3 DEF Refuse, Enter, Return, loadVars, LoadTypeOK
  <1> QED
    BY <1>1, <1>2, <1>3 DEF LoadNext

-----------------------------------------------------------------------------

\* Every variable keeps its type, and the file buffer is allocated exactly
\* while the loop of tvw_load_fw runs: no path leaks it or frees it twice.
THEOREM LoadTypeCorrect == LoadSpec => []LoadTypeOK
  BY InitLoadTypeOK, NextLoadTypeOK, LoadInductive, PTL DEF LoadSpec

\* The loop of tvw_load_fw never reads behind the end of the file buffer and
\* never sends an empty or an oversized chunk, for every file length.
THEOREM ChunksInFile == LoadSpec => []ChunkInFile
  <1>1. LoadIInv => ChunkInFile
    BY ChunkBounds DEF ChunkInFile
  <1> QED
    BY <1>1, LoadInductive, PTL

\* tvw_load_fw returns 0 only when the device holds the file and nothing else,
\* for every file of up to OffsetWrap (65536) bytes.
THEOREM LoadsTheFile == LoadSpec => []ImageIsFile
  <1>1. LoadIInv => ImageIsFile
    <2> SUFFICES ASSUME LoadIInv, loadPc = "ok", flen <= OffsetWrap, NEW o \in Offsets
                 PROVE  image[o] = (IF o < flen THEN o ELSE Unwritten)
      BY DEF ImageIsFile
    <2>1. image[o] = (IF o < fpos /\ o < flen THEN o ELSE Unwritten)
      BY DEF LoadIInv, Sent
    <2> QED
      BY <2>1, LoadAssumption DEF LoadIInv, Offsets
  <1> QED
    BY <1>1, LoadInductive, PTL

\* A load that fails leaves a beginning of the file and at most the chunk that
\* failed behind it.
THEOREM FailsCleanly == LoadSpec => []FailureLeavesPrefix
  <1>1. LoadIInv => FailureLeavesPrefix
    BY DEF LoadIInv
  <1> QED
    BY <1>1, LoadInductive, PTL

-----------------------------------------------------------------------------
(* Service calls. *)

\* The firmware that has taken a call and not cleared its id yet is working
\* on what the id register holds.
FirmwareState ==
    /\ reset => mcu = "idle"
    /\ mcu \in {"working", "flagged"} => f09f = job
    /\ mcu # "idle" => job # None

\* While the driver waits, the flag can only be that of its own call: nothing
\* is left of an earlier one, because a call that timed out ends the session
\* and the next session clears the mailbox with the 8051 in reset.
Waiting ==
    \/ mcu = "idle" /\ f09c = None /\ f09f \in {None, Call}
    \/ mcu = "idle" /\ f09c = Call /\ f09f = None
    \/ mcu = "working" /\ f09c = None /\ job = Call
    \/ mcu = "flagged" /\ f09c = Call /\ job = Call
    \/ mcu = "cleared" /\ f09c = None /\ job = Call /\ f09f = None

\* What the driver can rely on at each of its steps.
DriverState ==
    /\ pc = "clear" => reset
    /\ pc \in {"between", "check", "args", "issue", "start"} => f09c = None
    /\ pc \in {"between", "check", "args", "issue", "start"} /\ n = 0 => reset
    /\ pc \in {"between", "check"} /\ n = 0 => f09f = None
    /\ pc \in {"between", "check"} => mcu \in {"idle", "flagged"}
    /\ pc \in {"between", "check"} /\ mcu = "idle" => f09f = None
    /\ pc \in {"args", "issue"} => mcu = "idle" /\ f09f = None
    /\ pc = "start" => n = 0 /\ f09f = Call
    /\ pc = "poll" => Waiting
    /\ pc = "ack" => /\ f09c = Call
                     /\ \/ mcu = "flagged" /\ job = Call
                        \/ mcu = "idle" /\ f09f = None

\* Every call before c was reported complete.
Preceded(c) == \A k \in 0..(c[2] - 1) : <<c[1], k>> \in reported

Ran(c) == \E a \in Calls \cup {None} : <<c, a>> \in ran

\* A request has its arguments; an answer was preceded by an execution.
History ==
    /\ f09f # None => args = f09f \/ f09f \in argsLost
    /\ pc = "issue" => args = Call \/ Call \in argsLost
    /\ f09c # None => Ran(f09c)
    /\ mcu # "idle" => Ran(job)
    /\ \A c \in reported : Ran(c)
    /\ \A r \in ran : r[2] = r[1] \/ r[1] \in argsLost

\* What no value that a read returns can spoil: a call and a request were
\* preceded by the calls in front of them in the chain, and the driver polls
\* only while it has turns left.
Chained ==
    /\ pc # "closed" => session \in 1..MaxSessions /\ Preceded(Call)
    /\ f09f # None => Preceded(f09f)
    /\ \A r \in ran : Preceded(r[1])
    /\ pc = "start" => polls = 1
    /\ pc = "poll" => polls > 0

Protocol == FirmwareState /\ DriverState /\ History

IInv ==
    /\ TypeOK
    /\ Chained
    /\ NothingLate => Protocol

-----------------------------------------------------------------------------

\* The names of calls: a call is determined by its session and its number,
\* and is not None.
LEMMA CallFacts ==
    ASSUME TypeOK, session \in 1..MaxSessions
    PROVE  /\ Call \in Calls
           /\ Call[1] = session /\ Call[2] = n
           /\ Call # None
  BY CallAssumption DEF TypeOK, Call, Calls

\* The endpoint when a read has been done: as many answers are left as before,
\* and the read has returned its own register's bit if there were none.
LEMMA TakenFacts ==
    ASSUME late \in Seq(BOOLEAN), NEW bit \in BOOLEAN, Taken(bit)
    PROVE  /\ late' \in Seq(BOOLEAN) /\ Len(late') = Len(late)
           /\ NothingLate' => NothingLate
           /\ \A seen : Reads(bit, seen) /\ NothingLate => seen = bit
  <1> DEFINE q == Append(late, bit)
  <1>1. q \in Seq(BOOLEAN) /\ Len(q) = Len(late) + 1 /\ q # << >>
    OBVIOUS
  <1>2. Tail(q) \in Seq(BOOLEAN) /\ Len(Tail(q)) = Len(late)
    BY <1>1
  <1>3. late = << >> => Head(q) = bit
    OBVIOUS
  <1>4. Len(late) = 0 => late = << >>
    OBVIOUS
  <1> QED
    BY <1>2, <1>3, <1>4 DEF Taken, Reads, NothingLate

\* The same of a read that failed, which may leave one answer more.
LEMMA GivenUpFacts ==
    ASSUME late \in Seq(BOOLEAN), NEW bit \in BOOLEAN, GivenUp(bit)
    PROVE  /\ late' \in Seq(BOOLEAN) /\ Len(late') \in {Len(late), Len(late) + 1}
           /\ NothingLate' => NothingLate
  <1>1. CASE late' = late
    BY <1>1 DEF NothingLate
  <1>2. CASE late' = Append(late, bit)
    BY <1>2 DEF NothingLate
  <1>3. CASE Taken(bit)
    BY <1>3, TakenFacts
  <1> QED
    BY <1>1, <1>2, <1>3 DEF GivenUp, Taken

\* Both in an access that a step of the driver makes.
LEMMA AccessFacts ==
    ASSUME TypeOK, NEW bit \in BOOLEAN,
           \/ Taken(bit) /\ errors' = errors
           \/ (Taken(bit) \/ GivenUp(bit)) /\ errors < MaxErrors /\ errors' = errors + 1
    PROVE  /\ late' \in Seq(BOOLEAN) /\ Len(late') <= errors'
           /\ errors' \in 0..MaxErrors
           /\ NothingLate' => NothingLate
  <1>1. late \in Seq(BOOLEAN) /\ Len(late) \in Nat /\ Len(late) <= errors
    BY DEF TypeOK
  <1>2. late' \in Seq(BOOLEAN) /\ Len(late') \in {Len(late), Len(late) + 1}
    BY <1>1, TakenFacts, GivenUpFacts
  <1>3. NothingLate' => NothingLate
    BY <1>1, TakenFacts, GivenUpFacts
  <1>4. \/ errors' = errors /\ Len(late') = Len(late)
        \/ errors < MaxErrors /\ errors' = errors + 1
    BY <1>1, TakenFacts
  <1>5. errors \in 0..MaxErrors /\ MaxErrors \in Nat
    BY CallAssumption DEF TypeOK
  <1> QED
    BY <1>1, <1>2, <1>3, <1>4, <1>5

\* And of reads of other registers.
LEMMA OtherReadsFacts ==
    ASSUME TypeOK, OtherReads
    PROVE  /\ late' \in Seq(BOOLEAN) /\ Len(late') <= errors'
           /\ errors' \in 0..MaxErrors
           /\ NothingLate' => NothingLate
  <1>1. ASSUME NEW k \in Nat, late' \in Answers(k)
        PROVE  late' \in Seq(BOOLEAN) /\ Len(late') = k
    BY <1>1 DEF Answers
  <1>2. late \in Seq(BOOLEAN) /\ Len(late) \in Nat /\ Len(late) <= errors
    BY DEF TypeOK
  <1>3. Len(late) = 0 => late = << >>
    BY <1>2
  <1>4. Len(late') \in {Len(late), Len(late) + 1} /\ late' \in Seq(BOOLEAN)
    BY <1>1, <1>2 DEF OtherReads
  <1>5. NothingLate' => NothingLate
    BY <1>2, <1>3, <1>4 DEF NothingLate
  <1>6. CASE Works /\ late' \in Answers(Len(late))
    BY <1>1, <1>2, <1>5, <1>6, CallAssumption DEF Works, TypeOK
  <1>7. CASE MayFail
    BY <1>2, <1>4, <1>5, <1>7, CallAssumption DEF MayFail, TypeOK
  <1> QED
    BY <1>6, <1>7 DEF OtherReads

-----------------------------------------------------------------------------
\* The inductive invariant, one step of the program or the firmware at a time.

LEMMA InitIInv == Init => IInv
  <1> SUFFICES ASSUME Init PROVE IInv
    OBVIOUS
  <1> USE CallAssumption DEF Init
  <1>1. TypeOK
    <2>1. late \in Seq(BOOLEAN) /\ Len(late) = 0
      OBVIOUS
    <2>2. /\ pc \in {"closed"} /\ mcu \in {"idle"} /\ reset \in BOOLEAN /\ silent \in BOOLEAN
          /\ {session, n, polls, errors} = {0}
      OBVIOUS
    <2> QED
      BY <2>1, <2>2 DEF TypeOK
  <1>2. FirmwareState /\ DriverState
    BY DEF FirmwareState, DriverState
  <1>3. History /\ Chained
    BY DEF History, Chained
  <1> QED
    BY <1>1, <1>2, <1>3 DEF IInv, Protocol

LEMMA OpenIInv == IInv /\ Open => IInv'
  <1> SUFFICES ASSUME IInv, Open PROVE IInv'
    OBVIOUS
  <1> USE CallAssumption DEF IInv
  <1>1. TypeOK'
    BY OtherReadsFacts DEF TypeOK, Open, mail, firm
  <1>2. Chained'
    <2>1. /\ session' \in 1..MaxSessions /\ Call' = <<session + 1, 0>>
          /\ UNCHANGED <<f09f, ran, reported>> /\ pc' \in {"hold", "closed"}
      BY DEF TypeOK, Call, Open, mail, firm
    <2>2. Preceded(Call)'
      BY <2>1 DEF Preceded
    <2>3. \A c : Preceded(c) <=> Preceded(c)'
      BY <2>1 DEF Preceded
    <2> QED
      BY <2>1, <2>2, <2>3 DEF Chained
  <1>3. ASSUME NothingLate' PROVE Protocol'
    <2>1. Protocol
      BY <1>3, OtherReadsFacts DEF Open
    <2> QED
      BY <2>1 DEF Open, mail, firm, Protocol, FirmwareState, DriverState, History, Ran
  <1> QED
    BY <1>1, <1>2, <1>3

LEMMA HoldResetIInv == IInv /\ HoldReset /\ UNCHANGED silent => IInv'
  <1> SUFFICES ASSUME IInv, HoldReset, UNCHANGED silent PROVE IInv'
    OBVIOUS
  <1> USE CallAssumption DEF IInv
  <1>1. late \in Seq(BOOLEAN) /\ reset \in BOOLEAN /\ Len(late) <= errors
    BY DEF TypeOK
  <1>2. /\ Taken(reset) \/ GivenUp(reset)
        /\ UNCHANGED <<session, n, polls, reported, mail, ran, argsLost>>
        /\ pc' \in {"clear", "closed"}
        /\ \/ reset' = TRUE /\ mcu' = "idle" /\ job' = None
           \/ pc' = "closed" /\ UNCHANGED <<reset, mcu, job>>
        /\ \/ Taken(reset) /\ errors' = errors
           \/ errors < MaxErrors /\ errors' = errors + 1
    BY Zenon DEF HoldReset, Modified, Works, MayFail
  <1>3. /\ late' \in Seq(BOOLEAN) /\ Len(late') <= errors' /\ errors' \in 0..MaxErrors
        /\ NothingLate' => NothingLate
    BY <1>1, <1>2, AccessFacts
  <1>4. TypeOK'
    <2>1. reset' \in BOOLEAN
      BY <1>1, <1>2, Zenon
    <2>2. mcu' \in {"idle", mcu} /\ job' \in {None, job}
      BY <1>2
    <2> QED
      BY <1>2, <1>3, <2>1, <2>2 DEF TypeOK, mail
  <1>5. Chained'
    BY <1>2 DEF Chained, Call, Preceded, mail, HoldReset
  <1>6. ASSUME NothingLate' PROVE Protocol'
    <2>1. Protocol
      BY <1>3, <1>6
    <2> QED
      BY <1>2, <2>1 DEF Protocol, FirmwareState, DriverState, History, Call, Ran, mail
  <1> QED
    BY <1>4, <1>5, <1>6

LEMMA ClearMailboxIInv == IInv /\ ClearMailbox /\ UNCHANGED silent => IInv'
  <1> SUFFICES ASSUME IInv, ClearMailbox, UNCHANGED silent PROVE IInv'
    OBVIOUS
  <1> USE CallAssumption DEF IInv, ClearMailbox, Checked, Works, MayFail, firm
  <1>1. TypeOK'
    BY DEF TypeOK
  <1>2. Chained'
    BY DEF Chained, Call, Preceded
  <1>3. ASSUME NothingLate' PROVE Protocol'
    <2>1. Protocol
      BY <1>3 DEF NothingLate
    <2> QED
      BY <2>1 DEF Protocol, FirmwareState, DriverState, History, Call, Ran
  <1> QED
    BY <1>1, <1>2, <1>3

LEMMA BetweenIInv == IInv /\ Between /\ UNCHANGED silent => IInv'
  <1> SUFFICES ASSUME IInv, Between, UNCHANGED silent PROVE IInv'
    OBVIOUS
  <1> USE CallAssumption DEF IInv
  <1>1. /\ pc = "between" /\ pc' \in {"check", "closed"}
        /\ UNCHANGED <<session, n, polls, reported, mail, firm, reset, argsLost>>
    BY DEF Between
  <1>2. /\ late' \in Seq(BOOLEAN) /\ Len(late') <= errors' /\ errors' \in 0..MaxErrors
        /\ NothingLate' => NothingLate
    BY OtherReadsFacts DEF Between
  <1>3. TypeOK'
    BY <1>1, <1>2 DEF TypeOK, mail, firm
  <1>4. Chained'
    BY <1>1 DEF Chained, Call, Preceded, mail, firm
  <1>5. ASSUME NothingLate' PROVE Protocol'
    <2>1. Protocol
      BY <1>2, <1>5
    <2> QED
      BY <1>1, <2>1 DEF Protocol, FirmwareState, DriverState, History, Call, Ran, mail, firm
  <1> QED
    BY <1>3, <1>4, <1>5

LEMMA CheckIdleIInv == IInv /\ CheckIdle /\ UNCHANGED silent => IInv'
  <1> SUFFICES ASSUME IInv, CheckIdle, UNCHANGED silent PROVE IInv'
    OBVIOUS
  <1> USE CallAssumption DEF IInv
  <1> DEFINE bit == f09f # None
  <1>1. bit \in BOOLEAN /\ late \in Seq(BOOLEAN) /\ Len(late) <= errors
    BY DEF TypeOK
  <1>2. /\ Taken(bit) \/ GivenUp(bit)
        /\ pc = "check"
        /\ UNCHANGED <<session, n, polls, reported, mail, firm, reset, argsLost>>
        /\ \/ pc' = "args" /\ Reads(bit, FALSE)
           \/ pc' = "closed"
        /\ \/ Taken(bit) /\ errors' = errors
           \/ errors < MaxErrors /\ errors' = errors + 1
    BY DEF CheckIdle, RequiresClear, Reads, Works, MayFail
  <1>3. /\ late' \in Seq(BOOLEAN) /\ Len(late') <= errors' /\ errors' \in 0..MaxErrors
        /\ NothingLate' => NothingLate
    BY <1>1, <1>2, AccessFacts
  <1>4. NothingLate /\ pc' = "args" => f09f = None
    <2>1. NothingLate /\ pc' = "args" => FALSE = bit
      BY <1>1, <1>2, TakenFacts DEF Reads
    <2> QED
      BY <2>1
  <1> HIDE DEF bit
  <1>5. TypeOK'
    BY <1>2, <1>3 DEF TypeOK, mail, firm
  <1>6. Chained'
    BY <1>2 DEF Chained, Call, Preceded, mail, firm
  <1>7. ASSUME NothingLate' PROVE Protocol'
    <2>1. Protocol
      BY <1>3, <1>7
    <2>2. pc' = "args" => f09f = None
      BY <1>3, <1>4, <1>7
    <2> QED
      BY <1>2, <2>1, <2>2 DEF Protocol, FirmwareState, DriverState, History, Call, Ran, mail, firm
  <1> QED
    BY <1>5, <1>6, <1>7

LEMMA WriteArgsIInv == IInv /\ WriteArgs /\ UNCHANGED silent => IInv'
  <1> SUFFICES ASSUME IInv, WriteArgs, UNCHANGED silent PROVE IInv'
    OBVIOUS
  <1> USE CallAssumption DEF IInv, WriteArgs, Checked, Works, MayFail, firm
  <1>1. TypeOK'
    BY CallFacts DEF TypeOK, Chained
  <1>2. Chained'
    BY DEF Chained, Call, Preceded
  <1>3. ASSUME NothingLate' PROVE Protocol'
    <2>1. Protocol
      BY <1>3 DEF NothingLate
    <2>2. FirmwareState' /\ DriverState'
      BY <2>1 DEF Protocol, FirmwareState, DriverState
    <2>3. History'
      BY <2>1 DEF Protocol, DriverState, History, Call, Ran
    <2> QED
      BY <2>2, <2>3 DEF Protocol
  <1> QED
    BY <1>1, <1>2, <1>3

LEMMA WriteIdIInv == IInv /\ WriteId /\ UNCHANGED silent => IInv'
  <1> SUFFICES ASSUME IInv, WriteId, UNCHANGED silent PROVE IInv'
    OBVIOUS
  <1> USE CallAssumption DEF IInv, WriteId, Checked, Ignored, Works, MayFail, firm
  <1>1. TypeOK'
    BY CallFacts DEF TypeOK, Chained
  <1>2. Chained'
    BY DEF Chained, Call, Preceded
  <1>3. ASSUME NothingLate' PROVE Protocol'
    <2>1. Protocol
      BY <1>3 DEF NothingLate
    <2>2. FirmwareState' /\ DriverState'
      BY <2>1 DEF Protocol, FirmwareState, DriverState, Waiting, Call
    <2>3. History'
      BY <2>1 DEF Protocol, History, Call, Ran
    <2> QED
      BY <2>2, <2>3 DEF Protocol
  <1> QED
    BY <1>1, <1>2, <1>3

LEMMA StartIInv == IInv /\ Start /\ UNCHANGED silent => IInv'
  <1> SUFFICES ASSUME IInv, Start, UNCHANGED silent PROVE IInv'
    OBVIOUS
  <1> USE CallAssumption DEF IInv
  <1>1. late \in Seq(BOOLEAN) /\ reset \in BOOLEAN /\ Len(late) <= errors
    BY DEF TypeOK
  <1>2. /\ Taken(reset) \/ GivenUp(reset)
        /\ pc = "start" /\ pc' \in {"poll", "closed"}
        /\ UNCHANGED <<session, n, polls, reported, mail, firm, argsLost>>
        /\ reset' = FALSE \/ reset' = reset
        /\ \/ Taken(reset) /\ errors' = errors
           \/ errors < MaxErrors /\ errors' = errors + 1
    BY Zenon DEF Start, Modified, Works, MayFail
  <1>3. /\ late' \in Seq(BOOLEAN) /\ Len(late') <= errors' /\ errors' \in 0..MaxErrors
        /\ NothingLate' => NothingLate
    BY <1>1, <1>2, AccessFacts
  <1>4. reset' \in BOOLEAN
    BY <1>1, <1>2, Zenon
  <1>5. TypeOK'
    BY <1>2, <1>3, <1>4 DEF TypeOK, mail, firm
  <1>6. Chained'
    BY <1>2 DEF Chained, Call, Preceded, mail, firm
  <1>7. ASSUME NothingLate' PROVE Protocol'
    <2>1. Protocol
      BY <1>3, <1>7
    <2>2. n = 0 /\ f09f = Call /\ f09c = None /\ mcu = "idle"
      BY <1>2, <2>1 DEF Protocol, FirmwareState, DriverState
    <2>3. UNCHANGED <<Call, n, mcu, job, f09f, f09c, args, reported, ran, argsLost>>
      BY <1>2 DEF Call, mail, firm
    <2>4. DriverState'
      BY <1>2, <2>2, <2>3 DEF DriverState, Waiting
    <2>5. FirmwareState' /\ History'
      BY <1>2, <2>1, <2>2, <2>3 DEF Protocol, FirmwareState, History, Ran
    <2> QED
      BY <2>4, <2>5 DEF Protocol
  <1> QED
    BY <1>5, <1>6, <1>7

LEMMA PollIInv == IInv /\ Poll /\ UNCHANGED silent => IInv'
  <1> SUFFICES ASSUME IInv, Poll, UNCHANGED silent PROVE IInv'
    OBVIOUS
  <1> USE CallAssumption DEF IInv
  <1> DEFINE bit == f09c # None
  <1>1. bit \in BOOLEAN /\ late \in Seq(BOOLEAN) /\ Len(late) <= errors
    BY DEF TypeOK
  <1>2. /\ Taken(bit) \/ GivenUp(bit)
        /\ pc = "poll" /\ polls' = polls - 1
        /\ UNCHANGED <<session, n, reported, mail, firm, reset, argsLost>>
        /\ \/ pc' = "ack" /\ Reads(bit, TRUE)
           \/ pc' = "poll" /\ polls > 1
           \/ pc' = "closed"
        /\ \/ Taken(bit) /\ errors' = errors
           \/ errors < MaxErrors /\ errors' = errors + 1
    BY DEF Poll, Reads, Works, MayFail
  <1>3. /\ late' \in Seq(BOOLEAN) /\ Len(late') <= errors' /\ errors' \in 0..MaxErrors
        /\ NothingLate' => NothingLate
    BY <1>1, <1>2, AccessFacts
  <1>4. NothingLate /\ pc' = "ack" => f09c # None
    <2>1. NothingLate /\ pc' = "ack" => TRUE = bit
      BY <1>1, <1>2, TakenFacts DEF Reads
    <2> QED
      BY <2>1
  <1> HIDE DEF bit
  <1>5. polls > 0 /\ polls \in 0..Polls
    BY <1>2 DEF Chained, TypeOK
  <1>6. TypeOK'
    <2>1. polls' \in 0..Polls
      BY <1>2, <1>5
    <2> QED
      BY <1>2, <1>3, <2>1 DEF TypeOK, mail, firm
  <1>7. Chained'
    <2>1. pc' = "poll" => polls' > 0
      BY <1>2, <1>5
    <2>2. UNCHANGED <<session, n, Call, f09f, ran, reported>> /\ pc # "closed" /\ pc' # "start"
      BY <1>2 DEF Call, mail, firm
    <2> QED
      BY <2>1, <2>2 DEF Chained, Preceded
  <1>8. ASSUME NothingLate' PROVE Protocol'
    <2>1. Protocol
      BY <1>3, <1>8
    <2>2. pc' = "ack" => f09c # None
      BY <1>3, <1>4, <1>8
    <2>3. DriverState'
      BY <1>2, <2>1, <2>2 DEF Protocol, DriverState, Waiting, Call, mail, firm
    <2> QED
      BY <1>2, <2>1, <2>3 DEF Protocol, FirmwareState, History, Call, Ran, mail, firm
  <1> QED
    BY <1>6, <1>7, <1>8

LEMMA AckIInv == IInv /\ Ack /\ UNCHANGED silent => IInv'
  <1> SUFFICES ASSUME IInv, Ack, UNCHANGED silent PROVE IInv'
    OBVIOUS
  <1> USE CallAssumption DEF IInv, Ack, Works, MayFail, firm
  <1>1. TypeOK'
    BY CallFacts DEF TypeOK, Chained
  <1>2. Chained'
    <2>1. session \in 1..MaxSessions /\ Preceded(Call)
      BY DEF Chained
    <2>2. \A c : Preceded(c) => Preceded(c)'
      BY DEF Preceded
    <2>3. ASSUME pc' # "closed"
          PROVE  session' \in 1..MaxSessions /\ Preceded(Call)'
      <3>1. /\ session' = session /\ reported' = reported \cup {Call}
            /\ n' = n \/ n' = n + 1
        BY <2>3
      <3>2. ASSUME NEW k \in 0..(n' - 1) PROVE <<session, k>> \in reported'
        <4>1. k \in 0..(n - 1) \/ k = n
          BY DEF TypeOK
        <4> QED
          BY <2>1, <4>1 DEF Preceded, Call
      <3> QED
        BY <2>1, <3>2 DEF Preceded, Call
    <2>4. f09f' = f09f /\ ran' = ran /\ pc' \in {"between", "ready", "closed"}
      OBVIOUS
    <2> QED
      BY <2>2, <2>3, <2>4 DEF Chained
  <1>3. ASSUME NothingLate' PROVE Protocol'
    <2>1. Protocol
      BY <1>3 DEF NothingLate
    <2>2. FirmwareState'
      BY <2>1 DEF Protocol, FirmwareState
    <2>3. DriverState'
      BY <2>1 DEF Protocol, TypeOK, DriverState
    <2>4. History'
      BY <2>1, CallFacts DEF Protocol, Chained, DriverState, History, Ran
    <2> QED
      BY <2>2, <2>3, <2>4 DEF Protocol
  <1> QED
    BY <1>1, <1>2, <1>3

LEMMA CloseIInv == IInv /\ Close => IInv'
  <1> SUFFICES ASSUME IInv, Close PROVE IInv'
    OBVIOUS
  <1> USE DEF IInv
  <1>1. TypeOK'
    BY OtherReadsFacts DEF TypeOK, Close, mail, firm
  <1>2. Chained'
    BY DEF Chained, Preceded, Close, mail, firm
  <1>3. ASSUME NothingLate' PROVE Protocol'
    <2>1. Protocol
      BY <1>3, OtherReadsFacts DEF Close
    <2> QED
      BY <2>1 DEF Close, mail, firm, Protocol, FirmwareState, DriverState, History, Ran
  <1> QED
    BY <1>1, <1>2, <1>3

LEMMA AcceptIInv == IInv /\ Accept => IInv'
  <1> SUFFICES ASSUME IInv, Accept PROVE IInv'
    OBVIOUS
  <1> USE CallAssumption DEF IInv, Accept, host, mail
  <1>1. TypeOK'
    BY DEF TypeOK
  <1>2. Chained'
    <2>1. Preceded(f09f) /\ \A r \in ran : Preceded(r[1])
      BY DEF Chained
    <2>2. \A r \in ran' : Preceded(r[1])
      BY <2>1
    <2>3. \A c : Preceded(c) <=> Preceded(c)'
      BY DEF Preceded
    <2> QED
      BY <2>2, <2>3 DEF Chained, Call
  <1>3. ASSUME NothingLate' PROVE Protocol'
    <2>1. Protocol
      BY <1>3 DEF NothingLate
    <2>2. FirmwareState' /\ DriverState'
      BY <2>1 DEF Protocol, FirmwareState, DriverState, Waiting, Call
    <2>3. args = f09f \/ f09f \in argsLost
      BY <2>1 DEF Protocol, History
    <2>4. \A r \in ran' : r[2] = r[1] \/ r[1] \in argsLost
      <3>1. \A r \in ran : r[2] = r[1] \/ r[1] \in argsLost
        BY <2>1 DEF Protocol, History
      <3> QED
        BY <2>3, <3>1
    <2>5. History'
      BY <2>1, <2>4 DEF Protocol, TypeOK, History, Call, Ran
    <2> QED
      BY <2>2, <2>5 DEF Protocol
  <1> QED
    BY <1>1, <1>2, <1>3

LEMMA FinishIInv == IInv /\ (SetFlag \/ ClearId) => IInv'
  <1> SUFFICES ASSUME IInv, SetFlag \/ ClearId PROVE IInv'
    OBVIOUS
  <1> USE DEF IInv, SetFlag, ClearId, host
  <1>1. TypeOK'
    BY DEF TypeOK
  <1>2. Chained'
    BY DEF Chained, Call, Preceded
  <1>3. ASSUME NothingLate' PROVE Protocol'
    <2>1. Protocol
      BY <1>3 DEF NothingLate
    <2>2. FirmwareState'
      BY <2>1 DEF Protocol, FirmwareState
    <2>3. DriverState'
      <3>1. CASE SetFlag
        BY <2>1, <3>1 DEF Protocol, DriverState, Waiting, Call
      <3>2. CASE ClearId
        BY <2>1, <3>2 DEF Protocol, DriverState, Waiting, Call
      <3> QED
        BY <3>1, <3>2
    <2>4. History'
      BY <2>1 DEF Protocol, History, Call, Ran
    <2> QED
      BY <2>2, <2>3, <2>4 DEF Protocol
  <1> QED
    BY <1>1, <1>2, <1>3

LEMMA Step == IInv /\ [Next]_vars => IInv'
  <1> SUFFICES ASSUME IInv, [Next]_vars PROVE IInv'
    OBVIOUS
  <1>1. CASE Open
    BY <1>1, OpenIInv
  <1>2. CASE Session
    BY <1>2, HoldResetIInv, ClearMailboxIInv, BetweenIInv, CheckIdleIInv, WriteArgsIInv,
       WriteIdIInv, StartIInv, PollIInv, AckIInv DEF Session
  <1>3. CASE Close
    BY <1>3, CloseIInv
  <1>4. CASE Firmware
    BY <1>4, AcceptIInv, FinishIInv DEF Firmware
  <1>5. CASE FallSilent \/ UNCHANGED vars
    <2>1. UNCHANGED <<host, mail, firm, reset, argsLost, late, errors>> /\ silent' \in BOOLEAN
      BY <1>5 DEF FallSilent, vars, IInv, TypeOK
    <2>2. TypeOK'
      BY <2>1 DEF IInv, TypeOK, host, mail, firm
    <2>3. Chained'
      BY <2>1, ZenonT(60) DEF IInv, Chained, Call, Preceded, host, mail, firm
    <2>4. NothingLate' => Protocol'
      BY <2>1, ZenonT(60) DEF IInv, NothingLate, Protocol, FirmwareState, DriverState, Waiting,
         History, Call, Ran, host, mail, firm
    <2> QED
      BY <2>2, <2>3, <2>4 DEF IInv
  <1> QED
    BY <1>1, <1>2, <1>3, <1>4, <1>5 DEF Next

LEMMA Inductive == Spec => []IInv
  BY InitIInv, Step, PTL DEF Spec

-----------------------------------------------------------------------------

\* Every variable keeps its type, whatever accesses fail, whatever reads return
\* and whenever the firmware answers.
THEOREM TypeCorrect == Spec => []TypeOK
  <1>1. IInv => TypeOK
    BY DEF IInv
  <1> QED
    BY <1>1, Inductive, PTL

\* As long as no read was given up between its two transfers: the completed flag
\* that tvw_uc_service_call or the boot call acts on is the answer to the call it
\* made, over any number of calls, sessions, failed accesses and late answers of
\* the firmware.
THEOREM AnswersAreOwn == Spec => []AnswerIsOwn
  <1>1. IInv => AnswerIsOwn
    BY DEF IInv, Protocol, DriverState, AnswerIsOwn
  <1> QED
    BY <1>1, Inductive, PTL

\* Under the same condition a call that returned true was executed by the
\* firmware.
THEOREM TrueMeansExecuted == Spec => []ReportedRan
  <1>1. IInv => ReportedRan
    BY DEF IInv, Protocol, History, Ran, ReportedRan
  <1> QED
    BY <1>1, Inductive, PTL

\* Under the same condition the firmware executes a call with the arguments of
\* that call, unless one of the argument writes failed, a result that
\* tvw_uc_service_call does not look at.
THEOREM ArgumentsAreOwn == Spec => []OwnArguments
  <1>1. IInv => OwnArguments
    BY DEF IInv, Protocol, History, OwnArguments
  <1> QED
    BY <1>1, Inductive, PTL

\* No call of a session is executed before every call in front of it in the
\* chain has returned true, whatever answers the reads were given.
THEOREM ChainInOrder == Spec => []NoGap
  <1>1. IInv => NoGap
    BY DEF IInv, Chained, Preceded, NoGap
  <1> QED
    BY <1>1, Inductive, PTL

\* As long as no read was given up between its two transfers, the service id is
\* written only when the firmware is idle and has taken and cleared the id before.
THEOREM RequestsNeverOverrun == Spec => NeverOverrun
  <1>1. IInv /\ [Next]_vars => [NothingLate => WritesOnlyWhenIdle]_vars
    <2> SUFFICES ASSUME IInv, Next, NothingLate, f09f' # f09f, f09f' # None
                 PROVE  mcu = "idle" /\ f09f = None
      BY DEF WritesOnlyWhenIdle
    <2>1. CASE WriteId
      BY <2>1 DEF WriteId, IInv, Protocol, DriverState
    <2>2. CASE ~WriteId
      <3>1. f09f' = f09f \/ f09f' = None
        BY <2>2 DEF Next, Session, Firmware, Open, HoldReset, ClearMailbox, Between, CheckIdle,
                    WriteArgs, Start, Poll, Ack, Close, Accept, SetFlag, ClearId, FallSilent,
                    Checked, host, mail
      <3> QED
        BY <3>1
    <2> QED
      BY <2>1, <2>2
  <1> QED
    BY <1>1, Inductive, PTL DEF Spec, NeverOverrun

=============================================================================
