------------------------------- MODULE Deframer -------------------------------
(***************************************************************************)
(* tvwsdr_deframe_isoch_data (libtvwsdr.c): packets of any length are      *)
(* appended to dev->work_buf, every complete boundary section is passed to *)
(* dev->cb, and what is left over moves to the front of the buffer.        *)
(*                                                                         *)
(* One call is Append, then Deliver once per turn of the do-while loop     *)
(* that reaches the callback, then Finish.  A byte is Mark (0xff) or       *)
(* Other: the code tells no other bytes apart.  work_buf is the C array:   *)
(* the bytes past work_buflen are whatever earlier calls left there.       *)
(*                                                                         *)
(* stream and calls are history: the bytes received since the buffer was   *)
(* last dropped, and the callbacks made for them.                          *)
(***************************************************************************)
EXTENDS Integers, Sequences

CONSTANTS BufSize,     \* sizeof(dev->work_buf), 8*1024
          SectionLen,  \* "boundary sections are 32 bytes long"
          MaxPacket,   \* largest actual_length of a packet, 3*1024
          MaxStream    \* bound: bytes in one uninterrupted stream

ASSUME SizesAssumption ==
    /\ BufSize \in Nat /\ SectionLen \in Nat \ {0} /\ MaxPacket \in Nat \ {0}
    /\ MaxStream \in Nat
    /\ MaxPacket + SectionLen <= BufSize

VARIABLES pc, work_buf, work_buflen, tmpoffset, stream, calls

vars == <<pc, work_buf, work_buflen, tmpoffset, stream, calls>>

Mark == 255
Other == 0
Byte == {Mark, Other}
Index == 0..(BufSize - 1)
Packets == UNION {[1..n -> Byte] : n \in 1..MaxPacket}

\* The longest frame whose section survives any packetisation: one byte less
\* than the section itself may be pending when the largest packet arrives.
MaxFrame == BufSize - MaxPacket - SectionLen + 1

\* Position in stream of the byte before work_buf[0].
Base == Len(stream) - work_buflen

-----------------------------------------------------------------------------

Init ==
    /\ pc = "idle"
    /\ work_buf = [i \in Index |-> Other]
    /\ work_buflen = 0
    /\ tmpoffset = 0
    /\ stream = <<>>
    /\ calls = {}

\* Mutants of Overflows: the check is missing, or is off by one.
OverflowsNever(len) == FALSE
OverflowsEarly(len) == work_buflen + len >= BufSize

\* The safety check: the data does not fit behind what is buffered.
Overflows(len) == work_buflen + len > BufSize

\* memcpy of data to work_buf + to; an array write cannot leave the array.
Copied(to, data) ==
    [i \in Index |-> IF i \in to..(to + Len(data) - 1)
                     THEN data[i - to + 1] ELSE work_buf[i]]

Append_(data) ==
    LET drop == Overflows(Len(data))
        to   == IF drop THEN 0 ELSE work_buflen
    IN  /\ pc = "idle"
        /\ drop \/ Len(stream) + Len(data) <= MaxStream
        /\ work_buf' = Copied(to, data)
        /\ work_buflen' = to + Len(data)
        /\ tmpoffset' = 0
        /\ pc' = "scan"
        /\ stream' = IF drop THEN data ELSE stream \o data
        /\ calls' = IF drop THEN {} ELSE calls

\* memchr(work_buf + tmpoffset, 0xff, work_buflen - tmpoffset) returns ptr.
Found(ptr) ==
    /\ ptr \in tmpoffset..(work_buflen - 1)
    /\ work_buf[ptr] = Mark
    /\ \A k \in tmpoffset..(ptr - 1) : work_buf[k] # Mark

\* Mutants of Complete: one byte of the section may still be missing, or one
\* byte more than the section is waited for.
CompleteEarly(ptr) == (ptr - tmpoffset) + SectionLen <= work_buflen - tmpoffset + 1
CompleteLate(ptr) == (ptr - tmpoffset) + SectionLen < work_buflen - tmpoffset

\* The whole section has arrived: frame_length + 32 fits in what is buffered.
Complete(ptr) == (ptr - tmpoffset) + SectionLen <= work_buflen - tmpoffset


\* Mutants of Past: only the mark is stepped over, or nothing is.
PastMark(ptr) == ptr + 1
PastNothing(ptr) == tmpoffset

\* Where the scan goes on after the section at ptr.
Past(ptr) == tmpoffset + (ptr - tmpoffset) + SectionLen

Deliver ==
    /\ pc = "scan"
    /\ \E ptr \in Index :
          /\ Found(ptr)
          /\ Complete(ptr)
          /\ calls' = calls \cup {<<Base + ptr + 1, ptr - tmpoffset>>}
          /\ tmpoffset' = Past(ptr)
    /\ UNCHANGED <<pc, work_buf, work_buflen, stream>>

\* Mutant of Moved: the length is adjusted and the data is not.
MovedNothing == work_buf

\* memmove of the unread bytes to the front; the bytes behind them stay.
Moved ==
    [i \in Index |-> IF i < work_buflen - tmpoffset
                     THEN work_buf[i + tmpoffset] ELSE work_buf[i]]

Finish ==
    /\ pc = "scan"
    /\ \A ptr \in Index : ~(Found(ptr) /\ Complete(ptr))
    /\ work_buf' = Moved
    /\ work_buflen' = work_buflen - tmpoffset
    /\ tmpoffset' = 0
    /\ pc' = "idle"
    /\ UNCHANGED <<stream, calls>>

Next ==
    \/ \E data \in Packets : Append_(data)
    \/ Deliver
    \/ Finish

Spec == Init /\ [][Next]_vars

\* The loop runs to its end once entered: it is sequential code that waits
\* for nothing.  No fairness is assumed of the packets.
FairSpec == Spec /\ WF_vars(Deliver) /\ WF_vars(Finish)

-----------------------------------------------------------------------------

\* Every variable has its type; the length never exceeds the array and the
\* scan never passes the length (both are unsigned in the code: passing would
\* wrap), however full the buffer was when the packet came.
TypeOK ==
    /\ pc \in {"idle", "scan"}
    /\ work_buf \in [Index -> Byte]
    /\ work_buflen \in 0..BufSize
    /\ tmpoffset \in 0..work_buflen
    /\ stream \in Seq(Byte)
    /\ calls \subseteq (Nat \X Nat)

\* What is buffered is exactly the tail of the received stream: no byte is
\* lost, duplicated, reordered or taken from the stale part of the array.
BufferIsTail ==
    /\ work_buflen <= Len(stream)
    /\ \A i \in 0..(work_buflen - 1) : work_buf[i] = stream[Base + i + 1]

\* Between calls no complete section is left in the buffer: each is reported
\* by the call that brings its last byte, so no report waits for more data.
NoResidualSection ==
    pc = "idle" =>
        \A ptr \in 0..(work_buflen - 1) :
            work_buf[ptr] = Mark => ptr + SectionLen > work_buflen

\* The safety check ("work_buflen = 0") throws data away only when the frame
\* it was waiting for is longer than MaxFrame: it never costs a section of a
\* stream whose frames are shorter, whatever the packet sizes.
DropsOnlyOversized ==
    [][(\E data \in Packets : Append_(data) /\ Overflows(Len(data)))
         => /\ work_buflen > MaxFrame
            /\ \A k \in 0..MaxFrame : work_buf[k] # Mark]_vars

\* The scan loop (do ... while(1)) always ends.
ScanEnds == (pc = "scan") ~> (pc = "idle")

\* The buffered deframer implements the unbuffered one: the same reports for
\* the same bytes, whatever the packets.
Abs == INSTANCE SectionStream WITH cut <- Base + tmpoffset
ImplementsSectionStream == Abs!Spec

=============================================================================
