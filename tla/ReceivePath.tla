----------------------------- MODULE ReceivePath -----------------------------
(***************************************************************************)
(* The receive path of the driver: the transfer engine of IsochEngine,     *)
(* whose callback runs the deframer of Deframer on every packet, fed by a  *)
(* device that sends what the README says it sends: lines, each a frame    *)
(* and a boundary section.                                                 *)
(*                                                                         *)
(* The device's bytes are numbered by position.  A frame has FrameLen      *)
(* bytes without a mark; a section has SectionLen bytes, the first a mark, *)
(* and more marks inside it (the bytes 0xff of the ancillary header) at    *)
(* the offsets in Inner.  When a transfer fails, or no transfer is queued, *)
(* bytes are lost, and the deframer is not told: it glues what it gets.    *)
(***************************************************************************)
EXTENDS Integers, Sequences, FiniteSets

CONSTANTS NumXfers, NumPackets, MaxClock, MaxFailures, MaxCalls,
          BufSize, SectionLen, MaxPacket, MaxStream,
          FrameLen,  \* bytes of a frame, between two sections
          Inner,     \* offsets of marks inside a section
          Sizes,     \* what a packet may carry: numbers of bytes
          Phases     \* where in a line the device may begin

\* What the engine and the deframer assume of their constants.
ASSUME PartsAssumption ==
    /\ NumXfers \in Nat \ {0} /\ NumPackets \in Nat \ {0}
    /\ MaxClock \in Nat /\ MaxFailures \in Nat /\ MaxCalls \in Nat
    /\ BufSize \in Nat /\ SectionLen \in Nat \ {0} /\ MaxPacket \in Nat \ {0}
    /\ MaxStream \in Nat
    /\ MaxPacket + SectionLen <= BufSize

\* A frame is no shorter than the rest of a section behind its mark: a line of
\* video is far longer than 32 bytes.
ASSUME LineAssumption ==
    /\ FrameLen \in Nat /\ FrameLen >= SectionLen - 1
    /\ Inner \subseteq 1..(SectionLen - 1)
    /\ Sizes \subseteq 0..MaxPacket
    /\ Phases \subseteq 0..(FrameLen + SectionLen - 1)

VARIABLES
    pc, i, cur, cb, calls, kernel, filled, done, completed, packets, clock,
    failures, fed, captured,                              \* of IsochEngine
    scanPc, work_buf, work_buflen, tmpoffset, stream, reports,  \* of Deframer
    starts,  \* history: device position of the first byte of each microframe
    origin   \* history: device position of each byte of stream

E == INSTANCE IsochEngine
D == INSTANCE Deframer WITH pc <- scanPc, calls <- reports

engine == <<pc, i, cur, cb, calls, kernel, filled, done, completed, packets, clock,
            failures, fed, captured>>
deframer == <<scanPc, work_buf, work_buflen, tmpoffset, stream, reports, origin>>
vars == <<engine, deframer, starts>>

Line == FrameLen + SectionLen

\* The device's byte at a position.
Sent(position) ==
    IF position % Line \in {FrameLen} \cup {FrameLen + k : k \in Inner}
    THEN D!Mark ELSE D!Other

\* The device positions of the bytes of microframe p.
Positions(p) == [k \in 1..(starts[p + 1] - starts[p]) |-> starts[p] + k - 1]

Init ==
    /\ E!Init
    /\ D!Init
    /\ starts \in {<<phase>> : phase \in Phases}
    /\ origin = <<>>

\* The program outside the deframer; the callback waits for the deframer.
Host ==
    /\ scanPc = "idle"
    /\ \/ E!ReadAsync(TRUE)
       \/ E!Submit \/ E!Reap \/ E!Resubmit \/ E!EventsFail
    /\ UNCHANGED <<deframer, starts>>

\* The callback comes to packet i of its transfer and calls the deframer
\* unless the packet is empty.
Packet ==
    /\ scanPc = "idle"
    /\ E!Packet
    /\ IF fed' = fed
       THEN UNCHANGED deframer
       ELSE LET got  == Positions(packets[cur][i])
                data == [k \in DOMAIN got |-> Sent(got[k])]
            IN  /\ D!Append_(data)
                /\ origin' = IF D!Overflows(Len(data)) THEN got ELSE origin \o got
    /\ UNCHANGED starts

\* The deframer scans the buffer while the device goes on.
Scan ==
    /\ D!Deliver \/ D!Finish
    /\ UNCHANGED <<engine, starts, origin>>

\* The device and the kernel (external).
Device ==
    \/ \E size \in Sizes :
          /\ E!Microframe(IF size = 0 THEN 0 ELSE clock + 1)
          /\ starts' = Append(starts, starts[clock + 1] + size)
          /\ UNCHANGED deframer
    \/ E!XferFails /\ UNCHANGED <<deframer, starts>>

Next == Host \/ Packet \/ Scan \/ Device

Spec == Init /\ [][Next]_vars

-----------------------------------------------------------------------------

\* Bytes that follow each other in stream and not on the device.
Gaps == {k \in 1..(Len(stream) - 1) : origin[k + 1] # origin[k] + 1}

Whole(m) == \A k \in m..(m + SectionLen - 2) : k \notin Gaps

\* Positions of stream at which a section of the device begins and is complete.
Real ==
    {m \in 1..(Len(stream) - SectionLen + 1) :
        origin[m] % Line = FrameLen /\ Whole(m)}

Reported == {r[1] : r \in reports}

\* A report that is not a section of the device: pieces glued over a gap, or a
\* section begun at a mark inside a real one.
Bogus == Reported \ Real

\* The damage of a loss is local: a gap costs at most two bogus reports and one
\* real section, and beginning in the middle of a section costs one bogus
\* report.  The deframer is back in step
\* after that, though nothing ever tells it of the loss.
DamageIsLocal ==
    scanPc = "idle" =>
        /\ Cardinality(Bogus) <= 2 * Cardinality(Gaps) + 1
        /\ Cardinality(Real \ Reported) <= Cardinality(Gaps)

\* Bytes are glued only where something was lost: between the bytes of two
\* packets that follow each other in the stream the device sent nothing that
\* a completed transfer holds or held.
GluedOnlyOverLoss ==
    \A k \in Gaps :
        /\ origin[k] < origin[k + 1]
        /\ \A p \in captured :
              ~(origin[k] < starts[p] /\ starts[p + 1] <= origin[k + 1])

\* Without a failed transfer, a refused submission, an overrun or an error of
\* the event loop, and with every packet handed on, the program is given the
\* sections of the device's stream: all of them, and nothing else but the one
\* bogus report of a stream that begins inside a section.
EndToEnd ==
    scanPc = "idle" /\ Gaps = {} =>
        /\ Real \subseteq Reported
        /\ \A m \in Bogus : \A r \in Real : m < r

=============================================================================
