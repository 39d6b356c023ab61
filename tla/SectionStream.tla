---------------------------- MODULE SectionStream ----------------------------
(***************************************************************************)
(* What the deframer of the receive path promises, with no buffer in it.   *)
(* The device sends one byte stream.  A boundary section is SectionLen     *)
(* bytes long and begins at a Mark byte; the bytes between two sections    *)
(* are a frame.  Every section is reported once, in order, as soon as it   *)
(* is complete, whatever the packets the stream arrived in.  The stream is *)
(* given up, and begun again at the next packet, only when the frame being *)
(* waited for is longer than MaxFrame.                                     *)
(***************************************************************************)
EXTENDS Integers, Sequences

CONSTANTS Byte,        \* the values of a byte
          Mark,        \* the byte that begins a boundary section
          SectionLen,  \* length of a boundary section
          MaxPacket,   \* the most bytes one packet brings
          MaxFrame     \* frames up to this length are never given up

VARIABLES stream,      \* the bytes received since the stream (re)started
          cut,         \* how many of them have been dealt with
          calls        \* the reports made: pairs <<position of mark, frame length>>

vars == <<stream, cut, calls>>

Packets == UNION {[1..n -> Byte] : n \in 1..MaxPacket}

\* The section that begins at position m is the next one after the cut, and
\* all of its bytes have arrived.
IsNext(m) ==
    /\ m \in (cut + 1)..Len(stream)
    /\ stream[m] = Mark
    /\ \A k \in (cut + 1)..(m - 1) : stream[k] # Mark
    /\ m + SectionLen - 1 <= Len(stream)

NothingToReport == \A m \in (cut + 1)..Len(stream) : ~IsNext(m)

Init ==
    /\ stream = <<>>
    /\ cut = 0
    /\ calls = {}

Arrive(data) ==
    /\ NothingToReport
    /\ stream' = stream \o data
    /\ UNCHANGED <<cut, calls>>

Report ==
    \E m \in (cut + 1)..Len(stream) :
        /\ IsNext(m)
        /\ calls' = calls \cup {<<m, m - 1 - cut>>}
        /\ cut' = m + SectionLen - 1
        /\ UNCHANGED stream

\* More than MaxFrame bytes are pending and the frame has still not ended.
Restart(data) ==
    /\ NothingToReport
    /\ Len(stream) - cut > MaxFrame
    /\ \A k \in (cut + 1)..(cut + MaxFrame + 1) :
           k <= Len(stream) => stream[k] # Mark
    /\ stream' = data
    /\ cut' = 0
    /\ calls' = {}

Next ==
    \/ \E data \in Packets : Arrive(data) \/ Restart(data)
    \/ Report

Spec == Init /\ [][Next]_vars

=============================================================================
