----------------------------- MODULE IsochEngine -----------------------------
(***************************************************************************)
(* tvwsdr_read_async and the transfer callback tvwsdr_xfer_cb              *)
(* (libtvwsdr.c): NumXfers isochronous transfers of NumPackets packets     *)
(* circulate between the program and the kernel.                           *)
(*                                                                         *)
(* The program runs in one thread: the submit loop, then the event loop,   *)
(* which reaps finished transfers and runs the callback.  The device and   *)
(* the kernel run beside it: every microframe the packet at the head of    *)
(* the queue is filled, and a transfer may also fail.  A packet is named   *)
(* by the number of its microframe; 0 is a packet with actual_length 0.    *)
(* Passing a packet to the deframer appends its name to fed.               *)
(***************************************************************************)
EXTENDS Integers, Sequences, FiniteSets, SequencesExt

CONSTANTS NumXfers,     \* NUM_ISOCH_XFERS, 15
          NumPackets,   \* NUM_ISOCH_PACKETS, 32
          MaxClock,     \* bound: microframes
          MaxFailures,  \* bound: failed transfers and refused submissions
          MaxCalls      \* bound: calls of tvwsdr_read_async

ASSUME EngineAssumption ==
    /\ NumXfers \in Nat \ {0} /\ NumPackets \in Nat \ {0}
    /\ MaxClock \in Nat /\ MaxFailures \in Nat /\ MaxCalls \in Nat

VARIABLES
    pc,        \* "out", "submit", "events" or "callback"
    i,         \* loop variable of the submit loop, then of the packet loop
    cur,       \* the transfer the callback runs for
    cb,        \* dev->cb is not NULL
    calls,     \* calls of tvwsdr_read_async so far
    kernel,    \* transfers queued on the endpoint, oldest first
    filled,    \* packets filled so far in the transfer at the head of kernel
    done,      \* finished transfers that are not reaped yet, oldest first
    completed, \* [Xfers -> BOOLEAN] status = LIBUSB_TRANSFER_COMPLETED
    packets,   \* [Xfers -> packets in its buffer]
    clock,     \* microframes so far
    failures,
    fed,       \* packets passed to tvwsdr_deframe_isoch_data, in order
    captured   \* history: packets of completed transfers that the deframer is owed

hostVars == <<i, cur, cb, calls, fed>>
usbVars  == <<filled, completed, packets, clock>>
vars == <<pc, hostVars, kernel, done, failures, usbVars, captured>>

Xfers == 1..NumXfers

\* libusb refuses to submit these with LIBUSB_ERROR_BUSY.
InFlight == ToSet(kernel) \cup ToSet(done)

Init ==
    /\ pc = "out" /\ i = 1 /\ cur = 1 /\ cb = FALSE /\ calls = 0
    /\ kernel = <<>> /\ filled = 0 /\ done = <<>>
    /\ completed = [x \in Xfers |-> FALSE]
    /\ packets = [x \in Xfers |-> [k \in 1..NumPackets |-> 0]]
    /\ clock = 0 /\ failures = 0 /\ fed = <<>> /\ captured = {}

\* libusb_submit_transfer(x).  Every caller ignores what it returns.
SubmitXfer(x) ==
    \/ /\ x \notin InFlight
       /\ kernel' = Append(kernel, x)
       /\ UNCHANGED failures
    \/ /\ x \notin InFlight
       /\ failures < MaxFailures
       /\ failures' = failures + 1
       /\ UNCHANGED kernel
    \/ /\ x \in InFlight
       /\ UNCHANGED <<kernel, failures>>

-----------------------------------------------------------------------------
\* The program.

\* tvwsdr_read_async up to its submit loop; the transfers of an earlier call
\* are kept, and may still be in flight.
ReadAsync(callback) ==
    /\ pc = "out"
    /\ calls < MaxCalls
    /\ calls' = calls + 1
    /\ cb' = callback
    /\ i' = 1
    /\ pc' = "submit"
    /\ UNCHANGED <<cur, kernel, done, failures, fed, usbVars, captured>>

\* Mutant of LastXfer: the loop bound is one too far.
LastXferLong == NumXfers + 1

LastXfer == NumXfers

\* One turn of the submit loop: fill and submit transfer i.
Submit ==
    /\ pc = "submit"
    /\ SubmitXfer(i)
    /\ i' = i + 1
    /\ pc' = IF i = LastXfer THEN "events" ELSE "submit"
    /\ UNCHANGED <<cur, cb, calls, done, fed, usbVars, captured>>

\* Which of the finished transfers libusb_handle_events reaps.
Oldest(queue) == 1

\* libusb_handle_events reaps a transfer and enters tvwsdr_xfer_cb, which
\* returns at once, without submitting, when the status is not COMPLETED.
Reap ==
    /\ pc = "events"
    /\ done # <<>>
    /\ cur' = done[Oldest(done)]
    /\ done' = RemoveAt(done, Oldest(done))
    /\ pc' = IF completed[cur'] THEN "callback" ELSE "events"
    /\ i' = 1
    /\ UNCHANGED <<cb, calls, kernel, failures, fed, usbVars, captured>>

\* Mutant of LastPacket: the loop bound is one short.
LastPacketShort == NumPackets - 1

LastPacket == NumPackets

\* One turn of the packet loop of tvwsdr_xfer_cb.
Packet ==
    /\ pc = "callback"
    /\ cb
    /\ i <= LastPacket
    /\ fed' = IF packets[cur][i] > 0 THEN Append(fed, packets[cur][i]) ELSE fed
    /\ i' = i + 1
    /\ UNCHANGED <<pc, cur, cb, calls, kernel, done, failures, usbVars, captured>>

\* Mutant of MayResubmit: the transfer goes back before its packets are read.
MayResubmitAnyTime == TRUE

\* The packet loop is over, or was skipped because dev->cb is NULL.
MayResubmit == ~cb \/ i > LastPacket

\* Mutants of Resubmit: the submission is inside the packet loop, or missing.
ResubmitEachPacket ==
    /\ pc = "callback"
    /\ SubmitXfer(cur)
    /\ pc' = IF MayResubmit THEN "events" ELSE "callback"
    /\ UNCHANGED <<i, cur, cb, calls, done, fed, usbVars, captured>>
ResubmitForgotten ==
    /\ pc = "callback"
    /\ MayResubmit
    /\ pc' = "events"
    /\ UNCHANGED <<hostVars, kernel, done, failures, usbVars, captured>>

\* The end of tvwsdr_xfer_cb: the transfer goes back to the kernel.  With no
\* callback installed its packets are given up on purpose.
Resubmit ==
    /\ pc = "callback"
    /\ MayResubmit
    /\ SubmitXfer(cur)
    /\ pc' = "events"
    /\ captured' = IF cb THEN captured ELSE captured \ ToSet(packets[cur])
    /\ UNCHANGED <<i, cur, cb, calls, done, fed, usbVars>>

\* libusb_handle_events returns an error: tvwsdr_read_async returns 0 with
\* its transfers still in flight.
EventsFail ==
    /\ pc = "events"
    /\ pc' = "out"
    /\ UNCHANGED <<hostVars, kernel, done, failures, usbVars, captured>>

-----------------------------------------------------------------------------
\* The device and the kernel (external).

\* A microframe passes.  Its packet p goes to the transfer at the head of the
\* queue, and is lost when no transfer is queued.
Microframe(p) ==
    /\ clock < MaxClock
    /\ clock' = clock + 1
    /\ p \in {0, clock + 1}
    /\ IF kernel = <<>>
       THEN UNCHANGED <<kernel, filled, done, completed, packets, captured>>
       ELSE LET x == Head(kernel)
                now == [packets[x] EXCEPT ![filled + 1] = p]
            IN  /\ packets' = [packets EXCEPT ![x] = now]
                /\ IF filled + 1 < NumPackets
                   THEN /\ filled' = filled + 1
                        /\ UNCHANGED <<kernel, done, completed, captured>>
                   ELSE /\ filled' = 0
                        /\ kernel' = Tail(kernel)
                        /\ done' = Append(done, x)
                        /\ completed' = [completed EXCEPT ![x] = TRUE]
                        /\ captured' = captured \cup (ToSet(now) \ {0})
    /\ UNCHANGED <<pc, hostVars, failures>>

\* The transfer at the head of the queue ends with a status that is not
\* COMPLETED: an error, the 1000 ms timeout, the device is gone.
XferFails ==
    /\ kernel # <<>>
    /\ failures < MaxFailures
    /\ failures' = failures + 1
    /\ LET x == Head(kernel)
       IN  /\ packets' = [packets EXCEPT
                  ![x] = [k \in 1..NumPackets |-> IF k <= filled THEN @[k] ELSE 0]]
           /\ completed' = [completed EXCEPT ![x] = FALSE]
           /\ done' = Append(done, x)
    /\ kernel' = Tail(kernel)
    /\ filled' = 0
    /\ UNCHANGED <<pc, hostVars, clock, captured>>

Host == Submit \/ Reap \/ Packet \/ Resubmit

Next ==
    \/ \E callback \in BOOLEAN : ReadAsync(callback)
    \/ Host
    \/ EventsFail
    \/ \E p \in {0, clock + 1} : Microframe(p)
    \/ XferFails

Spec == Init /\ [][Next]_vars

\* The thread inside tvwsdr_read_async keeps running: it blocks only in
\* libusb_handle_events, which returns when a transfer has finished.
FairSpec == Spec /\ WF_vars(Host)

-----------------------------------------------------------------------------

\* Every variable has its type.
TypeOK ==
    /\ pc \in {"out", "submit", "events", "callback"}
    /\ i \in 1..(NumXfers + NumPackets + 1)
    /\ cur \in Xfers /\ cb \in BOOLEAN /\ calls \in 0..MaxCalls
    /\ kernel \in Seq(Xfers) /\ done \in Seq(Xfers)
    /\ filled \in 0..(NumPackets - 1)
    /\ completed \in [Xfers -> BOOLEAN]
    /\ packets \in [Xfers -> [1..NumPackets -> 0..MaxClock]]
    /\ clock \in 0..MaxClock /\ failures \in 0..MaxFailures
    /\ fed \in Seq(1..MaxClock) /\ captured \subseteq 1..MaxClock

\* A transfer's buffer has one owner: it is queued at most once, and while the
\* callback reads its packets neither the kernel nor libusb has it.
OneOwner ==
    /\ IsInjective(kernel \o done)
    /\ pc = "callback" => cur \notin InFlight

\* The deframer gets the device's packets in the order they were sent, each
\* at most once, whatever transfers failed, were retired or were submitted
\* again by a second tvwsdr_read_async.
FedInOrder == \A k \in 1..(Len(fed) - 1) : fed[k] < fed[k + 1]

\* Packets of completed transfers that the callback has not come to yet.
Pending ==
    (UNION {ToSet(packets[done[k]]) \ {0} : k \in {j \in DOMAIN done : completed[done[j]]}})
    \cup (IF pc = "callback" THEN {packets[cur][k] : k \in i..NumPackets} \ {0} ELSE {})

\* A packet of a completed transfer is either already with the deframer or
\* still to come to it: none is skipped by the packet loop, by a transfer
\* that fails beside it or by a second call.
NothingSkipped == captured \subseteq ToSet(fed) \cup Pending

\* Transfers that neither libusb nor the callback has: a retired transfer.
Retired == Xfers \ (InFlight \cup (IF pc = "callback" THEN {cur} ELSE {}))

\* A transfer leaves circulation only by a failure (of it, or of a submission,
\* whose result is ignored): NumXfers failures are needed to silence the
\* stream while tvwsdr_read_async keeps looping.
RetiredByFailure ==
    pc \in {"events", "callback"} => Cardinality(Retired) <= failures

\* A packet of a completed transfer reaches the deframer, unless the event
\* loop ends with an error first.
CapturedIsFed ==
    \A p \in 1..MaxClock :
        p \in captured ~> (p \in ToSet(fed) \/ p \notin captured \/ pc = "out")

=============================================================================
