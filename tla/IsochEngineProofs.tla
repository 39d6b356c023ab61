-------------------------- MODULE IsochEngineProofs --------------------------
(***************************************************************************)
(* Theorems about IsochEngine for every number of transfers, packets,      *)
(* microframes, failures and calls.                                        *)
(***************************************************************************)
EXTENDS IsochEngine, SequenceTheorems, FiniteSetTheorems, TLAPS

\* Packets p and q, when both are there, were sent in this order.
Before(p, q) == p = 0 \/ q = 0 \/ p < q

\* The loop variable where it is used.
LoopState ==
    /\ pc = "submit" => i <= NumXfers
    /\ pc = "callback" => i <= NumPackets + 1

\* A transfer is queued at most once, and not both in the kernel and finished;
\* the one the callback runs for is neither.
Apart ==
    /\ \A a, b \in 1..Len(kernel) : kernel[a] = kernel[b] => a = b
    /\ \A a, b \in 1..Len(done) : done[a] = done[b] => a = b
    /\ \A a \in 1..Len(kernel) : \A b \in 1..Len(done) : kernel[a] # done[b]
    /\ pc = "callback" => /\ \A a \in 1..Len(kernel) : kernel[a] # cur
                          /\ \A a \in 1..Len(done) : done[a] # cur

\* The packets that are still to be read: those of the callback's transfer
\* from i on, those of completed transfers, and those filled so far.
CurSlots == IF pc = "callback" THEN i..NumPackets ELSE {}
Good == {d \in 1..Len(done) : completed[done[d]]}
HeadSlots == IF kernel = <<>> THEN {} ELSE 1..filled

Bounded ==
    /\ kernel = <<>> => filled = 0
    /\ \A k \in 1..Len(fed) : fed[k] <= clock
    /\ \A m \in CurSlots : packets[cur][m] <= clock
    /\ \A d \in Good : \A m \in 1..NumPackets : packets[done[d]][m] <= clock
    /\ \A m \in HeadSlots : packets[kernel[1]][m] <= clock

\* Each of these groups is in the order in which the device sent it.
SortedInside ==
    /\ FedInOrder
    /\ \A m, n \in CurSlots : m < n => Before(packets[cur][m], packets[cur][n])
    /\ \A d \in Good : \A m, n \in 1..NumPackets :
          m < n => Before(packets[done[d]][m], packets[done[d]][n])
    /\ \A m, n \in HeadSlots :
          m < n => Before(packets[kernel[1]][m], packets[kernel[1]][n])

\* The groups follow each other: fed, then the callback's transfer, then the
\* finished transfers as they are queued, then the one being filled.
SortedAcross ==
    /\ \A k \in 1..Len(fed) : \A m \in CurSlots : Before(fed[k], packets[cur][m])
    /\ \A k \in 1..Len(fed) : \A d \in Good : \A m \in 1..NumPackets :
          Before(fed[k], packets[done[d]][m])
    /\ \A k \in 1..Len(fed) : \A m \in HeadSlots : Before(fed[k], packets[kernel[1]][m])
    /\ \A m \in CurSlots : \A d \in Good : \A n \in 1..NumPackets :
          Before(packets[cur][m], packets[done[d]][n])
    /\ \A m \in CurSlots : \A n \in HeadSlots : Before(packets[cur][m], packets[kernel[1]][n])
    /\ \A d, e \in Good : \A m, n \in 1..NumPackets :
          d < e => Before(packets[done[d]][m], packets[done[e]][n])
    /\ \A d \in Good : \A m \in 1..NumPackets : \A n \in HeadSlots :
          Before(packets[done[d]][m], packets[kernel[1]][n])

Ordered == Bounded /\ SortedInside /\ SortedAcross

\* Each captured packet is in one of the groups.
Owed ==
    \A p \in captured :
        \/ \E k \in 1..Len(fed) : fed[k] = p
        \/ \E m \in CurSlots : packets[cur][m] = p
        \/ \E d \in Good : \E m \in 1..NumPackets : packets[done[d]][m] = p

IInv == TypeOK /\ LoopState /\ Apart /\ Ordered /\ Owed

-----------------------------------------------------------------------------

\* Removing the first element of a sequence moves the others one place up.
LEMMA FirstRemoved ==
    ASSUME NEW S, NEW s \in Seq(S), s # <<>>
    PROVE  /\ RemoveAt(s, 1) \in Seq(S)
           /\ Len(RemoveAt(s, 1)) = Len(s) - 1
           /\ \A k \in 1..(Len(s) - 1) : RemoveAt(s, 1)[k] = s[k + 1]
           /\ s[1] \in S
  <1>1. Len(s) \in Nat \ {0} /\ s[1] \in S
    OBVIOUS
  <1>2. SubSeq(s, 1, 1 - 1) = <<>>
    OBVIOUS
  <1>3. /\ SubSeq(s, 2, Len(s)) \in Seq(S)
        /\ Len(SubSeq(s, 2, Len(s))) = Len(s) - 1
        /\ \A k \in 1..(Len(s) - 1) : SubSeq(s, 2, Len(s))[k] = s[k + 1]
    BY <1>1, HeadTailProperties, TailIsSubSeq
  <1>5. RemoveAt(s, 1) = SubSeq(s, 2, Len(s))
    BY <1>2, <1>3 DEF RemoveAt
  <1> QED
    BY <1>1, <1>3, <1>5

\* Appending adds one element and keeps the others in place.
LEMMA AppendIs ==
    ASSUME NEW S, NEW s \in Seq(S), NEW x \in S
    PROVE  /\ Append(s, x) \in Seq(S) /\ Append(s, x) # <<>>
           /\ Len(s) \in Nat /\ (s = <<>> <=> Len(s) = 0)
           /\ Len(Append(s, x)) = Len(s) + 1
           /\ Append(s, x)[Len(s) + 1] = x
           /\ \A k \in 1..Len(s) : Append(s, x)[k] = s[k] /\ s[k] \in S
  OBVIOUS

LEMMA Elements ==
    ASSUME NEW S, NEW s \in Seq(S), NEW k \in 1..Len(s)
    PROVE  s[k] \in S
  OBVIOUS

\* What SubmitXfer does to the kernel's queue.
LEMMA SubmitXferIs ==
    ASSUME TypeOK, NEW x \in Xfers, SubmitXfer(x)
    PROVE  /\ kernel' \in Seq(Xfers)
           /\ failures' \in 0..MaxFailures
           /\ \/ kernel' = kernel
              \/ /\ x \notin InFlight
                 /\ kernel' = Append(kernel, x)
  <1>1. CASE x \notin InFlight /\ kernel' = Append(kernel, x) /\ UNCHANGED failures
    BY <1>1 DEF TypeOK
  <1>2. CASE failures < MaxFailures /\ failures' = failures + 1 /\ UNCHANGED kernel
    BY <1>2, EngineAssumption DEF TypeOK
  <1>3. CASE UNCHANGED <<kernel, failures>>
    BY <1>3 DEF TypeOK
  <1> QED
    BY <1>1, <1>2, <1>3 DEF SubmitXfer

\* A transfer in neither queue is no element of them.
LEMMA NotInFlight ==
    ASSUME TypeOK, NEW x \in Xfers, x \notin InFlight
    PROVE  /\ \A a \in 1..Len(kernel) : kernel[a] # x
           /\ \A a \in 1..Len(done) : done[a] # x
  BY DEF TypeOK, InFlight, ToSet

\* Appending a transfer that is not in flight to the kernel's queue leaves
\* the transfer at its head, and the order of packets, as they were.
LEMMA SubmitKeeps ==
    ASSUME TypeOK, Apart, Ordered, NEW x \in Xfers, SubmitXfer(x),
           UNCHANGED <<done, filled, completed, packets, clock, fed, cur>>,
           CurSlots' = {}, pc' # "callback"
    PROVE  Apart' /\ Ordered'
  <1>1. /\ kernel' \in Seq(Xfers)
        /\ \/ kernel' = kernel
           \/ /\ x \notin InFlight
              /\ kernel' = Append(kernel, x)
    BY SubmitXferIs
  <1>2. Apart'
    <2>1. CASE kernel' = kernel
      BY <2>1 DEF Apart
    <2>2. CASE x \notin InFlight /\ kernel' = Append(kernel, x)
      <3> DEFINE k == Append(kernel, x)
      <3>1. /\ Len(kernel) \in Nat /\ Len(k) = Len(kernel) + 1
            /\ k[Len(kernel) + 1] = x
            /\ \A a \in 1..Len(kernel) : k[a] = kernel[a]
        BY AppendIs DEF TypeOK
      <3>2. /\ \A a \in 1..Len(kernel) : kernel[a] # x
            /\ \A a \in 1..Len(done) : done[a] # x
        BY <2>2, NotInFlight
      <3> HIDE DEF k
      <3>3. \A a, b \in 1..Len(k) : k[a] = k[b] => a = b
        BY <3>1, <3>2 DEF Apart
      <3>4. \A a \in 1..Len(k) : \A b \in 1..Len(done) : k[a] # done[b]
        BY <3>1, <3>2 DEF Apart
      <3>5. kernel' = k
        BY <2>2 DEF k
      <3> QED
        BY <3>3, <3>4, <3>5 DEF Apart
    <2> QED
      BY <1>1, <2>1, <2>2
  <1>3. HeadSlots' = {} \/ (HeadSlots' = HeadSlots /\ kernel'[1] = kernel[1])
    <2>1. CASE kernel' = kernel
      BY <2>1 DEF HeadSlots
    <2>2. CASE kernel' = Append(kernel, x) /\ kernel = <<>>
      BY <2>2 DEF HeadSlots, Ordered, Bounded
    <2>3. CASE kernel' = Append(kernel, x) /\ kernel # <<>>
      <3>1. kernel'[1] = kernel[1] /\ kernel' # <<>>
        BY <2>3, AppendIs DEF TypeOK
      <3> QED
        BY <2>3, <3>1 DEF HeadSlots
    <2> QED
      BY <1>1, <2>1, <2>2, <2>3
  <1>4. Good' = Good
    BY DEF Good
  <1>5. kernel' = <<>> => filled' = 0
    BY <1>1, AppendIs DEF Ordered, Bounded, TypeOK
  <1> QED
    BY <1>2, <1>3, <1>4, <1>5
    DEF Ordered, Bounded, SortedInside, SortedAcross, FedInOrder

\* Outside the callback, a step that changes none of the queues and packets
\* changes none of their relations.
LEMMA Unmoved ==
    ASSUME IInv, pc # "callback", pc' # "callback",
           UNCHANGED <<kernel, done, filled, completed, packets, clock, fed, captured>>
    PROVE  Apart' /\ Ordered' /\ Owed'
  <1>1. CurSlots = {} /\ CurSlots' = {} /\ Good' = Good /\ HeadSlots' = HeadSlots
    BY DEF CurSlots, Good, HeadSlots
  <1> QED
    BY <1>1, ZenonT(60)
       DEF IInv, Apart, Ordered, Bounded, SortedInside, SortedAcross, FedInOrder, Owed

-----------------------------------------------------------------------------
\* The inductive invariant, one step of the program or the device at a time.

LEMMA InitIInv == Init => IInv
  <1> SUFFICES ASSUME Init PROVE IInv
    OBVIOUS
  <1> USE EngineAssumption DEF Init
  <1>1. TypeOK /\ LoopState
    <2>1. 1 \in Xfers /\ 1 \in 1..(NumXfers + NumPackets + 1) /\ 0 \in 0..(NumPackets - 1)
      BY DEF Xfers
    <2>2. kernel \in Seq(Xfers) /\ done \in Seq(Xfers) /\ fed \in Seq(1..MaxClock)
      OBVIOUS
    <2>3. /\ completed \in [Xfers -> BOOLEAN]
          /\ packets \in [Xfers -> [1..NumPackets -> 0..MaxClock]]
      OBVIOUS
    <2>4. /\ calls \in 0..MaxCalls /\ clock \in 0..MaxClock /\ failures \in 0..MaxFailures
          /\ captured \subseteq 1..MaxClock /\ cb \in BOOLEAN
          /\ i \in 1..(NumXfers + NumPackets + 1) /\ filled \in 0..(NumPackets - 1)
          /\ cur \in Xfers
      <3>1. /\ calls = 0 /\ clock = 0 /\ failures = 0 /\ captured = {} /\ cb = FALSE
            /\ i = 1 /\ filled = 0 /\ cur = 1
        OBVIOUS
      <3> HIDE DEF Init
      <3>2. calls \in 0..MaxCalls /\ clock \in 0..MaxClock /\ failures \in 0..MaxFailures
        BY <3>1
      <3>3. captured \subseteq 1..MaxClock /\ cb \in BOOLEAN
        BY <3>1
      <3> QED
        BY <2>1, <3>1, <3>2, <3>3
    <2>5. pc \in {"out", "submit", "events", "callback"} /\ LoopState
      BY DEF LoopState
    <2> HIDE DEF Init
    <2> QED
      BY <2>2, <2>3, <2>4, <2>5 DEF TypeOK
  <1>2. CurSlots = {} /\ Good = {} /\ HeadSlots = {}
    BY DEF Init, CurSlots, Good, HeadSlots
  <1>3. Apart /\ Ordered /\ Owed
    BY <1>2 DEF Init, Apart, Ordered, Bounded, SortedInside, SortedAcross, FedInOrder, Owed
  <1> QED
    BY <1>1, <1>3 DEF IInv

LEMMA ReadAsyncIInv ==
    ASSUME IInv, NEW callback \in BOOLEAN, ReadAsync(callback)
    PROVE  IInv'
  <1>1. /\ pc = "out" /\ pc' = "submit" /\ i' = 1
        /\ UNCHANGED <<cur, kernel, done, failures, fed, usbVars, captured>>
        /\ calls < MaxCalls /\ calls' = calls + 1 /\ cb' = callback
    BY DEF ReadAsync
  <1>2. TypeOK' /\ LoopState'
    BY <1>1, EngineAssumption DEF IInv, TypeOK, LoopState, usbVars
  <1> QED
    BY <1>1, <1>2, Unmoved DEF IInv, usbVars

LEMMA EventsFailIInv == IInv /\ EventsFail => IInv'
  <1> SUFFICES ASSUME IInv, EventsFail PROVE IInv'
    OBVIOUS
  <1>1. /\ pc = "events" /\ pc' = "out"
        /\ UNCHANGED <<hostVars, kernel, done, failures, usbVars, captured>>
    BY DEF EventsFail
  <1>2. TypeOK' /\ LoopState'
    BY <1>1 DEF IInv, TypeOK, LoopState, usbVars, hostVars
  <1> QED
    BY <1>1, <1>2, Unmoved DEF IInv, usbVars, hostVars

LEMMA SubmitIInv == IInv /\ Submit => IInv'
  <1> SUFFICES ASSUME IInv, Submit PROVE IInv'
    OBVIOUS
  <1>1. /\ pc = "submit" /\ SubmitXfer(i) /\ i' = i + 1
        /\ pc' = IF i = NumXfers THEN "events" ELSE "submit"
        /\ UNCHANGED <<cur, cb, calls, done, fed, usbVars, captured>>
    BY DEF Submit, LastXfer
  <1>2. i \in Xfers
    BY <1>1, EngineAssumption DEF IInv, TypeOK, LoopState, Xfers
  <1>3. kernel' \in Seq(Xfers) /\ failures' \in 0..MaxFailures
    BY <1>1, <1>2, SubmitXferIs DEF IInv
  <1>4. TypeOK' /\ LoopState'
    <2>1. i' \in 1..(NumXfers + NumPackets + 1) /\ LoopState'
      BY <1>1, EngineAssumption DEF IInv, TypeOK, LoopState
    <2> QED
      BY <1>1, <1>3, <2>1 DEF IInv, TypeOK, usbVars
  <1>5. CurSlots = {} /\ CurSlots' = {} /\ Good' = Good /\ pc' # "callback"
    BY <1>1 DEF CurSlots, Good, usbVars
  <1>6. Apart' /\ Ordered'
    BY <1>1, <1>2, <1>5, SubmitKeeps DEF IInv, usbVars
  <1>7. Owed'
    BY <1>1, <1>5 DEF IInv, Owed, usbVars
  <1> QED
    BY <1>4, <1>6, <1>7 DEF IInv

LEMMA ResubmitIInv == IInv /\ Resubmit => IInv'
  <1> SUFFICES ASSUME IInv, Resubmit PROVE IInv'
    OBVIOUS
  <1>1. /\ pc = "callback" /\ SubmitXfer(cur) /\ pc' = "events"
        /\ ~cb \/ i > NumPackets
        /\ captured' = IF cb THEN captured ELSE captured \ ToSet(packets[cur])
        /\ UNCHANGED <<i, cur, cb, calls, done, fed, usbVars>>
    BY DEF Resubmit, MayResubmit, LastPacket
  <1>2. cur \in Xfers
    BY DEF IInv, TypeOK
  <1>3. kernel' \in Seq(Xfers) /\ failures' \in 0..MaxFailures
    BY <1>1, <1>2, SubmitXferIs DEF IInv
  <1>4. TypeOK' /\ LoopState'
    BY <1>1, <1>3 DEF IInv, TypeOK, LoopState, usbVars
  <1>5. CurSlots' = {} /\ Good' = Good /\ pc' # "callback"
    BY <1>1 DEF CurSlots, Good, usbVars
  <1>6. Apart' /\ Ordered'
    BY <1>1, <1>2, <1>5, SubmitKeeps DEF IInv, usbVars
  <1>7. ASSUME NEW p \in captured' PROVE \A m \in CurSlots : packets[cur][m] # p
    <2>1. CASE i > NumPackets
      <3>1. i \in Nat /\ NumPackets \in Nat
        BY EngineAssumption DEF IInv, TypeOK
      <3>2. CurSlots = {}
        BY <2>1, <3>1 DEF CurSlots
      <3> QED
        BY <3>2
    <2>2. CASE ~cb
      <3>1. CurSlots \subseteq DOMAIN packets[cur]
        <4>1. packets[cur] \in [1..NumPackets -> 0..MaxClock] /\ i \in Nat /\ i >= 1
          BY <1>2, EngineAssumption DEF IInv, TypeOK
        <4> QED
          BY <4>1, EngineAssumption DEF CurSlots
      <3>2. p \notin ToSet(packets[cur])
        BY <2>2, <1>1, <1>7
      <3> QED
        BY <3>1, <3>2 DEF ToSet
    <2> QED
      BY <1>1, <2>1, <2>2
  <1>8. Owed'
    BY <1>1, <1>5, <1>7 DEF IInv, Owed, usbVars
  <1> QED
    BY <1>4, <1>6, <1>8 DEF IInv

LEMMA ReapIInv == IInv /\ Reap => IInv'
  <1> SUFFICES ASSUME IInv, Reap PROVE IInv'
    OBVIOUS
  <1>1. /\ pc = "events" /\ done # <<>>
        /\ cur' = done[1] /\ done' = RemoveAt(done, 1)
        /\ pc' = IF completed[cur'] THEN "callback" ELSE "events"
        /\ i' = 1
        /\ UNCHANGED <<cb, calls, kernel, failures, fed, usbVars, captured>>
    BY DEF Reap, Oldest
  <1>2. /\ done' \in Seq(Xfers) /\ Len(done) \in Nat
        /\ Len(done') = Len(done) - 1
        /\ \A k \in 1..Len(done') : done'[k] = done[k + 1]
        /\ cur' \in Xfers /\ Len(done) >= 1
    <2>1. done \in Seq(Xfers) /\ done # <<>>
      BY <1>1 DEF IInv, TypeOK
    <2>2. /\ RemoveAt(done, 1) \in Seq(Xfers)
          /\ Len(RemoveAt(done, 1)) = Len(done) - 1
          /\ \A k \in 1..(Len(done) - 1) : RemoveAt(done, 1)[k] = done[k + 1]
          /\ done[1] \in Xfers
      BY <2>1, FirstRemoved
    <2>3. Len(done) \in Nat /\ Len(done) >= 1
      BY <2>1
    <2> QED
      BY <1>1, <2>2, <2>3
  <1>3. TypeOK' /\ LoopState'
    BY <1>1, <1>2, EngineAssumption, SMTT(30) DEF IInv, TypeOK, LoopState, usbVars
  <1>4. \A d \in 1..Len(done') : d + 1 \in 1..Len(done) /\ done'[d] = done[d + 1]
    BY <1>2
  <1>5. Apart'
    BY <1>1, <1>2, <1>4 DEF IInv, Apart
  \* The finished transfers move up; the first becomes the callback's, if it
  \* is a completed one.
  <1>6. /\ \A d \in Good' : d + 1 \in Good /\ d \in 1..Len(done') /\ done'[d] = done[d + 1]
        /\ \A m \in CurSlots' : 1 \in Good /\ m \in 1..NumPackets
        /\ HeadSlots' = HeadSlots
        /\ CurSlots = {}
    BY <1>1, <1>2, <1>4, EngineAssumption DEF Good, CurSlots, HeadSlots, usbVars
  <1>7. Bounded'
    BY <1>1, <1>6 DEF IInv, Ordered, Bounded, usbVars
  <1>8. SortedInside'
    BY <1>1, <1>6 DEF IInv, Ordered, SortedInside, FedInOrder, usbVars
  <1>9. SortedAcross'
    <2>1. \A d \in Good' : 1 < d + 1 /\ \A e \in Good' : d < e => d + 1 < e + 1
      BY <1>2 DEF Good
    <2> QED
      BY <1>1, <1>6, <2>1, ZenonT(60) DEF IInv, Ordered, SortedAcross, usbVars
  <1>10. Owed'
    <2> SUFFICES ASSUME NEW p \in captured
                 PROVE  \/ \E k \in 1..Len(fed) : fed[k] = p
                        \/ \E m \in CurSlots' : packets'[cur'][m] = p
                        \/ \E d \in Good' : \E m \in 1..NumPackets : packets'[done'[d]][m] = p
      BY <1>1 DEF Owed
    <2>1. ASSUME NEW d \in Good, NEW m \in 1..NumPackets, packets[done[d]][m] = p
          PROVE  \/ \E n \in CurSlots' : packets'[cur'][n] = p
                 \/ \E e \in Good' : \E n \in 1..NumPackets : packets'[done'[e]][n] = p
      <3>1. CASE d = 1
        BY <3>1, <2>1, <1>1 DEF Good, CurSlots, usbVars
      <3>2. CASE d # 1
        <4>1. d - 1 \in 1..Len(done') /\ done'[d - 1] = done[d] /\ completed'[done'[d - 1]]
          <5>1. d \in 1..Len(done) /\ completed[done[d]] /\ completed' = completed
            BY <1>1 DEF Good, usbVars
          <5>2. d - 1 \in 1..Len(done') /\ (d - 1) + 1 = d
            BY <3>2, <5>1, <1>2
          <5> QED
            BY <5>1, <5>2, <1>2
        <4>2. d - 1 \in Good'
          BY <4>1 DEF Good
        <4> QED
          BY <4>1, <4>2, <2>1, <1>1 DEF usbVars
      <3> QED
        BY <3>1, <3>2
    <2> QED
      BY <2>1, <1>6 DEF IInv, Owed
  <1> QED
    BY <1>3, <1>5, <1>7, <1>8, <1>9, <1>10 DEF IInv, Ordered

LEMMA PacketIInv == IInv /\ Packet => IInv'
  <1> SUFFICES ASSUME IInv, Packet PROVE IInv'
    OBVIOUS
  <1> DEFINE p == packets[cur][i]
  <1>1. /\ pc = "callback" /\ pc' = pc /\ i <= NumPackets /\ i' = i + 1
        /\ fed' = IF p > 0 THEN Append(fed, p) ELSE fed
        /\ UNCHANGED <<cur, cb, calls, kernel, done, failures, usbVars, captured>>
    BY DEF Packet, LastPacket
  <1>2. i \in 1..NumPackets /\ p \in 0..MaxClock /\ NumPackets \in Nat
    BY <1>1, EngineAssumption DEF IInv, TypeOK
  <1>3. fed \in Seq(1..MaxClock) /\ Len(fed) \in Nat
    BY DEF IInv, TypeOK
  <1>4. /\ fed' \in Seq(1..MaxClock)
        /\ \A k \in 1..Len(fed) : k \in 1..Len(fed') /\ fed'[k] = fed[k] /\ fed[k] > 0
        /\ p = 0 => fed' = fed
        /\ p > 0 => Len(fed') = Len(fed) + 1 /\ fed'[Len(fed) + 1] = p
    <2>1. \A k \in 1..Len(fed) : fed[k] \in 1..MaxClock
      BY <1>3, Elements
    <2>2. CASE p = 0
      BY <2>1, <2>2, <1>1, <1>3
    <2>3. CASE p > 0
      <3>1. p \in 1..MaxClock /\ fed' = Append(fed, p)
        BY <2>3, <1>1, <1>2
      <3> HIDE DEF p
      <3> QED
        BY <2>1, <2>3, <3>1, <1>3, AppendIs
    <2> QED
      BY <2>2, <2>3, <1>2
  <1> HIDE DEF p
  <1>5. \A k \in 1..Len(fed') : k \in 1..Len(fed) \/ (p > 0 /\ k = Len(fed) + 1 /\ fed'[k] = p)
    BY <1>2, <1>3, <1>4
  <1>6. TypeOK' /\ LoopState'
    BY <1>1, <1>2, <1>4, EngineAssumption DEF IInv, TypeOK, LoopState, usbVars
  <1>7. /\ i \in CurSlots /\ p = packets[cur][i] /\ Good' = Good /\ HeadSlots' = HeadSlots
        /\ \A m \in CurSlots' : m \in CurSlots /\ i < m
        /\ \A m \in CurSlots : m = i \/ m \in CurSlots'
    BY <1>1, <1>2 DEF p, CurSlots, Good, HeadSlots, usbVars
  <1>8. Apart'
    BY <1>1 DEF IInv, Apart
  <1>9. Bounded'
    <2>1. p <= clock
      BY <1>7 DEF IInv, Ordered, Bounded
    <2>2. \A k \in 1..Len(fed') : fed'[k] <= clock
      BY <1>4, <1>5, <2>1 DEF IInv, Ordered, Bounded
    <2> QED
      BY <1>1, <1>7, <2>2 DEF IInv, Ordered, Bounded, usbVars
  <1>10. SortedInside'
    <2>1. \A k \in 1..Len(fed) : p > 0 => fed[k] < p
      BY <1>4, <1>7 DEF IInv, Ordered, SortedAcross, Before
    <2>2. ASSUME NEW k \in 1..(Len(fed') - 1) PROVE fed'[k] < fed'[k + 1]
      <3>1. CASE k \in 1..(Len(fed) - 1)
        BY <3>1, <1>3, <1>4 DEF IInv, Ordered, SortedInside, FedInOrder
      <3>2. CASE k \notin 1..(Len(fed) - 1)
        <4>1. k = Len(fed) /\ p > 0 /\ k \in 1..Len(fed)
          BY <3>2, <2>2, <1>2, <1>3, <1>4
        <4> QED
          BY <4>1, <2>1, <1>4
      <3> QED
        BY <3>1, <3>2
    <2> QED
      BY <2>2, <1>1, <1>7 DEF IInv, Ordered, SortedInside, FedInOrder, usbVars
  <1>11. SortedAcross'
    <2>1. /\ \A m \in CurSlots' : Before(p, packets[cur][m])
          /\ \A d \in Good : \A m \in 1..NumPackets : Before(p, packets[done[d]][m])
          /\ \A m \in HeadSlots : Before(p, packets[kernel[1]][m])
      BY <1>7 DEF IInv, Ordered, SortedInside, SortedAcross
    <2> QED
      BY <2>1, <1>1, <1>4, <1>5, <1>7 DEF IInv, Ordered, SortedAcross, usbVars
  <1>12. Owed'
    <2> SUFFICES ASSUME NEW q \in captured
                 PROVE  \/ \E k \in 1..Len(fed') : fed'[k] = q
                        \/ \E m \in CurSlots' : packets[cur][m] = q
                        \/ \E d \in Good : \E m \in 1..NumPackets : packets[done[d]][m] = q
      BY <1>1, <1>7 DEF Owed, usbVars
    <2>1. q > 0
      BY EngineAssumption DEF IInv, TypeOK
    <2>2. CASE \E k \in 1..Len(fed) : fed[k] = q
      BY <2>2, <1>4
    <2>3. CASE p = q
      <3>1. Len(fed) + 1 \in 1..Len(fed') /\ fed'[Len(fed) + 1] = q
        BY <2>1, <2>3, <1>3, <1>4
      <3> QED
        BY <3>1
    <2> QED
      BY <2>2, <2>3, <1>7 DEF IInv, Owed
  <1> QED
    BY <1>6, <1>8, <1>9, <1>10, <1>11, <1>12 DEF IInv, Ordered

\* The transfer at the head of the kernel's queue is finished.
LEMMA HeadFinishes ==
    ASSUME IInv, kernel # <<>>, kernel' = Tail(kernel), done' = Append(done, Head(kernel)),
           UNCHANGED <<pc, cur>>
    PROVE  /\ kernel' \in Seq(Xfers) /\ done' \in Seq(Xfers) /\ kernel[1] \in Xfers
           /\ Len(done) \in Nat /\ Len(done') = Len(done) + 1
           /\ done'[Len(done) + 1] = kernel[1]
           /\ \A d \in 1..Len(done) : done'[d] = done[d] /\ done[d] # kernel[1]
           /\ pc = "callback" => cur # kernel[1]
           /\ Apart'
  <1> DEFINE x == kernel[1]
  <1>1. /\ kernel \in Seq(Xfers) /\ done \in Seq(Xfers) /\ x \in Xfers
        /\ Len(kernel) \in Nat /\ Len(kernel) >= 1 /\ Head(kernel) = x
    BY DEF IInv, TypeOK
  <1>2. /\ kernel' \in Seq(Xfers) /\ Len(kernel') = Len(kernel) - 1
        /\ \A a \in 1..Len(kernel') : kernel'[a] = kernel[a + 1]
    BY <1>1, HeadTailProperties
  <1>3. /\ done' \in Seq(Xfers) /\ Len(done) \in Nat /\ Len(done') = Len(done) + 1
        /\ done'[Len(done) + 1] = x
        /\ \A d \in 1..Len(done) : done'[d] = done[d]
    BY <1>1, AppendIs
  <1>4. /\ \A d \in 1..Len(done) : done[d] # x
        /\ pc = "callback" => cur # x
    BY <1>1 DEF IInv, Apart
  <1> HIDE DEF x
  <1>5. \A a \in 1..Len(kernel') : a + 1 \in 1..Len(kernel) /\ kernel'[a] = kernel[a + 1]
    BY <1>1, <1>2
  <1>6. \A a \in 1..Len(kernel') : kernel'[a] # x
    BY <1>1, <1>2, <1>5 DEF IInv, Apart, x
  <1>7. \A d \in 1..Len(done') : (d \in 1..Len(done) /\ done'[d] = done[d])
                                   \/ (d = Len(done) + 1 /\ done'[d] = x)
    BY <1>3
  <1>8. \A a, b \in 1..Len(kernel') : kernel'[a] = kernel'[b] => a = b
    BY <1>2, <1>5 DEF IInv, Apart
  <1>9. \A a, b \in 1..Len(done') : done'[a] = done'[b] => a = b
    BY <1>4, <1>7 DEF IInv, Apart
  <1>10. \A a \in 1..Len(kernel') : \A b \in 1..Len(done') : kernel'[a] # done'[b]
    BY <1>5, <1>6, <1>7 DEF IInv, Apart
  <1>11. pc' = "callback" => /\ \A a \in 1..Len(kernel') : kernel'[a] # cur'
                             /\ \A a \in 1..Len(done') : done'[a] # cur'
    BY <1>4, <1>5, <1>7 DEF IInv, Apart
  <1>12. Apart'
    BY <1>8, <1>9, <1>10, <1>11 DEF Apart
  <1> QED
    BY <1>1, <1>2, <1>3, <1>4, <1>12 DEF x

LEMMA XferFailsIInv == IInv /\ XferFails => IInv'
  <1> SUFFICES ASSUME IInv, XferFails PROVE IInv'
    OBVIOUS
  <1> DEFINE x == kernel[1]
             short == [k \in 1..NumPackets |-> IF k <= filled THEN packets[x][k] ELSE 0]
  <1>1. kernel # <<>> /\ Head(kernel) = x /\ x \in Xfers /\ NumPackets \in Nat
    BY EngineAssumption DEF XferFails, IInv, TypeOK
  <1>2. /\ failures < MaxFailures /\ failures' = failures + 1
        /\ packets' = [packets EXCEPT ![x] = short]
        /\ completed' = [completed EXCEPT ![x] = FALSE]
        /\ done' = Append(done, x)
        /\ kernel' = Tail(kernel)
        /\ filled' = 0 /\ UNCHANGED <<pc, i, cur, cb, calls, fed, clock, captured>>
    BY <1>1 DEF XferFails, hostVars
  <1>3. /\ kernel' \in Seq(Xfers) /\ done' \in Seq(Xfers)
        /\ Len(done) \in Nat /\ Len(done') = Len(done) + 1
        /\ done'[Len(done) + 1] = x
        /\ \A d \in 1..Len(done) : done'[d] = done[d] /\ done[d] # x
        /\ pc = "callback" => cur # x
        /\ Apart'
    BY <1>1, <1>2, HeadFinishes
  <1>4. short \in [1..NumPackets -> 0..MaxClock]
    <2>1. packets[x] \in [1..NumPackets -> 0..MaxClock]
      BY <1>1 DEF IInv, TypeOK
    <2> QED
      BY <2>1, EngineAssumption
  <1> HIDE DEF x, short
  <1>5. /\ packets' \in [Xfers -> [1..NumPackets -> 0..MaxClock]]
        /\ completed' \in [Xfers -> BOOLEAN]
        /\ \A y \in Xfers : y # x => packets'[y] = packets[y] /\ completed'[y] = completed[y]
        /\ completed'[x] = FALSE
    BY <1>1, <1>2, <1>4 DEF IInv, TypeOK
  <1>a. filled' = 0 /\ UNCHANGED <<pc, i, cur, cb, calls, fed, clock, captured>>
    BY <1>2
  <1>6. TypeOK' /\ LoopState'
    <2>1. failures' \in 0..MaxFailures /\ filled' \in 0..(NumPackets - 1)
      BY <1>2, EngineAssumption DEF IInv, TypeOK
    <2>2. LoopState'
      BY <1>a DEF IInv, LoopState
    <2> QED
      BY <1>a, <1>3, <1>5, <2>1, <2>2 DEF IInv, TypeOK
  <1>7. /\ Good' = Good /\ CurSlots' = CurSlots /\ HeadSlots' = {}
        /\ \A d \in Good : done'[d] = done[d] /\ packets'[done[d]] = packets[done[d]]
        /\ \A m \in CurSlots : packets'[cur] = packets[cur]
    <2>1. \A d \in 1..Len(done) : done[d] \in Xfers
      BY Elements DEF IInv, TypeOK
    <2>2. \A d \in 1..Len(done') : d \in 1..Len(done) \/ d = Len(done) + 1
      BY <1>3
    <2>3. Good' = Good
      BY <1>3, <1>5, <2>1, <2>2 DEF Good
    <2>4. CurSlots' = CurSlots /\ HeadSlots' = {}
      BY <1>a DEF CurSlots, HeadSlots
    <2>5. \A d \in Good : done'[d] = done[d] /\ packets'[done[d]] = packets[done[d]]
      BY <1>3, <1>5, <2>1 DEF Good
    <2>6. \A m \in CurSlots : packets'[cur] = packets[cur]
      BY <1>3, <1>5 DEF CurSlots, IInv, TypeOK
    <2> QED
      BY <2>3, <2>4, <2>5, <2>6
  <1>8. Bounded' /\ SortedInside'
    BY <1>a, <1>7 DEF IInv, Ordered, Bounded, SortedInside, FedInOrder
  <1>b. SortedAcross'
    BY <1>a, <1>7 DEF IInv, Ordered, SortedAcross
  <1>9. Owed'
    BY <1>a, <1>7 DEF IInv, Owed
  <1> QED
    BY <1>3, <1>6, <1>8, <1>b, <1>9 DEF IInv, Ordered

LEMMA MicroframeIInv ==
    ASSUME IInv, NEW p \in {0, clock + 1}, Microframe(p)
    PROVE  IInv'
  <1>a. UNCHANGED <<pc, i, cur, cb, calls, fed, failures>>
    BY DEF Microframe, hostVars
  <1>b. clock < MaxClock /\ clock' = clock + 1
    BY DEF Microframe
  <1>c. /\ clock \in 0..MaxClock /\ NumPackets \in Nat \ {0} /\ MaxClock \in Nat
        /\ i \in Nat /\ i >= 1 /\ filled \in 0..(NumPackets - 1)
    BY EngineAssumption DEF IInv, TypeOK
  <1>1. /\ clock' \in 0..MaxClock /\ p \in 0..MaxClock
        /\ p = 0 \/ p = clock + 1
    BY <1>b, <1>c
  <1>d. LoopState'
    BY <1>a DEF IInv, LoopState
  \* What was no later than the clock still is.
  <1>e. /\ \A q \in 0..MaxClock : q <= clock => q <= clock' /\ Before(q, p)
        /\ \A k \in 1..Len(fed) : fed[k] \in 0..MaxClock /\ fed[k] <= clock
        /\ \A m \in CurSlots : packets[cur][m] \in 0..MaxClock /\ packets[cur][m] <= clock
        /\ \A d \in Good : \A m \in 1..NumPackets :
              packets[done[d]][m] \in 0..MaxClock /\ packets[done[d]][m] <= clock
    <2>1. \A q \in 0..MaxClock : q <= clock => q <= clock' /\ Before(q, p)
      BY <1>b, <1>c, <1>1 DEF Before
    <2>2. \A k \in 1..Len(fed) : fed[k] \in 0..MaxClock
      <3>1. fed \in Seq(1..MaxClock)
        BY DEF IInv, TypeOK
      <3>2. \A k \in 1..Len(fed) : fed[k] \in 1..MaxClock
        BY <3>1, Elements
      <3> QED
        BY <3>2, <1>c
    <2>3. \A m \in CurSlots : packets[cur][m] \in 0..MaxClock
      <3>1. CurSlots \subseteq 1..NumPackets
        BY <1>c DEF CurSlots
      <3>2. packets[cur] \in [1..NumPackets -> 0..MaxClock]
        BY DEF IInv, TypeOK
      <3> QED
        BY <3>1, <3>2
    <2>4. \A d \in Good : \A m \in 1..NumPackets : packets[done[d]][m] \in 0..MaxClock
      <3>1. \A d \in 1..Len(done) : done[d] \in Xfers
        BY Elements DEF IInv, TypeOK
      <3>2. \A y \in Xfers : packets[y] \in [1..NumPackets -> 0..MaxClock]
        BY DEF IInv, TypeOK
      <3> QED
        BY <3>1, <3>2 DEF Good
    <2> QED
      BY <2>1, <2>2, <2>3, <2>4 DEF IInv, Ordered, Bounded
  <1>2. CurSlots' = CurSlots
    BY <1>a DEF CurSlots
  <1>3. CASE kernel = <<>>
    <2>1. UNCHANGED <<kernel, filled, done, completed, packets, captured>>
      BY <1>3 DEF Microframe
    <2>2. Good' = Good /\ HeadSlots' = HeadSlots
      BY <2>1 DEF Good, HeadSlots
    <2>3. TypeOK'
      BY <1>a, <1>1, <2>1 DEF IInv, TypeOK
    <2>4. Bounded'
      <3>1. HeadSlots = {} /\ filled = 0
        BY <1>3 DEF HeadSlots, IInv, Ordered, Bounded
      <3> QED
        BY <1>a, <1>e, <1>2, <2>1, <2>2, <3>1 DEF Bounded
    <2>5. SortedInside' /\ SortedAcross'
      BY <1>a, <1>2, <2>1, <2>2
      DEF IInv, Ordered, SortedInside, SortedAcross, FedInOrder
    <2>6. Apart' /\ Owed'
      BY <1>a, <1>2, <2>1, <2>2 DEF IInv, Apart, Owed
    <2> QED
      BY <1>d, <2>3, <2>4, <2>5, <2>6 DEF IInv, Ordered
  <1>4. CASE kernel # <<>>
    <2> DEFINE x == kernel[1]
               now == [packets[x] EXCEPT ![filled + 1] = p]
    <2>1. /\ Head(kernel) = x /\ x \in Xfers
          /\ packets[x] \in [1..NumPackets -> 0..MaxClock]
          /\ filled + 1 \in 1..NumPackets
      BY <1>c, <1>4 DEF IInv, TypeOK
    <2>2. /\ now \in [1..NumPackets -> 0..MaxClock]
          /\ now[filled + 1] = p
          /\ \A m \in 1..filled : now[m] = packets[x][m] /\ m \in 1..NumPackets
          /\ \A m \in 1..(filled + 1) : m \in 1..filled \/ m = filled + 1
      BY <1>c, <1>1, <2>1
    <2>3. /\ packets' = [packets EXCEPT ![x] = now]
          /\ \/ /\ filled + 1 < NumPackets
                /\ filled' = filled + 1
                /\ UNCHANGED <<kernel, done, completed, captured>>
             \/ /\ ~(filled + 1 < NumPackets)
                /\ filled' = 0
                /\ kernel' = Tail(kernel) /\ done' = Append(done, x)
                /\ completed' = [completed EXCEPT ![x] = TRUE]
                /\ captured' = captured \cup (ToSet(now) \ {0})
      BY <1>4, <2>1 DEF Microframe
    <2> HIDE DEF x, now
    <2>4. /\ packets' \in [Xfers -> [1..NumPackets -> 0..MaxClock]]
          /\ packets'[x] = now
          /\ \A y \in Xfers : y # x => packets'[y] = packets[y]
      BY <2>1, <2>2, <2>3 DEF IInv, TypeOK
    <2>5. \A d \in 1..Len(done) : done[d] \in Xfers
      BY Elements DEF IInv, TypeOK
    <2>6. /\ \A d \in 1..Len(done) : done[d] # x
          /\ pc = "callback" => cur # x
      BY <1>4, <2>1 DEF x, IInv, Apart, TypeOK
    <2>7. /\ \A d \in Good : packets'[done[d]] = packets[done[d]]
          /\ \A m \in CurSlots : packets'[cur] = packets[cur]
      BY <2>4, <2>5, <2>6 DEF Good, CurSlots, IInv, TypeOK
    \* The packets of the transfer at the head, with the new one behind them.
    <2>8. /\ \A m \in 1..(filled + 1) : now[m] <= clock + 1
          /\ \A m, n \in 1..(filled + 1) : m < n => Before(now[m], now[n])
          /\ \A k \in 1..Len(fed) : \A m \in 1..(filled + 1) : Before(fed[k], now[m])
          /\ \A m \in CurSlots : \A n \in 1..(filled + 1) : Before(packets[cur][m], now[n])
          /\ \A d \in Good : \A m \in 1..NumPackets : \A n \in 1..(filled + 1) :
                Before(packets[done[d]][m], now[n])
      <3>1. HeadSlots = 1..filled
        BY <1>4 DEF HeadSlots
      <3>2. \A m \in 1..filled : now[m] \in 0..MaxClock /\ now[m] <= clock
        BY <2>2, <3>1 DEF x, IInv, Ordered, Bounded
      <3>4. \A m \in 1..(filled + 1) : now[m] <= clock + 1
        <4>1. p <= clock + 1
          BY <1>c, <1>1
        <4>2. \A q \in 0..MaxClock : q <= clock => q <= clock + 1
          BY <1>c
        <4> QED
          BY <2>2, <3>2, <4>1, <4>2
      <3>5. \A m, n \in 1..(filled + 1) : m < n => Before(now[m], now[n])
        <4>1. \A m, n \in 1..filled : m < n => Before(now[m], now[n])
          BY <2>2, <3>1 DEF x, IInv, Ordered, SortedInside
        <4>2. \A m \in 1..filled : Before(now[m], p)
          BY <1>e, <3>2
        <4>3. \A m, n \in 1..(filled + 1) : m < n => m \in 1..filled
          BY <1>c
        <4> QED
          BY <4>1, <4>2, <4>3, <2>2
      <3>6. \A k \in 1..Len(fed) : \A m \in 1..(filled + 1) : Before(fed[k], now[m])
        BY <1>e, <2>2, <3>1 DEF x, IInv, Ordered, SortedAcross
      <3>7. \A m \in CurSlots : \A n \in 1..(filled + 1) : Before(packets[cur][m], now[n])
        BY <1>e, <2>2, <3>1 DEF x, IInv, Ordered, SortedAcross
      <3>8. \A d \in Good : \A m \in 1..NumPackets : \A n \in 1..(filled + 1) :
                Before(packets[done[d]][m], now[n])
        BY <1>e, <2>2, <3>1 DEF x, IInv, Ordered, SortedAcross
      <3> QED
        BY <3>4, <3>5, <3>6, <3>7, <3>8
    <2>9. CASE filled + 1 < NumPackets
      <3>1. filled' = filled + 1 /\ UNCHANGED <<kernel, done, completed, captured>>
        BY <2>3, <2>9
      <3>2. Good' = Good /\ HeadSlots' = 1..(filled + 1) /\ kernel'[1] = x /\ kernel' # <<>>
        BY <1>4, <3>1 DEF Good, HeadSlots, x
      <3>3. TypeOK'
        <4>1. filled' \in 0..(NumPackets - 1)
          BY <1>c, <2>9, <3>1
        <4> QED
          BY <1>a, <1>1, <2>4, <3>1, <4>1 DEF IInv, TypeOK
      <3>4. Bounded'
        BY <1>a, <1>b, <1>e, <1>2, <2>4, <2>7, <2>8, <3>1, <3>2 DEF Bounded
      <3>5. SortedInside'
        BY <1>a, <1>2, <2>4, <2>7, <2>8, <3>1, <3>2
        DEF IInv, Ordered, SortedInside, FedInOrder
      <3>6. SortedAcross'
        <4>1. /\ \A k \in 1..Len(fed) : \A m \in HeadSlots' : Before(fed[k], packets'[x][m])
              /\ \A m \in CurSlots : \A n \in HeadSlots' :
                    Before(packets[cur][m], packets'[x][n])
              /\ \A d \in Good : \A m \in 1..NumPackets : \A n \in HeadSlots' :
                    Before(packets[done[d]][m], packets'[x][n])
          BY <2>4, <2>8, <3>2
        <4>2. fed' = fed /\ cur' = cur /\ done' = done
          BY <1>a, <3>1
        <4>3. /\ \A d \in Good : packets'[done'[d]] = packets[done[d]]
              /\ \A m \in CurSlots : packets'[cur'] = packets[cur]
          BY <2>7, <4>2
        <4> QED
          BY <1>2, <3>2, <4>1, <4>2, <4>3 DEF IInv, Ordered, SortedAcross
      <3>7. Apart' /\ Owed'
        BY <1>a, <1>2, <2>7, <3>1, <3>2 DEF IInv, Apart, Owed
      <3> QED
        BY <1>d, <3>3, <3>4, <3>5, <3>6, <3>7 DEF IInv, Ordered
    <2>10. CASE ~(filled + 1 < NumPackets)
      <3>1. /\ filled' = 0
            /\ kernel' = Tail(kernel) /\ done' = Append(done, x)
            /\ completed' = [completed EXCEPT ![x] = TRUE]
            /\ captured' = captured \cup (ToSet(now) \ {0})
        BY <2>3, <2>10
      <3>2. filled + 1 = NumPackets
        BY <1>c, <2>10
      <3>3. /\ kernel' \in Seq(Xfers) /\ done' \in Seq(Xfers)
            /\ Len(done) \in Nat /\ Len(done') = Len(done) + 1
            /\ done'[Len(done) + 1] = x
            /\ \A d \in 1..Len(done) : done'[d] = done[d]
            /\ Apart'
        BY <1>a, <1>4, <2>1, <3>1, HeadFinishes DEF x
      <3>4. /\ completed' \in [Xfers -> BOOLEAN] /\ completed'[x] = TRUE
            /\ \A y \in Xfers : y # x => completed'[y] = completed[y]
        BY <2>1, <3>1 DEF IInv, TypeOK
      <3>5. /\ Len(done) + 1 \in Good' /\ HeadSlots' = {}
            /\ \A d \in Good : d \in Good' /\ done'[d] = done[d] /\ d < Len(done) + 1
            /\ \A d \in Good' : d \in Good \/ d = Len(done) + 1
        <4>1. \A d \in 1..Len(done') : d \in 1..Len(done) \/ d = Len(done) + 1
          BY <3>3
        <4>2. Len(done) + 1 \in 1..Len(done') /\ 1..Len(done) \subseteq 1..Len(done')
          BY <3>3
        <4>3. Len(done) + 1 \in Good'
          BY <3>3, <3>4, <4>2 DEF Good
        <4>4. HeadSlots' = {}
          BY <3>1 DEF HeadSlots
        <4>5. \A d \in Good : d \in Good' /\ done'[d] = done[d] /\ d < Len(done) + 1
          BY <2>5, <2>6, <3>3, <3>4, <4>2 DEF Good
        <4>6. \A d \in Good' : d \in Good \/ d = Len(done) + 1
          BY <2>5, <2>6, <3>3, <3>4, <4>1 DEF Good
        <4> QED
          BY <4>3, <4>4, <4>5, <4>6
      <3>a. UNCHANGED <<pc, i, cur, cb, calls, fed, failures>> /\ filled' = 0
        BY <1>a, <3>1
      <3>6. captured' \subseteq 1..MaxClock
        <4>1. \A q \in ToSet(now) : q \in 0..MaxClock
          BY <2>2 DEF ToSet
        <4>2. \A q \in 0..MaxClock : q # 0 => q \in 1..MaxClock
          BY <1>c
        <4>3. captured \subseteq 1..MaxClock
          BY DEF IInv, TypeOK
        <4> QED
          BY <3>1, <4>1, <4>2, <4>3
      <3>7. TypeOK'
        <4>1. filled' \in 0..(NumPackets - 1)
          BY <1>c, <3>1
        <4> QED
          BY <3>a, <1>1, <2>4, <3>3, <3>4, <3>6, <4>1 DEF IInv, TypeOK
      \* The packets of the finished transfers: the new one, and those before.
      <3>b. /\ \A m \in 1..NumPackets : packets'[done'[Len(done) + 1]][m] = now[m]
            /\ \A d \in Good : packets'[done'[d]] = packets[done[d]]
            /\ filled + 1 = NumPackets
        BY <2>4, <2>7, <3>2, <3>3, <3>5
      <3>8. Bounded'
        <4>1. \A d \in Good' : \A m \in 1..NumPackets : packets'[done'[d]][m] <= clock'
          BY <1>b, <1>e, <2>8, <3>b, <3>5
        <4> QED
          BY <3>a, <1>e, <1>2, <2>7, <3>5, <4>1 DEF Bounded
      <3>9. SortedInside'
        <4>1. \A d \in Good' : \A m, n \in 1..NumPackets :
                 m < n => Before(packets'[done'[d]][m], packets'[done'[d]][n])
          BY <2>8, <3>b, <3>5 DEF IInv, Ordered, SortedInside
        <4> QED
          BY <3>a, <1>2, <2>7, <3>5, <4>1 DEF IInv, Ordered, SortedInside, FedInOrder
      <3>10. SortedAcross'
        <4>1. \A k \in 1..Len(fed) : \A d \in Good' : \A m \in 1..NumPackets :
                 Before(fed[k], packets'[done'[d]][m])
          BY <2>8, <3>b, <3>5 DEF IInv, Ordered, SortedAcross
        <4>2. \A m \in CurSlots : \A d \in Good' : \A n \in 1..NumPackets :
                 Before(packets[cur][m], packets'[done'[d]][n])
          BY <2>8, <3>b, <3>5 DEF IInv, Ordered, SortedAcross
        <4>3. ASSUME NEW d \in Good', NEW e \in Good', d < e,
                     NEW m \in 1..NumPackets, NEW n \in 1..NumPackets
              PROVE  Before(packets'[done'[d]][m], packets'[done'[e]][n])
          <5>1. d \in Good
            <6>1. e \in 1..Len(done')
              BY DEF Good
            <6> QED
              BY <3>3, <3>5, <4>3, <6>1
          <5>2. CASE e \in Good
            BY <5>1, <5>2, <3>b, <4>3 DEF IInv, Ordered, SortedAcross
          <5>3. CASE e = Len(done) + 1
            BY <5>1, <5>3, <3>b, <2>8
          <5> QED
            BY <5>2, <5>3, <3>5
        <4> QED
          BY <3>a, <1>2, <2>7, <3>5, <4>1, <4>2, <4>3 DEF IInv, Ordered, SortedAcross
      <3>11. Owed'
        <4>1. ASSUME NEW q \in ToSet(now)
              PROVE  \E m \in 1..NumPackets : packets'[done'[Len(done) + 1]][m] = q
          BY <2>2, <3>b DEF ToSet
        <4> SUFFICES ASSUME NEW q \in captured'
                     PROVE  \/ \E k \in 1..Len(fed) : fed[k] = q
                            \/ \E m \in CurSlots : packets'[cur][m] = q
                            \/ \E d \in Good' : \E m \in 1..NumPackets :
                                  packets'[done'[d]][m] = q
          BY <3>a, <1>2 DEF Owed
        <4>2. CASE q \in ToSet(now)
          BY <4>1, <4>2, <3>5
        <4>3. CASE q \in captured
          BY <4>3, <2>7, <3>b, <3>5 DEF IInv, Owed
        <4> QED
          BY <3>1, <4>2, <4>3
      <3> QED
        BY <1>d, <3>3, <3>7, <3>8, <3>9, <3>10, <3>11 DEF IInv, Ordered
    <2> QED
      BY <2>9, <2>10
  <1> QED
    BY <1>3, <1>4

-----------------------------------------------------------------------------
\* The theorems.

LEMMA StutterIInv == IInv /\ UNCHANGED vars => IInv'
  <1> SUFFICES ASSUME IInv, UNCHANGED vars PROVE IInv'
    OBVIOUS
  <1>1. UNCHANGED <<pc, i, cur, cb, calls, kernel, filled, done, completed, packets, clock,
                    failures, fed, captured>>
    BY DEF vars, hostVars, usbVars
  <1>2. CurSlots' = CurSlots /\ Good' = Good /\ HeadSlots' = HeadSlots
    BY <1>1 DEF CurSlots, Good, HeadSlots
  <1>3. TypeOK' /\ LoopState' /\ Apart'
    BY <1>1 DEF IInv, TypeOK, LoopState, Apart
  <1>4. Bounded' /\ SortedInside' /\ SortedAcross' /\ Owed'
    BY <1>1, <1>2
    DEF IInv, Ordered, Bounded, SortedInside, SortedAcross, FedInOrder, Owed
  <1> QED
    BY <1>3, <1>4 DEF IInv, Ordered

LEMMA NextIInv == IInv /\ [Next]_vars => IInv'
  <1> SUFFICES ASSUME IInv, [Next]_vars PROVE IInv'
    OBVIOUS
  <1>1. ASSUME NEW callback \in BOOLEAN, ReadAsync(callback) PROVE IInv'
    BY <1>1, ReadAsyncIInv
  <1>2. CASE Submit
    BY <1>2, SubmitIInv
  <1>3. CASE Reap
    BY <1>3, ReapIInv
  <1>4. CASE Packet
    BY <1>4, PacketIInv
  <1>5. CASE Resubmit
    BY <1>5, ResubmitIInv
  <1>6. CASE EventsFail
    BY <1>6, EventsFailIInv
  <1>7. ASSUME NEW p \in {0, clock + 1}, Microframe(p) PROVE IInv'
    BY <1>7, MicroframeIInv
  <1>8. CASE XferFails
    BY <1>8, XferFailsIInv
  <1>9. CASE UNCHANGED vars
    BY <1>9, StutterIInv
  <1> QED
    BY <1>1, <1>2, <1>3, <1>4, <1>5, <1>6, <1>7, <1>8, <1>9 DEF Next, Host

\* The inductive invariant holds in every state.
THEOREM Inductive == Spec => []IInv
  <1> QED
    BY InitIInv, NextIInv, PTL DEF Spec

\* Every variable keeps its type, whatever is submitted, fails or finishes: in
\* particular the index of the packet loop never leaves the transfer.
THEOREM TypeCorrect == Spec => []TypeOK
  <1>1. IInv => TypeOK
    BY DEF IInv
  <1> QED
    BY <1>1, Inductive, PTL

\* What tvwsdr_read_async and tvwsdr_xfer_cb rely on: no buffer is queued twice,
\* and the callback reads one that neither the kernel nor libusb has.
THEOREM BufferHasOneOwner == Spec => []OneOwner
  <1>1. IInv => OneOwner
    <2> SUFFICES ASSUME IInv PROVE OneOwner
      OBVIOUS
    <2>1. /\ kernel \in Seq(Xfers) /\ done \in Seq(Xfers)
          /\ Len(kernel) \in Nat /\ Len(done) \in Nat
      BY DEF IInv, TypeOK
    <2> DEFINE both == kernel \o done
    <2>2. /\ DOMAIN both = 1..(Len(kernel) + Len(done))
          /\ \A a \in 1..(Len(kernel) + Len(done)) :
                both[a] = IF a <= Len(kernel) THEN kernel[a] ELSE done[a - Len(kernel)]
      BY <2>1, ConcatProperties
    <2> HIDE DEF both
    <2>3. ASSUME NEW a \in 1..(Len(kernel) + Len(done)), NEW b \in 1..(Len(kernel) + Len(done)),
                 both[a] = both[b]
          PROVE  a = b
      <3>1. CASE a <= Len(kernel) /\ b <= Len(kernel)
        <4>1. a \in 1..Len(kernel) /\ b \in 1..Len(kernel) /\ kernel[a] = kernel[b]
          BY <2>1, <2>2, <2>3, <3>1
        <4> QED
          BY <4>1 DEF IInv, Apart
      <3>2. CASE a <= Len(kernel) /\ ~(b <= Len(kernel))
        <4>1. /\ a \in 1..Len(kernel) /\ b - Len(kernel) \in 1..Len(done)
              /\ kernel[a] = done[b - Len(kernel)]
          BY <2>1, <2>2, <2>3, <3>2
        <4> QED
          BY <4>1 DEF IInv, Apart
      <3>3. CASE ~(a <= Len(kernel)) /\ b <= Len(kernel)
        <4>1. /\ b \in 1..Len(kernel) /\ a - Len(kernel) \in 1..Len(done)
              /\ kernel[b] = done[a - Len(kernel)]
          BY <2>1, <2>2, <2>3, <3>3
        <4> QED
          BY <4>1 DEF IInv, Apart
      <3>4. CASE ~(a <= Len(kernel)) /\ ~(b <= Len(kernel))
        <4>1. /\ a - Len(kernel) \in 1..Len(done) /\ b - Len(kernel) \in 1..Len(done)
              /\ done[a - Len(kernel)] = done[b - Len(kernel)]
          BY <2>1, <2>2, <2>3, <3>4
        <4>2. a - Len(kernel) = b - Len(kernel)
          BY <4>1 DEF IInv, Apart
        <4> QED
          BY <4>2, <2>1
      <3> QED
        BY <3>1, <3>2, <3>3, <3>4
    <2>4. IsInjective(both)
      BY <2>2, <2>3 DEF IsInjective
    <2>5. pc = "callback" => cur \notin InFlight
      BY <2>1 DEF IInv, Apart, InFlight, ToSet
    <2> QED
      BY <2>4, <2>5 DEF OneOwner, both
  <1> QED
    BY <1>1, Inductive, PTL

\* The deframer is given the packets in the order in which the device sent
\* them, each once, over any failures, refused submissions and second calls.
THEOREM FeedsInOrder == Spec => []FedInOrder
  <1>1. IInv => FedInOrder
    BY DEF IInv, Ordered, SortedInside
  <1> QED
    BY <1>1, Inductive, PTL

\* No packet of a completed transfer is skipped: it has reached the deframer,
\* or the callback has still to come to it.
THEOREM SkipsNothing == Spec => []NothingSkipped
  <1>1. IInv => NothingSkipped
    <2> SUFFICES ASSUME IInv, NEW p \in captured
                 PROVE  p \in ToSet(fed) \cup Pending
      BY DEF NothingSkipped
    <2>1. p # 0
      BY EngineAssumption DEF IInv, TypeOK
    <2>2. CASE \E k \in 1..Len(fed) : fed[k] = p
      <3>1. fed \in Seq(1..MaxClock)
        BY DEF IInv, TypeOK
      <3> QED
        BY <2>2, <3>1 DEF ToSet
    <2>3. CASE \E m \in CurSlots : packets[cur][m] = p
      <3>1. pc = "callback" /\ CurSlots = i..NumPackets
        BY <2>3 DEF CurSlots
      <3>2. p \in {packets[cur][k] : k \in i..NumPackets} \ {0}
        BY <2>1, <2>3, <3>1
      <3> QED
        BY <3>1, <3>2 DEF Pending
    <2>4. ASSUME NEW d \in Good, NEW m \in 1..NumPackets, packets[done[d]][m] = p
          PROVE  p \in Pending
      <3>1. d \in DOMAIN done /\ completed[done[d]]
        BY DEF Good, IInv, TypeOK
      <3>2. p \in ToSet(packets[done[d]])
        <4>1. done[d] \in Xfers
          BY <3>1, Elements DEF Good, IInv, TypeOK
        <4>2. DOMAIN packets[done[d]] = 1..NumPackets
          BY <4>1 DEF IInv, TypeOK
        <4> QED
          BY <2>4, <4>2 DEF ToSet
      <3> QED
        <4> DEFINE parts == {ToSet(packets[done[k]]) \ {0} :
                                k \in {j \in DOMAIN done : completed[done[j]]}}
        <4>1. ToSet(packets[done[d]]) \ {0} \in parts
          BY <3>1
        <4>2. p \in UNION parts
          BY <4>1, <3>2, <2>1
        <4> QED
          BY <4>2 DEF Pending
    <2> QED
      BY <2>2, <2>3, <2>4 DEF IInv, Owed
  <1> QED
    BY <1>1, Inductive, PTL

-----------------------------------------------------------------------------
\* A transfer that is out of circulation, or will be once libusb reaps it; the
\* submit loop has still to come to those from i on.
IsLost(x) ==
    \/ x \in ToSet(done) /\ ~completed[x]
    \/ /\ pc \in {"events", "callback"} \/ (pc = "submit" /\ x < i)
       /\ x \notin InFlight
       /\ ~(pc = "callback" /\ x = cur)

Lost == {x \in Xfers : IsLost(x)}

LostByFailure == Cardinality(Lost) <= failures

LEMMA XfersFinite == \A S : S \subseteq Xfers => IsFiniteSet(S) /\ Cardinality(S) \in Nat
  <1>1. IsFiniteSet(Xfers)
    <2>1. 1 \in Int /\ NumXfers \in Int
      BY EngineAssumption DEF EngineAssumption
    <2> QED
      BY <2>1, FS_Interval DEF Xfers
  <1> SUFFICES ASSUME NEW S, S \subseteq Xfers
               PROVE  IsFiniteSet(S) /\ Cardinality(S) \in Nat
    OBVIOUS
  <1>2. IsFiniteSet(S)
    BY <1>1, FS_Subset
  <1> QED
    BY <1>2, FS_CardinalityType

\* A step loses a transfer only with a failure.
LEMMA NoneLost ==
    ASSUME TypeOK, LostByFailure, failures' = failures, Lost' \subseteq Lost
    PROVE  LostByFailure'
  <1>1. Lost \subseteq Xfers /\ failures \in Nat
    BY EngineAssumption DEF Lost, TypeOK
  <1>2. IsFiniteSet(Lost) /\ Cardinality(Lost) \in Nat
    BY <1>1, XfersFinite
  <1>3. Cardinality(Lost') \in Nat /\ Cardinality(Lost') <= Cardinality(Lost)
    BY <1>1, <1>2, XfersFinite, FS_Subset
  <1> QED
    BY <1>1, <1>2, <1>3 DEF LostByFailure

LEMMA OneLost ==
    ASSUME TypeOK, LostByFailure, failures' = failures + 1,
           NEW x \in Xfers, Lost' \subseteq Lost \cup {x}
    PROVE  LostByFailure'
  <1>1. Lost \subseteq Xfers /\ failures \in Nat
    BY EngineAssumption DEF Lost, TypeOK
  <1>2. IsFiniteSet(Lost) /\ Cardinality(Lost) \in Nat
    BY <1>1, XfersFinite
  <1>3. IsFiniteSet(Lost \cup {x}) /\ Cardinality(Lost \cup {x}) \in Nat
    BY <1>1, XfersFinite
  <1>4. Cardinality(Lost \cup {x}) <= Cardinality(Lost) + 1
    <2>1. Cardinality(Lost \cup {x})
            = IF x \in Lost THEN Cardinality(Lost) ELSE Cardinality(Lost) + 1
      BY <1>2, FS_AddElement
    <2> QED
      BY <1>2, <2>1
  <1>5. Cardinality(Lost') \in Nat /\ Cardinality(Lost') <= Cardinality(Lost \cup {x})
    BY <1>1, <1>3, XfersFinite, FS_Subset
  <1> QED
    BY <1>1, <1>2, <1>3, <1>4, <1>5 DEF LostByFailure

LEMMA ToSetIs ==
    ASSUME NEW S, NEW s \in Seq(S), NEW x
    PROVE  x \in ToSet(s) <=> \E a \in 1..Len(s) : s[a] = x
  BY DEF ToSet

LEMMA ToSetAppend ==
    ASSUME NEW S, NEW s \in Seq(S), NEW x \in S
    PROVE  ToSet(Append(s, x)) = ToSet(s) \cup {x}
  <1>1. /\ Append(s, x) \in Seq(S) /\ Len(Append(s, x)) = Len(s) + 1 /\ Len(s) \in Nat
        /\ Append(s, x)[Len(s) + 1] = x
        /\ \A k \in 1..Len(s) : Append(s, x)[k] = s[k]
    BY AppendIs
  <1>2. ASSUME NEW y \in ToSet(Append(s, x)) PROVE y \in ToSet(s) \cup {x}
    <2>1. PICK a \in 1..Len(Append(s, x)) : Append(s, x)[a] = y
      BY <1>1, <1>2, ToSetIs
    <2>2. CASE a = Len(s) + 1
      BY <1>1, <2>1, <2>2
    <2>3. CASE a \in 1..Len(s)
      BY <1>1, <2>1, <2>3, ToSetIs
    <2> QED
      BY <1>1, <2>2, <2>3
  <1>3. ASSUME NEW y \in ToSet(s) PROVE y \in ToSet(Append(s, x))
    <2>1. PICK a \in 1..Len(s) : s[a] = y
      BY <1>3, ToSetIs
    <2>2. a \in 1..Len(Append(s, x)) /\ Append(s, x)[a] = y
      BY <1>1, <2>1
    <2> QED
      BY <1>1, <2>2, ToSetIs
  <1>4. x \in ToSet(Append(s, x))
    <2>1. Len(s) + 1 \in 1..Len(Append(s, x))
      BY <1>1
    <2> QED
      BY <1>1, <2>1, ToSetIs
  <1> QED
    BY <1>2, <1>3, <1>4

\* The first element leaves, the others stay.
LEMMA ToSetFirst ==
    ASSUME NEW S, NEW s \in Seq(S), s # <<>>, NEW t \in Seq(S), Len(t) = Len(s) - 1,
           \A k \in 1..Len(t) : t[k] = s[k + 1]
    PROVE  ToSet(t) \subseteq ToSet(s) /\ ToSet(s) \subseteq ToSet(t) \cup {s[1]}
  <1>1. Len(s) \in Nat \ {0} /\ Len(t) \in Nat
    OBVIOUS
  <1>2. ASSUME NEW y \in ToSet(t) PROVE y \in ToSet(s)
    <2>1. PICK a \in 1..Len(t) : t[a] = y
      BY <1>2, ToSetIs
    <2>2. a + 1 \in 1..Len(s) /\ s[a + 1] = y
      BY <1>1, <2>1
    <2> QED
      BY <2>2, ToSetIs
  <1>3. ASSUME NEW y \in ToSet(s), y # s[1] PROVE y \in ToSet(t)
    <2>1. PICK a \in 1..Len(s) : s[a] = y
      BY <1>3, ToSetIs
    <2>2. a - 1 \in 1..Len(t) /\ t[a - 1] = y
      BY <1>1, <1>3, <2>1
    <2> QED
      BY <2>2, ToSetIs
  <1> QED
    BY <1>2, <1>3

\* The head of the kernel's queue goes to the finished ones: the same are in flight.
LEMMA FinishKeepsInFlight ==
    ASSUME IInv, kernel # <<>>, kernel' = Tail(kernel), done' = Append(done, Head(kernel))
    PROVE  /\ InFlight' = InFlight /\ Head(kernel) \in Xfers
           /\ ToSet(done)' = ToSet(done) \cup {Head(kernel)}
  <1>1. kernel \in Seq(Xfers) /\ done \in Seq(Xfers) /\ Head(kernel) = kernel[1]
        /\ kernel[1] \in Xfers
    BY DEF IInv, TypeOK
  <1>2. /\ kernel' \in Seq(Xfers) /\ Len(kernel') = Len(kernel) - 1
        /\ \A a \in 1..Len(kernel') : kernel'[a] = kernel[a + 1]
    BY <1>1, HeadTailProperties
  <1>3. ToSet(kernel') \subseteq ToSet(kernel)
        /\ ToSet(kernel) \subseteq ToSet(kernel') \cup {kernel[1]}
    BY <1>1, <1>2, ToSetFirst
  <1>4. ToSet(done') = ToSet(done) \cup {kernel[1]}
    BY <1>1, ToSetAppend
  <1>5. kernel[1] \in ToSet(kernel)
    <2>1. 1 \in 1..Len(kernel)
      BY <1>1
    <2> QED
      BY <1>1, <2>1, ToSetIs
  <1> QED
    BY <1>1, <1>3, <1>4, <1>5 DEF InFlight

-----------------------------------------------------------------------------
LEMMA InitLost == Init => LostByFailure
  <1> SUFFICES ASSUME Init PROVE LostByFailure
    OBVIOUS
  <1>1. Lost = {}
    BY DEF Init, Lost, IsLost, ToSet
  <1> QED
    BY <1>1, FS_EmptySet DEF Init, LostByFailure

\* A submission: what it does to the transfers in flight, and when it may fail.
LEMMA SubmitInFlight ==
    ASSUME TypeOK, NEW x \in Xfers, SubmitXfer(x), done' = done
    PROVE  \/ x \in InFlight' /\ InFlight \subseteq InFlight' /\ failures' = failures
           \/ InFlight' = InFlight /\ failures' = failures + 1
  <1>1. CASE x \notin InFlight /\ kernel' = Append(kernel, x) /\ UNCHANGED failures
    BY <1>1, ToSetAppend DEF TypeOK, InFlight
  <1>2. CASE failures' = failures + 1 /\ UNCHANGED kernel
    BY <1>2 DEF InFlight
  <1>3. CASE x \in InFlight /\ UNCHANGED <<kernel, failures>>
    BY <1>3 DEF InFlight
  <1> QED
    BY <1>1, <1>2, <1>3 DEF SubmitXfer

LEMMA SubmitLost == IInv /\ LostByFailure /\ Submit => LostByFailure'
  <1> SUFFICES ASSUME IInv, LostByFailure, Submit PROVE LostByFailure'
    OBVIOUS
  <1>1. /\ pc = "submit" /\ SubmitXfer(i) /\ i' = i + 1
        /\ pc' = IF i = NumXfers THEN "events" ELSE "submit"
        /\ UNCHANGED <<cur, done, completed>>
    BY DEF Submit, LastXfer, usbVars
  <1>2. i \in Xfers
    BY <1>1, EngineAssumption DEF IInv, TypeOK, LoopState, Xfers
  <1>3. \/ i \in InFlight' /\ InFlight \subseteq InFlight' /\ failures' = failures
        \/ InFlight' = InFlight /\ failures' = failures + 1
    BY <1>1, <1>2, SubmitInFlight DEF IInv
  <1>4. InFlight \subseteq InFlight'
    BY <1>3
  <1>5. ASSUME NEW x \in Xfers, x # i \/ i \in InFlight', IsLost(x)' PROVE IsLost(x)
    <2>1. CASE x \in ToSet(done') /\ ~completed'[x]
      BY <1>1, <2>1 DEF IsLost
    <2>2. CASE x \notin InFlight'
      <3>1. x \notin InFlight /\ x # i
        BY <1>4, <1>5, <2>2
      <3>2. x < i
        BY <1>1, <1>2, <1>5, <2>2, <3>1, EngineAssumption DEF IsLost, Xfers, InFlight
      <3> QED
        BY <1>1, <3>1, <3>2 DEF IsLost
    <2> QED
      BY <1>5, <2>1, <2>2 DEF IsLost
  <1>6. CASE i \in InFlight' /\ failures' = failures
    <2>1. Lost' \subseteq Lost
      BY <1>5, <1>6 DEF Lost
    <2> QED
      BY <1>6, <2>1, NoneLost DEF IInv
  <1>7. CASE failures' = failures + 1
    <2>1. Lost' \subseteq Lost \cup {i}
      BY <1>5 DEF Lost
    <2> QED
      BY <1>2, <1>7, <2>1, OneLost DEF IInv
  <1> QED
    BY <1>3, <1>6, <1>7

LEMMA ResubmitLost == IInv /\ LostByFailure /\ Resubmit => LostByFailure'
  <1> SUFFICES ASSUME IInv, LostByFailure, Resubmit PROVE LostByFailure'
    OBVIOUS
  <1>1. /\ pc = "callback" /\ SubmitXfer(cur) /\ pc' = "events"
        /\ UNCHANGED <<cur, done, completed>>
    BY DEF Resubmit, usbVars
  <1>2. cur \in Xfers
    BY DEF IInv, TypeOK
  <1>3. \/ cur \in InFlight' /\ InFlight \subseteq InFlight' /\ failures' = failures
        \/ InFlight' = InFlight /\ failures' = failures + 1
    BY <1>1, <1>2, SubmitInFlight DEF IInv
  <1>4. InFlight \subseteq InFlight'
    BY <1>3
  <1>5. ASSUME NEW x \in Xfers, x # cur \/ cur \in InFlight', IsLost(x)' PROVE IsLost(x)
    <2>1. CASE x \in ToSet(done') /\ ~completed'[x]
      BY <1>1, <2>1 DEF IsLost
    <2>2. CASE x \notin InFlight'
      BY <1>1, <1>4, <1>5, <2>2 DEF IsLost
    <2> QED
      BY <1>5, <2>1, <2>2 DEF IsLost
  <1>6. CASE cur \in InFlight' /\ failures' = failures
    <2>1. Lost' \subseteq Lost
      BY <1>5, <1>6 DEF Lost
    <2> QED
      BY <1>6, <2>1, NoneLost DEF IInv
  <1>7. CASE failures' = failures + 1
    <2>1. Lost' \subseteq Lost \cup {cur}
      BY <1>5 DEF Lost
    <2> QED
      BY <1>2, <1>7, <2>1, OneLost DEF IInv
  <1> QED
    BY <1>3, <1>6, <1>7

LEMMA ReapLost == IInv /\ LostByFailure /\ Reap => LostByFailure'
  <1> SUFFICES ASSUME IInv, LostByFailure, Reap PROVE LostByFailure'
    OBVIOUS
  <1>1. /\ pc = "events" /\ done # <<>>
        /\ cur' = done[1] /\ done' = RemoveAt(done, 1)
        /\ pc' = IF completed[cur'] THEN "callback" ELSE "events"
        /\ UNCHANGED <<kernel, failures, completed>>
    BY DEF Reap, Oldest, usbVars
  <1>2. /\ done \in Seq(Xfers) /\ done' \in Seq(Xfers) /\ Len(done') = Len(done) - 1
        /\ \A k \in 1..Len(done') : done'[k] = done[k + 1]
    <2>1. done \in Seq(Xfers)
      BY DEF IInv, TypeOK
    <2> QED
      BY <1>1, <2>1, FirstRemoved
  <1>3. ToSet(done') \subseteq ToSet(done) /\ ToSet(done) \subseteq ToSet(done') \cup {cur'}
    BY <1>1, <1>2, ToSetFirst
  <1>4. cur' \in ToSet(done)
    <2>1. 1 \in 1..Len(done)
      BY <1>1, <1>2
    <2> QED
      BY <1>1, <1>2, <2>1, ToSetIs
  <1>5. ASSUME NEW x \in Xfers, IsLost(x)' PROVE IsLost(x)
    <2>1. CASE x \in ToSet(done') /\ ~completed'[x]
      BY <1>1, <1>3, <2>1 DEF IsLost
    <2>2. CASE x \notin InFlight' /\ ~(pc' = "callback" /\ x = cur') /\ x \in ToSet(done)
      <3>1. x = cur'
        BY <1>3, <2>2 DEF InFlight
      <3> QED
        BY <1>1, <1>4, <2>2, <3>1 DEF IsLost
    <2>3. CASE x \notin InFlight' /\ x \notin ToSet(done)
      BY <1>1, <2>3 DEF IsLost, InFlight
    <2> QED
      BY <1>5, <2>1, <2>2, <2>3 DEF IsLost
  <1>6. Lost' \subseteq Lost
    BY <1>5 DEF Lost
  <1> QED
    BY <1>1, <1>6, NoneLost DEF IInv

LEMMA XferFailsLost == IInv /\ LostByFailure /\ XferFails => LostByFailure'
  <1> SUFFICES ASSUME IInv, LostByFailure, XferFails PROVE LostByFailure'
    OBVIOUS
  <1>1. /\ kernel # <<>> /\ kernel' = Tail(kernel) /\ done' = Append(done, Head(kernel))
        /\ completed' = [completed EXCEPT ![Head(kernel)] = FALSE]
        /\ failures' = failures + 1
        /\ UNCHANGED <<pc, i, cur>>
    BY DEF XferFails, hostVars
  <1>2. /\ InFlight' = InFlight /\ Head(kernel) \in Xfers
        /\ ToSet(done') = ToSet(done) \cup {Head(kernel)}
    BY <1>1, FinishKeepsInFlight
  <1>3. \A x \in Xfers : x # Head(kernel) => completed'[x] = completed[x]
    BY <1>1 DEF IInv, TypeOK
  <1>4. ASSUME NEW x \in Xfers, x # Head(kernel), IsLost(x)' PROVE IsLost(x)
    BY <1>1, <1>2, <1>3, <1>4 DEF IsLost
  <1>5. Lost' \subseteq Lost \cup {Head(kernel)}
    BY <1>4 DEF Lost
  <1> QED
    BY <1>1, <1>2, <1>5, OneLost DEF IInv

LEMMA MicroframeLost ==
    ASSUME NEW p \in {0, clock + 1}, IInv, LostByFailure, Microframe(p)
    PROVE  LostByFailure'
  <1>1. UNCHANGED <<pc, i, cur, failures>>
    BY DEF Microframe, hostVars
  <1>2. ASSUME NEW x \in Xfers, IsLost(x)' PROVE IsLost(x)
    <2>1. CASE UNCHANGED <<kernel, done, completed>>
      BY <1>1, <1>2, <2>1 DEF IsLost, InFlight
    <2>2. CASE /\ kernel # <<>> /\ kernel' = Tail(kernel)
               /\ done' = Append(done, Head(kernel))
               /\ completed' = [completed EXCEPT ![Head(kernel)] = TRUE]
      <3>1. /\ InFlight' = InFlight /\ Head(kernel) \in Xfers
            /\ ToSet(done') = ToSet(done) \cup {Head(kernel)}
        BY <2>2, FinishKeepsInFlight
      <3>2. completed'[Head(kernel)] /\ (x # Head(kernel) => completed'[x] = completed[x])
        BY <2>2, <3>1 DEF IInv, TypeOK
      <3> QED
        BY <1>1, <1>2, <3>1, <3>2 DEF IsLost
    <2> QED
      BY <2>1, <2>2 DEF Microframe
  <1>3. Lost' \subseteq Lost
    BY <1>2 DEF Lost
  <1> QED
    BY <1>1, <1>3, NoneLost DEF IInv

\* The other steps leave the transfers where they are.
LEMMA OthersLost ==
    ASSUME IInv, LostByFailure,
           \/ \E callback \in BOOLEAN : ReadAsync(callback)
           \/ Packet \/ EventsFail \/ UNCHANGED vars
    PROVE  LostByFailure'
  <1>1. /\ UNCHANGED <<kernel, done, completed, failures>>
        /\ \/ pc' = "submit" /\ i' = 1
           \/ pc' = "out"
           \/ UNCHANGED <<pc, cur>> /\ pc = "callback"
           \/ UNCHANGED <<pc, cur, i>>
    BY DEF ReadAsync, Packet, EventsFail, vars, hostVars, usbVars
  <1>2. ASSUME NEW x \in Xfers, IsLost(x)' PROVE IsLost(x)
    <2>1. CASE x \in ToSet(done') /\ ~completed'[x]
      BY <1>1, <2>1 DEF IsLost
    <2>2. CASE ~(x \in ToSet(done') /\ ~completed'[x])
      <3>1. ~(pc' = "submit" /\ i' = 1) /\ pc' # "out"
        BY <1>2, <2>2, EngineAssumption DEF IsLost, Xfers
      <3> QED
        BY <1>1, <1>2, <2>2, <3>1 DEF IsLost, InFlight
    <2> QED
      BY <2>1, <2>2
  <1>3. Lost' \subseteq Lost
    BY <1>2 DEF Lost
  <1> QED
    BY <1>1, <1>3, NoneLost DEF IInv

\* For any number of transfers, failures and calls: a transfer leaves circulation
\* only by a failure of it or of a submission, so that it takes NUM_ISOCH_XFERS
\* failures to silence the stream while tvwsdr_read_async loops.
THEOREM RetiresByFailure == Spec => []RetiredByFailure
  <1>1. IInv /\ LostByFailure /\ [Next]_vars => LostByFailure'
    BY SubmitLost, ResubmitLost, ReapLost, XferFailsLost, MicroframeLost, OthersLost DEF Next, Host
  <1>2. TypeOK /\ LostByFailure => RetiredByFailure
    <2> SUFFICES ASSUME TypeOK, LostByFailure, pc \in {"events", "callback"}
                 PROVE  Cardinality(Retired) <= failures
      BY DEF RetiredByFailure
    <2>1. Retired \subseteq Lost /\ Lost \subseteq Xfers
      BY DEF Retired, Lost, IsLost
    <2>2. IsFiniteSet(Lost) /\ Cardinality(Lost) \in Nat /\ Cardinality(Retired) \in Nat
      BY <2>1, XfersFinite
    <2>3. Cardinality(Retired) <= Cardinality(Lost)
      BY <2>1, <2>2, FS_Subset
    <2>4. failures \in Nat
      BY EngineAssumption DEF TypeOK
    <2> QED
      BY <2>2, <2>3, <2>4 DEF LostByFailure
  <1>3. IInv => TypeOK
    BY DEF IInv
  <1> QED
    BY <1>1, <1>2, <1>3, InitLost, Inductive, PTL DEF Spec

=============================================================================
