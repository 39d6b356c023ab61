-------------------------- MODULE ReceivePathProofs --------------------------
(***************************************************************************)
(* Theorems about ReceivePath for every number of transfers and packets,   *)
(* every buffer, section and frame length, every packet size and every     *)
(* phase of the device that satisfy the assumptions.                       *)
(*                                                                         *)
(* The engine and the deframer are proved about by themselves.  Here each  *)
(* step of the receive path is shown to be a step of both, so that their   *)
(* theorems hold of it, and the rest relates what they say: which bytes of *)
(* the device the deframer has, and which of its sections it reports.      *)
(***************************************************************************)
EXTENDS ReceivePath, FiniteSetTheorems, WellFoundedInduction, TLAPS

EP == INSTANCE IsochEngineProofs
DP == INSTANCE DeframerProofs WITH pc <- scanPc, calls <- reports

\* The constants satisfy what the components assume.
LEMMA PartsAssumed == EP!EngineAssumption /\ DP!SizesAssumption
  BY PartsAssumption DEF EP!EngineAssumption, DP!SizesAssumption

\* A step of the receive path is a step of the engine or leaves it alone.
LEMMA EngineStep == [Next]_vars => [E!Next]_(E!vars)
  <1> SUFFICES ASSUME [Next]_vars PROVE [E!Next]_(E!vars)
    OBVIOUS
  <1>1. CASE Host
    BY <1>1 DEF Host, E!Next, E!Host
  <1>2. CASE Packet
    BY <1>2 DEF Packet, E!Next, E!Host
  <1>3. CASE Scan \/ UNCHANGED vars
    BY <1>3 DEF Scan, vars, engine, E!vars, E!hostVars, E!usbVars
  <1>4. CASE Device
    BY <1>4 DEF Device, E!Next
  <1> QED
    BY <1>1, <1>2, <1>3, <1>4 DEF Next

\* Both names of the engine mean the same.
LEMMA SameEngine ==
    /\ E!Init => EP!Init
    /\ [E!Next]_(E!vars) => [EP!Next]_(EP!vars)
  <1>1. E!Init => EP!Init
    BY DEF E!Init, EP!Init, E!Xfers, EP!Xfers
  <1>2. [E!Next]_(E!vars) => [EP!Next]_(EP!vars)
    BY DEF E!Next, EP!Next, E!Host, EP!Host, E!ReadAsync, EP!ReadAsync,
           E!Submit, EP!Submit, E!Reap, EP!Reap, E!Packet, EP!Packet,
           E!Resubmit, EP!Resubmit, E!EventsFail, EP!EventsFail,
           E!Microframe, EP!Microframe, E!XferFails, EP!XferFails,
           E!SubmitXfer, EP!SubmitXfer, E!InFlight, EP!InFlight,
           E!LastXfer, EP!LastXfer, E!LastPacket, EP!LastPacket,
           E!Oldest, EP!Oldest, E!MayResubmit, EP!MayResubmit,
           E!vars, EP!vars, E!hostVars, EP!hostVars, E!usbVars, EP!usbVars,
           E!RemoveAt, EP!RemoveAt, E!ToSet, EP!ToSet
  <1> QED
    BY <1>1, <1>2

\* The engine of the receive path behaves as the engine does by itself.
THEOREM EngineBehaves == Spec => E!Spec /\ []EP!IInv
  <1>1. Init => E!Init
    BY DEF Init
  <1>2. Spec => E!Spec /\ EP!Spec
    BY <1>1, EngineStep, SameEngine, PTL DEF Spec, E!Spec, EP!Spec
  <1>3. EP!Spec => []EP!IInv
    BY EP!Inductive, PartsAssumed
  <1> QED
    BY <1>2, <1>3, PTL

-----------------------------------------------------------------------------
\* What the packets carry.

\* Microframe p has passed and brought bytes, as many as a packet may.
Held(p) ==
    /\ p \in 1..clock
    /\ starts[p + 1] - starts[p] \in 1..MaxPacket

\* The device's bytes are numbered in the order of the microframes.
StartsSorted ==
    /\ starts \in Seq(Nat)
    /\ Len(starts) = clock + 1
    /\ \A a, b \in 1..Len(starts) : a <= b => starts[a] <= starts[b]

\* Every packet in a buffer that is not empty has bytes, as those fed had.
PacketsHeld ==
    /\ \A x \in 1..NumXfers : \A k \in 1..NumPackets :
          packets[x][k] # 0 => Held(packets[x][k])
    /\ \A k \in 1..Len(fed) : Held(fed[k])

Carried == StartsSorted /\ PacketsHeld

LEMMA EngineTypes ==
    ASSUME EP!IInv
    PROVE  /\ NumXfers \in Nat \ {0} /\ NumPackets \in Nat \ {0} /\ MaxClock \in Nat
           /\ cur \in 1..NumXfers /\ i \in Nat \ {0}
           /\ kernel \in Seq(1..NumXfers) /\ filled \in 0..(NumPackets - 1)
           /\ packets \in [1..NumXfers -> [1..NumPackets -> 0..MaxClock]]
           /\ clock \in 0..MaxClock /\ fed \in Seq(1..MaxClock)
           /\ captured \subseteq 1..MaxClock
  BY PartsAssumption DEF EP!IInv, EP!TypeOK, EP!Xfers

LEMMA InitCarried == Init => Carried
  <1> SUFFICES ASSUME Init PROVE Carried
    OBVIOUS
  <1>1. PICK phase \in Phases : starts = <<phase>>
    BY DEF Init
  <1>2. phase \in Nat /\ clock = 0 /\ fed = <<>>
    BY PartsAssumption, LineAssumption DEF Init, E!Init
  <1>3. StartsSorted
    BY <1>1, <1>2 DEF StartsSorted
  <1>4. PacketsHeld
    BY <1>2 DEF Init, E!Init, E!Xfers, PacketsHeld
  <1> QED
    BY <1>3, <1>4 DEF Carried

\* A microframe gives its packet a place behind those sent before it.
LEMMA MicroframeCarried ==
    ASSUME EP!IInv, Carried, NEW size \in Sizes,
           E!Microframe(IF size = 0 THEN 0 ELSE clock + 1),
           starts' = Append(starts, starts[clock + 1] + size)
    PROVE  Carried'
  <1> DEFINE p == IF size = 0 THEN 0 ELSE clock + 1
  <1>1. /\ size \in 0..MaxPacket /\ MaxPacket \in Nat
        /\ clock \in Nat /\ clock' = clock + 1 /\ fed' = fed
        /\ starts \in Seq(Nat) /\ Len(starts) = clock + 1
        /\ starts[clock + 1] + size \in Nat
    <2>1. clock' = clock + 1 /\ fed' = fed
      BY DEF E!Microframe, E!hostVars
    <2>2. starts \in Seq(Nat) /\ Len(starts) = clock + 1 /\ clock \in Nat
      BY EngineTypes DEF Carried, StartsSorted
    <2>3. size \in 0..MaxPacket /\ MaxPacket \in Nat
      BY PartsAssumption, LineAssumption
    <2>4. clock + 1 \in 1..Len(starts)
      BY <2>2
    <2>5. starts[clock + 1] \in Nat
      BY <2>2, <2>4
    <2> QED
      BY <2>1, <2>2, <2>3, <2>5
  <1>2. /\ starts' \in Seq(Nat) /\ Len(starts') = clock' + 1
        /\ starts'[clock + 2] = starts[clock + 1] + size
        /\ \A a \in 1..(clock + 1) : starts'[a] = starts[a] /\ starts[a] \in Nat
    BY <1>1
  <1>3. StartsSorted'
    <2> SUFFICES ASSUME NEW a \in 1..Len(starts'), NEW b \in 1..Len(starts'), a <= b
                 PROVE  starts'[a] <= starts'[b]
      BY <1>2 DEF StartsSorted
    <2>1. CASE b <= clock + 1
      BY <2>1, <1>1, <1>2 DEF Carried, StartsSorted
    <2>2. CASE a = clock + 2 /\ b = clock + 2
      BY <2>2, <1>1, <1>2
    <2>3. CASE a <= clock + 1 /\ b = clock + 2
      <3>1. starts[a] <= starts[clock + 1]
        BY <2>3, <1>1 DEF Carried, StartsSorted
      <3> QED
        BY <3>1, <2>3, <1>1, <1>2
    <2> QED
      BY <2>1, <2>2, <2>3, <1>1, <1>2
  <1>4. ASSUME NEW q, Held(q)
        PROVE  q \in 1..clock' /\ starts'[q + 1] - starts'[q] \in 1..MaxPacket
    <2>1. q \in 1..(clock + 1) /\ q + 1 \in 1..(clock + 1) /\ q \in 1..clock'
      BY <1>1, <1>4 DEF Held
    <2>2. starts'[q] = starts[q] /\ starts'[q + 1] = starts[q + 1]
      BY <1>2, <2>1
    <2> QED
      BY <1>4, <2>1, <2>2 DEF Held
  <1>5. ASSUME p # 0
        PROVE  p \in 1..clock' /\ starts'[p + 1] - starts'[p] \in 1..MaxPacket
    <2>1. p = clock + 1 /\ size \in 1..MaxPacket
      BY <1>1, <1>5
    <2>2. /\ starts'[clock + 1] = starts[clock + 1] /\ starts[clock + 1] \in Nat
          /\ starts'[(clock + 1) + 1] = starts[clock + 1] + size
      BY <1>1, <1>2
    <2> QED
      BY <1>1, <2>1, <2>2
  <1>6. ASSUME NEW x \in 1..NumXfers, NEW k \in 1..NumPackets, packets'[x][k] # 0
        PROVE  packets'[x][k] = packets[x][k] \/ packets'[x][k] = p
    <2>1. CASE kernel = <<>>
      BY <2>1 DEF E!Microframe
    <2>2. CASE kernel # <<>>
      <3> DEFINE y == Head(kernel)
                 now == [packets[y] EXCEPT ![filled + 1] = p]
      <3>1. packets' = [packets EXCEPT ![y] = now]
        BY <2>2 DEF E!Microframe
      <3>2. CASE x = y
        <4>1. packets'[x] = now
          BY <3>1, <3>2, EngineTypes
        <4>2. packets[y] \in [1..NumPackets -> 0..MaxClock]
          BY <3>2, EngineTypes
        <4>3. now[k] = p \/ now[k] = packets[y][k]
          BY <4>2
        <4> QED
          BY <4>1, <4>3, <3>2
      <3>3. CASE x # y
        BY <3>1, <3>3, EngineTypes
      <3> QED
        BY <3>2, <3>3
    <2> QED
      BY <2>1, <2>2
  <1>7. PacketsHeld'
    <2>1. ASSUME NEW x \in 1..NumXfers, NEW k \in 1..NumPackets, packets'[x][k] # 0
          PROVE  /\ packets'[x][k] \in 1..clock'
                 /\ starts'[packets'[x][k] + 1] - starts'[packets'[x][k]] \in 1..MaxPacket
      <3>1. CASE packets'[x][k] = p
        BY <2>1, <3>1, <1>5
      <3>2. CASE packets'[x][k] = packets[x][k]
        <4>1. Held(packets[x][k])
          BY <2>1, <3>2 DEF Carried, PacketsHeld
        <4> QED
          BY <4>1, <3>2, <1>4
      <3> QED
        BY <2>1, <3>1, <3>2, <1>6
    <2>2. ASSUME NEW k \in 1..Len(fed)
          PROVE  fed[k] \in 1..clock' /\ starts'[fed[k] + 1] - starts'[fed[k]] \in 1..MaxPacket
      <3>1. Held(fed[k])
        BY DEF Carried, PacketsHeld
      <3> QED
        BY <3>1, <1>4
    <2> QED
      BY <2>1, <2>2, <1>1 DEF PacketsHeld, Held
  <1> QED
    BY <1>3, <1>7 DEF Carried

\* A failed transfer keeps the packets it had and loses the rest.
LEMMA XferFailsCarried ==
    ASSUME EP!IInv, Carried, E!XferFails, UNCHANGED starts
    PROVE  Carried'
  <1> DEFINE y == Head(kernel)
             now == [k \in 1..NumPackets |-> IF k <= filled THEN packets[y][k] ELSE 0]
  <1>1. /\ packets' = [packets EXCEPT ![y] = now]
        /\ fed' = fed /\ clock' = clock /\ y \in 1..NumXfers
    BY EngineTypes, SMTT(30) DEF E!XferFails, E!hostVars
  <1>2. ASSUME NEW x \in 1..NumXfers, NEW k \in 1..NumPackets
        PROVE  packets'[x][k] = packets[x][k] \/ packets'[x][k] = 0
    <2>1. CASE x = y
      <3>1. packets'[x] = now
        BY <1>1, <2>1, EngineTypes
      <3>2. now[k] = packets[y][k] \/ now[k] = 0
        OBVIOUS
      <3> QED
        BY <3>1, <3>2, <2>1
    <2>2. CASE x # y
      BY <1>1, <2>2, EngineTypes
    <2> QED
      BY <2>1, <2>2
  <1>3. PacketsHeld'
    BY <1>1, <1>2 DEF Carried, PacketsHeld, Held
  <1> QED
    BY <1>1, <1>3 DEF Carried, StartsSorted

\* The callback hands on what its buffer holds.
LEMMA PacketCarried ==
    ASSUME EP!IInv, Carried, E!Packet, UNCHANGED starts
    PROVE  Carried'
  <1>1. /\ i \in 1..NumPackets /\ packets' = packets /\ clock' = clock
        /\ fed' = IF packets[cur][i] > 0 THEN Append(fed, packets[cur][i]) ELSE fed
    BY EngineTypes DEF E!Packet, E!LastPacket, E!usbVars
  <1>2. packets[cur][i] \in 0..MaxClock /\ fed \in Seq(1..MaxClock)
    BY <1>1, EngineTypes
  <1>3. \A k \in 1..Len(fed') : Held(fed'[k])
    <2>1. CASE packets[cur][i] > 0
      <3>1. Held(packets[cur][i])
        <4>1. cur \in 1..NumXfers /\ packets[cur][i] # 0
          BY <2>1, <1>2, EngineTypes
        <4> QED
          BY <4>1, <1>1 DEF Carried, PacketsHeld
      <3>2. fed' = Append(fed, packets[cur][i]) /\ packets[cur][i] \in 1..MaxClock
        BY <2>1, <1>1, <1>2
      <3>3. \A k \in 1..Len(fed') : \/ k <= Len(fed) /\ fed'[k] = fed[k]
                                    \/ fed'[k] = packets[cur][i]
        BY <3>2, <1>2
      <3> QED
        BY <3>1, <3>3, <1>2 DEF Carried, PacketsHeld
    <2>2. CASE ~(packets[cur][i] > 0)
      BY <2>2, <1>1 DEF Carried, PacketsHeld
    <2> QED
      BY <2>1, <2>2
  <1> QED
    BY <1>1, <1>3 DEF Carried, StartsSorted, PacketsHeld, Held

\* The other steps move no packet and send nothing.
LEMMA OtherCarried ==
    ASSUME Carried, UNCHANGED <<packets, fed, clock, starts>>
    PROVE  Carried'
  BY DEF Carried, StartsSorted, PacketsHeld, Held

LEMMA NextCarried == EP!IInv /\ Carried /\ [Next]_vars => Carried'
  <1> SUFFICES ASSUME EP!IInv, Carried, [Next]_vars
               PROVE  Carried'
    OBVIOUS
  <1>1. CASE Host
    <2>1. UNCHANGED <<packets, fed, clock, starts>>
      BY <1>1 DEF Host, E!ReadAsync, E!Submit, E!Reap, E!Resubmit, E!EventsFail,
                  E!hostVars, E!usbVars
    <2> QED
      BY <2>1, OtherCarried
  <1>2. CASE Packet
    BY <1>2, PacketCarried DEF Packet
  <1>3. CASE Scan \/ UNCHANGED vars
    <2>1. UNCHANGED <<packets, fed, clock, starts>>
      BY <1>3 DEF Scan, vars, engine
    <2> QED
      BY <2>1, OtherCarried
  <1>4. CASE Device
    BY <1>4, MicroframeCarried, XferFailsCarried DEF Device
  <1> QED
    BY <1>1, <1>2, <1>3, <1>4 DEF Next

LEMMA AlwaysCarried == Spec => []Carried
  <1>1. Spec => []EP!IInv
    BY EngineBehaves, PTL
  <1> QED
    BY <1>1, InitCarried, NextCarried, PTL DEF Spec

-----------------------------------------------------------------------------
\* The deframer of the receive path.

\* A packet that is handed on carries the bytes of a microframe.
LEMMA PacketFeeds ==
    ASSUME EP!IInv, Carried, E!Packet, fed' # fed
    PROVE  LET q == packets[cur][i]
               n == starts[q + 1] - starts[q]
           IN  /\ q \in 1..clock /\ n \in 1..MaxPacket /\ Held(q)
               /\ fed' = Append(fed, q)
               /\ \A f \in 1..Len(fed) : fed[f] < q
               /\ starts[q] \in Nat /\ starts[q + 1] = starts[q] + n
               /\ Positions(q) \in Seq(Nat) /\ Len(Positions(q)) = n
               /\ \A k \in 1..n : Positions(q)[k] = starts[q] + k - 1
  <1> DEFINE q == packets[cur][i]
             n == starts[q + 1] - starts[q]
  <1>1. /\ i \in 1..NumPackets /\ pc = "callback"
        /\ fed' = IF q > 0 THEN Append(fed, q) ELSE fed
    BY EngineTypes DEF E!Packet, E!LastPacket
  <1>2. q > 0 /\ fed' = Append(fed, q) /\ cur \in 1..NumXfers
    BY <1>1, EngineTypes
  <1>3. q \in 0..MaxClock
    BY <1>1, EngineTypes
  <1>4. Held(q)
    <2>1. q # 0
      BY <1>2, <1>3
    <2> QED
      BY <2>1, <1>1, <1>2 DEF Carried, PacketsHeld
  <1>5. q \in 1..clock /\ n \in 1..MaxPacket /\ MaxPacket \in Nat
    BY <1>4, PartsAssumption DEF Held
  <1>6. \A f \in 1..Len(fed) : fed[f] < q
    <2> SUFFICES ASSUME NEW f \in 1..Len(fed) PROVE fed[f] < q
      OBVIOUS
    <2>1. fed[f] \in 1..MaxClock
      BY EngineTypes
    <2>2. i \in EP!CurSlots
      BY <1>1, EngineTypes DEF EP!CurSlots
    <2>3. EP!Before(fed[f], q)
      BY <2>2 DEF EP!IInv, EP!Ordered, EP!SortedAcross
    <2> QED
      BY <2>1, <2>3, <1>2, <1>3 DEF EP!Before
  <1>7. starts[q] \in Nat /\ starts[q + 1] \in Nat
    <2>1. starts \in Seq(Nat) /\ q \in 1..Len(starts) /\ q + 1 \in 1..Len(starts)
      <3>1. starts \in Seq(Nat) /\ Len(starts) = clock + 1
        BY DEF Carried, StartsSorted
      <3>2. clock \in Nat
        BY EngineTypes
      <3> QED
        BY <3>1, <3>2, <1>5
    <2> QED
      BY <2>1
  <1>8. n \in Nat /\ starts[q + 1] = starts[q] + n
    BY <1>5, <1>7
  <1>9. Positions(q) = [k \in 1..n |-> starts[q] + k - 1]
    BY DEF Positions
  <1>10. /\ Positions(q) \in Seq(Nat) /\ Len(Positions(q)) = n
         /\ \A k \in 1..n : Positions(q)[k] = starts[q] + k - 1
    <2>1. \A k \in 1..n : starts[q] + k - 1 \in Nat
      BY <1>7, <1>8
    <2> HIDE DEF n, q
    <2>2. Positions(q) \in [1..n -> Nat]
      BY <2>1, <1>9
    <2> QED
      BY <2>2, <1>8, <1>9
  <1> QED
    BY <1>2, <1>4, <1>5, <1>6, <1>7, <1>8, <1>10

\* What the callback copies to the deframer is a packet of it.
LEMMA DataIsPacket ==
    ASSUME EP!IInv, Carried, E!Packet, fed' # fed,
           NEW data, data = [k \in DOMAIN Positions(packets[cur][i]) |->
                                 Sent(Positions(packets[cur][i])[k])]
    PROVE  /\ data \in D!Packets
           /\ data \in Seq(D!Byte)
           /\ Len(data) = Len(Positions(packets[cur][i]))
           /\ \A k \in 1..Len(data) : data[k] = Sent(Positions(packets[cur][i])[k])
  <1> DEFINE got == Positions(packets[cur][i])
  <1>1. Len(got) \in 1..MaxPacket /\ got \in Seq(Nat)
    BY PacketFeeds
  <1>2. MaxPacket \in Nat /\ DOMAIN got = 1..Len(got)
    BY <1>1, PartsAssumption
  <1>3. \A x : Sent(x) \in D!Byte
    BY DEF Sent, D!Byte
  <1> HIDE DEF got
  <1>4. data = [k \in 1..Len(got) |-> Sent(got[k])]
    BY <1>2 DEF got
  <1>5. data \in [1..Len(got) -> D!Byte]
    BY <1>3, <1>4
  <1>6. Len(got) \in Nat
    BY <1>1
  <1>7. data \in Seq(D!Byte) /\ Len(data) = Len(got)
    BY <1>5, <1>6
  <1> QED
    BY <1>1, <1>4, <1>5, <1>7 DEF D!Packets, got

\* A step of the receive path is a step of the deframer or leaves it alone.
LEMMA DeframerStep == EP!IInv /\ Carried /\ [Next]_vars => [D!Next]_(D!vars)
  <1> SUFFICES ASSUME EP!IInv, Carried, [Next]_vars
               PROVE  [D!Next]_(D!vars)
    OBVIOUS
  <1>1. CASE Packet
    <2>1. CASE fed' = fed
      BY <1>1, <2>1 DEF Packet, deframer, D!vars
    <2>2. CASE fed' # fed
      <3> DEFINE got  == Positions(packets[cur][i])
                 data == [k \in DOMAIN got |-> Sent(got[k])]
      <3>1. D!Append_(data) /\ E!Packet
        BY <1>1, <2>2 DEF Packet
      <3>2. data \in D!Packets
        BY <3>1, <2>2, DataIsPacket
      <3> QED
        BY <3>1, <3>2 DEF D!Next
    <2> QED
      BY <2>1, <2>2
  <1>2. CASE Scan
    BY <1>2 DEF Scan, D!Next
  <1>3. CASE Host \/ Device \/ UNCHANGED vars
    BY <1>3 DEF Host, Device, vars, deframer, D!vars
  <1> QED
    BY <1>1, <1>2, <1>3 DEF Next

\* Both names of the deframer mean the same.
LEMMA SameDeframer ==
    /\ D!Init => DP!Init
    /\ [D!Next]_(D!vars) => [DP!Next]_(DP!vars)
  <1>1. D!Init => DP!Init
    BY DEF D!Init, DP!Init, D!Index, DP!Index, D!Other, DP!Other
  <1>2. [D!Next]_(D!vars) => [DP!Next]_(DP!vars)
    BY DEF D!Next, DP!Next, D!vars, DP!vars, D!Packets, DP!Packets, D!Byte, DP!Byte,
           D!Mark, DP!Mark, D!Other, DP!Other, D!Index, DP!Index, D!Base, DP!Base,
           D!Append_, DP!Append_, D!Overflows, DP!Overflows, D!Copied, DP!Copied,
           D!Deliver, DP!Deliver, D!Found, DP!Found, D!Complete, DP!Complete,
           D!Past, DP!Past, D!Finish, DP!Finish, D!Moved, DP!Moved
  <1> QED
    BY <1>1, <1>2

\* The deframer of the receive path behaves as the deframer does by itself:
\* what the callback passes it is always a packet it can take.
THEOREM DeframerBehaves ==
    Spec => D!Spec /\ [](DP!IInv /\ DP!Reports /\ DP!WaitsForRest)
  <1>1. Init => D!Init
    BY DEF Init
  <1>2. Spec => []EP!IInv
    BY EngineBehaves, PTL
  <1>3. Spec => D!Spec /\ DP!Spec
    BY <1>1, <1>2, AlwaysCarried, DeframerStep, SameDeframer, PTL
    DEF Spec, D!Spec, DP!Spec
  <1>4. DP!Spec => []DP!IInv
    BY DP!Inductive, PartsAssumed
  <1>5. DP!Spec => [](DP!Reports /\ DP!WaitsForRest)
    BY DP!ReportsAreSections, PartsAssumed
  <1> QED
    BY <1>3, <1>4, <1>5, PTL

-----------------------------------------------------------------------------
\* Where the deframer's bytes come from.

\* The bytes of stream are the device's, in the device's order.
OriginsSorted ==
    /\ origin \in Seq(Nat) /\ Len(origin) = Len(stream)
    /\ \A k \in 1..Len(origin) : stream[k] = Sent(origin[k])
    /\ \A j, k \in 1..Len(origin) : j < k => origin[j] < origin[k]

\* The last of them is the last byte of the last packet fed.
LastFed ==
    /\ \A f \in 1..Len(fed) : fed[f] <= fed[Len(fed)]
    /\ Len(origin) > 0 =>
          /\ Len(fed) > 0
          /\ origin[Len(origin)] + 1 = starts[fed[Len(fed)] + 1]

\* No packet that was fed lies in a gap.
NoneFedInGap ==
    \A k \in Gaps : \A f \in 1..Len(fed) :
        ~(origin[k] < starts[fed[f]] /\ starts[fed[f] + 1] <= origin[k + 1])

Origins == OriginsSorted /\ LastFed /\ NoneFedInGap

\* What concatenation and Append give.
LEMMA ConcatIs ==
    ASSUME NEW S, NEW s \in Seq(S), NEW t \in Seq(S)
    PROVE  /\ s \o t \in Seq(S) /\ Len(s \o t) = Len(s) + Len(t)
           /\ Len(s) \in Nat /\ Len(t) \in Nat
           /\ \A k \in 1..Len(s) : (s \o t)[k] = s[k] /\ s[k] \in S
           /\ \A k \in (Len(s) + 1)..(Len(s) + Len(t)) :
                 (s \o t)[k] = t[k - Len(s)] /\ k - Len(s) \in 1..Len(t)
  OBVIOUS

LEMMA AppendIs ==
    ASSUME NEW S, NEW s \in Seq(S), NEW x \in S
    PROVE  /\ Len(s) \in Nat /\ Len(Append(s, x)) = Len(s) + 1
           /\ Append(s, x)[Len(s) + 1] = x
           /\ \A k \in 1..Len(s) : Append(s, x)[k] = s[k] /\ s[k] \in S
  OBVIOUS

LEMMA InitOrigins == Init => Origins
  BY DEF Init, E!Init, D!Init, Origins, OriginsSorted, LastFed, NoneFedInGap, Gaps

\* The places of packets that were fed do not change.
LEMMA OtherOrigins ==
    ASSUME EP!IInv, Carried, Origins, UNCHANGED <<stream, origin, fed>>,
           \A a \in 1..(clock + 1) : starts'[a] = starts[a]
    PROVE  Origins'
  <1>1. ASSUME NEW f \in 1..Len(fed)
        PROVE  starts'[fed[f]] = starts[fed[f]] /\ starts'[fed[f] + 1] = starts[fed[f] + 1]
    <2>1. Held(fed[f]) /\ clock \in Nat
      BY EngineTypes DEF Carried, PacketsHeld
    <2>2. fed[f] \in 1..(clock + 1) /\ fed[f] + 1 \in 1..(clock + 1)
      BY <2>1 DEF Held
    <2> QED
      BY <2>2
  <1>2. Len(fed) \in Nat
    BY EngineTypes
  <1>3. LastFed'
    <2>1. Len(fed) > 0 => Len(fed) \in 1..Len(fed)
      BY <1>2
    <2> QED
      BY <1>1, <2>1 DEF Origins, LastFed
  <1>4. NoneFedInGap'
    BY <1>1 DEF Origins, NoneFedInGap, Gaps
  <1> QED
    BY <1>3, <1>4 DEF Origins, OriginsSorted

\* A packet that is fed lies behind everything fed before it.
LEMMA FedBehind ==
    ASSUME EP!IInv, Carried, Origins, E!Packet, fed' # fed
    PROVE  LET q == packets[cur][i]
           IN  /\ \A f \in 1..Len(fed) : starts[fed[f] + 1] <= starts[q]
               /\ \A f \in 1..Len(fed) :
                     starts[fed[f]] \in Nat /\ starts[fed[f] + 1] \in Nat
                     /\ starts[fed[f]] < starts[fed[f] + 1]
               /\ \A k \in 1..Len(origin) : origin[k] \in Nat /\ origin[k] < starts[q]
  <1> DEFINE q == packets[cur][i]
  <1>1. q \in 1..clock /\ \A f \in 1..Len(fed) : fed[f] < q
    BY PacketFeeds
  <1>2. clock \in Nat /\ starts \in Seq(Nat) /\ Len(starts) = clock + 1 /\ MaxPacket \in Nat
    BY EngineTypes, PartsAssumption DEF Carried, StartsSorted
  <1> HIDE DEF q
  <1>3. ASSUME NEW f \in 1..Len(fed)
        PROVE  /\ starts[fed[f] + 1] <= starts[q]
               /\ starts[fed[f]] \in Nat /\ starts[fed[f] + 1] \in Nat
               /\ starts[fed[f]] < starts[fed[f] + 1]
    <2>1. Held(fed[f])
      BY DEF Carried, PacketsHeld
    <2>2. /\ fed[f] \in 1..Len(starts) /\ fed[f] + 1 \in 1..Len(starts)
          /\ q \in 1..Len(starts) /\ fed[f] + 1 <= q
      BY <2>1, <1>1, <1>2, SMTT(30) DEF Held
    <2>3. starts[fed[f] + 1] <= starts[q]
      BY <2>2 DEF Carried, StartsSorted
    <2>4. starts[fed[f]] \in Nat /\ starts[fed[f] + 1] \in Nat
      BY <2>2, <1>2
    <2>5. starts[fed[f] + 1] - starts[fed[f]] \in 1..MaxPacket
      BY <2>1 DEF Held
    <2> QED
      BY <2>3, <2>4, <2>5, <1>2
  <1>4. ASSUME NEW k \in 1..Len(origin)
        PROVE  origin[k] \in Nat /\ origin[k] < starts[q]
    <2>1. origin \in Seq(Nat) /\ fed \in Seq(1..MaxClock)
      BY EngineTypes DEF Origins, OriginsSorted
    <2>2. Len(origin) \in 1..Len(origin) /\ Len(origin) > 0
      BY <2>1
    <2>3. /\ Len(fed) > 0 /\ Len(fed) \in Nat
          /\ origin[Len(origin)] + 1 = starts[fed[Len(fed)] + 1]
      BY <2>1, <2>2 DEF Origins, LastFed
    <2>4. Len(fed) \in 1..Len(fed)
      BY <2>3
    <2>5. origin[Len(origin)] + 1 <= starts[q]
      BY <2>3, <2>4, <1>3
    <2>6. k = Len(origin) \/ origin[k] < origin[Len(origin)]
      BY <2>1, <2>2 DEF Origins, OriginsSorted
    <2>7. origin[k] \in Nat /\ origin[Len(origin)] \in Nat
      BY <2>1, <2>2
    <2>8. starts[q] \in Nat
      BY <1>1, <1>2
    <2> QED
      BY <2>5, <2>6, <2>7, <2>8
  <1> QED
    BY <1>3, <1>4 DEF q

\* The callback adds the bytes of its packet, or begins again with them.
LEMMA PacketOrigins ==
    ASSUME EP!IInv, Carried, DP!IInv, Origins, Packet
    PROVE  Origins'
  <1> DEFINE q    == packets[cur][i]
             n    == starts[q + 1] - starts[q]
             got  == Positions(q)
             data == [k \in DOMAIN got |-> Sent(got[k])]
             drop == D!Overflows(Len(data))
             len  == IF drop THEN 0 ELSE Len(origin)
  <1>1. E!Packet /\ starts' = starts
    BY DEF Packet
  <1>2. CASE fed' = fed
    <2>1. UNCHANGED <<stream, origin>>
      BY <1>2 DEF Packet, deframer
    <2> QED
      BY <2>1, <1>1, <1>2, OtherOrigins
  <1>3. CASE fed' # fed
    <2>1. /\ q \in 1..clock /\ n \in Nat \ {0} /\ fed' = Append(fed, q)
          /\ \A f \in 1..Len(fed) : fed[f] < q
          /\ starts[q] \in Nat /\ starts[q + 1] = starts[q] + n
          /\ got \in Seq(Nat) /\ Len(got) = n
          /\ \A k \in 1..n : got[k] = starts[q] + k - 1
      <3>1. MaxPacket \in Nat
        BY PartsAssumption
      <3> QED
        BY <3>1, <1>1, <1>3, PacketFeeds
    <2>2. /\ data \in Seq(D!Byte) /\ Len(data) = n
          /\ \A k \in 1..n : data[k] = Sent(got[k])
      BY <2>1, <1>1, <1>3, DataIsPacket
    <2>3. /\ stream' = IF drop THEN data ELSE stream \o data
          /\ origin' = IF drop THEN got ELSE origin \o got
      BY <1>3 DEF Packet, D!Append_
    <2>4. /\ \A f \in 1..Len(fed) :
                /\ starts[fed[f]] \in Nat /\ starts[fed[f] + 1] \in Nat
                /\ starts[fed[f] + 1] <= starts[q]
                /\ starts[fed[f]] < starts[fed[f] + 1]
          /\ \A k \in 1..Len(origin) : origin[k] \in Nat /\ origin[k] < starts[q]
      BY <1>1, <1>3, FedBehind
    <2>5. /\ origin \in Seq(Nat) /\ Len(origin) = Len(stream) /\ Len(origin) \in Nat
          /\ \A k \in 1..Len(origin) : stream[k] = Sent(origin[k])
          /\ \A j, k \in 1..Len(origin) : j < k => origin[j] < origin[k]
      BY DEF Origins, OriginsSorted
    <2>6. stream \in Seq(D!Byte)
      BY DEF DP!IInv, DP!TypeOK, DP!Byte, D!Byte, DP!Mark, DP!Other, D!Mark, D!Other
    <2>7. /\ fed \in Seq(1..MaxClock) /\ Len(fed) \in Nat /\ q \in Nat
      BY <2>1, EngineTypes, SMTT(30)
    <2> HIDE DEF q, n, got, data, drop
    <2>8. /\ origin \in Seq(Nat) /\ got \in Seq(Nat)
           /\ stream \in Seq(D!Byte) /\ data \in Seq(D!Byte)
      BY <2>1, <2>2, <2>5, <2>6
    <2>9. /\ origin \o got \in Seq(Nat) /\ Len(origin \o got) = Len(origin) + Len(got)
           /\ \A k \in (Len(origin) + 1)..(Len(origin) + Len(got)) :
                 (origin \o got)[k] = got[k - Len(origin)]
      BY <2>8, ConcatIs
    <2>10. /\ Len(stream \o data) = Len(stream) + Len(data)
           /\ \A k \in (Len(stream) + 1)..(Len(stream) + Len(data)) :
                 (stream \o data)[k] = data[k - Len(stream)]
      BY <2>8, ConcatIs
    <2>11. /\ len \in Nat /\ n \in Nat
          /\ origin' \in Seq(Nat) /\ Len(origin') = len + n /\ Len(stream') = len + n
      <3>1. CASE drop
        BY <3>1, <2>1, <2>2, <2>3
      <3>2. CASE ~drop
        <4>1. /\ origin \o got \in Seq(Nat) /\ Len(origin \o got) = Len(origin) + n
          BY <2>1, <2>9
        <4>2. Len(stream \o data) = Len(origin) + n
          BY <2>2, <2>5, <2>10
        <4> QED
          BY <4>1, <4>2, <3>2, <2>1, <2>3, <2>5
      <3> QED
        BY <3>1, <3>2
    <2>12. ASSUME NEW k \in 1..len
          PROVE  /\ k \in 1..Len(origin) /\ ~drop
                 /\ origin'[k] = origin[k] /\ stream'[k] = stream[k]
      BY <2>1, <2>2, <2>3, <2>5, <2>6
    <2>13. ASSUME NEW k \in (len + 1)..(len + n)
           PROVE  /\ origin'[k] = starts[q] + (k - len) - 1
                  /\ stream'[k] = Sent(origin'[k])
      <3>1. k - len \in 1..n
        BY <2>11
      <3>2. origin'[k] = got[k - len] /\ stream'[k] = data[k - len]
        <4>1. CASE drop
          <5>1. k - len = k
            BY <4>1, <2>11
          <5> QED
            BY <5>1, <4>1, <2>3
        <4>2. CASE ~drop
          <5>1. k \in (Len(origin) + 1)..(Len(origin) + n) /\ len = Len(origin)
            BY <4>2
          <5>2. (origin \o got)[k] = got[k - Len(origin)]
            BY <5>1, <2>1, <2>9
          <5>3. (stream \o data)[k] = data[k - Len(origin)]
            BY <5>1, <2>2, <2>5, <2>10
          <5> QED
            BY <5>1, <5>2, <5>3, <4>2, <2>3
        <4> QED
          BY <4>1, <4>2
      <3> QED
        BY <3>1, <3>2, <2>1, <2>2
    <2> HIDE DEF len
    <2>14. starts[q] \in Nat /\ len \in Nat /\ n \in Nat \ {0}
      BY <2>1, <2>11
    <2>15. OriginsSorted'
      <3>1. ASSUME NEW k \in 1..(len + n)
            PROVE  stream'[k] = Sent(origin'[k])
        <4>1. CASE k \in 1..len
          BY <4>1, <2>5, <2>12
        <4>2. CASE k \in (len + 1)..(len + n)
          BY <4>2, <2>13
        <4> QED
          BY <4>1, <4>2, <2>11
      <3>2. ASSUME NEW j \in 1..(len + n), NEW k \in 1..(len + n), j < k
            PROVE  origin'[j] < origin'[k]
        <4>1. CASE k \in 1..len
          <5>1. j \in 1..len
            BY <4>1, <3>2, <2>11
          <5> QED
            BY <4>1, <5>1, <3>2, <2>5, <2>12
        <4>2. CASE j \in 1..len /\ k \in (len + 1)..(len + n)
          <5>1. origin'[j] = origin[j] /\ origin[j] \in Nat /\ origin[j] < starts[q]
            BY <4>2, <2>4, <2>12
          <5>2. origin'[k] = starts[q] + (k - len) - 1
            BY <4>2, <2>13
          <5> QED
            BY <4>2, <5>1, <5>2, <2>14
        <4>3. CASE j \in (len + 1)..(len + n)
          <5>1. k \in (len + 1)..(len + n)
            BY <4>3, <3>2, <2>11
          <5>2. /\ origin'[j] = starts[q] + (j - len) - 1
                /\ origin'[k] = starts[q] + (k - len) - 1
            BY <4>3, <5>1, <2>13
          <5> QED
            BY <4>3, <5>1, <5>2, <3>2, <2>14
        <4> QED
          BY <4>1, <4>2, <4>3, <2>11
      <3>3. \A k \in 1..Len(origin') : stream'[k] = Sent(origin'[k])
        BY <3>1, <2>11
      <3>4. \A j, k \in 1..Len(origin') : j < k => origin'[j] < origin'[k]
        BY <3>2, <2>11
      <3> QED
        BY <3>3, <3>4, <2>11 DEF OriginsSorted, Sent, Line, D!Mark, D!Other
    <2>16. /\ Len(fed') = Len(fed) + 1 /\ fed'[Len(fed) + 1] = q
           /\ \A f \in 1..Len(fed) : fed'[f] = fed[f] /\ fed[f] \in Nat
      <3>1. q \in 1..MaxClock
        BY <2>1, EngineTypes
      <3> DEFINE S == 1..MaxClock
      <3>2. fed \in Seq(S) /\ q \in S
        BY <3>1, <2>7
      <3>3. S \subseteq Nat
        OBVIOUS
      <3> HIDE DEF S
      <3>4. /\ Len(Append(fed, q)) = Len(fed) + 1 /\ Append(fed, q)[Len(fed) + 1] = q
            /\ \A f \in 1..Len(fed) : Append(fed, q)[f] = fed[f] /\ fed[f] \in S
        BY <3>2, AppendIs
      <3> QED
        BY <3>3, <3>4, <2>1
    <2>17. LastFed'
      <3>1. \A f \in 1..Len(fed') : fed'[f] <= fed'[Len(fed')]
        <4>1. \A f \in 1..Len(fed) : fed'[f] < q
          BY <2>1, <2>16
        <4>2. \A f \in 1..Len(fed') : f \in 1..Len(fed) \/ f = Len(fed')
          BY <2>7, <2>16
        <4>3. \A f \in 1..Len(fed) : fed'[f] <= q
          BY <4>1, <2>7, <2>16
        <4> QED
          BY <4>2, <4>3, <2>7, <2>16
      <3>2. Len(origin') \in (len + 1)..(len + n) /\ Len(origin') = len + n
        BY <2>11, <2>1
      <3>3. origin'[Len(origin')] = starts[q] + n - 1
        BY <3>2, <2>11, <2>13, <2>1
      <3>4. origin'[Len(origin')] + 1 = starts'[fed'[Len(fed')] + 1]
        BY <3>3, <2>1, <2>16, <1>1
      <3> QED
        BY <3>1, <3>4, <2>16, <2>7 DEF LastFed
    <2>18. NoneFedInGap'
      <3> SUFFICES ASSUME NEW k \in Gaps', NEW f \in 1..Len(fed'),
                          origin'[k] < starts[fed'[f]],
                          starts[fed'[f] + 1] <= origin'[k + 1]
                   PROVE  FALSE
        BY <1>1 DEF NoneFedInGap
      <3>1. /\ k \in 1..(len + n - 1) /\ k \in 1..(len + n) /\ k + 1 \in 1..(len + n)
            /\ origin'[k + 1] # origin'[k] + 1
        BY <2>11 DEF Gaps
      <3>2. CASE k \in (len + 1)..(len + n)
        <4>1. k + 1 \in (len + 1)..(len + n)
          BY <3>1, <3>2, <2>11
        <4>2. /\ origin'[k] = starts[q] + (k - len) - 1
              /\ origin'[k + 1] = starts[q] + ((k + 1) - len) - 1
          BY <3>2, <4>1, <2>13
        <4> QED
          BY <3>1, <3>2, <4>2, <2>14
      <3>3. CASE k = len
        <4>1. /\ k \in 1..len /\ k + 1 \in (len + 1)..(len + n)
          BY <3>1, <3>3, <2>11
        <4>2. /\ ~drop /\ len = Len(origin) /\ k \in 1..Len(origin)
              /\ origin'[k] = origin[k] /\ origin[k] \in Nat /\ origin[k] < starts[q]
          BY <4>1, <2>4, <2>12 DEF len
        <4>3. origin'[k + 1] = starts[q]
          BY <4>1, <3>3, <2>1, <2>11, <2>13, SMTT(30)
        <4>4. CASE f = Len(fed) + 1
          BY <4>3, <4>4, <2>1, <2>16
        <4>5. CASE f \in 1..Len(fed)
          <5>1. /\ Len(fed) \in 1..Len(fed)
                /\ origin[k] + 1 = starts[fed[Len(fed)] + 1]
            BY <4>2, <4>5, <3>3, <2>7, <2>11 DEF Origins, LastFed
          <5>2. fed[f] <= fed[Len(fed)] /\ Held(fed[f]) /\ Held(fed[Len(fed)])
            BY <4>5, <5>1 DEF Origins, LastFed, Carried, PacketsHeld
          <5>3. /\ fed[f] + 1 \in 1..Len(starts) /\ fed[Len(fed)] + 1 \in 1..Len(starts)
                /\ fed[f] + 1 <= fed[Len(fed)] + 1
            <6>1. Len(starts) = clock + 1 /\ clock \in Nat
              BY EngineTypes DEF Carried, StartsSorted
            <6>2. fed[f] \in 1..clock /\ fed[Len(fed)] \in 1..clock
              BY <5>2 DEF Held
            <6> QED
              BY <5>2, <6>1, <6>2
          <5>4. starts[fed[f] + 1] <= starts[fed[Len(fed)] + 1]
            BY <5>3 DEF Carried, StartsSorted
          <5>5. /\ starts[fed[f]] \in Nat /\ starts[fed[f] + 1] \in Nat
                /\ starts[fed[f]] < starts[fed[f] + 1]
            BY <4>5, <2>4
          <5>6. fed'[f] = fed[f]
            BY <4>5, <2>16
          <5> QED
            BY <5>1, <5>4, <5>5, <5>6, <4>2
        <4> QED
          BY <4>4, <4>5, <2>7, <2>16
      <3>4. CASE k + 1 \in 1..len
        <4>1. k \in 1..len
          BY <3>1, <3>4, <2>11
        <4>2. /\ ~drop /\ k \in 1..Len(origin) /\ k + 1 \in 1..Len(origin)
              /\ origin'[k] = origin[k] /\ origin'[k + 1] = origin[k + 1]
              /\ origin[k + 1] \in Nat /\ origin[k + 1] < starts[q]
          BY <4>1, <3>4, <2>4, <2>12
        <4>3. k \in Gaps
          <5>1. k \in 1..(Len(stream) - 1)
            BY <4>2, <2>5
          <5> QED
            BY <5>1, <4>2, <3>1 DEF Gaps
        <4>4. CASE f = Len(fed) + 1
          BY <4>2, <4>4, <2>1, <2>16, SMTT(30)
        <4>5. CASE f \in 1..Len(fed)
          BY <4>2, <4>3, <4>5, <2>16 DEF Origins, NoneFedInGap
        <4> QED
          BY <4>4, <4>5, <2>7, <2>16
      <3> QED
        BY <3>1, <3>2, <3>3, <3>4, <2>11
    <2> QED
      BY <2>15, <2>17, <2>18 DEF Origins
  <1> QED
    BY <1>2, <1>3

LEMMA NextOrigins ==
    EP!IInv /\ Carried /\ DP!IInv /\ Origins /\ [Next]_vars => Origins'
  <1> SUFFICES ASSUME EP!IInv, Carried, DP!IInv, Origins, [Next]_vars
               PROVE  Origins'
    OBVIOUS
  <1>1. CASE Packet
    BY <1>1, PacketOrigins
  <1>2. CASE Host \/ Scan \/ UNCHANGED vars \/ (Device /\ UNCHANGED starts)
    <2>1. UNCHANGED <<stream, origin, fed, starts>>
      BY <1>2 DEF Host, Scan, D!Deliver, D!Finish, Device, vars, engine, deframer,
                  E!ReadAsync, E!Submit, E!Reap, E!Resubmit, E!EventsFail,
                  E!Microframe, E!XferFails, E!hostVars
    <2> QED
      BY <2>1, OtherOrigins
  <1>3. CASE Device /\ starts' # starts
    <2>1. PICK size \in Sizes :
            /\ E!Microframe(IF size = 0 THEN 0 ELSE clock + 1)
            /\ starts' = Append(starts, starts[clock + 1] + size)
            /\ UNCHANGED deframer
      BY <1>3 DEF Device
    <2>2. UNCHANGED <<stream, origin, fed>>
      BY <2>1 DEF deframer, E!Microframe, E!hostVars
    <2>3. \A a \in 1..(clock + 1) : starts'[a] = starts[a]
      <3>1. starts \in Seq(Nat) /\ Len(starts) = clock + 1
        BY DEF Carried, StartsSorted
      <3> QED
        BY <3>1, <2>1
    <2> QED
      BY <2>2, <2>3, OtherOrigins
  <1> QED
    BY <1>1, <1>2, <1>3 DEF Next

LEMMA AlwaysOrigins == Spec => []Origins
  <1>1. Spec => []EP!IInv /\ []DP!IInv
    BY EngineBehaves, DeframerBehaves, PTL
  <1> QED
    BY <1>1, AlwaysCarried, InitOrigins, NextOrigins, PTL DEF Spec

\* Bytes are glued only over a loss: what a completed transfer holds was fed
\* before the gap or is still to be fed behind the stream.
LEMMA GluedByLoss == EP!IInv /\ Carried /\ Origins => GluedOnlyOverLoss
  <1> SUFFICES ASSUME EP!IInv, Carried, Origins, NEW k \in Gaps
               PROVE  /\ origin[k] < origin[k + 1]
                      /\ \A p \in captured :
                            ~(origin[k] < starts[p] /\ starts[p + 1] <= origin[k + 1])
    BY DEF GluedOnlyOverLoss
  <1>1. /\ origin \in Seq(Nat) /\ Len(origin) = Len(stream) /\ Len(origin) \in Nat
        /\ \A a, b \in 1..Len(origin) : a < b => origin[a] < origin[b]
    BY DEF Origins, OriginsSorted
  <1>2. k \in 1..Len(origin) /\ k + 1 \in 1..Len(origin) /\ Len(origin) \in 1..Len(origin)
    BY <1>1 DEF Gaps
  <1>3. origin[k] < origin[k + 1]
    BY <1>1, <1>2
  <1>4. ASSUME NEW p \in captured, origin[k] < starts[p], starts[p + 1] <= origin[k + 1]
        PROVE  FALSE
    <2>1. CASE \E f \in 1..Len(fed) : fed[f] = p
      BY <2>1, <1>4 DEF Origins, NoneFedInGap
    <2>2. ASSUME p <= clock, \A f \in 1..Len(fed) : EP!Before(fed[f], p)
          PROVE  FALSE
      <3>1. /\ Len(fed) \in 1..Len(fed)
            /\ origin[Len(origin)] + 1 = starts[fed[Len(fed)] + 1]
        <4>1. Len(fed) \in Nat /\ Len(origin) > 0
          BY <1>1, <1>2, EngineTypes, SMTT(30)
        <4> QED
          BY <4>1 DEF Origins, LastFed
      <3> DEFINE last == fed[Len(fed)]
      <3>2. /\ clock \in Nat /\ Len(starts) = clock + 1 /\ starts \in Seq(Nat)
            /\ p \in Nat \ {0}
        BY EngineTypes, SMTT(30) DEF Carried, StartsSorted
      <3>3. last \in 1..clock
        BY <3>1 DEF Carried, PacketsHeld, Held
      <3>4. last < p
        <4>1. EP!Before(last, p)
          BY <3>1, <2>2
        <4> QED
          BY <4>1, <3>2, <3>3 DEF EP!Before
      <3>5. /\ last + 1 \in 1..Len(starts) /\ p \in 1..Len(starts) /\ p + 1 \in 1..Len(starts)
            /\ last + 1 <= p + 1
        BY <2>2, <3>2, <3>3, <3>4, SMTT(30)
      <3>6. starts[last + 1] <= starts[p + 1]
        BY <3>5 DEF Carried, StartsSorted
      <3>7. k + 1 = Len(origin) \/ origin[k + 1] < origin[Len(origin)]
        BY <1>1, <1>2
      <3>8. /\ origin[k + 1] \in Nat /\ origin[Len(origin)] \in Nat
            /\ starts[last + 1] \in Nat /\ starts[p + 1] \in Nat
        <4>1. origin[k + 1] \in Nat /\ origin[Len(origin)] \in Nat
          BY <1>1, <1>2
        <4>2. starts[last + 1] \in Nat /\ starts[p + 1] \in Nat
          BY <3>2, <3>5, SMTT(30)
        <4> QED
          BY <4>1, <4>2
      <3> QED
        BY <1>4, <3>1, <3>6, <3>7, <3>8
    <2>3. CASE \E m \in EP!CurSlots : packets[cur][m] = p
      BY <2>2, <2>3 DEF EP!IInv, EP!Ordered, EP!Bounded, EP!SortedAcross
    <2>4. CASE \E d \in EP!Good : \E m \in 1..NumPackets : packets[done[d]][m] = p
      BY <2>2, <2>4 DEF EP!IInv, EP!Ordered, EP!Bounded, EP!SortedAcross
    <2> QED
      BY <2>1, <2>3, <2>4 DEF EP!IInv, EP!Owed
  <1> QED
    BY <1>3, <1>4

\* Between the bytes of two packets that follow each other in stream, the
\* device sent nothing that a completed transfer holds or held.
THEOREM GluesOnlyOverLoss == Spec => []GluedOnlyOverLoss
  <1>1. Spec => []EP!IInv
    BY EngineBehaves, PTL
  <1> QED
    BY <1>1, AlwaysCarried, AlwaysOrigins, GluedByLoss, PTL

-----------------------------------------------------------------------------
\* The device's lines.

\* The beginning of a section is a mark; the bytes of the frame before it are
\* not, and the next section does not begin inside it.
LEMMA LineNumbers ==
    /\ Line \in Nat \ {0} /\ FrameLen \in Nat /\ SectionLen \in Nat \ {0}
    /\ Line = FrameLen + SectionLen /\ FrameLen >= SectionLen - 1
    /\ Inner \subseteq 1..(SectionLen - 1)
  BY PartsAssumption, LineAssumption DEF Line

LEMMA ModBehind ==
    ASSUME NEW n \in Nat \ {0}, NEW x \in Nat, NEW d \in Nat, d <= x % n
    PROVE  x - d \in Nat /\ (x - d) % n = (x % n) - d
  <1>1. x = n * (x \div n) + (x % n) /\ x % n \in 0..(n - 1) /\ x \div n \in Nat
    OBVIOUS
  <1>2. n * (x \div n) \in Nat
    BY <1>1
  <1>3. x - d \in Nat
    BY <1>1, <1>2
  <1>4. (x - d) % n = (x % n) - d
    OBVIOUS
  <1> QED
    BY <1>3, <1>4

LEMMA ModAhead ==
    ASSUME NEW n \in Nat \ {0}, NEW x \in Nat, NEW d \in Nat, (x % n) + d < n
    PROVE  (x + d) % n = (x % n) + d
  <1>1. x = n * (x \div n) + (x % n) /\ x % n \in 0..(n - 1) /\ x \div n \in Nat
    OBVIOUS
  <1> DEFINE q == x \div n
             r == (x % n) + d
  <1>2. r \in 0..(n - 1) /\ q \in Nat /\ x + d = n * q + r
    BY <1>1
  <1> HIDE DEF q, r
  <1>3. (n * q + r) % n = r
    BY <1>2, SMTT(30)
  <1> QED
    BY <1>2, <1>3 DEF r

LEMMA BeginIsMark ==
    ASSUME NEW x \in Nat, x % Line = FrameLen
    PROVE  Sent(x) = D!Mark
  BY DEF Sent

LEMMA MarkInSection ==
    ASSUME NEW x \in Nat, Sent(x) = D!Mark
    PROVE  x % Line \in FrameLen..(Line - 1)
  <1>1. x % Line \in {FrameLen} \cup {FrameLen + k : k \in Inner}
    BY DEF Sent, D!Mark, D!Other
  <1>2. CASE x % Line = FrameLen
    BY <1>2, LineNumbers
  <1>3. CASE \E k \in Inner : x % Line = FrameLen + k
    BY <1>3, LineNumbers
  <1> QED
    BY <1>1, <1>2, <1>3

LEMMA FrameHasNoMark ==
    ASSUME NEW x \in Nat, x % Line = FrameLen, NEW d \in 1..(SectionLen - 1)
    PROVE  x - d \in Nat /\ Sent(x - d) # D!Mark
  <1>1. d \in Nat /\ d <= x % Line
    BY LineNumbers
  <1>2. x - d \in Nat /\ (x - d) % Line = (x % Line) - d
    BY <1>1, LineNumbers, ModBehind
  <1>3. (x - d) % Line = FrameLen - d
    BY <1>2
  <1> QED
    BY <1>1, <1>2, <1>3, LineNumbers, MarkInSection

LEMMA OneBeginPerSection ==
    ASSUME NEW x \in Nat, x % Line = FrameLen, NEW d \in 1..(SectionLen - 1)
    PROVE  (x + d) % Line # FrameLen
  <1>1. d \in Nat \ {0} /\ (x % Line) + d < Line
    BY LineNumbers
  <1>2. (x + d) % Line = (x % Line) + d
    BY <1>1, LineNumbers, ModAhead
  <1>3. (x + d) % Line = FrameLen + d
    BY <1>2
  <1> QED
    BY <1>1, <1>3, LineNumbers

-----------------------------------------------------------------------------
\* What the deframer reports of them.

\* A stream the deframer is done with: the marks of complete sections lie in
\* reported sections, which do not overlap.
Parsed ==
    /\ OriginsSorted
    /\ \A r \in Reported :
          /\ r \in 1..Len(stream) /\ stream[r] = D!Mark
          /\ r + SectionLen - 1 <= Len(stream)
    /\ \A r, s \in Reported : r < s => r + SectionLen <= s
    /\ \A m \in 1..Len(stream) :
          stream[m] = D!Mark /\ m + SectionLen - 1 <= Len(stream)
            => \E r \in Reported : r <= m /\ m <= r + SectionLen - 1

LEMMA IdleIsParsed ==
    DP!Reports /\ DP!WaitsForRest /\ Origins /\ scanPc = "idle" => Parsed
  <1> SUFFICES ASSUME DP!Reports, DP!WaitsForRest, Origins, scanPc = "idle"
               PROVE  Parsed
    OBVIOUS
  <1> DEFINE cut == DP!Cut
  <1>1. cut \in 0..Len(stream) /\ Len(stream) \in Nat
    BY DEF DP!Reports, Origins, OriginsSorted
  <1>2. D!Mark = DP!Mark
    BY DEF D!Mark, DP!Mark
  <1>3. ASSUME NEW r \in reports
        PROVE  /\ r[1] \in 1..Len(stream) /\ stream[r[1]] = D!Mark
               /\ r[1] + SectionLen - 1 <= cut
    BY <1>2 DEF DP!Reports, DP!ReportsSections
  <1>4. ASSUME NEW m \in 1..Len(stream), stream[m] = D!Mark,
               m + SectionLen - 1 <= Len(stream)
        PROVE  \E r \in reports : r[1] <= m /\ m <= r[1] + SectionLen - 1
    <2>1. m \in 1..cut \/ m \in (cut + 1)..Len(stream)
      BY <1>1
    <2>2. m \notin (cut + 1)..Len(stream)
      BY <1>1, <1>2, <1>4, LineNumbers DEF DP!WaitsForRest
    <2> QED
      BY <2>1, <2>2, <1>2, <1>4 DEF DP!Reports, DP!PassesInSections
  <1> HIDE DEF cut
  <1>5. ASSUME NEW r \in Reported
        PROVE  /\ r \in 1..Len(stream) /\ stream[r] = D!Mark
               /\ r + SectionLen - 1 <= Len(stream)
    <2>1. r \in 1..Len(stream) /\ stream[r] = D!Mark /\ r + SectionLen - 1 <= cut
      BY <1>3 DEF Reported
    <2> QED
      BY <2>1, <1>1, LineNumbers
  <1>6. \A r, s \in Reported : r < s => r + SectionLen <= s
    BY DEF Reported, DP!Reports, DP!ReportsApart
  <1>7. ASSUME NEW m \in 1..Len(stream), stream[m] = D!Mark,
               m + SectionLen - 1 <= Len(stream)
        PROVE  \E r \in Reported : r <= m /\ m <= r + SectionLen - 1
    BY <1>4, <1>7 DEF Reported
  <1> QED
    BY <1>5, <1>6, <1>7 DEF Parsed, Origins

\* Between two bytes of stream without a gap lie the device's bytes between.
LEMMA Contiguous ==
    ASSUME OriginsSorted, NEW a \in 1..Len(stream), NEW b \in 1..Len(stream), a <= b,
           \A k \in a..(b - 1) : k \notin Gaps
    PROVE  /\ origin[b] = origin[a] + (b - a)
           /\ origin[a] \in Nat /\ origin[b] \in Nat
  <1>1. origin \in Seq(Nat) /\ Len(origin) = Len(stream) /\ Len(stream) \in Nat
    BY DEF OriginsSorted
  <1>2. \A c \in 1..Len(stream) : origin[c] \in Nat
    BY <1>1
  <1> DEFINE T == {c \in a..b : origin[c] # origin[a] + (c - a)}
  <1>3. T = {}
    <2> SUFFICES ASSUME T # {} PROVE FALSE
      OBVIOUS
    <2>1. T \in SUBSET Nat
      BY <1>1
    <2>2. PICK c \in T : \A d \in T : c <= d
      BY <2>1, DP!LeastNat, PartsAssumed
    <2>3. c \in a..b /\ origin[c] # origin[a] + (c - a) /\ origin[a] \in Nat
      BY <1>2, <2>2
    <2>4. c # a
      BY <2>3
    <2>5. /\ c - 1 \in a..b /\ c - 1 \in a..(b - 1) /\ c - 1 \in 1..(Len(stream) - 1)
          /\ (c - 1) + 1 = c /\ c \in 1..Len(stream) /\ c - 1 \in 1..Len(stream)
      <3>1. a \in Nat \ {0} /\ b \in Nat /\ c \in Nat /\ a < c /\ c <= b /\ b <= Len(stream)
        BY <1>1, <2>3, <2>4
      <3>2. Len(stream) \in Nat
        BY <1>1
      <3> HIDE DEF T
      <3>3. c - 1 \in Nat /\ a <= c - 1 /\ c - 1 <= b - 1 /\ c - 1 <= Len(stream) - 1
        BY <3>1, <3>2
      <3> QED
        BY <3>1, <3>2, <3>3
    <2>6. c - 1 \notin T
      BY <2>2, <2>5
    <2>7. origin[c - 1] = origin[a] + ((c - 1) - a)
      BY <2>5, <2>6
    <2>8. origin[c] = origin[c - 1] + 1
      <3>1. c - 1 \notin Gaps
        BY <2>5
      <3> QED
        BY <3>1, <2>5 DEF Gaps
    <2> QED
      BY <2>3, <2>5, <2>7, <2>8
  <1>4. b \in a..b
    BY <1>1
  <1> QED
    BY <1>2, <1>3, <1>4

\* The facts about one position that the counting uses.
LEMMA PositionFacts ==
    ASSUME Parsed
    PROVE  /\ Len(stream) \in Nat /\ IsFiniteSet(Gaps) /\ Gaps \subseteq 1..(Len(stream) - 1)
           /\ \A k \in 1..Len(stream) : origin[k] \in Nat /\ stream[k] = Sent(origin[k])
           /\ \A m \in Real : /\ m \in 1..Len(stream) /\ m + SectionLen - 1 <= Len(stream)
                              /\ origin[m] % Line = FrameLen /\ Whole(m)
                              /\ stream[m] = D!Mark
  <1>1. /\ Len(stream) \in Nat /\ origin \in Seq(Nat) /\ Len(origin) = Len(stream)
        /\ \A k \in 1..Len(origin) : stream[k] = Sent(origin[k])
    BY DEF Parsed, OriginsSorted
  <1>2. \A k \in 1..Len(stream) : origin[k] \in Nat /\ stream[k] = Sent(origin[k])
    BY <1>1
  <1>3. Gaps \subseteq 1..(Len(stream) - 1)
    BY DEF Gaps
  <1>4. IsFiniteSet(Gaps)
    <2>1. IsFiniteSet(1..(Len(stream) - 1))
      BY <1>1, FS_Interval
    <2> QED
      BY <2>1, <1>3, FS_Subset
  <1>5. ASSUME NEW m \in Real
        PROVE  /\ m \in 1..Len(stream) /\ m + SectionLen - 1 <= Len(stream)
               /\ origin[m] % Line = FrameLen /\ Whole(m)
               /\ stream[m] = D!Mark
    <2>1. m \in 1..(Len(stream) - SectionLen + 1) /\ origin[m] % Line = FrameLen /\ Whole(m)
      BY DEF Real
    <2>2. m \in 1..Len(stream) /\ m + SectionLen - 1 <= Len(stream)
      BY <2>1, <1>1, LineNumbers
    <2> QED
      BY <2>1, <2>2, <1>2, BeginIsMark
  <1> QED
    BY <1>1, <1>2, <1>3, <1>4, <1>5

\* A reported mark is never a short way before the beginning of a section of
\* the device unless there is a gap between.
LEMMA GapBeforeBegin ==
    ASSUME Parsed, NEW r \in Reported, NEW m \in 1..Len(stream),
           origin[m] % Line = FrameLen, r < m, m <= r + SectionLen - 1
    PROVE  \E g \in Gaps : g \in r..(m - 1)
  <1>1. r \in 1..Len(stream) /\ stream[r] = D!Mark /\ OriginsSorted /\ Len(stream) \in Nat
    BY PositionFacts DEF Parsed
  <1> SUFFICES ASSUME \A k \in r..(m - 1) : k \notin Gaps
               PROVE  FALSE
    OBVIOUS
  <1>2. r <= m
    BY <1>1
  <1>3. origin[m] = origin[r] + (m - r) /\ origin[r] \in Nat /\ origin[m] \in Nat
    BY <1>1, <1>2, Contiguous
  <1>4. m - r \in 1..(SectionLen - 1) /\ origin[r] = origin[m] - (m - r)
    BY <1>1, <1>3, LineNumbers
  <1>5. Sent(origin[m] - (m - r)) # D!Mark
    BY <1>3, <1>4, FrameHasNoMark
  <1> QED
    BY <1>1, <1>4, <1>5, PositionFacts

\* Two whole sections of the device do not overlap in stream.
LEMMA RealApart ==
    ASSUME Parsed, NEW m \in Real, NEW n \in Real, m < n
    PROVE  m + SectionLen <= n
  <1> SUFFICES ASSUME ~(m + SectionLen <= n) PROVE FALSE
    OBVIOUS
  <1>1. /\ m \in 1..Len(stream) /\ n \in 1..Len(stream) /\ Len(stream) \in Nat
        /\ origin[m] % Line = FrameLen /\ origin[n] % Line = FrameLen /\ OriginsSorted
    BY PositionFacts DEF Parsed
  <1>2. n - m \in 1..(SectionLen - 1) /\ m <= n
    BY <1>1, LineNumbers
  <1>3. \A k \in m..(n - 1) : k \notin Gaps
    <2>1. Whole(m)
      BY PositionFacts
    <2>2. m..(n - 1) \subseteq m..(m + SectionLen - 2)
      BY <1>1, <1>2, LineNumbers
    <2> QED
      BY <2>1, <2>2 DEF Whole
  <1>4. origin[n] = origin[m] + (n - m) /\ origin[m] \in Nat
    BY <1>1, <1>2, <1>3, Contiguous
  <1>5. (origin[m] + (n - m)) % Line # FrameLen
    BY <1>1, <1>2, <1>4, OneBeginPerSection
  <1> QED
    BY <1>1, <1>4, <1>5

\* A set each of whose elements has one of T to itself is no larger than T.
LEMMA OneForEach ==
    ASSUME NEW S, NEW T, IsFiniteSet(T), NEW R,
           \A s \in S : \E t \in T : <<s, t>> \in R,
           \A a, b \in S : \A t \in T : <<a, t>> \in R /\ <<b, t>> \in R => a = b
    PROVE  IsFiniteSet(S) /\ Cardinality(S) <= Cardinality(T)
  <1> DEFINE f == [s \in S |-> CHOOSE t \in T : <<s, t>> \in R]
  <1>1. \A s \in S : f[s] \in T /\ <<s, f[s]>> \in R
    OBVIOUS
  <1>2. f \in Injection(S, T)
    BY <1>1 DEF Injection, IsInjective
  <1> QED
    BY <1>2, FS_Injection

-----------------------------------------------------------------------------
\* Sections that are missed.

\* A missed section has a gap just before it.
LEMMA MissedHasGap ==
    ASSUME Parsed, NEW m \in Real \ Reported
    PROVE  \E g \in Gaps : m - SectionLen < g /\ g < m
  <1>1. /\ m \in 1..Len(stream) /\ m + SectionLen - 1 <= Len(stream)
        /\ origin[m] % Line = FrameLen /\ stream[m] = D!Mark /\ Len(stream) \in Nat
    BY PositionFacts
  <1>2. PICK r \in Reported : r <= m /\ m <= r + SectionLen - 1
    BY <1>1 DEF Parsed
  <1>3. r < m /\ r \in 1..Len(stream)
    <2>1. r # m /\ r \in 1..Len(stream)
      BY DEF Parsed
    <2> QED
      BY <2>1, <1>1, <1>2
  <1>4. PICK g \in Gaps : g \in r..(m - 1)
    BY <1>1, <1>2, <1>3, GapBeforeBegin
  <1> QED
    BY <1>1, <1>2, <1>3, <1>4, LineNumbers

LEMMA MissedBound ==
    ASSUME Parsed
    PROVE  Cardinality(Real \ Reported) <= Cardinality(Gaps)
  <1> DEFINE R == {p \in (Real \ Reported) \X Gaps : p[1] - SectionLen < p[2] /\ p[2] < p[1]}
  <1>1. ASSUME NEW m \in Real \ Reported
        PROVE  \E g \in Gaps : <<m, g>> \in R
    BY MissedHasGap
  <1>2. ASSUME NEW a \in Real \ Reported, NEW b \in Real \ Reported, NEW g \in Gaps,
               <<a, g>> \in R, <<b, g>> \in R
        PROVE  a = b
    <2>1. /\ a - SectionLen < g /\ g < a /\ b - SectionLen < g /\ g < b
          /\ a \in Nat /\ b \in Nat /\ g \in Nat
      BY <1>2, PositionFacts
    <2>2. ~(a < b)
      BY <2>1, LineNumbers, RealApart
    <2>3. ~(b < a)
      BY <2>1, LineNumbers, RealApart
    <2> QED
      BY <2>1, <2>2, <2>3
  <1>3. IsFiniteSet(Gaps)
    BY PositionFacts
  <1> HIDE DEF R
  <1> QED
    BY <1>1, <1>2, <1>3, OneForEach

-----------------------------------------------------------------------------
\* Reports that are no section of the device.

\* Those that begin with a section and run into a gap, and those that begin
\* at a mark inside a section.
Torn == {b \in Bogus : origin[b] % Line = FrameLen}
Inside == Bogus \ Torn

LEMMA TornBound ==
    ASSUME Parsed
    PROVE  IsFiniteSet(Torn) /\ Cardinality(Torn) <= Cardinality(Gaps)
  <1> DEFINE R == {p \in Torn \X Gaps : p[1] <= p[2] /\ p[2] < p[1] + SectionLen}
  <1>1. ASSUME NEW b \in Torn
        PROVE  \E g \in Gaps : <<b, g>> \in R
    <2>1. /\ b \in 1..Len(stream) /\ b + SectionLen - 1 <= Len(stream)
          /\ Len(stream) \in Nat /\ origin[b] % Line = FrameLen /\ b \notin Real
      BY PositionFacts DEF Parsed, Torn, Bogus
    <2>2. b \in 1..(Len(stream) - SectionLen + 1)
      BY <2>1, LineNumbers
    <2>3. ~Whole(b)
      BY <2>1, <2>2 DEF Real
    <2>4. PICK g \in b..(b + SectionLen - 2) : g \in Gaps
      BY <2>3 DEF Whole
    <2>5. b <= g /\ g < b + SectionLen
      BY <2>1, <2>4, LineNumbers
    <2> QED
      BY <2>4, <2>5
  <1>2. ASSUME NEW a \in Torn, NEW b \in Torn, NEW g \in Gaps,
               <<a, g>> \in R, <<b, g>> \in R
        PROVE  a = b
    <2>1. a <= g /\ g < a + SectionLen /\ b <= g /\ g < b + SectionLen
      BY <1>2
    <2>2. /\ a \in Nat /\ b \in Nat /\ g \in Nat
          /\ a < b => a + SectionLen <= b
          /\ b < a => b + SectionLen <= a
      BY PositionFacts DEF Parsed, Torn, Bogus
    <2> QED
      BY <2>1, <2>2, LineNumbers
  <1>3. IsFiniteSet(Gaps)
    BY PositionFacts
  <1> HIDE DEF R
  <1> QED
    BY <1>1, <1>2, <1>3, OneForEach

\* Behind a report, a report begins inside a section only over a gap: without
\* one the deframer would have met the beginning of that section.
LEMMA InsideNeedsGap ==
    ASSUME Parsed, NEW a \in Reported, NEW b \in Inside, a < b
    PROVE  \E g \in Gaps : g \in a..(b - 1)
  <1> SUFFICES ASSUME \A k \in a..(b - 1) : k \notin Gaps
               PROVE  FALSE
    OBVIOUS
  <1>1. /\ a \in 1..Len(stream) /\ b \in 1..Len(stream) /\ b \in Reported
        /\ stream[b] = D!Mark /\ b + SectionLen - 1 <= Len(stream)
        /\ a + SectionLen <= b /\ Len(stream) \in Nat /\ OriginsSorted
    BY PositionFacts DEF Parsed, Inside, Bogus
  <1>2. origin[b] \in Nat /\ Sent(origin[b]) = D!Mark /\ origin[b] % Line # FrameLen
    BY <1>1, PositionFacts DEF Inside, Torn
  <1> DEFINE d == (origin[b] % Line) - FrameLen
             s == b - d
  <1>3. origin[b] % Line \in FrameLen..(Line - 1)
    BY <1>2, MarkInSection
  <1>4. d \in 1..(SectionLen - 1) /\ d \in Nat /\ d <= origin[b] % Line
    BY <1>2, <1>3, LineNumbers
  <1>5. (origin[b] - d) % Line = FrameLen
    <2>1. (origin[b] - d) % Line = (origin[b] % Line) - d
      BY <1>2, <1>4, LineNumbers, ModBehind
    <2> QED
      BY <2>1, <1>3, LineNumbers
  <1> HIDE DEF d
  <1>6. s \in 1..Len(stream) /\ a < s /\ s < b /\ s <= b
    BY <1>1, <1>4, LineNumbers
  <1>7. origin[b] = origin[s] + (b - s) /\ origin[s] \in Nat
    <2>1. s..(b - 1) \subseteq a..(b - 1)
      BY <1>1, <1>6
    <2> QED
      BY <2>1, <1>1, <1>6, Contiguous
  <1>8. origin[s] % Line = FrameLen
    <2>1. origin[s] = origin[b] - d
      BY <1>1, <1>2, <1>4, <1>7
    <2> QED
      BY <2>1, <1>5
  <1>9. stream[s] = D!Mark /\ s + SectionLen - 1 <= Len(stream)
    <2>1. stream[s] = D!Mark
      BY <1>6, <1>7, <1>8, PositionFacts, BeginIsMark
    <2>2. s + SectionLen - 1 <= Len(stream)
      BY <1>1, <1>4, <1>6, LineNumbers
    <2> QED
      BY <2>1, <2>2
  <1>10. PICK r \in Reported : r <= s /\ s <= r + SectionLen - 1
    BY <1>6, <1>9 DEF Parsed
  <1>11. r \in 1..Len(stream) /\ (r < b => r + SectionLen <= b) /\ (r < a => r + SectionLen <= a)
    BY <1>1 DEF Parsed
  <1>12. a <= r
    BY <1>1, <1>6, <1>10, <1>11, LineNumbers
  <1>13. r < s
    BY <1>1, <1>4, <1>6, <1>10, <1>11, LineNumbers
  <1>14. PICK g \in Gaps : g \in r..(s - 1)
    BY <1>6, <1>8, <1>10, <1>13, GapBeforeBegin
  <1>15. g \in a..(b - 1)
    BY <1>1, <1>6, <1>11, <1>12, <1>14
  <1> QED
    BY <1>14, <1>15

\* Each has a gap to itself, the last one before it, but the first may have none.
LEMMA InsideBound ==
    ASSUME Parsed
    PROVE  IsFiniteSet(Inside) /\ Cardinality(Inside) <= Cardinality(Gaps) + 1
  <1> DEFINE Before == Gaps \cup {0}
             R == {p \in Inside \X Before :
                      p[2] < p[1] /\ \A h \in Gaps : h < p[1] => h <= p[2]}
  <1>1. /\ Gaps \subseteq Nat /\ IsFiniteSet(Gaps) /\ Inside \subseteq Nat \ {0}
        /\ Inside \subseteq Reported
    BY PositionFacts DEF Parsed, Inside, Bogus
  <1>2. ASSUME NEW b \in Inside
        PROVE  \E g \in Before : <<b, g>> \in R
    <2> DEFINE T == {b - g : g \in {h \in Before : h < b}}
    <2>1. T \in SUBSET Nat /\ T # {}
      <3>1. b \in Nat \ {0} /\ Before \subseteq Nat
        BY <1>1
      <3>2. \A g \in Before : g < b => b - g \in Nat
        BY <3>1
      <3>3. 0 \in Before /\ 0 < b
        BY <3>1
      <3> QED
        BY <3>2, <3>3
    <2>2. PICK c \in T : \A e \in T : c <= e
      BY <2>1, DP!LeastNat, PartsAssumed
    <2>3. PICK g \in Before : g < b /\ c = b - g
      BY <2>2
    <2>4. ASSUME NEW h \in Gaps, h < b
          PROVE  h <= g
      <3>1. b - h \in T
        BY <2>4
      <3>2. b - g <= b - h
        BY <3>1, <2>2, <2>3
      <3> QED
        BY <3>2, <1>1
    <2> QED
      BY <2>3, <2>4
  <1>3. ASSUME NEW a \in Inside, NEW b \in Inside, NEW g \in Before,
               <<a, g>> \in R, <<b, g>> \in R
        PROVE  a = b
    <2>1. /\ g < a /\ g < b
          /\ \A h \in Gaps : h < a => h <= g
          /\ \A h \in Gaps : h < b => h <= g
      BY <1>3
    <2>2. a \in Nat /\ b \in Nat /\ g \in Nat
      BY <1>1
    <2>3. ~(a < b)
      <3> SUFFICES ASSUME a < b PROVE FALSE
        OBVIOUS
      <3>1. PICK h \in Gaps : h \in a..(b - 1)
        BY <1>1, InsideNeedsGap
      <3> QED
        BY <3>1, <2>1, <2>2, <1>1
    <2>4. ~(b < a)
      <3> SUFFICES ASSUME b < a PROVE FALSE
        OBVIOUS
      <3>1. PICK h \in Gaps : h \in b..(a - 1)
        BY <1>1, InsideNeedsGap
      <3> QED
        BY <3>1, <2>1, <2>2, <1>1
    <2> QED
      BY <2>2, <2>3, <2>4
  <1>4. /\ IsFiniteSet(Before)
        /\ Cardinality(Before) = IF 0 \in Gaps THEN Cardinality(Gaps) ELSE Cardinality(Gaps) + 1
    BY <1>1, FS_AddElement
  <1> HIDE DEF R, Before
  <1>5. IsFiniteSet(Inside) /\ Cardinality(Inside) <= Cardinality(Before)
    BY <1>2, <1>3, <1>4, OneForEach
  <1>6. Cardinality(Gaps) \in Nat /\ Cardinality(Inside) \in Nat
    BY <1>1, <1>5, FS_CardinalityType
  <1> QED
    BY <1>4, <1>5, <1>6

LEMMA BogusBound ==
    ASSUME Parsed
    PROVE  Cardinality(Bogus) <= 2 * Cardinality(Gaps) + 1
  <1>1. Bogus = Torn \cup Inside /\ Torn \cap Inside = {}
    BY DEF Torn, Inside
  <1>2. /\ IsFiniteSet(Torn) /\ Cardinality(Torn) <= Cardinality(Gaps)
        /\ IsFiniteSet(Inside) /\ Cardinality(Inside) <= Cardinality(Gaps) + 1
    BY TornBound, InsideBound
  <1>3. Cardinality(Torn \cup Inside)
          = Cardinality(Torn) + Cardinality(Inside) - Cardinality(Torn \cap Inside)
    BY <1>2, FS_Union
  <1>4. Cardinality(Torn \cap Inside) = 0
    BY <1>1, FS_EmptySet
  <1>5. Cardinality(Gaps) \in Nat /\ Cardinality(Torn) \in Nat /\ Cardinality(Inside) \in Nat
    BY <1>2, PositionFacts, FS_CardinalityType
  <1>6. Cardinality(Bogus) = Cardinality(Torn) + Cardinality(Inside)
    BY <1>1, <1>3, <1>4, <1>5
  <1> QED
    BY <1>2, <1>5, <1>6

-----------------------------------------------------------------------------

\* In every state the stream and its reports are as described above.
LEMMA AlwaysParsed == Spec => [](scanPc = "idle" => Parsed)
  BY DeframerBehaves, AlwaysOrigins, IdleIsParsed, PTL

\* A loss of bytes, of which the deframer is not told, costs at most two bogus
\* reports and one section of the device, wherever in the line it falls.
THEOREM LossIsLocal == Spec => []DamageIsLocal
  <1>1. (scanPc = "idle" => Parsed) => DamageIsLocal
    BY BogusBound, MissedBound DEF DamageIsLocal
  <1> QED
    BY <1>1, AlwaysParsed, PTL

\* Without a loss every section of the device is reported, and nothing else
\* but one bogus report before them.
LEMMA CleanIsExact ==
    ASSUME Parsed, Gaps = {}
    PROVE  /\ Real \subseteq Reported
           /\ \A m \in Bogus : \A r \in Real : m < r
  <1>1. Real \subseteq Reported
    BY MissedHasGap
  <1>2. ASSUME NEW m \in Bogus, NEW r \in Real, ~(m < r)
        PROVE  FALSE
    <2>1. r \in Reported /\ m \in Reported /\ m # r
      BY <1>1 DEF Bogus
    <2>2. r < m
      <3>1. m \in Nat /\ r \in Nat
        BY <2>1 DEF Parsed
      <3> QED
        BY <3>1, <2>1, <1>2
    <2>3. m \notin Torn
      <3>1. \A b \in Torn : \E g \in Gaps : TRUE
        <4> SUFFICES ASSUME NEW b \in Torn PROVE \E g \in Gaps : TRUE
          OBVIOUS
        <4>1. b \in 1..Len(stream) /\ b + SectionLen - 1 <= Len(stream) /\ Len(stream) \in Nat
          BY PositionFacts DEF Parsed, Torn, Bogus
        <4>2. b \in 1..(Len(stream) - SectionLen + 1)
          BY <4>1, LineNumbers
        <4>3. ~Whole(b)
          BY <4>2 DEF Real, Torn, Bogus
        <4> QED
          BY <4>3 DEF Whole
      <3> QED
        BY <3>1
    <2>4. m \in Inside
      BY <2>3 DEF Inside
    <2> QED
      BY <2>1, <2>2, <2>4, InsideNeedsGap
  <1> QED
    BY <1>1, <1>2

\* While nothing has been lost, every section of the device that has arrived is
\* reported, and what else is reported comes before the first of them.
THEOREM DeliversSections == Spec => []EndToEnd
  <1>1. (scanPc = "idle" => Parsed) => EndToEnd
    BY CleanIsExact DEF EndToEnd
  <1> QED
    BY <1>1, AlwaysParsed, PTL

=============================================================================
