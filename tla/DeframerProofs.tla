--------------------------- MODULE DeframerProofs ---------------------------
(***************************************************************************)
(* Theorems about Deframer for every buffer size, section length, packet   *)
(* bound and stream length that satisfy SizesAssumption.                   *)
(***************************************************************************)
EXTENDS MCDeframer, WellFoundedInduction, TLAPS

\* The inductive invariant.  BufferIsTail is what makes the offsets of the
\* scan mean positions of the stream; NoResidualSection is what makes a drop
\* cost nothing but the unfinished frame.
IInv ==
    /\ TypeOK
    /\ BufferIsTail
    /\ NoResidualSection
    /\ pc = "idle" => tmpoffset = 0

\* A set of naturals that is not empty has a least element: memchr finds the
\* first mark if there is one.
LEMMA LeastNat ==
    ASSUME NEW T \in SUBSET Nat, T # {}
    PROVE  \E x \in T : \A y \in T : x <= y
  <1>1. \E x \in T : \A y \in T : ~(<<y, x>> \in OpToRel(<, Nat))
    BY NatLessThanWellFounded, WFMin
  <1>2. PICK x \in T : \A y \in T : ~(<<y, x>> \in OpToRel(<, Nat))
    BY <1>1
  <1>3. ASSUME NEW y \in T PROVE x <= y
    <2>1. <<y, x>> \in Nat \X Nat
      OBVIOUS
    <2>2. ~(y < x)
      BY <1>2, <2>1 DEF OpToRel
    <2> QED
      BY <2>2
  <1> QED
    BY <1>3

\* A packet is a non-empty byte sequence no longer than MaxPacket.
LEMMA PacketFacts ==
    ASSUME NEW data \in Packets
    PROVE  /\ data \in Seq(Byte)
           /\ Len(data) \in 1..MaxPacket
           /\ \A i \in 1..Len(data) : data[i] \in Byte
  <1>1. PICK n \in 1..MaxPacket : data \in [1..n -> Byte]
    BY DEF Packets
  <1>2. n \in Nat /\ n >= 1
    BY <1>1, SizesAssumption
  <1>3. data \in Seq(Byte) /\ Len(data) = n
    BY <1>1, <1>2
  <1> QED
    BY <1>1, <1>3

\* Initially the inductive invariant holds.
LEMMA InitIInv == Init => IInv
  BY SizesAssumption
  DEF Init, IInv, TypeOK, BufferIsTail, NoResidualSection, Byte, Index, Base

\* Appending keeps it, whether the safety check drops the buffer or not.
LEMMA AppendIInv ==
    ASSUME IInv, NEW data \in Packets, Append_(data)
    PROVE  IInv'
  <1> USE SizesAssumption, PacketFacts
  <1> DEFINE drop == Overflows(Len(data))
             to == IF drop THEN 0 ELSE work_buflen
  <1>1. /\ to \in 0..BufSize /\ to + Len(data) \in 0..BufSize
        /\ work_buflen \in 0..BufSize /\ Len(data) \in 1..MaxPacket
    BY DEF IInv, TypeOK, Overflows
  <1>2. /\ work_buf' = Copied(to, data)
        /\ work_buflen' = to + Len(data)
        /\ tmpoffset' = 0 /\ pc' = "scan"
        /\ stream' = IF drop THEN data ELSE stream \o data
        /\ calls' = IF drop THEN {} ELSE calls
    BY DEF Append_
  <1>3. /\ stream' \in Seq(Byte)
        /\ drop => Len(stream') = Len(data)
        /\ ~drop => Len(stream') = Len(stream) + Len(data)
    BY <1>2 DEF IInv, TypeOK
  <1>4. work_buf' \in [Index -> Byte]
    <2> SUFFICES ASSUME NEW i \in Index PROVE Copied(to, data)[i] \in Byte
      BY <1>2 DEF Copied
    <2>1. CASE i \in to..(to + Len(data) - 1)
      <3>1. i - to + 1 \in 1..Len(data)
        BY <2>1, <1>1 DEF Index
      <3> QED
        BY <2>1, <3>1 DEF Copied
    <2>2. CASE i \notin to..(to + Len(data) - 1)
      BY <2>2 DEF Copied, IInv, TypeOK
    <2> QED
      BY <2>1, <2>2
  <1>5. TypeOK'
    BY <1>1, <1>2, <1>3, <1>4 DEF IInv, TypeOK
  <1>6. BufferIsTail'
    <2>1. work_buflen' <= Len(stream')
      BY <1>1, <1>2, <1>3 DEF IInv, TypeOK, BufferIsTail
    <2>2. ASSUME NEW i \in 0..(work_buflen' - 1)
          PROVE  work_buf'[i] = stream'[Len(stream') - work_buflen' + i + 1]
      <3>1. i \in Index
        BY <1>1, <1>2 DEF Index
      <3>2. CASE i >= to
        <4>1. work_buf'[i] = data[i - to + 1] /\ i - to + 1 \in 1..Len(data)
          BY <1>1, <1>2, <3>1, <3>2 DEF Copied
        <4>2. CASE drop
          BY <4>1, <4>2, <1>1, <1>2, <1>3
        <4>3. CASE ~drop
          <5>1. Len(stream') - work_buflen' + i + 1 = Len(stream) + (i - to + 1)
            BY <4>3, <1>1, <1>2, <1>3 DEF IInv, TypeOK
          <5>2. (stream \o data)[Len(stream) + (i - to + 1)] = data[i - to + 1]
            BY <4>1 DEF IInv, TypeOK
          <5> QED
            BY <4>1, <4>3, <5>1, <5>2, <1>2
        <4> QED
          BY <4>2, <4>3
      <3>3. CASE i < to
        <4>1. ~drop /\ to = work_buflen /\ i \in 0..(work_buflen - 1)
          BY <3>3, <1>1
        <4>2. work_buf'[i] = work_buf[i]
          BY <1>1, <1>2, <3>1, <3>3 DEF Copied
        <4>3. work_buf[i] = stream[Len(stream) - work_buflen + i + 1]
          BY <4>1 DEF IInv, BufferIsTail, Base
        <4>4. Len(stream) - work_buflen + i + 1 \in 1..Len(stream)
          BY <4>1, <1>1 DEF IInv, TypeOK, BufferIsTail
        <4>5. Len(stream') - work_buflen' + i + 1 = Len(stream) - work_buflen + i + 1
          BY <4>1, <1>1, <1>2, <1>3 DEF IInv, TypeOK
        <4>6. (stream \o data)[Len(stream) - work_buflen + i + 1]
                = stream[Len(stream) - work_buflen + i + 1]
          BY <4>4 DEF IInv, TypeOK
        <4> QED
          BY <4>1, <4>2, <4>3, <4>5, <4>6, <1>2
      <3> QED
        BY <3>2, <3>3, <1>1
    <2> QED
      BY <2>1, <2>2 DEF BufferIsTail, Base
  <1> QED
    BY <1>2, <1>5, <1>6 DEF IInv, NoResidualSection

\* Delivering a section keeps it: the section is complete, so the scan stops
\* at or before the end of the data.
LEMMA DeliverIInv ==
    ASSUME IInv, Deliver
    PROVE  IInv'
  <1>1. PICK ptr \in Index :
          /\ Found(ptr) /\ Complete(ptr)
          /\ calls' = calls \cup {<<Base + ptr + 1, ptr - tmpoffset>>}
          /\ tmpoffset' = Past(ptr)
    BY DEF Deliver
  <1>2. /\ pc = "scan" /\ pc' = pc /\ work_buf' = work_buf
        /\ work_buflen' = work_buflen /\ stream' = stream
    BY DEF Deliver
  <1>3. /\ ptr \in Nat /\ tmpoffset <= ptr /\ ptr < work_buflen
        /\ tmpoffset' = ptr + SectionLen /\ ptr + SectionLen <= work_buflen
    BY <1>1, SizesAssumption DEF IInv, TypeOK, Index, Found, Complete, Past
  <1>4. <<Base + ptr + 1, ptr - tmpoffset>> \in Nat \X Nat
    BY <1>3 DEF IInv, TypeOK, BufferIsTail, Base
  <1>5. TypeOK'
    BY <1>1, <1>2, <1>3, <1>4, SizesAssumption DEF IInv, TypeOK
  <1>6. BufferIsTail'
    BY <1>2 DEF IInv, BufferIsTail, Base
  <1> QED
    BY <1>2, <1>5, <1>6 DEF IInv, NoResidualSection

\* The end of the loop establishes NoResidualSection: the bytes that move to
\* the front are those in which the scan found no complete section.
LEMMA FinishIInv ==
    ASSUME IInv, Finish
    PROVE  IInv'
  <1>1. /\ pc = "scan" /\ pc' = "idle" /\ work_buf' = Moved
        /\ work_buflen' = work_buflen - tmpoffset /\ tmpoffset' = 0
        /\ stream' = stream /\ calls' = calls
        /\ \A ptr \in Index : ~(Found(ptr) /\ Complete(ptr))
    BY DEF Finish
  <1>2. /\ work_buflen \in 0..BufSize /\ tmpoffset \in 0..work_buflen
        /\ BufSize \in Nat /\ work_buflen' \in 0..work_buflen
    BY <1>1, SizesAssumption DEF IInv, TypeOK
  <1>3. ASSUME NEW i \in 0..(work_buflen' - 1)
        PROVE  /\ i \in Index /\ i + tmpoffset \in Index
               /\ i + tmpoffset \in 0..(work_buflen - 1)
               /\ work_buf'[i] = work_buf[i + tmpoffset]
    <2>1. /\ i \in Index /\ i + tmpoffset \in Index
          /\ i + tmpoffset \in 0..(work_buflen - 1) /\ i < work_buflen - tmpoffset
      BY <1>1, <1>2 DEF Index
    <2> QED
      BY <1>1, <2>1 DEF Moved
  <1>4. TypeOK'
    <2>1. work_buf' \in [Index -> Byte]
      <3> SUFFICES ASSUME NEW i \in Index PROVE Moved[i] \in Byte
        BY <1>1 DEF Moved
      <3>1. CASE i < work_buflen - tmpoffset
        BY <3>1, <1>2 DEF Moved, IInv, TypeOK, Index
      <3>2. CASE ~(i < work_buflen - tmpoffset)
        BY <3>2 DEF Moved, IInv, TypeOK
      <3> QED
        BY <3>1, <3>2
    <2> QED
      BY <2>1, <1>1, <1>2 DEF IInv, TypeOK
  <1>5. BufferIsTail'
    <2>1. work_buflen' <= Len(stream')
      BY <1>1, <1>2 DEF IInv, TypeOK, BufferIsTail
    <2>2. ASSUME NEW i \in 0..(work_buflen' - 1)
          PROVE  work_buf'[i] = stream'[Len(stream') - work_buflen' + i + 1]
      <3>1. work_buf[i + tmpoffset] = stream[Len(stream) - work_buflen + (i + tmpoffset) + 1]
        BY <1>3 DEF IInv, BufferIsTail, Base
      <3>2. Len(stream') - work_buflen' + i + 1
              = Len(stream) - work_buflen + (i + tmpoffset) + 1
        BY <1>1, <1>2 DEF IInv, TypeOK
      <3> QED
        BY <1>1, <1>3, <3>1, <3>2
    <2> QED
      BY <2>1, <2>2 DEF BufferIsTail, Base
  <1>6. NoResidualSection'
    <2> SUFFICES ASSUME NEW ptr \in 0..(work_buflen' - 1), work_buf'[ptr] = Mark
                 PROVE  ptr + SectionLen > work_buflen'
      BY DEF NoResidualSection
    <2> DEFINE Marks == {k \in tmpoffset..(work_buflen - 1) : work_buf[k] = Mark}
    <2>1. ptr + tmpoffset \in Marks
      <3>1. ptr + tmpoffset \in tmpoffset..(work_buflen - 1)
        BY <1>1, <1>2
      <3>2. work_buf[ptr + tmpoffset] = Mark
        BY <1>3
      <3> QED
        BY <3>1, <3>2
    <2>2. Marks \in SUBSET Nat /\ Marks # {}
      BY <2>1, <1>2
    <2>3. PICK first \in Marks : \A k \in Marks : first <= k
      BY <2>2, LeastNat
    <2>4. Found(first) /\ first \in Index
      <3>1. \A k \in tmpoffset..(first - 1) : work_buf[k] # Mark
        BY <2>3, <1>2
      <3> QED
        BY <2>3, <3>1, <1>2 DEF Found, Index
    <2>5. ~Complete(first) /\ first <= ptr + tmpoffset
      BY <2>1, <2>3, <2>4, <1>1
    <2> QED
      BY <2>3, <2>5, <1>1, <1>2, SizesAssumption DEF Complete
  <1> QED
    BY <1>1, <1>4, <1>5, <1>6 DEF IInv

\* A step that changes nothing keeps it.
LEMMA StutterIInv == IInv /\ UNCHANGED vars => IInv'
  BY DEF IInv, TypeOK, BufferIsTail, NoResidualSection, Base, vars

\* The inductive invariant holds in every reachable state.
LEMMA Inductive == Spec => []IInv
  <1>1. IInv /\ [Next]_vars => IInv'
    BY AppendIInv, DeliverIInv, FinishIInv, StutterIInv DEF Next
  <1> QED
    BY InitIInv, <1>1, PTL DEF Spec

\* Types and bounds: the write position, the length and the scan position of
\* tvwsdr_deframe_isoch_data stay inside work_buf for all packet sequences.
THEOREM TypeCorrect == Spec => []TypeOK
  BY Inductive, PTL DEF IInv

\* The buffer is always the unread tail of the stream.
THEOREM BufferCorrect == Spec => []BufferIsTail
  BY Inductive, PTL DEF IInv

\* A call never returns with a complete section still in the buffer.
THEOREM ReportsPromptly == Spec => []NoResidualSection
  BY Inductive, PTL DEF IInv

-----------------------------------------------------------------------------

\* When the safety check fires, the frame being waited for is already longer
\* than MaxFrame.
LEMMA DropFacts ==
    ASSUME IInv, NEW data \in Packets, Append_(data), Overflows(Len(data))
    PROVE  /\ work_buflen > MaxFrame
           /\ \A k \in 0..MaxFrame : work_buf[k] # Mark
  <1>1. /\ pc = "idle" /\ work_buflen \in 0..BufSize
        /\ work_buflen + Len(data) > BufSize /\ Len(data) \in 1..MaxPacket
    BY PacketFacts DEF Append_, Overflows, IInv, TypeOK
  <1>2. work_buflen >= MaxFrame + SectionLen /\ MaxFrame \in Nat
    BY <1>1, SizesAssumption DEF MaxFrame
  <1>3. \A k \in 0..MaxFrame : work_buf[k] = Mark => k + SectionLen > work_buflen
    BY <1>1, <1>2, SizesAssumption DEF IInv, NoResidualSection
  <1> QED
    BY <1>1, <1>2, <1>3, SizesAssumption

\* The safety check never costs a section whose frame is at most MaxFrame
\* bytes long (5089 bytes for the sizes of the code).
THEOREM DropsJustified == Spec => DropsOnlyOversized
  <1>1. IInv => [(\E data \in Packets : Append_(data) /\ Overflows(Len(data)))
                   => /\ work_buflen > MaxFrame
                      /\ \A k \in 0..MaxFrame : work_buf[k] # Mark]_vars
    BY DropFacts
  <1> QED
    BY Inductive, <1>1, PTL DEF Spec, DropsOnlyOversized

-----------------------------------------------------------------------------

\* Between calls the abstract stream has nothing to report.
LEMMA IdleNothing ==
    ASSUME IInv, pc = "idle"
    PROVE  Abs!NothingToReport
  <1>1. /\ work_buflen \in 0..BufSize /\ tmpoffset = 0 /\ stream \in Seq(Byte)
        /\ work_buflen <= Len(stream)
    BY DEF IInv, TypeOK, BufferIsTail
  <1> SUFFICES ASSUME NEW m \in (Base + tmpoffset + 1)..Len(stream), stream[m] = Mark,
                      m + SectionLen - 1 <= Len(stream)
               PROVE  FALSE
    BY DEF Abs!NothingToReport, Abs!IsNext
  <1> DEFINE ptr == m - 1 - Base
  <1>2. ptr \in 0..(work_buflen - 1) /\ Base + ptr + 1 = m
    BY <1>1 DEF Base
  <1>3. work_buf[ptr] = Mark
    BY <1>2 DEF IInv, BufferIsTail
  <1>4. ptr + SectionLen > work_buflen
    BY <1>2, <1>3 DEF IInv, NoResidualSection
  <1> QED
    BY <1>1, <1>2, <1>4, SizesAssumption DEF Base

\* A packet that fits is an arrival; one that does not is a restart.
LEMMA AppendMaps ==
    ASSUME IInv, NEW data \in Packets, Append_(data)
    PROVE  Abs!Arrive(data) \/ Abs!Restart(data)
  <1>1. pc = "idle" /\ tmpoffset = 0 /\ tmpoffset' = 0 /\ Abs!NothingToReport
    BY IdleNothing DEF Append_, IInv
  <1>2. /\ work_buflen \in 0..BufSize /\ stream \in Seq(Byte) /\ BufSize \in Nat
        /\ data \in Seq(Byte) /\ Len(data) \in 1..MaxPacket
        /\ work_buflen <= Len(stream)
    BY PacketFacts, SizesAssumption DEF IInv, TypeOK, BufferIsTail
  <1>3. CASE ~Overflows(Len(data))
    <2>1. /\ stream' = stream \o data /\ calls' = calls
          /\ work_buflen' = work_buflen + Len(data)
      BY <1>3 DEF Append_
    <2>2. (Base + tmpoffset)' = Base + tmpoffset
      BY <1>1, <1>2, <2>1 DEF Base
    <2> QED
      BY <1>1, <2>1, <2>2 DEF Abs!Arrive
  <1>4. CASE Overflows(Len(data))
    <2>1. stream' = data /\ calls' = {} /\ work_buflen' = Len(data)
      BY <1>4, <1>2 DEF Append_
    <2>2. (Base + tmpoffset)' = 0
      BY <1>1, <1>2, <2>1 DEF Base
    <2>3. work_buflen > MaxFrame /\ \A k \in 0..MaxFrame : work_buf[k] # Mark
      BY <1>4, DropFacts
    <2>4. MaxFrame \in Nat /\ Len(stream) - (Base + tmpoffset) > MaxFrame
      BY <1>1, <1>2, <2>3, SizesAssumption DEF Base, MaxFrame
    <2>5. ASSUME NEW k \in (Base + tmpoffset + 1)..(Base + tmpoffset + MaxFrame + 1),
                 k <= Len(stream)
          PROVE  stream[k] # Mark
      <3>1. /\ k - 1 - Base \in 0..MaxFrame /\ k - 1 - Base \in 0..(work_buflen - 1)
            /\ Base + (k - 1 - Base) + 1 = k
        BY <1>1, <1>2, <2>4 DEF Base
      <3>2. work_buf[k - 1 - Base] = stream[k]
        BY <3>1 DEF IInv, BufferIsTail
      <3> QED
        BY <2>3, <3>1, <3>2
    <2> QED
      BY <1>1, <2>1, <2>2, <2>4, <2>5 DEF Abs!Restart
  <1> QED
    BY <1>3, <1>4

\* A callback is a report.
LEMMA DeliverMaps ==
    ASSUME IInv, Deliver
    PROVE  Abs!Report
  <1>1. PICK ptr \in Index :
          /\ Found(ptr) /\ Complete(ptr)
          /\ calls' = calls \cup {<<Base + ptr + 1, ptr - tmpoffset>>}
          /\ tmpoffset' = Past(ptr)
    BY DEF Deliver
  <1>2. /\ work_buflen' = work_buflen /\ stream' = stream
        /\ work_buflen \in 0..BufSize /\ tmpoffset \in 0..work_buflen
        /\ stream \in Seq(Byte) /\ work_buflen <= Len(stream)
        /\ SectionLen \in Nat \ {0} /\ BufSize \in Nat
    BY SizesAssumption DEF Deliver, IInv, TypeOK, BufferIsTail
  <1> DEFINE m == Base + ptr + 1
             cut == Base + tmpoffset
  <1>3. ptr \in tmpoffset..(work_buflen - 1) /\ ptr + SectionLen <= work_buflen
    BY <1>1, <1>2 DEF Found, Complete
  <1>4. /\ m \in (cut + 1)..Len(stream) /\ m + SectionLen - 1 <= Len(stream)
        /\ m - 1 - cut = ptr - tmpoffset
    BY <1>2, <1>3 DEF Base
  <1>5. stream[m] = Mark
    BY <1>1, <1>2, <1>3 DEF Found, IInv, BufferIsTail
  <1>6. ASSUME NEW k \in (cut + 1)..(m - 1)
        PROVE  stream[k] # Mark
    <2>1. /\ k - 1 - Base \in tmpoffset..(ptr - 1)
          /\ k - 1 - Base \in 0..(work_buflen - 1) /\ Base + (k - 1 - Base) + 1 = k
      BY <1>2, <1>3 DEF Base
    <2>2. work_buf[k - 1 - Base] = stream[k]
      BY <2>1 DEF IInv, BufferIsTail
    <2> QED
      BY <1>1, <2>1, <2>2 DEF Found
  <1>7. (Base + tmpoffset)' = m + SectionLen - 1
    BY <1>1, <1>2, <1>3 DEF Base, Past
  <1> QED
    BY <1>1, <1>2, <1>4, <1>5, <1>6, <1>7 DEF Abs!Report, Abs!IsNext

\* The end of the loop changes nothing of the abstract stream.
LEMMA FinishMaps ==
    ASSUME IInv, Finish
    PROVE  UNCHANGED Abs!vars
  BY DEF Finish, Abs!vars, Base, IInv, TypeOK

\* tvwsdr_deframe_isoch_data makes the callbacks SectionStream promises: each
\* section of the stream once, in order and as soon as it is complete, for
\* every way of cutting the stream into packets.
THEOREM Implements == Spec => ImplementsSectionStream
  <1>1. Init => Abs!Init
    BY DEF Init, Abs!Init, Base
  <1>2. IInv /\ [Next]_vars => [Abs!Next]_(Abs!vars)
    <2> SUFFICES ASSUME IInv, [Next]_vars
                 PROVE  [Abs!Next]_(Abs!vars)
      OBVIOUS
    <2>1. ASSUME NEW data \in Packets, Append_(data)
          PROVE  Abs!Next
      BY <2>1, AppendMaps DEF Abs!Next, Packets, Abs!Packets
    <2>2. CASE Deliver
      BY <2>2, DeliverMaps DEF Abs!Next
    <2>3. CASE Finish
      BY <2>3, FinishMaps
    <2>4. CASE UNCHANGED vars
      BY <2>4 DEF vars, Abs!vars, Base
    <2> QED
      BY <2>1, <2>2, <2>3, <2>4 DEF Next
  <1> QED
    BY <1>1, <1>2, Inductive, PTL DEF Spec, Abs!Spec, ImplementsSectionStream

-----------------------------------------------------------------------------

\* Position in stream up to which the scan has dealt with it.
Cut == Base + tmpoffset

\* A report is a mark of the stream whose section is complete.
ReportsSections ==
    \A r \in calls :
        /\ r[1] \in 1..Len(stream)
        /\ stream[r[1]] = Mark
        /\ r[1] + SectionLen - 1 <= Cut

\* Two reported sections have no byte in common.
ReportsApart ==
    \A r, s \in calls : r[1] < s[1] => r[1] + SectionLen <= s[1]

\* A mark that the scan has passed lies in a section that was reported.
PassesInSections ==
    \A m \in 1..Cut : stream[m] = Mark =>
        \E r \in calls : r[1] <= m /\ m <= r[1] + SectionLen - 1

\* Between calls the marks behind the cut begin sections that are incomplete.
WaitsForRest ==
    pc = "idle" =>
        \A m \in (Cut + 1)..Len(stream) :
            stream[m] = Mark => m + SectionLen - 1 > Len(stream)

Reports ==
    /\ Cut \in 0..Len(stream)
    /\ ReportsSections /\ ReportsApart /\ PassesInSections

\* The reports stay right when bytes arrive behind the stream.
LEMMA ArriveReports ==
    ASSUME IInv, Reports, NEW data \in Packets, Abs!Arrive(data)
    PROVE  Reports'
  <1>1. /\ stream' = stream \o data /\ calls' = calls /\ Cut' = Cut
        /\ stream \in Seq(Byte) /\ data \in Seq(Byte)
    BY PacketFacts DEF Abs!Arrive, Cut, IInv, TypeOK
  <1>2. /\ Len(stream') = Len(stream) + Len(data)
        /\ \A m \in 1..Len(stream) : stream'[m] = stream[m]
    BY <1>1
  <1>3. Len(stream) \in Nat /\ Len(data) \in Nat
    BY <1>1
  <1>4. Cut \in 0..Len(stream) /\ Cut' \in 0..Len(stream')
    BY <1>1, <1>2, <1>3 DEF Reports
  <1>5. ReportsSections'
    BY <1>1, <1>2, <1>3 DEF Reports, ReportsSections
  <1>6. ReportsApart'
    BY <1>1 DEF Reports, ReportsApart
  <1>7. PassesInSections'
    BY <1>1, <1>2, <1>3, <1>4 DEF Reports, PassesInSections
  <1> QED
    BY <1>4, <1>5, <1>6, <1>7 DEF Reports

\* They stay right when a section is reported: it is the next one, and the
\* scan goes on behind it.
LEMMA ReportReports ==
    ASSUME IInv, Reports, Abs!Report
    PROVE  Reports'
  <1>1. PICK m \in (Cut + 1)..Len(stream) :
          /\ Abs!IsNext(m)
          /\ calls' = calls \cup {<<m, m - 1 - Cut>>}
          /\ Cut' = m + SectionLen - 1
          /\ stream' = stream
    BY DEF Abs!Report, Cut
  <1>2. /\ stream[m] = Mark /\ m + SectionLen - 1 <= Len(stream)
        /\ \A k \in (Cut + 1)..(m - 1) : stream[k] # Mark
    BY <1>1 DEF Abs!IsNext, Cut
  <1>3. /\ Len(stream) \in Nat /\ SectionLen \in Nat \ {0}
        /\ calls \subseteq Nat \X Nat /\ Cut \in 0..Len(stream)
    BY SizesAssumption DEF IInv, TypeOK, Reports
  <1> DEFINE new == <<m, m - 1 - Cut>>
  <1>4. /\ new[1] = m /\ m \in Nat /\ Cut < m /\ m \in 1..Len(stream)
        /\ Cut' \in 0..Len(stream') /\ calls' = calls \cup {new}
    BY <1>1, <1>2, <1>3
  <1>5. ASSUME NEW r \in calls
        PROVE  /\ r[1] \in 1..Len(stream) /\ stream[r[1]] = Mark
               /\ r[1] + SectionLen - 1 <= Cut
    BY DEF Reports, ReportsSections
  <1> HIDE DEF new
  <1>6. ReportsSections'
    <2> SUFFICES ASSUME NEW r \in calls'
                 PROVE  /\ r[1] \in 1..Len(stream) /\ stream[r[1]] = Mark
                        /\ r[1] + SectionLen - 1 <= Cut'
      BY <1>1 DEF ReportsSections
    <2>1. CASE r = new
      BY <2>1, <1>1, <1>2, <1>4
    <2>2. CASE r \in calls
      <3>1. r[1] \in 1..Len(stream) /\ stream[r[1]] = Mark /\ r[1] + SectionLen - 1 <= Cut
        BY <2>2, <1>5
      <3> QED
        BY <3>1, <1>1, <1>3, <1>4
    <2> QED
      BY <2>1, <2>2, <1>4
  <1>7. ReportsApart'
    <2> SUFFICES ASSUME NEW r \in calls', NEW s \in calls', r[1] < s[1]
                 PROVE  r[1] + SectionLen <= s[1]
      BY DEF ReportsApart
    <2>1. CASE r \in calls /\ s \in calls
      BY <2>1 DEF Reports, ReportsApart
    <2>2. CASE r \in calls /\ s = new
      <3>1. r[1] \in 1..Len(stream) /\ r[1] + SectionLen - 1 <= Cut /\ s[1] = m
        BY <2>2, <1>4, <1>5
      <3> QED
        BY <3>1, <1>3, <1>4
    <2>3. CASE r = new /\ s \in calls
      <3>1. s[1] \in 1..Len(stream) /\ s[1] + SectionLen - 1 <= Cut /\ r[1] = m
        BY <2>3, <1>4, <1>5
      <3> QED
        BY <3>1, <1>3, <1>4
    <2>4. CASE r = new /\ s = new
      BY <2>4, <1>4
    <2> QED
      BY <2>1, <2>2, <2>3, <2>4, <1>4
  <1>8. PassesInSections'
    <2> SUFFICES ASSUME NEW k \in 1..Cut', stream[k] = Mark
                 PROVE  \E r \in calls' : r[1] <= k /\ k <= r[1] + SectionLen - 1
      BY <1>1 DEF PassesInSections
    <2>1. CASE k <= Cut
      <3>1. \E r \in calls : r[1] <= k /\ k <= r[1] + SectionLen - 1
        BY <2>1, <1>3 DEF Reports, PassesInSections
      <3> QED
        BY <3>1, <1>1
    <2>2. CASE Cut < k
      <3>1. k \in Nat /\ ~(k <= m - 1) /\ k <= m + SectionLen - 1
        BY <2>2, <1>1, <1>2, <1>3
      <3>2. new \in calls' /\ new[1] <= k /\ k <= new[1] + SectionLen - 1
        BY <3>1, <1>1, <1>4
      <3> QED
        BY <3>2
    <2> QED
      BY <2>1, <2>2, <1>3
  <1> QED
    BY <1>4, <1>6, <1>7, <1>8 DEF Reports

\* A stream begun again has no reports, and nothing else moves them.
LEMMA OtherReports ==
    ASSUME IInv, Reports,
           \/ \E data \in Packets : Abs!Restart(data)
           \/ UNCHANGED Abs!vars
    PROVE  Reports'
  <1>1. CASE UNCHANGED Abs!vars
    <2>1. stream' = stream /\ calls' = calls /\ Cut' = Cut
      BY <1>1 DEF Abs!vars, Cut
    <2> QED
      BY <2>1 DEF Reports, ReportsSections, ReportsApart, PassesInSections
  <1>2. CASE \E data \in Packets : Abs!Restart(data)
    <2>1. PICK data \in Packets : Abs!Restart(data)
      BY <1>2
    <2>2. stream' = data /\ calls' = {} /\ Cut' = 0 /\ Len(data) \in Nat
      BY <2>1, PacketFacts, SizesAssumption DEF Abs!Restart, Cut
    <2> QED
      BY <2>2 DEF Reports, ReportsSections, ReportsApart, PassesInSections
  <1> QED
    BY <1>1, <1>2

\* With no complete section in the buffer, the marks behind the cut wait.
LEMMA IdleWaits == IInv => WaitsForRest
  <1> SUFFICES ASSUME IInv, pc = "idle", NEW m \in (Cut + 1)..Len(stream),
                      stream[m] = Mark
               PROVE  m + SectionLen - 1 > Len(stream)
    BY DEF WaitsForRest
  <1>1. /\ work_buflen \in 0..BufSize /\ tmpoffset = 0 /\ Len(stream) \in Nat
        /\ work_buflen <= Len(stream)
    BY DEF IInv, TypeOK, BufferIsTail
  <1> DEFINE ptr == m - 1 - Base
  <1>2. ptr \in 0..(work_buflen - 1) /\ Base + ptr + 1 = m
    BY <1>1 DEF Base, Cut
  <1>3. work_buf[ptr] = Mark
    BY <1>2 DEF IInv, BufferIsTail
  <1>4. ptr + SectionLen > work_buflen
    BY <1>2, <1>3 DEF IInv, NoResidualSection
  <1> QED
    BY <1>1, <1>2, <1>4, SizesAssumption DEF Base

\* The reports are the sections of the stream, read from its beginning: each
\* is complete and begins with a mark, no two overlap, no mark is passed but
\* inside a reported section, and only incomplete sections wait.
THEOREM ReportsAreSections == Spec => [](Reports /\ WaitsForRest)
  <1>1. Init => Reports
    BY SizesAssumption
    DEF Init, Reports, ReportsSections, ReportsApart, PassesInSections, Cut, Base
  <1>2. IInv /\ Reports /\ [Next]_vars => Reports'
    <2> SUFFICES ASSUME IInv, Reports, [Next]_vars
                 PROVE  Reports'
      OBVIOUS
    <2>1. ASSUME NEW data \in Packets, Append_(data)
          PROVE  Reports'
      BY <2>1, AppendMaps, ArriveReports, OtherReports
    <2>2. CASE Deliver
      BY <2>2, DeliverMaps, ReportReports
    <2>3. CASE Finish
      BY <2>3, FinishMaps, OtherReports
    <2>4. CASE UNCHANGED vars
      <3>1. UNCHANGED Abs!vars
        BY <2>4 DEF vars, Abs!vars, Base
      <3> QED
        BY <3>1, OtherReports
    <2> QED
      BY <2>1, <2>2, <2>3, <2>4 DEF Next
  <1> QED
    BY <1>1, <1>2, Inductive, IdleWaits, PTL DEF Spec

-----------------------------------------------------------------------------

\* S is the set of the starts among the first n bytes of s: the condition
\* that defines Starts, of a set instead of a recursive function.
StartsUpTo(S, n, s) ==
    /\ S \subseteq 1..n
    /\ \A m \in 1..n :
          m \in S <=> s[m] = Mark /\ \A k \in S : k < m => k + SectionLen <= m

\* The right-hand side of the recursion in Starts, at a position and whole.
StartAt(f, s, m) ==
    /\ s[m] = Mark
    /\ \A k \in 1..(m - 1) : f[k] => k + SectionLen <= m

StartRule(f, s) == [m \in 1..Len(s) |-> StartAt(f, s, m)]

\* Such a set exists up to every position: position n only depends on the
\* earlier ones, so there is no least n without one.
LEMMA StartsExist ==
    ASSUME NEW s, Len(s) \in Nat
    PROVE  \E S \in SUBSET Nat : StartsUpTo(S, Len(s), s)
  <1> DEFINE Has(n) == \E S \in SUBSET Nat : StartsUpTo(S, n, s)
             T == {n \in 0..Len(s) : ~Has(n)}
  <1> SUFFICES ASSUME ~Has(Len(s)) PROVE FALSE
    OBVIOUS
  <1>1. T \in SUBSET Nat /\ T # {}
    OBVIOUS
  <1>2. PICK n \in T : \A y \in T : n <= y
    BY <1>1, LeastNat
  <1>3. n # 0
    <2>1. StartsUpTo({}, 0, s)
      BY DEF StartsUpTo
    <2> QED
      BY <2>1, <1>2
  <1>4. n \in 1..Len(s) /\ n - 1 \in 0..Len(s) /\ n - 1 \notin T
    BY <1>2, <1>3
  <1>5. PICK S \in SUBSET Nat : StartsUpTo(S, n - 1, s)
    BY <1>4
  <1> DEFINE starts == s[n] = Mark /\ \A k \in S : k + SectionLen <= n
             S2 == IF starts THEN S \cup {n} ELSE S
  <1>6. S \subseteq 1..(n - 1)
    BY <1>5 DEF StartsUpTo
  <1>7. S2 \in SUBSET Nat /\ S2 \subseteq 1..n
    BY <1>4, <1>6
  <1>8. ASSUME NEW m \in 1..n
        PROVE  m \in S2 <=> s[m] = Mark /\ \A k \in S2 : k < m => k + SectionLen <= m
    <2>1. \A k \in S2 : k < m => k \in S
      BY <1>4
    <2>2. S \subseteq S2
      OBVIOUS
    <2>3. CASE m = n
      <3>1. m \in S2 <=> starts
        BY <2>3, <1>4, <1>6
      <3>2. \A k \in S : k < m
        BY <2>3, <1>4, <1>6
      <3> QED
        BY <2>1, <2>2, <2>3, <3>1, <3>2
    <2>4. CASE m # n
      <3>1. m \in 1..(n - 1) /\ (m \in S2 <=> m \in S)
        BY <2>4, <1>4
      <3>2. m \in S <=> s[m] = Mark /\ \A k \in S : k < m => k + SectionLen <= m
        BY <3>1, <1>5 DEF StartsUpTo
      <3> HIDE DEF S2
      <3> QED
        BY <2>1, <2>2, <3>1, <3>2
    <2> QED
      BY <2>3, <2>4
  <1>9. StartsUpTo(S2, n, s)
    BY <1>7, <1>8 DEF StartsUpTo
  <1> HIDE DEF S2
  <1> QED
    BY <1>2, <1>7, <1>9

\* There is only one: two would differ at a least position, before which
\* they agree.
LEMMA StartsUnique ==
    ASSUME NEW s, NEW n \in Nat, NEW S, NEW R, StartsUpTo(S, n, s), StartsUpTo(R, n, s)
    PROVE  S = R
  <1> DEFINE T == {m \in 1..n : ~(m \in S <=> m \in R)}
  <1> SUFFICES ASSUME T # {} PROVE FALSE
    BY DEF StartsUpTo
  <1>1. T \in SUBSET Nat
    OBVIOUS
  <1>2. PICK m \in T : \A y \in T : m <= y
    BY <1>1, LeastNat
  <1>3. \A k \in S \cup R : k < m => k \in S /\ k \in R
    <2> SUFFICES ASSUME NEW k \in S \cup R, k < m PROVE k \in S /\ k \in R
      OBVIOUS
    <2>1. k \in 1..n
      BY DEF StartsUpTo
    <2>2. k \notin T
      BY <2>1, <1>2
    <2> QED
      BY <2>1, <2>2
  <1>4. /\ m \in S <=> s[m] = Mark /\ \A k \in S : k < m => k + SectionLen <= m
        /\ m \in R <=> s[m] = Mark /\ \A k \in R : k < m => k + SectionLen <= m
    BY <1>2 DEF StartsUpTo
  <1> QED
    BY <1>2, <1>3, <1>4

\* The recursive definition of Starts defines that set.
LEMMA StartsFacts ==
    ASSUME NEW s, Len(s) \in Nat
    PROVE  StartsUpTo(Starts(s), Len(s), s)
  <1> DEFINE start == CHOOSE f : f = StartRule(f, s)
  <1>1. Starts(s) = {m \in 1..Len(s) : start[m]}
    BY DEF Starts, StartRule, StartAt
  <1>2. PICK S \in SUBSET Nat : StartsUpTo(S, Len(s), s)
    BY StartsExist
  <1> DEFINE g == [m \in 1..Len(s) |-> m \in S]
  <1>3. ASSUME NEW m \in 1..Len(s)
        PROVE  (m \in S) = StartAt(g, s, m)
    <2>1. ASSUME NEW k \in 1..(m - 1)
          PROVE  g[k] = (k \in S)
      <3>1. k \in 1..Len(s)
        OBVIOUS
      <3> QED
        BY <3>1, Zenon
    <2>2. ASSUME NEW k \in S
          PROVE  k < m <=> k \in 1..(m - 1)
      <3>1. k \in 1..Len(s)
        BY <1>2 DEF StartsUpTo
      <3> QED
        BY <3>1
    <2>3. m \in S <=> s[m] = Mark /\ \A k \in S : k < m => k + SectionLen <= m
      BY <1>2 DEF StartsUpTo
    <2> HIDE DEF g
    <2>4. StartAt(g, s, m) \in BOOLEAN
      BY DEF StartAt
    <2>5. m \in S <=> StartAt(g, s, m)
      BY <2>1, <2>2, <2>3 DEF StartAt
    <2> QED
      BY <2>4, <2>5
  <1>4. g = StartRule(g, s)
    <2>1. StartRule(g, s) = [m \in 1..Len(s) |-> StartAt(g, s, m)]
      BY Zenon DEF StartRule
    <2>2. g = [m \in 1..Len(s) |-> m \in S]
      BY Zenon
    <2> HIDE DEF g
    <2> QED
      BY <2>1, <2>2, <1>3, Zenon
  <1>5. start = StartRule(start, s)
    BY <1>4
  <1> HIDE DEF start
  <1>6. \A m \in 1..Len(s) :
          start[m] <=> /\ s[m] = Mark
                       /\ \A k \in 1..(m - 1) : start[k] => k + SectionLen <= m
    BY <1>5 DEF StartRule, StartAt
  <1>7. ASSUME NEW m \in 1..Len(s)
        PROVE  m \in Starts(s) <=> s[m] = Mark /\ \A k \in Starts(s) : k < m => k + SectionLen <= m
    <2>1. \A k : k \in Starts(s) /\ k < m <=> k \in 1..(m - 1) /\ start[k]
      BY <1>1
    <2> QED
      BY <1>1, <1>6, <2>1
  <1> QED
    BY <1>1, <1>7 DEF StartsUpTo

\* The length of a report says where the one before it ended: at 0, or at the
\* end of another report, with no report in between.
FrameEnd(r) == r[1] - 1 - r[2]

IsEnd(e) == e = 0 \/ \E q \in calls : e = q[1] + SectionLen - 1

\* The scan stands where the last report ended, and so did each report begin
\* its frame where the one before it had ended.
FramesChained ==
    /\ IsEnd(Cut)
    /\ \A r \in calls :
          /\ FrameEnd(r) \in Nat
          /\ IsEnd(FrameEnd(r))
          /\ \A q \in calls : q[1] < r[1] => q[1] + SectionLen - 1 <= FrameEnd(r)

\* Bytes that arrive do not move the ends of the frames.
LEMMA ArriveFrames ==
    ASSUME IInv, FramesChained, NEW data \in Packets, Abs!Arrive(data)
    PROVE  FramesChained'
  <1>1. calls' = calls /\ Cut' = Cut
    BY DEF Abs!Arrive, Cut
  <1> QED
    BY <1>1 DEF FramesChained, IsEnd, FrameEnd

\* A report's frame begins at the cut, and its section ends at the next.
LEMMA ReportFrames ==
    ASSUME IInv, Reports, FramesChained, Abs!Report
    PROVE  FramesChained'
  <1>1. PICK m \in (Cut + 1)..Len(stream) :
          /\ Abs!IsNext(m)
          /\ calls' = calls \cup {<<m, m - 1 - Cut>>}
          /\ Cut' = m + SectionLen - 1
    BY DEF Abs!Report, Cut
  <1>2. /\ Len(stream) \in Nat /\ SectionLen \in Nat \ {0}
        /\ calls \subseteq Nat \X Nat /\ Cut \in 0..Len(stream)
    BY SizesAssumption DEF IInv, TypeOK, Reports
  <1> DEFINE new == <<m, m - 1 - Cut>>
  <1>3. new[1] = m /\ FrameEnd(new) = Cut /\ m \in Nat /\ Cut < m
    BY <1>1, <1>2 DEF FrameEnd
  <1> HIDE DEF new
  <1>4. calls' = calls \cup {new}
    BY <1>1 DEF new
  <1>5. \A q \in calls : q[1] \in Nat /\ q[1] + SectionLen - 1 <= Cut
    BY <1>2 DEF Reports, ReportsSections
  <1>6. IsEnd(Cut)'
    BY <1>1, <1>3, <1>4 DEF IsEnd
  <1>7. ASSUME NEW r \in calls'
        PROVE  /\ FrameEnd(r) \in Nat
               /\ IsEnd(FrameEnd(r))'
               /\ \A q \in calls' : q[1] < r[1] => q[1] + SectionLen - 1 <= FrameEnd(r)
    <2>1. CASE r = new
      <3>1. IsEnd(Cut)
        BY DEF FramesChained
      <3>2. IsEnd(FrameEnd(r))'
        BY <2>1, <3>1, <1>3, <1>4 DEF IsEnd, FrameEnd
      <3> QED
        BY <2>1, <3>2, <1>2, <1>3, <1>4, <1>5
    <2>2. CASE r \in calls
      <3>1. /\ FrameEnd(r) \in Nat /\ IsEnd(FrameEnd(r))
            /\ \A q \in calls : q[1] < r[1] => q[1] + SectionLen - 1 <= FrameEnd(r)
        BY <2>2 DEF FramesChained
      <3>2. IsEnd(FrameEnd(r))'
        BY <3>1, <1>4 DEF IsEnd, FrameEnd
      <3>3. ~(new[1] < r[1])
        BY <2>2, <1>2, <1>3, <1>5
      <3> QED
        BY <3>1, <3>2, <3>3, <1>4
    <2> QED
      BY <2>1, <2>2, <1>4
  <1> QED
    BY <1>6, <1>7 DEF FramesChained, FrameEnd, IsEnd

\* A stream begun again has no frames yet, and nothing else moves them.
LEMMA OtherFrames ==
    ASSUME IInv, FramesChained,
           \/ \E data \in Packets : Abs!Restart(data)
           \/ UNCHANGED Abs!vars
    PROVE  FramesChained'
  <1>1. CASE UNCHANGED Abs!vars
    <2>1. calls' = calls /\ Cut' = Cut
      BY <1>1 DEF Abs!vars, Cut
    <2> QED
      BY <2>1 DEF FramesChained, IsEnd, FrameEnd
  <1>2. CASE \E data \in Packets : Abs!Restart(data)
    <2>1. calls' = {} /\ Cut' = 0
      BY <1>2 DEF Abs!Restart, Cut
    <2> QED
      BY <2>1 DEF FramesChained, IsEnd
  <1> QED
    BY <1>1, <1>2

\* The chain of frames holds in every reachable state, with what it rests on.
LEMMA FramesInductive == Spec => [](IInv /\ Reports /\ WaitsForRest /\ FramesChained)
  <1>1. Init => FramesChained
    BY SizesAssumption DEF Init, FramesChained, IsEnd, Cut, Base
  <1>2. IInv /\ Reports /\ FramesChained /\ [Next]_vars => FramesChained'
    <2> SUFFICES ASSUME IInv, Reports, FramesChained, [Next]_vars
                 PROVE  FramesChained'
      OBVIOUS
    <2>1. ASSUME NEW data \in Packets, Append_(data)
          PROVE  FramesChained'
      BY <2>1, AppendMaps, ArriveFrames, OtherFrames
    <2>2. CASE Deliver
      BY <2>2, DeliverMaps, ReportFrames
    <2>3. CASE Finish
      BY <2>3, FinishMaps, OtherFrames
    <2>4. CASE UNCHANGED vars
      <3>1. UNCHANGED Abs!vars
        BY <2>4 DEF vars, Abs!vars, Base
      <3> QED
        BY <3>1, OtherFrames
    <2> QED
      BY <2>1, <2>2, <2>3, <2>4 DEF Next
  <1> QED
    BY <1>1, <1>2, Inductive, ReportsAreSections, PTL DEF Spec

-----------------------------------------------------------------------------

\* The first mark behind the cut, if there is one.
Waiting == {m \in (Cut + 1)..Len(stream) :
               stream[m] = Mark /\ \A k \in (Cut + 1)..(m - 1) : stream[k] # Mark}

\* Between calls the starts of the stream are the reported marks and the
\* first mark behind the cut, whose section is not complete.
LEMMA IdleStarts ==
    ASSUME IInv, Reports, WaitsForRest, pc = "idle"
    PROVE  Starts(stream) = {r[1] : r \in calls} \cup Waiting
  <1> DEFINE S == {r[1] : r \in calls} \cup Waiting
  <1>1. /\ Len(stream) \in Nat /\ SectionLen \in Nat \ {0}
        /\ Cut \in 0..Len(stream)
    BY SizesAssumption DEF IInv, TypeOK, Reports
  <1>2. ASSUME NEW r \in calls
        PROVE  /\ r[1] \in 1..Len(stream) /\ stream[r[1]] = Mark
               /\ r[1] + SectionLen - 1 <= Cut
    BY DEF Reports, ReportsSections
  <1>3. ASSUME NEW m \in Waiting
        PROVE  /\ m \in (Cut + 1)..Len(stream) /\ stream[m] = Mark
               /\ m + SectionLen - 1 > Len(stream)
               /\ \A k \in (Cut + 1)..(m - 1) : stream[k] # Mark
    BY DEF Waiting, WaitsForRest
  <1>4. S \subseteq 1..Len(stream)
    BY <1>1, <1>2, <1>3
  <1>5. ASSUME NEW m \in S
        PROVE  stream[m] = Mark /\ \A k \in S : k < m => k + SectionLen <= m
    <2>1. stream[m] = Mark
      BY <1>2, <1>3
    <2> SUFFICES ASSUME NEW k \in S, k < m PROVE k + SectionLen <= m
      BY <2>1
    <2>2. m \in 1..Len(stream) /\ k \in 1..Len(stream)
      BY <1>4
    <2>3. CASE m \in Waiting /\ k \in Waiting
      <3>1. k \in (Cut + 1)..(m - 1) /\ stream[k] = Mark
        BY <2>3, <2>2, <1>1, <1>3
      <3> QED
        BY <2>3, <3>1, <1>3
    <2>4. CASE m \in Waiting /\ k \notin Waiting
      BY <2>4, <2>2, <1>1, <1>2, <1>3
    <2>5. CASE m \notin Waiting /\ k \in Waiting
      BY <2>5, <2>2, <1>1, <1>2, <1>3
    <2>6. CASE m \notin Waiting /\ k \notin Waiting
      <3>1. PICK r \in calls, q \in calls : m = r[1] /\ k = q[1]
        BY <2>6
      <3> QED
        BY <3>1 DEF Reports, ReportsApart
    <2> QED
      BY <2>3, <2>4, <2>5, <2>6
  <1>6. ASSUME NEW m \in 1..Len(stream), stream[m] = Mark, m \notin S
        PROVE  \E k \in S : k < m /\ ~(k + SectionLen <= m)
    <2>1. CASE m <= Cut
      <3>1. PICK r \in calls : r[1] <= m /\ m <= r[1] + SectionLen - 1
        BY <2>1, <1>1, <1>6 DEF Reports, PassesInSections
      <3>2. r[1] \in S /\ r[1] \in Nat /\ r[1] # m
        BY <1>2, <1>6
      <3>3. r[1] < m /\ ~(r[1] + SectionLen <= m)
        BY <3>1, <3>2, <1>1
      <3> HIDE DEF S
      <3> QED
        BY <3>2, <3>3
    <2>2. CASE m > Cut
      <3> DEFINE Marks == {k \in (Cut + 1)..Len(stream) : stream[k] = Mark}
      <3>1. m \in Marks /\ Marks \in SUBSET Nat
        BY <2>2, <1>1, <1>6
      <3>2. PICK first \in Marks : \A k \in Marks : first <= k
        BY <3>1, LeastNat
      <3>3. first \in Waiting
        <4> SUFFICES ASSUME NEW k \in (Cut + 1)..(first - 1) PROVE stream[k] # Mark
          BY DEF Waiting
        <4>1. k \in (Cut + 1)..Len(stream) /\ ~(first <= k)
          BY <1>1, <3>2
        <4> QED
          BY <4>1, <3>2
      <3>4. first < m
        BY <3>1, <3>2, <3>3, <1>6
      <3> QED
        BY <3>3, <3>4, <1>1, <1>3
    <2> QED
      BY <2>1, <2>2, <1>1
  <1> HIDE DEF S
  <1>7. StartsUpTo(S, Len(stream), stream)
    BY <1>4, <1>5, <1>6 DEF StartsUpTo
  <1>8. StartsUpTo(Starts(stream), Len(stream), stream)
    BY <1>1, StartsFacts
  <1>9. Starts(stream) = S
    BY <1>1, <1>7, <1>8, StartsUnique
  <1> QED
    BY <1>9 DEF S

\* The end before a reported mark, as Sections takes it from the whole
\* stream, is where the report's frame begins.
LEMMA IdleEnds ==
    ASSUME IInv, Reports, WaitsForRest, FramesChained, pc = "idle", NEW r \in calls
    PROVE  Max({0} \cup {k + SectionLen - 1 : k \in {j \in Starts(stream) : j < r[1]}})
             = FrameEnd(r)
  <1> DEFINE Ends == {0} \cup {k + SectionLen - 1 : k \in {j \in Starts(stream) : j < r[1]}}
  <1>1. /\ SectionLen \in Nat \ {0} /\ Cut \in Nat /\ r[1] \in Nat /\ r[2] \in Nat
        /\ \A q \in calls : q[1] \in Nat /\ q[1] + SectionLen - 1 <= Cut
    BY SizesAssumption DEF IInv, TypeOK, Reports, ReportsSections
  <1>2. /\ FrameEnd(r) \in Nat /\ IsEnd(FrameEnd(r)) /\ FrameEnd(r) < r[1]
        /\ \A q \in calls : q[1] < r[1] => q[1] + SectionLen - 1 <= FrameEnd(r)
    BY <1>1 DEF FramesChained, FrameEnd
  <1>3. Starts(stream) = {q[1] : q \in calls} \cup Waiting
    BY IdleStarts
  <1>4. \A k \in Starts(stream) : k < r[1] => \E q \in calls : k = q[1]
    <2> SUFFICES ASSUME NEW k \in Waiting PROVE ~(k < r[1])
      BY <1>3
    <2>1. k \in (Cut + 1)..Len(stream) /\ Len(stream) \in Nat
      BY DEF Waiting, IInv, TypeOK
    <2> QED
      BY <2>1, <1>1
  <1>5. FrameEnd(r) \in Ends
    <2>1. CASE FrameEnd(r) = 0
      BY <2>1
    <2>2. CASE \E q \in calls : FrameEnd(r) = q[1] + SectionLen - 1
      <3>1. PICK q \in calls : FrameEnd(r) = q[1] + SectionLen - 1
        BY <2>2
      <3>2. q[1] \in Starts(stream) /\ q[1] < r[1]
        BY <3>1, <1>1, <1>2, <1>3
      <3> QED
        BY <3>1, <3>2
    <2> QED
      BY <2>1, <2>2, <1>2 DEF IsEnd
  <1>6. ASSUME NEW e \in Ends PROVE e \in Nat /\ e <= FrameEnd(r)
    <2>1. CASE e = 0
      BY <2>1, <1>2
    <2>2. CASE e # 0
      <3>1. PICK k \in Starts(stream) : k < r[1] /\ e = k + SectionLen - 1
        BY <2>2
      <3>2. PICK q \in calls : k = q[1]
        BY <3>1, <1>4
      <3> QED
        BY <3>1, <3>2, <1>1, <1>2
    <2> QED
      BY <2>1, <2>2
  <1> HIDE DEF Ends
  <1>7. Max(Ends) \in Ends /\ \A e \in Ends : Max(Ends) >= e
    <2>1. \E x \in Ends : \A y \in Ends : x >= y
      BY <1>2, <1>5, <1>6
    <2> QED
      BY <2>1 DEF Max
  <1>8. Max(Ends) = FrameEnd(r)
    BY <1>2, <1>5, <1>6, <1>7
  <1> QED
    BY <1>8 DEF Ends

\* Between calls the reports are the sections of the whole stream.
LEMMA IdleReports ==
    ASSUME IInv, Reports, WaitsForRest, FramesChained, pc = "idle"
    PROVE  calls = Sections(stream)
  <1> DEFINE EndBefore(m) ==
                 Max({0} \cup {k + SectionLen - 1 : k \in {j \in Starts(stream) : j < m}})
             Whole == {k \in Starts(stream) : k + SectionLen - 1 <= Len(stream)}
  <1>1. Sections(stream) = {<<m, m - 1 - EndBefore(m)>> : m \in Whole}
    BY DEF Sections
  <1>2. /\ Len(stream) \in Nat /\ SectionLen \in Nat \ {0}
        /\ Cut \in 0..Len(stream) /\ calls \subseteq Nat \X Nat
    BY SizesAssumption DEF IInv, TypeOK, Reports
  <1>3. Starts(stream) = {r[1] : r \in calls} \cup Waiting
    BY IdleStarts
  <1>4. Whole = {r[1] : r \in calls}
    <2>1. ASSUME NEW r \in calls PROVE r[1] \in Whole
      <3>1. r[1] \in 1..Len(stream) /\ r[1] + SectionLen - 1 <= Cut
        BY DEF Reports, ReportsSections
      <3> QED
        BY <3>1, <1>2, <1>3
    <2>2. ASSUME NEW m \in Waiting PROVE m \notin Whole
      <3>1. m \in (Cut + 1)..Len(stream) /\ m + SectionLen - 1 > Len(stream)
        BY DEF Waiting, WaitsForRest
      <3> QED
        BY <3>1, <1>2
    <2> QED
      BY <2>1, <2>2, <1>3
  <1>5. ASSUME NEW r \in calls
        PROVE  r = <<r[1], r[1] - 1 - EndBefore(r[1])>>
    <2>1. EndBefore(r[1]) = r[1] - 1 - r[2]
      BY IdleEnds DEF FrameEnd
    <2> HIDE DEF EndBefore
    <2>2. r = <<r[1], r[2]>> /\ r[1] \in Nat /\ r[2] \in Nat
      BY <1>2
    <2>3. r[1] - 1 - EndBefore(r[1]) = r[2]
      BY <2>1, <2>2
    <2> QED
      BY <2>2, <2>3
  <1> HIDE DEF EndBefore, Whole
  <1>6. {<<m, m - 1 - EndBefore(m)>> : m \in Whole}
          = {<<r[1], r[1] - 1 - EndBefore(r[1])>> : r \in calls}
    BY <1>4
  <1>7. {<<r[1], r[1] - 1 - EndBefore(r[1])>> : r \in calls} = calls
    BY <1>5
  <1> QED
    BY <1>1, <1>6, <1>7

\* The callbacks depend on the bytes received and not on how they were cut
\* into packets: between two calls of tvwsdr_deframe_isoch_data they are the
\* sections of the whole stream, each with the length of its frame.
THEOREM CutsDoNotMatter == Spec => []PacketisationFree
  <1>1. IInv /\ Reports /\ WaitsForRest /\ FramesChained => PacketisationFree
    BY IdleReports DEF PacketisationFree
  <1> QED
    BY FramesInductive, <1>1, PTL

=============================================================================
