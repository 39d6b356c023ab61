--------------------------- MODULE I2CMasterProofs ---------------------------
(***************************************************************************)
(* For any sizes of the parts, lengths of the transactions, number of      *)
(* polls and of calls: the type invariant holds, and a call that succeeds  *)
(* put one transaction on the bus, whatever failed before, as long as no   *)
(* answer is left on the endpoint that a read could take for its own.      *)
(***************************************************************************)
EXTENDS I2CMaster, FiniteSetTheorems, SequenceTheorems, TLAPS

-----------------------------------------------------------------------------
\* What the memory of the controller and the bus hold during a call cl: the
\* bytes from a to b, the address with the bytes up to k, START and the address
\* with them.
AddressOf(cl) == <<"address", cl.dir, {}>>
Bytes(a, b) == [i \in 1..(b - a + 1) |-> <<"byte", a + i - 1>>]
Filled(cl, k) == [i \in 1..(k + 1) |-> IF i = 1 THEN AddressOf(cl) ELSE <<"byte", i - 1>>]
OnWire(cl, k) ==
    [i \in 1..(k + 2) |-> IF i = 1 THEN <<"start">>
                          ELSE IF i = 2 THEN AddressOf(cl) ELSE <<"byte", i - 2>>]

\* The bytes in the controller when those up to k of the part from a to b have
\* passed.
Load(cl, a, k, b) == IF cl.dir = "read" THEN Bytes(a, k) ELSE Bytes(k + 1, b)

Stopped(c0, w) == IF "STOP" \in c0 THEN Append(w, <<"stop">>) ELSE w

\* The controller is at rest.
Rest(c0, n, count, f, w) ==
    /\ cntl0 = c0 /\ cntl1 = [n |-> n, count |-> count]
    /\ fifo = f /\ wire = w /\ begun = FALSE

\* It runs the part that takes the bytes from a to b: not yet, in START and the
\* address, or behind byte k;
PartStarts(cl, c0, b) ==
    /\ "START" \in c0
    /\ cntl1 = [n |-> 1, count |-> b]
    /\ fifo = Filled(cl, IF cl.dir = "read" THEN 0 ELSE b)
    /\ begun \in BOOLEAN
    /\ wire = IF begun THEN << <<"start">> >> ELSE << >>

PartBehind(cl, a, k, b) ==
    /\ cntl1 = [n |-> 0, count |-> b - k]
    /\ fifo = Load(cl, a, k, b) /\ wire = OnWire(cl, k)

Part(cl, c0, a, b) ==
    /\ cntl0 = c0 \cup {"GO"}
    /\ \/ PartStarts(cl, c0, b)
       \/ "START" \notin c0 /\ begun = FALSE /\ PartBehind(cl, a, a - 1, b)
       \/ begun = TRUE /\ \E k \in (a - 1)..b : PartBehind(cl, a, k, b)

\* or it has run it.
PartDone(cl, c0, a, b) ==
    Rest(c0 \cup {"DONE"}, 0, 0, Load(cl, a, b, b), Stopped(c0, OnWire(cl, b)))

-----------------------------------------------------------------------------
\* The state in which access p of a read is reached, for every p from 2 on; the
\* access after the last is the return.
FirstLen(cl) == Min2(cl.len, IF cl.dir = "read" THEN ReadChunk ELSE WriteChunk)
Long(cl) == cl.len > (IF cl.dir = "read" THEN ReadChunk ELSE WriteChunk)

ReadFirst == {"START", "RECEIVE"}
ReadSecond == {"RECEIVE", "STOP"}

ReadSetup(cl, p) ==
    /\ p \in 2..8
    /\ out = << >>
    /\ begun = FALSE
    /\ cntl0 = ReadFirst
    /\ wire = << >>
    /\ fifo = IF p > 6 THEN Filled(cl, 0) ELSE << >>
    /\ p \in 3..5 => cntl1 = [n |-> 0, count |-> 0]
    /\ p > 5 => cntl1 = [n |-> 1, count |-> FirstLen(cl)]
    /\ p > 3 => addr = {}
    /\ p \in {4, 8} => ctrl0 = ReadFirst

ReadRun(cl, p) ==
    \/ /\ p = 9 /\ out = << >>
       /\ Part(cl, ReadFirst, 1, FirstLen(cl)) \/ PartDone(cl, ReadFirst, 1, FirstLen(cl))
    \/ /\ p = FirstLen(cl) + 20 /\ Long(cl) /\ out = Bytes(1, FirstLen(cl))
       /\ \/ Part(cl, ReadSecond, FirstLen(cl) + 1, cl.len)
          \/ PartDone(cl, ReadSecond, FirstLen(cl) + 1, cl.len)

ReadFetch(cl, p) ==
    \/ /\ p \in 10..(FirstLen(cl) + 10) /\ out = Bytes(1, p - 10)
       /\ Rest(ReadFirst \cup {"DONE"}, 0, 0, Bytes(p - 9, FirstLen(cl)),
               OnWire(cl, FirstLen(cl)))
    \/ /\ p \in (FirstLen(cl) + 21)..(cl.len + 21) /\ Long(cl) /\ out = Bytes(1, p - 21)
       /\ Rest(ReadSecond \cup {"DONE"}, 0, 0, Bytes(p - 20, cl.len),
               Append(OnWire(cl, cl.len), <<"stop">>))

ReadBetween(cl, q) ==
    /\ q \in 11..19 /\ Long(cl) /\ out = Bytes(1, FirstLen(cl))
    /\ begun = FALSE /\ fifo = << >> /\ wire = OnWire(cl, FirstLen(cl))
    /\ cntl0 = IF q = 11 THEN ReadFirst \cup {"DONE"}
               ELSE IF q < 14 THEN {"RECEIVE"} ELSE ReadSecond
    /\ cntl1 = [n |-> 0, count |-> IF q < 18 THEN 0 ELSE cl.len - FirstLen(cl)]
    /\ q \in 15..17 => ctrl1 = [n |-> 0, count |-> 0]
    /\ q = 11 => ctrl0 = ReadFirst \cup {"DONE"}
    /\ q \in 12..13 => ctrl0 = {"RECEIVE", "DONE"}
    /\ q = 19 => ctrl0 = ReadSecond

ReadAt(cl, p) ==
    ReadSetup(cl, p) \/ ReadRun(cl, p) \/ ReadFetch(cl, p) \/ ReadBetween(cl, p - FirstLen(cl))

-----------------------------------------------------------------------------
\* The same for a write.
WriteFirst(cl) == IF Long(cl) THEN {"START"} ELSE {"START", "STOP"}

WriteSetup(cl, p) ==
    /\ p \in 2..10
    /\ begun = FALSE
    /\ fifo = << >> /\ wire = << >>
    /\ cntl0 = IF p < 6 THEN {"START"} ELSE WriteFirst(cl)
    /\ p \in 3..7 => cntl1 = [n |-> 0, count |-> 0]
    /\ p \in 8..9 => cntl1 = [n |-> 1, count |-> 0]
    /\ p = 10 => cntl1 = [n |-> 1, count |-> FirstLen(cl)]
    /\ p = 7 => ctrl1 = [n |-> 0, count |-> 0]
    /\ p = 9 => ctrl1 = [n |-> 1, count |-> 0]
    /\ p > 4 => addr = {}
    /\ p = 5 => ctrl0 = {"START"}

WriteSend(cl, p) ==
    \/ /\ p \in 11..(FirstLen(cl) + 11)
       /\ Rest(WriteFirst(cl), 1, FirstLen(cl), Filled(cl, p - 11), << >>)
    \/ /\ p \in (FirstLen(cl) + 21)..(cl.len + 21) /\ Long(cl)
       /\ Rest({"STOP"}, 0, cl.len - FirstLen(cl), Bytes(FirstLen(cl) + 1, p - 21),
               OnWire(cl, FirstLen(cl)))

WriteRun(cl, p) ==
    \/ /\ p = FirstLen(cl) + 12 /\ ctrl0 = WriteFirst(cl)
       /\ Rest(WriteFirst(cl), 1, FirstLen(cl), Filled(cl, FirstLen(cl)), << >>)
    \/ /\ p = FirstLen(cl) + 13 /\ ctrl0 = WriteFirst(cl) \cup {"GO"}
       /\ \/ Part(cl, WriteFirst(cl), 1, FirstLen(cl))
          \/ PartDone(cl, WriteFirst(cl), 1, FirstLen(cl))
    \/ /\ p = FirstLen(cl) + 14 /\ ctrl0 = WriteFirst(cl) \cup {"GO"}
       /\ PartDone(cl, WriteFirst(cl), 1, FirstLen(cl))
    \/ /\ p = cl.len + 22 /\ Long(cl) /\ ctrl0 = {"STOP"}
       /\ Rest({"STOP"}, 0, cl.len - FirstLen(cl), Bytes(FirstLen(cl) + 1, cl.len),
               OnWire(cl, FirstLen(cl)))
    \/ /\ p = cl.len + 23 /\ Long(cl)
       /\ \/ Part(cl, {"STOP"}, FirstLen(cl) + 1, cl.len)
          \/ PartDone(cl, {"STOP"}, FirstLen(cl) + 1, cl.len)
    \/ /\ p = cl.len + 24 /\ Long(cl)
       /\ PartDone(cl, {"STOP"}, FirstLen(cl) + 1, cl.len)

WriteBetween(cl, q) ==
    /\ q \in 15..20 /\ Long(cl)
    /\ Rest(IF q < 17 THEN {} ELSE {"STOP"}, 0, 0, << >>, OnWire(cl, FirstLen(cl)))
    /\ q = 16 => ctrl0 = {}
    /\ q \in 18..20 => ctrl1 = [n |-> 0, count |-> 0]

WriteAt(cl, p) ==
    WriteSetup(cl, p) \/ WriteSend(cl, p) \/ WriteRun(cl, p) \/ WriteBetween(cl, p - FirstLen(cl))

-----------------------------------------------------------------------------
\* The number of accesses of a call.
Last(cl) ==
    IF cl.dir = "read" THEN IF Long(cl) THEN cl.len + 20 ELSE FirstLen(cl) + 9
    ELSE IF Long(cl) THEN cl.len + 23 ELSE FirstLen(cl) + 13

\* The access that is reached, 0 when a call failed or none was made.
Reached(cl, p) == p = IF pc = 0 /\ ret = 0 THEN Last(cl) + 1 ELSE pc

\* The access that reads CNTL_0 for the address.
AddrAt(cl) == IF cl.dir = "read" THEN 3 ELSE 4

At(cl, p) == IF cl.dir = "read" THEN ReadAt(cl, p) ELSE WriteAt(cl, p)

\* Control is in the running call; the reset is not repeated; and until the chip
\* refuses a byte the state is the one described above.
Orderly ==
    \E cl \in Calls : \E p \in 0..(Last(cl) + 1) :
       /\ call = cl
       /\ Reached(cl, p)
       /\ pc \in 0..Last(cl)
       /\ "SOFT_RST" \notin cntl0
       /\ "SOFT_RST" \in ctrl0 => p <= AddrAt(cl)
       /\ p = 1 => out = << >> /\ ctrl0 = {}
       /\ p > 1 /\ ~nacked => At(cl, p)

-----------------------------------------------------------------------------
\* Numbers and sequences.

LEMMA Numbers ==
    ASSUME NEW cl \in Calls
    PROVE  /\ cl.dir \in {"read", "write"}
           /\ cl.len \in Nat /\ FirstLen(cl) \in 1..255 /\ FirstLen(cl) <= cl.len
           /\ Long(cl) => /\ FirstLen(cl) = IF cl.dir = "read" THEN ReadChunk ELSE WriteChunk
                          /\ cl.len - FirstLen(cl) \in 1..255
           /\ ~Long(cl) => FirstLen(cl) = cl.len
  <1> DEFINE chunk == IF cl.dir = "read" THEN ReadChunk ELSE WriteChunk
  <1>1. \/ cl.dir = "read" /\ cl.len \in ReadLens
        \/ cl.dir = "write" /\ cl.len \in WriteLens
    BY DEF Calls
  <1>2. cl.dir \in {"read", "write"} /\ cl.len \in 1..(2 * chunk) /\ chunk \in 1..255
    BY <1>1, ChunkAssumption
  <1>3. FirstLen(cl) = Min2(cl.len, chunk) /\ (Long(cl) <=> cl.len > chunk)
    BY DEF FirstLen, Long
  <1> HIDE DEF chunk
  <1>4. /\ cl.len \in Nat /\ FirstLen(cl) \in 1..255 /\ FirstLen(cl) <= cl.len
        /\ Long(cl) => FirstLen(cl) = chunk /\ cl.len - FirstLen(cl) \in 1..255
        /\ ~Long(cl) => FirstLen(cl) = cl.len
    BY <1>2, <1>3 DEF Min2
  <1> QED
    BY <1>2, <1>4 DEF chunk

Byte(k) == <<"byte", k>>

LEMMA BytesSeq ==
    ASSUME NEW a \in Nat \ {0}, NEW b \in Nat, a <= b + 1
    PROVE  /\ Append(Bytes(a, b), <<"byte", b + 1>>) = Bytes(a, b + 1)
           /\ a <= b => /\ Bytes(a, b) # << >>
                        /\ Head(Bytes(a, b)) = <<"byte", a>>
                        /\ Tail(Bytes(a, b)) = Bytes(a + 1, b)
           /\ a = b + 1 => Bytes(a, b) = << >>
  <1> DEFINE S == {Byte(x) : x \in Int}
             s == Bytes(a, b)
  <1>1. s \in Seq(S) /\ Len(s) = b - a + 1 /\ \A i \in 1..(b - a + 1) : s[i] = Byte(a + i - 1)
    BY DEF Bytes, Byte
  <1>2. Bytes(a, b + 1) \in Seq(S) /\ Len(Bytes(a, b + 1)) = b - a + 2
        /\ \A i \in 1..(b - a + 2) : Bytes(a, b + 1)[i] = Byte(a + i - 1)
    BY DEF Bytes, Byte
  <1>3. Append(s, Byte(b + 1)) = Bytes(a, b + 1)
    <2>1. Append(s, Byte(b + 1)) \in Seq(S) /\ Len(Append(s, Byte(b + 1))) = b - a + 2
          /\ \A i \in 1..(b - a + 2) : Append(s, Byte(b + 1))[i] = Byte(a + i - 1)
      BY <1>1, SMTT(30)
    <2> QED
      BY <2>1, <1>2, SeqEqual
  <1>4. ASSUME a <= b
        PROVE  s # << >> /\ Head(s) = Byte(a) /\ Tail(s) = Bytes(a + 1, b)
    <2>1. s # << >> /\ Head(s) = Byte(a)
      BY <1>1, <1>4
    <2>2. Tail(s) \in Seq(S) /\ Len(Tail(s)) = b - a
          /\ \A i \in 1..(b - a) : Tail(s)[i] = Byte(a + i)
      BY <1>1, <1>4, <2>1
    <2>3. Bytes(a + 1, b) \in Seq(S) /\ Len(Bytes(a + 1, b)) = b - a
          /\ \A i \in 1..(b - a) : Bytes(a + 1, b)[i] = Byte(a + i)
      BY <1>4 DEF Bytes, Byte
    <2> QED
      BY <2>1, <2>2, <2>3, SeqEqual
  <1>5. a = b + 1 => s = << >>
    BY <1>1
  <1> QED
    BY <1>3, <1>4, <1>5 DEF Byte

LEMMA FilledSeq ==
    ASSUME NEW cl, NEW k \in Nat
    PROVE  /\ Append(<< >>, AddressOf(cl)) = Filled(cl, 0)
           /\ Append(Filled(cl, k), <<"byte", k + 1>>) = Filled(cl, k + 1)
           /\ Filled(cl, k) # << >> /\ Head(Filled(cl, k)) = AddressOf(cl) /\ Tail(Filled(cl, k)) = Bytes(1, k)
  <1> DEFINE S == {Byte(x) : x \in Int} \cup {AddressOf(cl)}
             s == Filled(cl, k)
  <1>1. s \in Seq(S) /\ Len(s) = k + 1 /\ s[1] = AddressOf(cl)
        /\ \A i \in 2..(k + 1) : s[i] = Byte(i - 1)
    BY DEF Filled, Byte
  <1>2. Append(<< >>, AddressOf(cl)) = Filled(cl, 0)
    BY DEF Filled
  <1>3. Append(s, Byte(k + 1)) = Filled(cl, k + 1)
    <2>1. Append(s, Byte(k + 1)) \in Seq(S) /\ Len(Append(s, Byte(k + 1))) = k + 2
          /\ Append(s, Byte(k + 1))[1] = AddressOf(cl)
          /\ \A i \in 2..(k + 2) : Append(s, Byte(k + 1))[i] = Byte(i - 1)
      BY <1>1
    <2>2. Filled(cl, k + 1) \in Seq(S) /\ Len(Filled(cl, k + 1)) = k + 2 /\ Filled(cl, k + 1)[1] = AddressOf(cl)
          /\ \A i \in 2..(k + 2) : Filled(cl, k + 1)[i] = Byte(i - 1)
      BY DEF Filled, Byte
    <2> QED
      BY <2>1, <2>2, SeqEqual
  <1>4. s # << >> /\ Head(s) = AddressOf(cl)
    BY <1>1
  <1>5. Tail(s) = Bytes(1, k)
    <2>1. Tail(s) \in Seq(S) /\ Len(Tail(s)) = k /\ \A i \in 1..k : Tail(s)[i] = Byte(i)
      BY <1>1, <1>4
    <2>2. Bytes(1, k) \in Seq(S) /\ Len(Bytes(1, k)) = k
          /\ \A i \in 1..k : Bytes(1, k)[i] = Byte(i)
      BY DEF Bytes, Byte
    <2> QED
      BY <2>1, <2>2, SeqEqual
  <1> QED
    BY <1>2, <1>3, <1>4, <1>5 DEF Byte

LEMMA WireSeq ==
    ASSUME NEW cl, NEW k \in Nat
    PROVE  /\ Append(<< >>, <<"start">>) = << <<"start">> >>
           /\ Append(<< <<"start">> >>, AddressOf(cl)) = OnWire(cl, 0)
           /\ Append(OnWire(cl, k), <<"byte", k + 1>>) = OnWire(cl, k + 1)
  BY DEF OnWire

LEMMA WireCount ==
    ASSUME NEW cl, NEW k \in Nat, wire = OnWire(cl, k)
    PROVE  Received = k
  <1>1. Len(wire) = k + 2
    BY DEF OnWire
  <1>2. \A i \in 1..(k + 2) : wire[i][1] = "byte" <=> i > 2
    BY DEF OnWire, AddressOf
  <1>3. {i \in 1..Len(wire) : wire[i][1] = "byte"} = 3..(k + 2)
    BY <1>1, <1>2
  <1>4. Cardinality(3..(k + 2)) = k
    BY FS_Interval
  <1> QED
    BY <1>3, <1>4 DEF Received

-----------------------------------------------------------------------------
\* The accesses of a read and of a write, each at its place.

OpNames == {"put0", "set1", "one1", "drop1", "or1", "get0", "get1", "addr", "chip", "send",
            "fetch", "wait", "wait1"}
Ops == [op : OpNames, out : SUBSET Flags, in : SUBSET Flags, n : Nat, count : Nat]

LEMMA OpFields ==
    ASSUME NEW op \in OpNames, NEW o \in SUBSET Flags, NEW i \in SUBSET Flags,
           NEW n \in Nat, NEW count \in Nat
    PROVE  /\ Op(op, o, i, n, count) \in Ops
           /\ Op(op, o, i, n, count).op = op
           /\ Op(op, o, i, n, count).out = o /\ Op(op, o, i, n, count).in = i
           /\ Op(op, o, i, n, count).n = n /\ Op(op, o, i, n, count).count = count
  BY DEF Op, Ops

LEMMA FlagSets ==
    /\ Flags = {"DONE", "NACK", "HALT", "SOFT_RST", "START", "STOP", "RECEIVE", "GO"}
    /\ LowByte = {"DONE", "NACK", "HALT", "SOFT_RST"}
    /\ Status = {"DONE", "NACK", "HALT"}
  BY DEF Flags, Status, LowByte

\* u is t behind s.
Behind(u, s, t) ==
    /\ u \in Seq(Ops) /\ Len(u) = Len(s) + Len(t)
    /\ \A i \in 1..Len(s) : u[i] = s[i]
    /\ \A i \in 1..Len(t) : u[Len(s) + i] = t[i]

LEMMA Joined == \A s, t \in Seq(Ops) : Behind(s \o t, s, t)
  BY DEF Behind

LEMMA Pieces ==
    /\ \A n \in Nat : /\ Fetch(n) \in Seq(Ops) /\ Len(Fetch(n)) = n
                      /\ \A j \in 1..n : Fetch(n)[j] = Access("fetch")
    /\ \A n \in Nat : /\ Send(n) \in Seq(Ops) /\ Len(Send(n)) = n
                      /\ \A j \in 1..n : Send(n)[j] = Access("send")
    /\ Go \in Seq(Ops) /\ Len(Go) = 3
    /\ Go[1] = Get0 /\ Go[2] = Put0({}, {"GO"}) /\ Go[3] = WaitClear("GO")
  <1>1. Access("fetch") \in Ops /\ Access("send") \in Ops
    BY OpFields DEF Access, OpNames
  <1>2. Get0 \in Ops /\ Put0({}, {"GO"}) \in Ops /\ WaitClear("GO") \in Ops
    BY OpFields, FlagSets DEF Get0, Put0, WaitClear, Access, OpNames
  <1>3. \A n \in Nat : /\ Fetch(n) \in Seq(Ops) /\ Len(Fetch(n)) = n
                       /\ \A j \in 1..n : Fetch(n)[j] = Access("fetch")
    BY <1>1 DEF Fetch
  <1>4. \A n \in Nat : /\ Send(n) \in Seq(Ops) /\ Len(Send(n)) = n
                       /\ \A j \in 1..n : Send(n)[j] = Access("send")
    BY <1>1 DEF Send
  <1>5. /\ Go \in Seq(Ops) /\ Len(Go) = 3
        /\ Go[1] = Get0 /\ Go[2] = Put0({}, {"GO"}) /\ Go[3] = WaitClear("GO")
    BY <1>2 DEF Go
  <1> QED
    BY <1>3, <1>4, <1>5

\* The register writes that begin a call: reset, then no counts.
Reset(receive) == {"DONE", "NACK", "HALT", "SOFT_RST", "START"} \cup receive

LEMMA BeginSeq ==
    ASSUME NEW receive \in {{}, {"RECEIVE"}}
    PROVE  /\ Begin(receive) \in Seq(Ops) /\ Len(Begin(receive)) = 2
           /\ Begin(receive)[1] = Set0(Reset(receive)) /\ Begin(receive)[2] = Put1("set1", 0, 0)
  <1>1. Flags \in SUBSET Flags /\ Reset(receive) \in SUBSET Flags
    BY FlagSets DEF Reset
  <1>2. Set0(Reset(receive)) \in Ops
    BY <1>1, OpFields DEF Set0, Put0, OpNames
  <1>3. Put1("set1", 0, 0) \in Ops
    BY OpFields DEF Put1, OpNames
  <1> QED
    BY <1>2, <1>3 DEF Begin, Reset

\* The first part of a read as it is set up.
LEMMA ReadHead ==
    ASSUME NEW c \in Nat, NEW s,
           s = Begin({"RECEIVE"})
               \o <<Access("addr"), Put0({}, {}), Put1("set1", 1, c), Access("chip")>> \o Go
    PROVE  /\ s \in Seq(Ops) /\ Len(s) = 9
           /\ s[1] = Set0(Reset({"RECEIVE"})) /\ s[2] = Put1("set1", 0, 0)
           /\ s[3] = Access("addr") /\ s[4] = Put0({}, {})
           /\ s[5] = Put1("set1", 1, c) /\ s[6] = Access("chip")
           /\ s[7] = Get0 /\ s[8] = Put0({}, {"GO"}) /\ s[9] = WaitClear("GO")
  <1> DEFINE b == Begin({"RECEIVE"})
             m == <<Access("addr"), Put0({}, {}), Put1("set1", 1, c), Access("chip")>>
             u == b \o m
  <1>1. /\ b \in Seq(Ops) /\ Len(b) = 2
        /\ b[1] = Set0(Reset({"RECEIVE"})) /\ b[2] = Put1("set1", 0, 0)
    BY BeginSeq
  <1>2. /\ m \in Seq(Ops) /\ Len(m) = 4
        /\ m[1] = Access("addr") /\ m[2] = Put0({}, {}) /\ m[3] = Put1("set1", 1, c)
        /\ m[4] = Access("chip")
    BY OpFields DEF Access, Put0, Put1, OpNames
  <1> HIDE DEF b, m
  <1>3. Behind(u, b, m)
    BY <1>1, <1>2, Joined
  <1> HIDE DEF u
  <1>4. u \in Seq(Ops) /\ s = u \o Go
    BY <1>3 DEF Behind, u, b, m
  <1> DEFINE t == u \o Go
  <1>5. Behind(t, u, Go)
    BY <1>4, Joined, Pieces
  <1>6. s = t
    BY <1>4
  <1> HIDE DEF t
  <1>7. Len(u) = 6 /\ u[1] = b[1] /\ u[2] = b[2]
        /\ u[3] = m[1] /\ u[4] = m[2] /\ u[5] = m[3] /\ u[6] = m[4]
    BY <1>1, <1>2, <1>3 DEF Behind
  <1>8. /\ t \in Seq(Ops) /\ Len(t) = 9
        /\ t[1] = u[1] /\ t[2] = u[2] /\ t[3] = u[3] /\ t[4] = u[4] /\ t[5] = u[5] /\ t[6] = u[6]
        /\ t[7] = Go[1] /\ t[8] = Go[2] /\ t[9] = Go[3]
    <2>1. Len(u) = 6 /\ Len(Go) = 3
      BY <1>7, Pieces
    <2>2. /\ t \in Seq(Ops) /\ Len(t) = 9
          /\ \A i \in 1..6 : t[i] = u[i]
          /\ \A i \in 1..3 : t[6 + i] = Go[i]
      BY <1>5, <2>1 DEF Behind
    <2> QED
      BY <2>2
  <1>9. /\ t[1] = Set0(Reset({"RECEIVE"})) /\ t[2] = Put1("set1", 0, 0)
        /\ t[3] = Access("addr") /\ t[4] = Put0({}, {})
        /\ t[5] = Put1("set1", 1, c) /\ t[6] = Access("chip")
        /\ t[7] = Get0 /\ t[8] = Put0({}, {"GO"}) /\ t[9] = WaitClear("GO")
    BY <1>1, <1>2, <1>7, <1>8, Pieces
  <1> QED
    BY <1>6, <1>8, <1>9, Zenon

\* The accesses between its parts.
LEMMA ReadMiddle ==
    ASSUME NEW rest \in Nat, NEW s, s = NextRead(rest)
    PROVE  /\ s \in Seq(Ops) /\ Len(s) = 11
           /\ s[1] = Get0 /\ s[2] = Put0({"START"}, {}) /\ s[3] = WaitClear("DONE")
           /\ s[4] = Put0({}, {"STOP"}) /\ s[5] = Get1 /\ s[6] = Put1("drop1", 0, 0)
           /\ s[7] = Access("wait1") /\ s[8] = Put1("or1", 0, rest)
           /\ s[9] = Get0 /\ s[10] = Put0({}, {"GO"}) /\ s[11] = WaitClear("GO")
  <1> DEFINE m == <<Get0, Put0({"START"}, {}), WaitClear("DONE"), Put0({}, {"STOP"}),
                    Get1, Put1("drop1", 0, 0), Access("wait1"), Put1("or1", 0, rest)>>
  <1>1. Get0 \in Ops /\ Get1 \in Ops /\ Access("wait1") \in Ops
    BY OpFields DEF Get0, Get1, Access, OpNames
  <1>2. Put0({"START"}, {}) \in Ops /\ Put0({}, {"STOP"}) \in Ops /\ WaitClear("DONE") \in Ops
    BY OpFields, FlagSets DEF Put0, WaitClear, OpNames
  <1>3. Put1("drop1", 0, 0) \in Ops /\ Put1("or1", 0, rest) \in Ops
    BY OpFields DEF Put1, OpNames
  <1>4. m \in Seq(Ops) /\ Len(m) = 8
    BY <1>1, <1>2, <1>3
  <1>5. /\ m[1] = Get0 /\ m[2] = Put0({"START"}, {}) /\ m[3] = WaitClear("DONE")
        /\ m[4] = Put0({}, {"STOP"}) /\ m[5] = Get1 /\ m[6] = Put1("drop1", 0, 0)
        /\ m[7] = Access("wait1") /\ m[8] = Put1("or1", 0, rest)
    OBVIOUS
  <1>6. s = m \o Go
    BY DEF NextRead
  <1> HIDE DEF m
  <1>7. Behind(s, m, Go)
    BY <1>4, <1>6, Joined, Pieces
  <1>8. /\ s \in Seq(Ops) /\ Len(s) = 11
        /\ s[1] = m[1] /\ s[2] = m[2] /\ s[3] = m[3] /\ s[4] = m[4]
        /\ s[5] = m[5] /\ s[6] = m[6] /\ s[7] = m[7] /\ s[8] = m[8]
        /\ s[9] = Go[1] /\ s[10] = Go[2] /\ s[11] = Go[3]
    BY <1>4, <1>7, Pieces DEF Behind
  <1> QED
    BY <1>5, <1>8, Pieces

\* Every access of a read.
LEMMA ReadProgram ==
    ASSUME call \in Calls, call.dir = "read"
    PROVE  /\ Len(Program) = Last(call)
           /\ Program[1] = Set0(Reset({"RECEIVE"})) /\ Program[2] = Put1("set1", 0, 0)
           /\ Program[3] = Access("addr") /\ Program[4] = Put0({}, {})
           /\ Program[5] = Put1("set1", 1, FirstLen(call)) /\ Program[6] = Access("chip")
           /\ Program[7] = Get0 /\ Program[8] = Put0({}, {"GO"})
           /\ Program[9] = WaitClear("GO")
           /\ \A p \in 10..(FirstLen(call) + 9) : Program[p] = Access("fetch")
           /\ Long(call) => /\ Program[FirstLen(call) + 10] = Get0
                            /\ Program[FirstLen(call) + 11] = Put0({"START"}, {})
                            /\ Program[FirstLen(call) + 12] = WaitClear("DONE")
                            /\ Program[FirstLen(call) + 13] = Put0({}, {"STOP"})
                            /\ Program[FirstLen(call) + 14] = Get1
                            /\ Program[FirstLen(call) + 15] = Put1("drop1", 0, 0)
                            /\ Program[FirstLen(call) + 16] = Access("wait1")
                            /\ Program[FirstLen(call) + 17] = Put1("or1", 0, call.len - FirstLen(call))
                            /\ Program[FirstLen(call) + 18] = Get0
                            /\ Program[FirstLen(call) + 19] = Put0({}, {"GO"})
                            /\ Program[FirstLen(call) + 20] = WaitClear("GO")
                            /\ \A p \in (FirstLen(call) + 21)..(call.len + 20) : Program[p] = Access("fetch")
  <1> DEFINE c == FirstLen(call)
             rest == call.len - FirstLen(call)
             h == Begin({"RECEIVE"})
                  \o <<Access("addr"), Put0({}, {}), Put1("set1", 1, c), Access("chip")>> \o Go
             f == Fetch(c)
             u == h \o f
             m == NextRead(rest)
             g == Fetch(rest)
             v == m \o g
  <1>1. /\ c \in Nat \ {0} /\ call.len \in Nat /\ (Long(call) => rest \in Nat \ {0})
        /\ (Long(call) <=> call.len > ReadChunk) /\ c = Min2(call.len, ReadChunk)
        /\ (Long(call) => rest = call.len - ReadChunk)
    <2>1. ReadChunk \in Nat
      BY ChunkAssumption
    <2>2. /\ FirstLen(call) \in 1..255 /\ call.len \in Nat
          /\ Long(call) => FirstLen(call) = ReadChunk /\ call.len - FirstLen(call) \in 1..255
      BY Numbers
    <2>3. Long(call) => rest \in Nat \ {0}
      BY <2>2
    <2> QED
      BY <2>1, <2>2, <2>3 DEF Long, FirstLen
  <1>2. Program = u \o (IF Long(call) THEN v ELSE << >>)
    BY <1>1 DEF Program, tvw_read_i2c
  <1>3. /\ h \in Seq(Ops) /\ Len(h) = 9
        /\ h[1] = Set0(Reset({"RECEIVE"})) /\ h[2] = Put1("set1", 0, 0)
        /\ h[3] = Access("addr") /\ h[4] = Put0({}, {})
        /\ h[5] = Put1("set1", 1, c) /\ h[6] = Access("chip")
        /\ h[7] = Get0 /\ h[8] = Put0({}, {"GO"}) /\ h[9] = WaitClear("GO")
    BY <1>1, ReadHead
  <1>4. f \in Seq(Ops) /\ Len(f) = c /\ \A j \in 1..c : f[j] = Access("fetch")
    BY <1>1, Pieces
  <1> HIDE DEF h, f
  <1>5. Behind(u, h, f)
    BY <1>3, <1>4, Joined
  <1> HIDE DEF u
  <1>6. u \in Seq(Ops) /\ Len(u) = c + 9 /\ \A i \in 1..9 : u[i] = h[i]
    BY <1>1, <1>3, <1>4, <1>5 DEF Behind
  <1>7. \A p \in 10..(c + 9) : u[p] = Access("fetch")
    <2> SUFFICES ASSUME NEW p \in 10..(c + 9) PROVE u[p] = Access("fetch")
      OBVIOUS
    <2> HIDE DEF c
    <2>1. p - 9 \in 1..c /\ p = 9 + (p - 9)
      BY <1>1
    <2> QED
      BY <2>1, <1>3, <1>4, <1>5 DEF Behind
  <1>8. ASSUME Long(call)
        PROVE  /\ v \in Seq(Ops) /\ Len(v) = rest + 11
               /\ v[1] = Get0 /\ v[2] = Put0({"START"}, {}) /\ v[3] = WaitClear("DONE")
               /\ v[4] = Put0({}, {"STOP"}) /\ v[5] = Get1 /\ v[6] = Put1("drop1", 0, 0)
               /\ v[7] = Access("wait1") /\ v[8] = Put1("or1", 0, rest)
               /\ v[9] = Get0 /\ v[10] = Put0({}, {"GO"}) /\ v[11] = WaitClear("GO")
               /\ \A j \in 1..rest : v[11 + j] = Access("fetch")
    <2>1. rest \in Nat
      BY <1>1, <1>8
    <2>2. /\ m \in Seq(Ops) /\ Len(m) = 11
          /\ m[1] = Get0 /\ m[2] = Put0({"START"}, {}) /\ m[3] = WaitClear("DONE")
          /\ m[4] = Put0({}, {"STOP"}) /\ m[5] = Get1 /\ m[6] = Put1("drop1", 0, 0)
          /\ m[7] = Access("wait1") /\ m[8] = Put1("or1", 0, rest)
          /\ m[9] = Get0 /\ m[10] = Put0({}, {"GO"}) /\ m[11] = WaitClear("GO")
      BY <2>1, ReadMiddle
    <2>3. g \in Seq(Ops) /\ Len(g) = rest /\ \A j \in 1..rest : g[j] = Access("fetch")
      BY <2>1, Pieces
    <2> HIDE DEF m, g
    <2>4. Behind(v, m, g)
      BY <2>2, <2>3, Joined
    <2> HIDE DEF v, rest
    <2>5. v \in Seq(Ops) /\ Len(v) = rest + 11 /\ \A i \in 1..11 : v[i] = m[i]
      BY <2>1, <2>2, <2>3, <2>4 DEF Behind
    <2>6. \A j \in 1..rest : v[11 + j] = Access("fetch")
      BY <2>2, <2>3, <2>4 DEF Behind
    <2> QED
      BY <2>2, <2>5, <2>6
  <1> HIDE DEF v
  <1>9. ASSUME ~Long(call)
        PROVE  Program = u
    BY <1>2, <1>6, <1>9, ConcatEmptySeq
  <1>10. ASSUME Long(call)
         PROVE  Behind(Program, u, v)
    BY <1>2, <1>6, <1>8, <1>10, Joined
  <1>11. \A i \in 1..(c + 9) : Program[i] = u[i]
    BY <1>6, <1>9, <1>10 DEF Behind
  <1>12. /\ Program[1] = h[1] /\ Program[2] = h[2] /\ Program[3] = h[3] /\ Program[4] = h[4]
         /\ Program[5] = h[5] /\ Program[6] = h[6] /\ Program[7] = h[7]
         /\ Program[8] = h[8] /\ Program[9] = h[9]
    BY <1>1, <1>6, <1>11
  <1>13. \A p \in 10..(c + 9) : Program[p] = Access("fetch")
    <2>1. \A p \in 10..(c + 9) : p \in 1..(c + 9)
      BY <1>1
    <2> QED
      BY <2>1, <1>7, <1>11
  <1>14. ASSUME Long(call)
         PROVE  /\ Program[c + 10] = v[1] /\ Program[c + 11] = v[2] /\ Program[c + 12] = v[3]
                /\ Program[c + 13] = v[4] /\ Program[c + 14] = v[5] /\ Program[c + 15] = v[6]
                /\ Program[c + 16] = v[7] /\ Program[c + 17] = v[8] /\ Program[c + 18] = v[9]
                /\ Program[c + 19] = v[10] /\ Program[c + 20] = v[11]
                /\ Len(Program) = call.len + 20
                /\ \A p \in (c + 21)..(call.len + 20) : Program[p] = Access("fetch")
    <2>1. c \in Nat /\ rest \in Nat /\ call.len \in Nat /\ Len(v) = rest + 11
          /\ call.len = c + rest
      BY <1>1, <1>8, <1>14
    <2> HIDE DEF c, rest
    <2>2. \A i \in 1..(rest + 11) : Program[c + 9 + i] = v[i]
      BY <1>6, <1>10, <1>14, <2>1 DEF Behind
    <2>3. Len(Program) = c + 9 + (rest + 11)
      BY <1>6, <1>10, <1>14, <2>1 DEF Behind
    <2>4. ASSUME NEW i \in 1..11
          PROVE  Program[c + 9 + i] = v[i]
      BY <2>1, <2>2
    <2>5. ASSUME NEW p \in (c + 21)..(call.len + 20)
          PROVE  Program[p] = Access("fetch")
      <3>1. p - c - 20 \in 1..rest /\ 11 + (p - c - 20) \in 1..(rest + 11)
            /\ c + 9 + (11 + (p - c - 20)) = p
        BY <2>1
      <3> QED
        BY <3>1, <2>2, <1>8, <1>14
    <2>6. /\ Program[c + 10] = v[1] /\ Program[c + 11] = v[2] /\ Program[c + 12] = v[3]
          /\ Program[c + 13] = v[4] /\ Program[c + 14] = v[5] /\ Program[c + 15] = v[6]
          /\ Program[c + 16] = v[7] /\ Program[c + 17] = v[8] /\ Program[c + 18] = v[9]
          /\ Program[c + 19] = v[10] /\ Program[c + 20] = v[11]
      <3>1. c + 9 + 1 = c + 10 /\ c + 9 + 2 = c + 11 /\ c + 9 + 3 = c + 12 /\ c + 9 + 4 = c + 13
            /\ c + 9 + 5 = c + 14 /\ c + 9 + 6 = c + 15 /\ c + 9 + 7 = c + 16
            /\ c + 9 + 8 = c + 17 /\ c + 9 + 9 = c + 18 /\ c + 9 + 10 = c + 19
            /\ c + 9 + 11 = c + 20
        BY <2>1
      <3> QED
        BY <3>1, <2>4
    <2>7. Len(Program) = call.len + 20
      BY <2>1, <2>3
    <2> QED
      BY <2>5, <2>6, <2>7
  <1>15. Len(Program) = Last(call)
    BY <1>6, <1>9, <1>14 DEF Last
  <1> HIDE DEF c, rest
  <1>16. Long(call) => /\ Program[c + 10] = Get0
                       /\ Program[c + 11] = Put0({"START"}, {})
                       /\ Program[c + 12] = WaitClear("DONE")
                       /\ Program[c + 13] = Put0({}, {"STOP"})
                       /\ Program[c + 14] = Get1
                       /\ Program[c + 15] = Put1("drop1", 0, 0)
                       /\ Program[c + 16] = Access("wait1")
                       /\ Program[c + 17] = Put1("or1", 0, rest)
                       /\ Program[c + 18] = Get0
                       /\ Program[c + 19] = Put0({}, {"GO"})
                       /\ Program[c + 20] = WaitClear("GO")
                       /\ \A p \in (c + 21)..(call.len + 20) : Program[p] = Access("fetch")
    BY <1>8, <1>14
  <1> QED
    BY <1>3, <1>12, <1>13, <1>15, <1>16 DEF c, rest

\* The same for a write: its first part as it is set up,
LEMMA WriteHead ==
    ASSUME NEW c \in Nat, NEW stop \in {{}, {"STOP"}}, NEW s,
           s = Begin({})
               \o <<Put1("set1", 0, 0), Access("addr"), Put0({}, stop), Get1,
                    Put1("one1", 0, 0), Get1, Put1("or1", 0, c), Access("chip")>>
    PROVE  /\ s \in Seq(Ops) /\ Len(s) = 10
           /\ s[1] = Set0(Reset({})) /\ s[2] = Put1("set1", 0, 0)
           /\ s[3] = Put1("set1", 0, 0) /\ s[4] = Access("addr") /\ s[5] = Put0({}, stop)
           /\ s[6] = Get1 /\ s[7] = Put1("one1", 0, 0) /\ s[8] = Get1
           /\ s[9] = Put1("or1", 0, c) /\ s[10] = Access("chip")
  <1> DEFINE b == Begin({})
             m == <<Put1("set1", 0, 0), Access("addr"), Put0({}, stop), Get1,
                    Put1("one1", 0, 0), Get1, Put1("or1", 0, c), Access("chip")>>
  <1>1. /\ b \in Seq(Ops) /\ Len(b) = 2
        /\ b[1] = Set0(Reset({})) /\ b[2] = Put1("set1", 0, 0)
    BY BeginSeq
  <1>2. m \in Seq(Ops) /\ Len(m) = 8
    <2>1. Put1("set1", 0, 0) \in Ops /\ Put1("one1", 0, 0) \in Ops /\ Put1("or1", 0, c) \in Ops
      BY OpFields, SMTT(30) DEF Put1, OpNames
    <2>2. Access("addr") \in Ops /\ Access("chip") \in Ops /\ Get1 \in Ops
      BY OpFields, SMTT(30) DEF Access, Get1, OpNames
    <2>3. Put0({}, stop) \in Ops
      BY OpFields, FlagSets, SMTT(30) DEF Put0, OpNames
    <2> QED
      BY <2>1, <2>2, <2>3
  <1>3. /\ m[1] = Put1("set1", 0, 0) /\ m[2] = Access("addr") /\ m[3] = Put0({}, stop)
        /\ m[4] = Get1 /\ m[5] = Put1("one1", 0, 0) /\ m[6] = Get1
        /\ m[7] = Put1("or1", 0, c) /\ m[8] = Access("chip")
    OBVIOUS
  <1>4. s = b \o m
    OBVIOUS
  <1> HIDE DEF b, m
  <1>5. Behind(s, b, m)
    BY <1>1, <1>2, <1>4, Joined
  <1>6. s \in Seq(Ops) /\ Len(s) = 10
    BY <1>1, <1>2, <1>5 DEF Behind
  <1>7. /\ s[1] = b[1] /\ s[2] = b[2] /\ s[3] = m[1] /\ s[4] = m[2] /\ s[5] = m[3]
        /\ s[6] = m[4] /\ s[7] = m[5] /\ s[8] = m[6] /\ s[9] = m[7] /\ s[10] = m[8]
    BY <1>1, <1>2, <1>5, SMTT(30) DEF Behind
  <1> QED
    BY <1>1, <1>3, <1>6, <1>7

\* and the accesses between its parts.
LEMMA WriteMiddle ==
    ASSUME NEW rest \in Nat, NEW s, s = NextWrite(rest)
    PROVE  /\ s \in Seq(Ops) /\ Len(s) = 10
           /\ s[1] = Get0 /\ s[2] = Put0({}, {"GO"}) /\ s[3] = WaitClear("GO")
           /\ s[4] = Put0(Flags \ LowByte, Status) /\ s[5] = Get0
           /\ s[6] = Put0({}, {"STOP"}) /\ s[7] = Get1 /\ s[8] = Put1("drop1", 0, 0)
           /\ s[9] = Access("wait1") /\ s[10] = Put1("or1", 0, rest)
  <1> DEFINE m == <<Put0(Flags \ LowByte, Status), Get0, Put0({}, {"STOP"}),
                    Get1, Put1("drop1", 0, 0), Access("wait1"), Put1("or1", 0, rest)>>
  <1>1. Get0 \in Ops /\ Get1 \in Ops /\ Access("wait1") \in Ops
    BY OpFields DEF Get0, Get1, Access, OpNames
  <1>2. Put0(Flags \ LowByte, Status) \in Ops /\ Put0({}, {"STOP"}) \in Ops
    BY OpFields, FlagSets DEF Put0, OpNames
  <1>3. Put1("drop1", 0, 0) \in Ops /\ Put1("or1", 0, rest) \in Ops
    BY OpFields DEF Put1, OpNames
  <1>4. m \in Seq(Ops) /\ Len(m) = 7
    BY <1>1, <1>2, <1>3
  <1>5. /\ m[1] = Put0(Flags \ LowByte, Status) /\ m[2] = Get0 /\ m[3] = Put0({}, {"STOP"})
        /\ m[4] = Get1 /\ m[5] = Put1("drop1", 0, 0) /\ m[6] = Access("wait1")
        /\ m[7] = Put1("or1", 0, rest)
    OBVIOUS
  <1>6. s = Go \o m
    BY DEF NextWrite
  <1> HIDE DEF m
  <1>7. Behind(s, Go, m)
    BY <1>4, <1>6, Joined, Pieces
  <1>8. /\ s \in Seq(Ops) /\ Len(s) = 10
        /\ s[1] = Go[1] /\ s[2] = Go[2] /\ s[3] = Go[3]
        /\ s[4] = m[1] /\ s[5] = m[2] /\ s[6] = m[3] /\ s[7] = m[4]
        /\ s[8] = m[5] /\ s[9] = m[6] /\ s[10] = m[7]
    BY <1>4, <1>7, Pieces DEF Behind
  <1> QED
    BY <1>5, <1>8, Pieces

\* Every access of a write.
FirstStop(cl) == IF Long(cl) THEN {} ELSE {"STOP"}

LEMMA WriteProgram ==
    ASSUME call \in Calls, call.dir = "write"
    PROVE  /\ Len(Program) = Last(call)
           /\ Program[1] = Set0(Reset({})) /\ Program[2] = Put1("set1", 0, 0)
           /\ Program[3] = Put1("set1", 0, 0) /\ Program[4] = Access("addr")
           /\ Program[5] = Put0({}, FirstStop(call))
           /\ Program[6] = Get1 /\ Program[7] = Put1("one1", 0, 0) /\ Program[8] = Get1
           /\ Program[9] = Put1("or1", 0, FirstLen(call)) /\ Program[10] = Access("chip")
           /\ \A p \in 11..(FirstLen(call) + 10) : Program[p] = Access("send")
           /\ Program[FirstLen(call) + 11] = Get0
           /\ Program[FirstLen(call) + 12] = Put0({}, {"GO"})
           /\ Program[FirstLen(call) + 13] = WaitClear("GO")
           /\ Long(call) => /\ Program[FirstLen(call) + 14] = Put0(Flags \ LowByte, Status)
                            /\ Program[FirstLen(call) + 15] = Get0
                            /\ Program[FirstLen(call) + 16] = Put0({}, {"STOP"})
                            /\ Program[FirstLen(call) + 17] = Get1
                            /\ Program[FirstLen(call) + 18] = Put1("drop1", 0, 0)
                            /\ Program[FirstLen(call) + 19] = Access("wait1")
                            /\ Program[FirstLen(call) + 20] = Put1("or1", 0, call.len - FirstLen(call))
                            /\ \A p \in (FirstLen(call) + 21)..(call.len + 20) : Program[p] = Access("send")
                            /\ Program[call.len + 21] = Get0
                            /\ Program[call.len + 22] = Put0({}, {"GO"})
                            /\ Program[call.len + 23] = WaitClear("GO")
  <1> DEFINE c == FirstLen(call)
             rest == call.len - FirstLen(call)
             h == Begin({})
                  \o <<Put1("set1", 0, 0), Access("addr"), Put0({}, FirstStop(call)), Get1,
                       Put1("one1", 0, 0), Get1, Put1("or1", 0, c), Access("chip")>>
             f == Send(c)
             u == h \o f
             m == NextWrite(rest)
             g == Send(rest)
             v == m \o g
             w == u \o v
  <1>1. /\ c \in Nat \ {0} /\ call.len \in Nat /\ (Long(call) => rest \in Nat \ {0})
        /\ (Long(call) <=> call.len > WriteChunk) /\ (StopsAtOnce(call.len) <=> ~Long(call))
        /\ c = Min2(call.len, WriteChunk) /\ (Long(call) => rest = call.len - WriteChunk)
    <2>1. WriteChunk \in Nat
      BY ChunkAssumption
    <2>2. /\ FirstLen(call) \in 1..255 /\ call.len \in Nat
          /\ Long(call) => FirstLen(call) = WriteChunk /\ call.len - FirstLen(call) \in 1..255
      BY Numbers
    <2>3. Long(call) => rest \in Nat \ {0}
      BY <2>2
    <2> QED
      BY <2>1, <2>2, <2>3 DEF Long, FirstLen, StopsAtOnce
  <1>2. /\ Long(call) => Program = w \o Go
        /\ ~Long(call) => Program = u \o << >> \o Go
    <2>1. FirstStop(call) = IF StopsAtOnce(call.len) THEN {"STOP"} ELSE {}
      BY <1>1 DEF FirstStop
    <2>2. Program = tvw_write_i2c(call.len)
      BY DEF Program
    <2> QED
      BY <1>1, <2>1, <2>2 DEF tvw_write_i2c
  <1>3. /\ h \in Seq(Ops) /\ Len(h) = 10
        /\ h[1] = Set0(Reset({})) /\ h[2] = Put1("set1", 0, 0)
        /\ h[3] = Put1("set1", 0, 0) /\ h[4] = Access("addr") /\ h[5] = Put0({}, FirstStop(call))
        /\ h[6] = Get1 /\ h[7] = Put1("one1", 0, 0) /\ h[8] = Get1
        /\ h[9] = Put1("or1", 0, c) /\ h[10] = Access("chip")
    <2>1. FirstStop(call) \in {{}, {"STOP"}}
      BY DEF FirstStop
    <2>2. c \in Nat
      BY <1>1
    <2> QED
      BY <2>1, <2>2, WriteHead, ZenonT(60)
  <1>4. f \in Seq(Ops) /\ Len(f) = c /\ \A j \in 1..c : f[j] = Access("send")
    BY <1>1, Pieces
  <1> HIDE DEF h, f
  <1>5. Behind(u, h, f)
    BY <1>3, <1>4, Joined
  <1> HIDE DEF u
  <1>6. u \in Seq(Ops) /\ Len(u) = c + 10 /\ \A i \in 1..10 : u[i] = h[i]
    BY <1>1, <1>3, <1>4, <1>5 DEF Behind
  <1>7. \A p \in 11..(c + 10) : u[p] = Access("send")
    <2> SUFFICES ASSUME NEW p \in 11..(c + 10) PROVE u[p] = Access("send")
      OBVIOUS
    <2> HIDE DEF c
    <2>1. p - 10 \in 1..c /\ p = 10 + (p - 10)
      BY <1>1
    <2> QED
      BY <2>1, <1>3, <1>4, <1>5 DEF Behind
  <1>8. ASSUME Long(call)
        PROVE  /\ v \in Seq(Ops) /\ Len(v) = rest + 10
               /\ v[1] = Get0 /\ v[2] = Put0({}, {"GO"}) /\ v[3] = WaitClear("GO")
               /\ v[4] = Put0(Flags \ LowByte, Status) /\ v[5] = Get0
               /\ v[6] = Put0({}, {"STOP"}) /\ v[7] = Get1 /\ v[8] = Put1("drop1", 0, 0)
               /\ v[9] = Access("wait1") /\ v[10] = Put1("or1", 0, rest)
               /\ \A j \in 1..rest : v[10 + j] = Access("send")
    <2>1. rest \in Nat
      BY <1>1, <1>8
    <2>2. /\ m \in Seq(Ops) /\ Len(m) = 10
          /\ m[1] = Get0 /\ m[2] = Put0({}, {"GO"}) /\ m[3] = WaitClear("GO")
          /\ m[4] = Put0(Flags \ LowByte, Status) /\ m[5] = Get0
          /\ m[6] = Put0({}, {"STOP"}) /\ m[7] = Get1 /\ m[8] = Put1("drop1", 0, 0)
          /\ m[9] = Access("wait1") /\ m[10] = Put1("or1", 0, rest)
      BY <2>1, WriteMiddle
    <2>3. g \in Seq(Ops) /\ Len(g) = rest /\ \A j \in 1..rest : g[j] = Access("send")
      BY <2>1, Pieces
    <2> HIDE DEF m, g
    <2>4. Behind(v, m, g)
      BY <2>2, <2>3, Joined
    <2> HIDE DEF v, rest
    <2>5. v \in Seq(Ops) /\ Len(v) = rest + 10 /\ \A i \in 1..10 : v[i] = m[i]
      BY <2>1, <2>2, <2>3, <2>4 DEF Behind
    <2>6. \A j \in 1..rest : v[10 + j] = Access("send")
      BY <2>2, <2>3, <2>4 DEF Behind
    <2> QED
      BY <2>2, <2>5, <2>6
  <1> HIDE DEF v
  <1>9. ASSUME ~Long(call)
        PROVE  Behind(Program, u, Go)
    <2>1. Program = u \o Go
      BY <1>2, <1>6, <1>9, ConcatEmptySeq
    <2> QED
      BY <2>1, <1>6, Joined, Pieces
  <1>10. ASSUME Long(call)
         PROVE  Behind(w, u, v)
    BY <1>6, <1>8, <1>10, Joined
  <1> HIDE DEF w
  <1>11. ASSUME Long(call)
         PROVE  Behind(Program, w, Go)
    <2>1. w \in Seq(Ops)
      BY <1>10, <1>11 DEF Behind
    <2> QED
      BY <1>2, <1>11, <2>1, Joined, Pieces
  <1>12. \A i \in 1..(c + 10) : Program[i] = u[i]
    <2>1. CASE ~Long(call)
      BY <2>1, <1>6, <1>9 DEF Behind
    <2>2. CASE Long(call)
      <3>1. Len(w) = c + 10 + (rest + 10) /\ \A i \in 1..(c + 10) : w[i] = u[i]
        BY <2>2, <1>6, <1>8, <1>10 DEF Behind
      <3>2. \A i \in 1..(c + 10) : i \in 1..Len(w)
        BY <2>2, <3>1, <1>1
      <3>3. \A i \in 1..Len(w) : Program[i] = w[i]
        BY <2>2, <1>11 DEF Behind
      <3> QED
        BY <3>1, <3>2, <3>3
    <2> QED
      BY <2>1, <2>2
  <1>13. /\ Program[1] = h[1] /\ Program[2] = h[2] /\ Program[3] = h[3] /\ Program[4] = h[4]
         /\ Program[5] = h[5] /\ Program[6] = h[6] /\ Program[7] = h[7]
         /\ Program[8] = h[8] /\ Program[9] = h[9] /\ Program[10] = h[10]
    BY <1>1, <1>6, <1>12
  <1>14. \A p \in 11..(c + 10) : Program[p] = Access("send")
    <2>1. \A p \in 11..(c + 10) : p \in 1..(c + 10)
      BY <1>1
    <2> QED
      BY <2>1, <1>7, <1>12
  <1>15. ASSUME ~Long(call)
         PROVE  /\ Len(Program) = c + 13
                /\ Program[c + 11] = Get0 /\ Program[c + 12] = Put0({}, {"GO"})
                /\ Program[c + 13] = WaitClear("GO")
    <2>1. Len(Program) = Len(u) + Len(Go) /\ \A i \in 1..Len(Go) : Program[Len(u) + i] = Go[i]
      BY <1>9, <1>15 DEF Behind
    <2>2. /\ c + 10 + 3 = c + 13 /\ c + 10 + 2 = c + 12 /\ c + 10 + 1 = c + 11
      BY <1>1
    <2>3. Len(u) = c + 10 /\ Len(Go) = 3
      BY <1>6, Pieces
    <2>4. /\ Len(Program) = c + 10 + 3
          /\ Program[c + 10 + 1] = Go[1] /\ Program[c + 10 + 2] = Go[2]
          /\ Program[c + 10 + 3] = Go[3]
      BY <2>1, <2>3
    <2> QED
      BY <2>2, <2>4, Pieces
  <1>16. ASSUME Long(call)
         PROVE  /\ Program[c + 11] = v[1] /\ Program[c + 12] = v[2] /\ Program[c + 13] = v[3]
                /\ Program[c + 14] = v[4] /\ Program[c + 15] = v[5] /\ Program[c + 16] = v[6]
                /\ Program[c + 17] = v[7] /\ Program[c + 18] = v[8] /\ Program[c + 19] = v[9]
                /\ Program[c + 20] = v[10]
                /\ Len(Program) = call.len + 23
                /\ Program[call.len + 21] = Get0 /\ Program[call.len + 22] = Put0({}, {"GO"})
                /\ Program[call.len + 23] = WaitClear("GO")
                /\ \A p \in (c + 21)..(call.len + 20) : Program[p] = Access("send")
    <2>1. c \in Nat /\ rest \in Nat /\ call.len \in Nat /\ Len(v) = rest + 10
          /\ call.len = c + rest
      BY <1>1, <1>8, <1>16
    <2> HIDE DEF c, rest
    <2>2. Len(w) = c + 10 + (rest + 10) /\ \A i \in 1..(rest + 10) : w[c + 10 + i] = v[i]
      BY <1>6, <1>10, <1>16, <2>1 DEF Behind
    <2>3. Len(w) = call.len + 20
      BY <2>1, <2>2
    <2>4. \A i \in 1..(call.len + 20) : Program[i] = w[i]
      BY <1>11, <1>16, <2>3 DEF Behind
    <2>5. ASSUME NEW i \in 1..(rest + 10)
          PROVE  Program[c + 10 + i] = v[i]
      <3>1. c + 10 + i \in 1..(call.len + 20)
        BY <2>1
      <3> QED
        BY <3>1, <2>2, <2>4
    <2>6. ASSUME NEW p \in (c + 21)..(call.len + 20)
          PROVE  Program[p] = Access("send")
      <3>1. p - c - 20 \in 1..rest /\ 10 + (p - c - 20) \in 1..(rest + 10)
            /\ c + 10 + (10 + (p - c - 20)) = p
        BY <2>1
      <3> QED
        BY <3>1, <2>5, <1>8, <1>16
    <2>7. /\ Program[c + 11] = v[1] /\ Program[c + 12] = v[2] /\ Program[c + 13] = v[3]
          /\ Program[c + 14] = v[4] /\ Program[c + 15] = v[5] /\ Program[c + 16] = v[6]
          /\ Program[c + 17] = v[7] /\ Program[c + 18] = v[8] /\ Program[c + 19] = v[9]
          /\ Program[c + 20] = v[10]
      <3>1. c + 10 + 1 = c + 11 /\ c + 10 + 2 = c + 12 /\ c + 10 + 3 = c + 13
            /\ c + 10 + 4 = c + 14 /\ c + 10 + 5 = c + 15 /\ c + 10 + 6 = c + 16
            /\ c + 10 + 7 = c + 17 /\ c + 10 + 8 = c + 18 /\ c + 10 + 9 = c + 19
            /\ c + 10 + 10 = c + 20
        BY <2>1
      <3>2. \A i \in 1..10 : i \in 1..(rest + 10)
        BY <2>1
      <3>3. \A i \in 1..10 : Program[c + 10 + i] = v[i]
        BY <3>2, <2>5
      <3> QED
        BY <3>1, <3>3
    <2>8. Len(Program) = Len(w) + Len(Go) /\ \A i \in 1..Len(Go) : Program[Len(w) + i] = Go[i]
      BY <1>11, <1>16 DEF Behind
    <2>9. /\ Len(Program) = call.len + 20 + 3
          /\ Program[call.len + 20 + 1] = Go[1] /\ Program[call.len + 20 + 2] = Go[2]
          /\ Program[call.len + 20 + 3] = Go[3]
      <3>1. Len(Go) = 3
        BY Pieces
      <3> QED
        BY <2>3, <2>8, <3>1
    <2>10. call.len + 20 + 1 = call.len + 21 /\ call.len + 20 + 2 = call.len + 22
           /\ call.len + 20 + 3 = call.len + 23
      BY <2>1
    <2> QED
      BY <2>6, <2>7, <2>9, <2>10, Pieces
  <1>17. Len(Program) = Last(call)
    BY <1>15, <1>16 DEF Last
  <1> HIDE DEF c, rest
  <1>18. Program[c + 11] = Get0 /\ Program[c + 12] = Put0({}, {"GO"})
         /\ Program[c + 13] = WaitClear("GO")
    BY <1>8, <1>15, <1>16
  <1>19. Long(call) => /\ Program[c + 14] = Put0(Flags \ LowByte, Status)
                       /\ Program[c + 15] = Get0
                       /\ Program[c + 16] = Put0({}, {"STOP"})
                       /\ Program[c + 17] = Get1
                       /\ Program[c + 18] = Put1("drop1", 0, 0)
                       /\ Program[c + 19] = Access("wait1")
                       /\ Program[c + 20] = Put1("or1", 0, rest)
                       /\ \A p \in (c + 21)..(call.len + 20) : Program[p] = Access("send")
                       /\ Program[call.len + 21] = Get0
                       /\ Program[call.len + 22] = Put0({}, {"GO"})
                       /\ Program[call.len + 23] = WaitClear("GO")
    BY <1>8, <1>16
  <1> QED
    BY <1>3, <1>13, <1>14, <1>17, <1>18, <1>19 DEF c, rest

-----------------------------------------------------------------------------
\* What an access does, if it succeeds.

\* A step whose reads bring their own answers.
Sound == Next /\ ~stale

LEMMA Sounds ==
    ASSUME Sound
    PROVE  /\ Next
           /\ Read0 => ctrl0' = cntl0
           /\ Read1 => ctrl1' = cntl1
           /\ ReadData => out' = Append(out, Front)
           /\ WaitOver => Awaited(cntl0, cntl1)
           /\ Poll => ~Awaited(cntl0, cntl1)
  <1>1. Seen0 = {cntl0} /\ Seen1 = {cntl1}
    BY DEF Sound, Seen0, Seen1
  <1>2. ReadData => out' = Append(out, Front)
    BY DEF Sound, ReadData
  <1>3. WaitOver => Awaited(cntl0, cntl1)
    BY <1>1 DEF WaitOver
  <1>4. Poll => ~Awaited(cntl0, cntl1)
    BY <1>1 DEF Poll
  <1> QED
    BY <1>1, <1>2, <1>3, <1>4 DEF Sound, Read0, Read1

Breaks == pc' = 0 /\ ret' = -1 /\ call' = call
Stays == pc' = pc /\ ret' = ret /\ call' = call

LEMMA OrZero == \A b \in 0..255 : Or(0, b) = b
  BY DEF Or, OrBit, Bit

\* Controller and driver do not move at once.
LEMMA ControllerAlone == Controller => Busy /\ UNCHANGED driver
  BY DEF Controller, Begins, SendsByte, TakesByte, Finishes, Refused

LEMMA PutStep ==
    ASSUME Sound, Running, NEW o \in SUBSET Flags, NEW i \in SUBSET Flags, Now = Put0(o, i)
    PROVE  \/ Controller
           \/ Breaks
           \/ /\ ctrl0' = (ctrl0 \ o) \cup i /\ Controller0(ctrl0')
              /\ UNCHANGED <<ctrl1, addr, out>> /\ Advance
  <1>1. Now.op = "put0" /\ Now.out = o /\ Now.in = i
    BY OpFields DEF Put0, OpNames
  <1> QED
    BY <1>1, Sounds DEF Next, Call, Write0, Read0, Write1, Read1, WriteData, ReadData, WaitOver, Poll,
                AccessFails, Waits, GiveUp, Breaks

\* The same for the other accesses, when the controller is at rest.
LEMMA SetStep ==
    ASSUME Sound, Running, ~Busy, NEW n \in Nat, NEW count \in Nat, Now = Put1("set1", n, count)
    PROVE  \/ Breaks
           \/ /\ ctrl1' = [n |-> n, count |-> count] /\ cntl1' = ctrl1'
              /\ UNCHANGED <<cntl0, fifo, begun, wire, nacked, ctrl0, addr, out>> /\ Advance
  <1>1. Now.op = "set1" /\ Now.n = n /\ Now.count = count
    BY OpFields DEF Put1, OpNames
  <1>2. Value1 = [n |-> Now.n, count |-> Now.count]
    BY <1>1 DEF Value1
  <1> QED
    BY <1>1, <1>2, ControllerAlone, Sounds
       DEF Next, Call, Write0, Read0, Write1, Read1, WriteData, ReadData, WaitOver, Poll,
           AccessFails, Waits, GiveUp, Breaks

LEMMA OneStep ==
    ASSUME Sound, Running, ~Busy, Now = Put1("one1", 0, 0), ctrl1 = [n |-> 0, count |-> 0]
    PROVE  \/ Breaks
           \/ /\ ctrl1' = [n |-> 1, count |-> 0] /\ cntl1' = ctrl1'
              /\ UNCHANGED <<cntl0, fifo, begun, wire, nacked, ctrl0, addr, out>> /\ Advance
  <1>1. Now.op = "one1"
    BY OpFields DEF Put1, OpNames
  <1>2. Value1 = [ctrl1 EXCEPT !.n = 1]
    BY <1>1 DEF Value1
  <1>3. Value1 = [n |-> 1, count |-> 0]
    BY <1>2
  <1> QED
    BY <1>1, <1>3, ControllerAlone, Sounds
       DEF Next, Call, Write0, Read0, Write1, Read1, WriteData, ReadData, WaitOver, Poll,
           AccessFails, Waits, GiveUp, Breaks

LEMMA DropStep ==
    ASSUME Sound, Running, ~Busy, Now = Put1("drop1", 0, 0), ctrl1 = [n |-> 0, count |-> 0]
    PROVE  \/ Breaks
           \/ /\ ctrl1' = [n |-> 0, count |-> 0] /\ cntl1' = ctrl1'
              /\ UNCHANGED <<cntl0, fifo, begun, wire, nacked, ctrl0, addr, out>> /\ Advance
  <1>1. Now.op = "drop1"
    BY OpFields DEF Put1, OpNames
  <1>2. Value1 = [ctrl1 EXCEPT !.n = 0]
    BY <1>1 DEF Value1
  <1>3. Value1 = [n |-> 0, count |-> 0]
    BY <1>2
  <1> QED
    BY <1>1, <1>3, ControllerAlone, Sounds
       DEF Next, Call, Write0, Read0, Write1, Read1, WriteData, ReadData, WaitOver, Poll,
           AccessFails, Waits, GiveUp, Breaks

LEMMA OrStep ==
    ASSUME Sound, Running, ~Busy, NEW count \in 0..255, NEW n \in {0, 1},
           Now = Put1("or1", 0, count), ctrl1 = [n |-> n, count |-> 0]
    PROVE  \/ Breaks
           \/ /\ ctrl1' = [n |-> n, count |-> count] /\ cntl1' = ctrl1'
              /\ UNCHANGED <<cntl0, fifo, begun, wire, nacked, ctrl0, addr, out>> /\ Advance
  <1>1. Now.op = "or1" /\ Now.count = count
    BY OpFields DEF Put1, OpNames
  <1>2. Value1 = [ctrl1 EXCEPT !.count = Or(@, Now.count)]
    BY <1>1 DEF Value1
  <1>3. Value1 = [n |-> n, count |-> Or(0, count)]
    BY <1>1, <1>2
  <1>4. Value1 = [n |-> n, count |-> count]
    BY <1>3, OrZero
  <1> QED
    BY <1>1, <1>4, ControllerAlone, Sounds
       DEF Next, Call, Write0, Read0, Write1, Read1, WriteData, ReadData, WaitOver, Poll,
           AccessFails, Waits, GiveUp, Breaks

LEMMA GetStep ==
    ASSUME Sound, Running, ~Busy, Now = Get0
    PROVE  \/ Breaks
           \/ /\ ctrl0' = cntl0
              /\ UNCHANGED <<controller, ctrl1, addr, out>> /\ Advance
  <1>1. Now.op = "get0"
    BY OpFields DEF Get0, Access, OpNames
  <1> QED
    BY <1>1, ControllerAlone, Sounds
       DEF Next, Call, Write0, Read0, Write1, Read1, WriteData, ReadData, WaitOver, Poll,
           AccessFails, Waits, GiveUp, Breaks

LEMMA AddrStep ==
    ASSUME Sound, Running, ~Busy, Now = Access("addr")
    PROVE  \/ Breaks
           \/ /\ ctrl0' = cntl0 /\ addr' = cntl0 \cap LowByte
              /\ UNCHANGED <<controller, ctrl1, out>> /\ Advance
  <1>1. Now.op = "addr"
    BY OpFields DEF Access, OpNames
  <1> QED
    BY <1>1, ControllerAlone, Sounds
       DEF Next, Call, Write0, Read0, Write1, Read1, WriteData, ReadData, WaitOver, Poll,
           AccessFails, Waits, GiveUp, Breaks

LEMMA Get1Step ==
    ASSUME Sound, Running, ~Busy, Now = Get1
    PROVE  \/ Breaks
           \/ /\ ctrl1' = cntl1
              /\ UNCHANGED <<controller, ctrl0, addr, out>> /\ Advance
  <1>1. Now.op = "get1"
    BY OpFields DEF Get1, Access, OpNames
  <1> QED
    BY <1>1, ControllerAlone, Sounds
       DEF Next, Call, Write0, Read0, Write1, Read1, WriteData, ReadData, WaitOver, Poll,
           AccessFails, Waits, GiveUp, Breaks

LEMMA ChipStep ==
    ASSUME Sound, Running, ~Busy, Now = Access("chip")
    PROVE  \/ Breaks
           \/ /\ fifo' = Append(fifo, <<"address", call.dir, addr>>)
              /\ UNCHANGED <<cntl0, cntl1, begun, wire, nacked, ctrl0, ctrl1, addr, out>> /\ Advance
  <1>1. Now.op = "chip"
    BY OpFields DEF Access, OpNames
  <1> QED
    BY <1>1, ControllerAlone, Sounds
       DEF Next, Loaded, Call, Write0, Read0, Write1, Read1, WriteData, ReadData, WaitOver, Poll,
           AccessFails, Waits, GiveUp, Breaks

LEMMA SendStep ==
    ASSUME Sound, Running, ~Busy, Now = Access("send")
    PROVE  \/ Breaks
           \/ /\ fifo' = Append(fifo, <<"byte", ByteNo("send")>>)
              /\ UNCHANGED <<cntl0, cntl1, begun, wire, nacked, ctrl0, ctrl1, addr, out>> /\ Advance
  <1>1. Now.op = "send"
    BY OpFields DEF Access, OpNames
  <1> QED
    BY <1>1, ControllerAlone, Sounds
       DEF Next, Loaded, Call, Write0, Read0, Write1, Read1, WriteData, ReadData, WaitOver, Poll,
           AccessFails, Waits, GiveUp, Breaks

LEMMA FetchStep ==
    ASSUME Sound, Running, ~Busy, Now = Access("fetch"), fifo # << >>
    PROVE  \/ Breaks
           \/ /\ out' = Append(out, Head(fifo)) /\ fifo' = Tail(fifo)
              /\ UNCHANGED <<cntl0, cntl1, begun, wire, nacked, ctrl0, ctrl1, addr>> /\ Advance
  <1>1. Now.op = "fetch"
    BY OpFields DEF Access, OpNames
  <1> QED
    BY <1>1, ControllerAlone, Sounds
       DEF Next, Front, Emptier, Call, Write0, Read0, Write1, Read1, WriteData, ReadData, WaitOver, Poll,
           AccessFails, Waits, GiveUp, Breaks

LEMMA WaitStep ==
    ASSUME Sound, Running, NEW flag \in Flags, Now = WaitClear(flag)
    PROVE  \/ Controller
           \/ Breaks
           \/ flag \in cntl0 /\ Stays /\ UNCHANGED <<controller, ctrl0, ctrl1, addr, out>>
           \/ flag \notin cntl0 /\ UNCHANGED <<controller, ctrl0, ctrl1, addr, out>> /\ Advance
  <1>1. Now.op = "wait" /\ Now.in = {flag}
    BY OpFields DEF WaitClear, OpNames
  <1>2. Awaited(cntl0, cntl1) <=> flag \notin cntl0
    BY <1>1 DEF Awaited
  <1> QED
    BY <1>1, <1>2, Sounds
       DEF Next, Call, Write0, Read0, Write1, Read1, WriteData, ReadData, WaitOver, Poll,
           AccessFails, Waits, GiveUp, Breaks, Stays

LEMMA Wait1Step ==
    ASSUME Sound, Running, ~Busy, Now = Access("wait1"), cntl1.n = 0
    PROVE  \/ Breaks
           \/ UNCHANGED <<controller, ctrl0, ctrl1, addr, out>> /\ Advance
  <1>1. Now.op = "wait1"
    BY OpFields DEF Access, OpNames
  <1>2. Awaited(cntl0, cntl1)
    BY <1>1 DEF Awaited
  <1> QED
    BY <1>1, <1>2, ControllerAlone, Sounds
       DEF Next, Call, Write0, Read0, Write1, Read1, WriteData, ReadData, WaitOver, Poll,
           AccessFails, Waits, GiveUp, Breaks

-----------------------------------------------------------------------------
\* What the controller does with a part.

\* The part of a call cl from byte a to byte b, run with the flags c0.
PartOf(cl, c0, a, b) ==
    /\ cl \in Calls /\ c0 \in SUBSET (Flags \ {"GO"})
    /\ a \in Nat \ {0} /\ b \in Nat /\ a <= b
    /\ "RECEIVE" \in c0 <=> cl.dir = "read"
    /\ "START" \in c0 => a = 1

LEMMA PartBegins ==
    ASSUME NEW cl, NEW c0, NEW a, NEW b, PartOf(cl, c0, a, b), Part(cl, c0, a, b), Begins
    PROVE  Part(cl, c0, a, b)'
  <1>1. /\ begun = FALSE /\ begun' = TRUE /\ cntl0' = cntl0 /\ cntl1' = cntl1 /\ fifo' = fifo
        /\ wire' = IF "START" \in cntl0 THEN Append(wire, <<"start">>) ELSE wire
    BY DEF Begins, Part, PartStarts
  <1>2. cntl0 = c0 \cup {"GO"} /\ ("START" \in cntl0 <=> "START" \in c0)
    BY DEF Part
  <1>3. CASE PartStarts(cl, c0, b)
    <2>1. wire = << >> /\ wire' = << <<"start">> >>
      BY <1>1, <1>2, <1>3, WireSeq DEF PartStarts
    <2> QED
      BY <2>1, <1>1, <1>2, <1>3 DEF PartStarts, Part
  <1>4. CASE "START" \notin c0 /\ begun = FALSE /\ PartBehind(cl, a, a - 1, b)
    <2>1. a - 1 \in (a - 1)..b
      BY DEF PartOf
    <2>2. PartBehind(cl, a, a - 1, b)'
      BY <1>1, <1>2, <1>4 DEF PartBehind
    <2> QED
      BY <2>1, <2>2, <1>1, <1>2 DEF Part
  <1> QED
    BY <1>1, <1>3, <1>4 DEF Part

LEMMA PartSends ==
    ASSUME NEW cl, NEW c0, NEW a, NEW b, PartOf(cl, c0, a, b), Part(cl, c0, a, b), SendsByte
    PROVE  Part(cl, c0, a, b)'
  <1>1. /\ begun = TRUE /\ begun' = begun /\ cntl0' = cntl0
        /\ wire' = Append(wire, Front) /\ fifo' = IF fifo = << >> THEN fifo ELSE Tail(fifo)
    BY DEF SendsByte, Emptier, Part, PartStarts
  <1>2. cntl0 = c0 \cup {"GO"} /\ ("RECEIVE" \in cntl0 <=> cl.dir = "read")
    BY DEF Part, PartOf
  <1>3. CASE PartStarts(cl, c0, b)
    <2> DEFINE m == IF cl.dir = "read" THEN 0 ELSE b
    <2>1. m \in Nat /\ fifo = Filled(cl, m) /\ wire = << <<"start">> >> /\ a = 1 /\ b \in Nat
          /\ cntl1 = [n |-> 1, count |-> b]
      BY <1>1, <1>3 DEF PartStarts, PartOf
    <2>2. wire' = OnWire(cl, 0) /\ fifo' = Bytes(1, m)
      BY <2>1, <1>1, FilledSeq, WireSeq DEF Front
    <2>3. cntl1' = [n |-> 0, count |-> b]
      BY <2>1 DEF SendsByte
    <2>4. PartBehind(cl, 1, 0, b)'
      <3>1. Load(cl, 1, 0, b) = Bytes(1, m)
        BY DEF Load
      <3> QED
        BY <2>1, <2>2, <2>3, <3>1 DEF PartBehind
    <2>5. 0 \in (a - 1)..b
      BY <2>1
    <2> QED
      BY <2>1, <2>4, <2>5, <1>1, <1>2 DEF Part
  <1>4. CASE \E k \in (a - 1)..b : PartBehind(cl, a, k, b)
    <2>1. PICK k \in (a - 1)..b : PartBehind(cl, a, k, b)
      BY <1>4
    <2>2. k \in Nat /\ a \in Nat \ {0} /\ b \in Nat /\ cntl1 = [n |-> 0, count |-> b - k]
      BY <2>1 DEF PartBehind, PartOf
    <2>3. cl.dir # "read" /\ k < b /\ cntl1' = [n |-> 0, count |-> b - (k + 1)]
      BY <2>2, <1>2 DEF SendsByte
    <2>4. fifo = Bytes(k + 1, b) /\ wire = OnWire(cl, k)
      BY <2>1, <2>3 DEF PartBehind, Load
    <2>5. wire' = OnWire(cl, k + 1) /\ fifo' = Bytes((k + 1) + 1, b)
      <3>1. k + 1 \in Nat \ {0} /\ k + 1 <= b + 1 /\ k + 1 <= b
        BY <2>2, <2>3
      <3>2. fifo # << >> /\ Head(fifo) = <<"byte", k + 1>> /\ Tail(fifo) = Bytes((k + 1) + 1, b)
        BY <3>1, <2>2, <2>4, BytesSeq
      <3>3. wire' = Append(wire, <<"byte", k + 1>>) /\ fifo' = Bytes((k + 1) + 1, b)
        BY <3>2, <1>1 DEF Front
      <3> QED
        BY <3>3, <2>2, <2>4, WireSeq
    <2>6. PartBehind(cl, a, k + 1, b)'
      <3>1. Load(cl, a, k + 1, b) = Bytes((k + 1) + 1, b)
        BY <2>3 DEF Load
      <3> QED
        BY <2>3, <2>5, <3>1 DEF PartBehind
    <2>7. k + 1 \in (a - 1)..b
      BY <2>2, <2>3, <2>1
    <2> QED
      BY <2>6, <2>7, <1>1, <1>2 DEF Part
  <1> QED
    BY <1>1, <1>3, <1>4 DEF Part

LEMMA PartTakes ==
    ASSUME NEW cl, NEW c0, NEW a, NEW b, PartOf(cl, c0, a, b), Part(cl, c0, a, b), TakesByte
    PROVE  Part(cl, c0, a, b)'
  <1>1. /\ begun = TRUE /\ begun' = begun /\ cntl0' = cntl0
        /\ wire' = Append(wire, <<"byte", Received + 1>>)
        /\ fifo' = Append(fifo, <<"byte", Received + 1>>)
    BY DEF TakesByte, Part, PartStarts
  <1>2. cntl0 = c0 \cup {"GO"} /\ cl.dir = "read"
    BY DEF Part, PartOf, TakesByte
  <1>3. PICK k \in (a - 1)..b : PartBehind(cl, a, k, b)
    BY <1>1 DEF Part, PartStarts, TakesByte
  <1>4. k \in Nat /\ a \in Nat \ {0} /\ b \in Nat /\ a <= k + 1
        /\ cntl1 = [n |-> 0, count |-> b - k]
    BY <1>3 DEF PartBehind, PartOf
  <1>5. k < b /\ cntl1' = [n |-> 0, count |-> b - (k + 1)]
    BY <1>4 DEF TakesByte
  <1>6. fifo = Bytes(a, k) /\ wire = OnWire(cl, k)
    BY <1>2, <1>3 DEF PartBehind, Load
  <1>7. Received = k
    BY <1>4, <1>6, WireCount
  <1>8. wire' = OnWire(cl, k + 1) /\ fifo' = Bytes(a, k + 1)
    BY <1>1, <1>4, <1>6, <1>7, BytesSeq, WireSeq
  <1>9. PartBehind(cl, a, k + 1, b)'
    <2>1. Load(cl, a, k + 1, b) = Bytes(a, k + 1)
      BY <1>2 DEF Load
    <2> QED
      BY <1>5, <1>8, <2>1 DEF PartBehind
  <1>10. k + 1 \in (a - 1)..b
    BY <1>3, <1>4, <1>5
  <1> QED
    BY <1>1, <1>2, <1>9, <1>10 DEF Part

LEMMA PartFinishes ==
    ASSUME NEW cl, NEW c0, NEW a, NEW b, PartOf(cl, c0, a, b), Part(cl, c0, a, b), Finishes
    PROVE  PartDone(cl, c0, a, b)'
  <1>1. /\ begun = TRUE /\ begun' = FALSE /\ cntl0' = (cntl0 \ {"GO"}) \cup {"DONE"}
        /\ cntl1.n = 0 /\ cntl1.count = 0 /\ cntl1' = cntl1 /\ fifo' = fifo
        /\ wire' = Stopped(cntl0, wire)
    BY DEF Finishes, Part, PartStarts, Stopped
  <1>2. cntl0 = c0 \cup {"GO"} /\ cntl0' = c0 \cup {"DONE"} /\ Stopped(cntl0, wire) = Stopped(c0, wire)
    BY <1>1 DEF Part, PartOf, Stopped
  <1>3. PICK k \in (a - 1)..b : PartBehind(cl, a, k, b)
    BY <1>1 DEF Part, PartStarts
  <1>4. k = b
    BY <1>1, <1>3 DEF PartBehind, PartOf
  <1>5. cntl1 = [n |-> 0, count |-> 0] /\ fifo = Load(cl, a, b, b) /\ wire = OnWire(cl, b)
    BY <1>3, <1>4 DEF PartBehind, PartOf
  <1> QED
    BY <1>1, <1>2, <1>5 DEF PartDone, Rest

\* A part goes on, ends or is refused.
LEMMA PartMoves ==
    ASSUME NEW cl, NEW c0, NEW a, NEW b, PartOf(cl, c0, a, b), Part(cl, c0, a, b), Controller
    PROVE  Part(cl, c0, a, b)' \/ PartDone(cl, c0, a, b)' \/ nacked'
  <1>1. Refused => nacked'
    BY DEF Refused
  <1> QED
    BY <1>1, PartBegins, PartSends, PartTakes, PartFinishes DEF Controller

\* A part that is done stays so, and has left the controller at rest.
LEMMA DoneRests ==
    ASSUME NEW cl, NEW c0, NEW a, NEW b, PartOf(cl, c0, a, b), PartDone(cl, c0, a, b)
    PROVE  ~Busy /\ ~Controller
  <1>1. ~Busy
    BY DEF PartOf, PartDone, Rest, Busy
  <1> QED
    BY <1>1, ControllerAlone

\* GO starts the part that was set up, from the first byte
LEMMA GoFirst ==
    ASSUME Sound, Running, Now = Put0({}, {"GO"}),
           NEW cl, NEW c0, NEW b, PartOf(cl, c0, 1, b), c0 \cap LowByte = {}, "START" \in c0,
           ctrl0 = c0, Rest(c0, 1, b, Filled(cl, IF cl.dir = "read" THEN 0 ELSE b), << >>)
    PROVE  \/ Breaks
           \/ /\ Part(cl, c0, 1, b)' /\ ctrl0' = c0 \cup {"GO"}
              /\ UNCHANGED <<ctrl1, addr, out>> /\ Advance
  <1>1. ~Busy /\ c0 \subseteq Flags /\ {"GO"} \in SUBSET Flags /\ {} \in SUBSET Flags
    BY FlagSets DEF Rest, PartOf, Busy
  <1>2. ~Controller
    BY <1>1, ControllerAlone
  <1>3. \/ Breaks
        \/ /\ ctrl0' = (ctrl0 \ {}) \cup {"GO"} /\ Controller0(ctrl0')
           /\ UNCHANGED <<ctrl1, addr, out>> /\ Advance
    BY <1>1, <1>2, PutStep
  <1>4. ASSUME ~Breaks
        PROVE  Part(cl, c0, 1, b)' /\ ctrl0' = c0 \cup {"GO"}
    <2>1. ctrl0' = c0 \cup {"GO"} /\ Controller0(c0 \cup {"GO"})
      BY <1>3, <1>4
    <2>2. "SOFT_RST" \notin c0 \cup {"GO"} /\ (c0 \cup {"GO"}) \ LowByte = c0 \cup {"GO"}
          /\ (cntl0 \cap Status) \ (c0 \cup {"GO"}) = {}
      BY <1>1, FlagSets DEF Rest
    <2>3. cntl0' = c0 \cup {"GO"} /\ UNCHANGED <<fifo, begun, wire, cntl1>>
      BY <2>1, <2>2 DEF Controller0
    <2>4. PartStarts(cl, c0, b)'
      BY <2>3 DEF PartStarts, Rest
    <2> QED
      BY <2>1, <2>3, <2>4 DEF Part
  <1> QED
    BY <1>3, <1>4

\* or, without START, from a later one.
LEMMA GoNext ==
    ASSUME Sound, Running, Now = Put0({}, {"GO"}),
           NEW cl, NEW c0, NEW a, NEW b, PartOf(cl, c0, a, b), c0 \cap LowByte = {},
           "START" \notin c0, ctrl0 = c0,
           Rest(c0, 0, b - a + 1, Load(cl, a, a - 1, b), OnWire(cl, a - 1))
    PROVE  \/ Breaks
           \/ /\ Part(cl, c0, a, b)' /\ ctrl0' = c0 \cup {"GO"}
              /\ UNCHANGED <<ctrl1, addr, out>> /\ Advance
  <1>1. ~Busy /\ c0 \subseteq Flags /\ {"GO"} \in SUBSET Flags /\ {} \in SUBSET Flags
    BY FlagSets DEF Rest, PartOf, Busy
  <1>2. ~Controller
    BY <1>1, ControllerAlone
  <1>3. \/ Breaks
        \/ /\ ctrl0' = (ctrl0 \ {}) \cup {"GO"} /\ Controller0(ctrl0')
           /\ UNCHANGED <<ctrl1, addr, out>> /\ Advance
    BY <1>1, <1>2, PutStep
  <1>4. ASSUME ~Breaks
        PROVE  Part(cl, c0, a, b)' /\ ctrl0' = c0 \cup {"GO"}
    <2>1. ctrl0' = c0 \cup {"GO"} /\ Controller0(c0 \cup {"GO"})
      BY <1>3, <1>4
    <2>2. "SOFT_RST" \notin c0 \cup {"GO"} /\ (c0 \cup {"GO"}) \ LowByte = c0 \cup {"GO"}
          /\ (cntl0 \cap Status) \ (c0 \cup {"GO"}) = {}
      BY <1>1, FlagSets DEF Rest
    <2>3. cntl0' = c0 \cup {"GO"} /\ UNCHANGED <<fifo, begun, wire, cntl1>>
      BY <2>1, <2>2 DEF Controller0
    <2>4. b - a + 1 = b - (a - 1)
      BY DEF PartOf
    <2>5. begun' = FALSE /\ PartBehind(cl, a, a - 1, b)'
      BY <2>3, <2>4 DEF PartBehind, Rest
    <2> QED
      BY <2>1, <2>3, <2>5 DEF Part
  <1> QED
    BY <1>3, <1>4

\* The wait for GO ends with the part done.
LEMMA WaitRun ==
    ASSUME Sound, Running, Now = WaitClear("GO"),
           NEW cl, NEW c0, NEW a, NEW b, PartOf(cl, c0, a, b),
           Part(cl, c0, a, b) \/ PartDone(cl, c0, a, b)
    PROVE  \/ Breaks
           \/ /\ Part(cl, c0, a, b)' \/ PartDone(cl, c0, a, b)' \/ nacked'
              /\ Stays /\ UNCHANGED <<ctrl0, ctrl1, addr, out>>
           \/ /\ PartDone(cl, c0, a, b)'
              /\ UNCHANGED <<ctrl0, ctrl1, addr, out>> /\ Advance
  <1>1. CASE Controller
    <2>1. Part(cl, c0, a, b) /\ Stays /\ UNCHANGED <<ctrl0, ctrl1, addr, out>>
      BY <1>1, DoneRests, ControllerAlone DEF Stays, driver
    <2> QED
      BY <1>1, <2>1, PartMoves
  <1>2. CASE "GO" \in cntl0 /\ Stays /\ UNCHANGED <<controller, ctrl0, ctrl1, addr, out>>
    <2>1. UNCHANGED <<cntl0, cntl1, fifo, begun, wire, nacked>>
      BY <1>2 DEF controller
    <2>2. CASE Part(cl, c0, a, b)
      <3>1. PartStarts(cl, c0, b) => PartStarts(cl, c0, b)'
        BY <2>1 DEF PartStarts
      <3>2. \A k \in Int : PartBehind(cl, a, k, b) => PartBehind(cl, a, k, b)'
        BY <2>1 DEF PartBehind
      <3>3. a - 1 \in Int /\ b \in Int
        BY DEF PartOf
      <3> QED
        BY <3>1, <3>2, <3>3, <2>1, <2>2, <1>2 DEF Part
    <2>3. CASE PartDone(cl, c0, a, b)
      BY <2>1, <2>3, <1>2 DEF PartDone, Rest
    <2> QED
      BY <2>2, <2>3
  <1>3. CASE /\ "GO" \notin cntl0 /\ UNCHANGED <<controller, ctrl0, ctrl1, addr, out>> /\ Advance
    <2>1. UNCHANGED <<cntl0, cntl1, fifo, begun, wire, nacked>>
      BY <1>3 DEF controller
    <2>2. PartDone(cl, c0, a, b)
      BY <1>3 DEF Part
    <2>3. PartDone(cl, c0, a, b)'
      BY <2>1, <2>2 DEF PartDone, Rest
    <2> QED
      BY <2>3, <1>3
  <1> QED
    BY <1>1, <1>2, <1>3, WaitStep, FlagSets

-----------------------------------------------------------------------------
\* A read goes from each of its states to the next.

\* The flags of the parts, and what is left of them by a write to CNTL_0.
LEMMA ReadFlags ==
    /\ ReadFirst \in SUBSET Flags /\ ReadSecond \in SUBSET Flags
    /\ "GO" \notin ReadFirst /\ "GO" \notin ReadSecond
    /\ ReadFirst \cap LowByte = {} /\ ReadSecond \cap LowByte = {}
  BY FlagSets DEF ReadFirst, ReadSecond

LEMMA ReadParts ==
    ASSUME NEW cl \in Calls, cl.dir = "read"
    PROVE  /\ PartOf(cl, ReadFirst, 1, FirstLen(cl))
           /\ Long(cl) => PartOf(cl, ReadSecond, FirstLen(cl) + 1, cl.len)
  <1>1. /\ FirstLen(cl) \in Nat \ {0} /\ cl.len \in Nat
        /\ Long(cl) => FirstLen(cl) + 1 <= cl.len
    BY Numbers
  <1>2. /\ ReadFirst \in SUBSET (Flags \ {"GO"}) /\ ReadSecond \in SUBSET (Flags \ {"GO"})
        /\ "RECEIVE" \in ReadFirst /\ "RECEIVE" \in ReadSecond /\ "START" \notin ReadSecond
    BY ReadFlags DEF ReadFirst, ReadSecond
  <1> QED
    BY <1>1, <1>2 DEF PartOf

LEMMA ReadSetupGoes ==
    ASSUME NEW cl \in Calls, call = cl, cl.dir = "read", NEW p \in Nat, pc = p, Sound,
           ReadSetup(cl, p)
    PROVE  Breaks \/ (Advance /\ ReadAt(cl, p + 1)')
  <1>1. p \in 2..8 /\ out = << >> /\ begun = FALSE /\ cntl0 = ReadFirst /\ wire = << >>
    BY DEF ReadSetup
  <1>2. Running /\ ~Busy /\ ~Controller /\ FirstLen(cl) \in Nat
    <2>1. Running
      BY <1>1 DEF Running
    <2>2. ~Busy
      BY <1>1, ReadFlags DEF Busy
    <2>3. FirstLen(cl) \in 1..255
      BY Numbers
    <2> QED
      BY <2>1, <2>2, <2>3, ControllerAlone
  <1>3. CASE p = 2
    <2>1. Now = Put1("set1", 0, 0)
      BY <1>3, ReadProgram DEF Now
    <2>2. \/ Breaks
          \/ /\ ctrl1' = [n |-> 0, count |-> 0] /\ cntl1' = ctrl1'
             /\ UNCHANGED <<cntl0, fifo, begun, wire, nacked, ctrl0, addr, out>> /\ Advance
      BY <1>2, <2>1, SetStep
    <2>3. fifo = << >>
      BY <1>3 DEF ReadSetup
    <2>4. ~Breaks => ReadSetup(cl, 3)'
      BY <1>1, <2>2, <2>3 DEF ReadSetup
    <2> QED
      BY <1>3, <2>2, <2>4 DEF ReadAt
  <1>4. CASE p = 3
    <2>1. Now = Access("addr")
      BY <1>4, ReadProgram DEF Now
    <2>2. \/ Breaks
          \/ /\ ctrl0' = cntl0 /\ addr' = cntl0 \cap LowByte
             /\ UNCHANGED <<controller, ctrl1, out>> /\ Advance
      BY <1>2, <2>1, AddrStep
    <2>3. fifo = << >> /\ cntl1 = [n |-> 0, count |-> 0]
      BY <1>4 DEF ReadSetup
    <2>4. cntl0 \cap LowByte = {}
      BY <1>1, ReadFlags
    <2>5. ~Breaks => ReadSetup(cl, 4)'
      BY <1>1, <2>2, <2>3, <2>4 DEF ReadSetup, controller
    <2> QED
      BY <1>4, <2>2, <2>5 DEF ReadAt
  <1>5. CASE p = 4
    <2>1. Now = Put0({}, {})
      BY <1>5, ReadProgram DEF Now
    <2>2. fifo = << >> /\ cntl1 = [n |-> 0, count |-> 0] /\ addr = {} /\ ctrl0 = ReadFirst
      BY <1>5 DEF ReadSetup
    <2>3. \/ Breaks
          \/ /\ ctrl0' = (ctrl0 \ {}) \cup {} /\ Controller0(ctrl0')
             /\ UNCHANGED <<ctrl1, addr, out>> /\ Advance
      <3>1. {} \in SUBSET Flags
        OBVIOUS
      <3> QED
        BY <1>2, <2>1, <3>1, PutStep
    <2>4. ASSUME ~Breaks
          PROVE  cntl0' = ReadFirst /\ UNCHANGED <<fifo, begun, wire, cntl1>>
      <3>1. ctrl0' = ReadFirst /\ Controller0(ReadFirst)
        <4>1. (ctrl0 \ {}) \cup {} = ReadFirst
          BY <2>2
        <4> QED
          BY <2>3, <2>4, <4>1
      <3> QED
        BY <3>1, <1>1, FlagSets DEF Controller0, ReadFirst
    <2>5. ~Breaks => ReadSetup(cl, 5)'
      BY <1>1, <2>2, <2>3, <2>4 DEF ReadSetup
    <2> QED
      BY <1>5, <2>3, <2>5 DEF ReadAt
  <1>6. CASE p = 5
    <2>1. Now = Put1("set1", 1, FirstLen(cl))
      BY <1>6, ReadProgram DEF Now
    <2>2. \/ Breaks
          \/ /\ ctrl1' = [n |-> 1, count |-> FirstLen(cl)] /\ cntl1' = ctrl1'
             /\ UNCHANGED <<cntl0, fifo, begun, wire, nacked, ctrl0, addr, out>> /\ Advance
      BY <1>2, <2>1, SetStep
    <2>3. fifo = << >> /\ addr = {}
      BY <1>6 DEF ReadSetup
    <2>4. ~Breaks => ReadSetup(cl, 6)'
      BY <1>1, <2>2, <2>3 DEF ReadSetup
    <2> QED
      BY <1>6, <2>2, <2>4 DEF ReadAt
  <1>7. CASE p = 6
    <2>1. Now = Access("chip")
      BY <1>7, ReadProgram DEF Now
    <2>2. \/ Breaks
          \/ /\ fifo' = Append(fifo, <<"address", call.dir, addr>>)
             /\ UNCHANGED <<cntl0, cntl1, begun, wire, nacked, ctrl0, ctrl1, addr, out>> /\ Advance
      BY <1>2, <2>1, ChipStep
    <2>3. fifo = << >> /\ addr = {} /\ cntl1 = [n |-> 1, count |-> FirstLen(cl)]
      BY <1>7 DEF ReadSetup
    <2>4. Append(fifo, <<"address", call.dir, addr>>) = Filled(cl, 0)
      BY <2>3, FilledSeq DEF AddressOf
    <2>5. ~Breaks => fifo' = Filled(cl, 0) /\ UNCHANGED <<cntl0, cntl1, begun, wire, addr, out>>
      BY <2>2, <2>4
    <2>6. ~Breaks => ReadSetup(cl, 7)'
      BY <1>1, <2>3, <2>5 DEF ReadSetup
    <2> QED
      BY <1>7, <2>2, <2>6 DEF ReadAt
  <1>8. CASE p = 7
    <2>1. Now = Get0
      BY <1>8, ReadProgram DEF Now
    <2>2. \/ Breaks
          \/ /\ ctrl0' = cntl0
             /\ UNCHANGED <<controller, ctrl1, addr, out>> /\ Advance
      BY <1>2, <2>1, GetStep
    <2>3. fifo = Filled(cl, 0) /\ addr = {} /\ cntl1 = [n |-> 1, count |-> FirstLen(cl)]
      BY <1>8 DEF ReadSetup
    <2>4. ~Breaks => ReadSetup(cl, 8)'
      BY <1>1, <2>2, <2>3 DEF ReadSetup, controller
    <2> QED
      BY <1>8, <2>2, <2>4 DEF ReadAt
  <1>9. CASE p = 8
    <2>1. Now = Put0({}, {"GO"})
      BY <1>9, ReadProgram DEF Now
    <2>2. fifo = Filled(cl, 0) /\ cntl1 = [n |-> 1, count |-> FirstLen(cl)] /\ ctrl0 = ReadFirst
      BY <1>9 DEF ReadSetup
    <2>3. Rest(ReadFirst, 1, FirstLen(cl), Filled(cl, IF cl.dir = "read" THEN 0 ELSE FirstLen(cl)), << >>)
      BY <1>1, <2>2 DEF Rest
    <2>4. PartOf(cl, ReadFirst, 1, FirstLen(cl)) /\ "START" \in ReadFirst
          /\ ReadFirst \cap LowByte = {}
      BY ReadParts, ReadFlags DEF ReadFirst
    <2>5. \/ Breaks
          \/ /\ Part(cl, ReadFirst, 1, FirstLen(cl))' /\ ctrl0' = ReadFirst \cup {"GO"}
             /\ UNCHANGED <<ctrl1, addr, out>> /\ Advance
      BY <1>2, <2>1, <2>2, <2>3, <2>4, GoFirst
    <2>6. ~Breaks => ReadRun(cl, 9)'
      BY <1>1, <2>5 DEF ReadRun
    <2> QED
      BY <1>9, <2>5, <2>6 DEF ReadAt
  <1> QED
    BY <1>1, <1>3, <1>4, <1>5, <1>6, <1>7, <1>8, <1>9

LEMMA ReadRunGoes ==
    ASSUME NEW cl \in Calls, call = cl, cl.dir = "read", NEW p \in Nat, pc = p, Sound,
           ReadRun(cl, p)
    PROVE  \/ Breaks
           \/ Stays /\ (ReadAt(cl, p)' \/ nacked')
           \/ Advance /\ ReadAt(cl, p + 1)'
  <1>1. FirstLen(cl) \in Nat \ {0} /\ cl.len \in Nat
        /\ (Long(cl) => FirstLen(cl) + 1 <= cl.len)
    BY Numbers, SMTT(30)
  <1>2. CASE p = 9 /\ out = << >> /\ (Part(cl, ReadFirst, 1, FirstLen(cl))
                                       \/ PartDone(cl, ReadFirst, 1, FirstLen(cl)))
    <2>1. Running /\ Now = WaitClear("GO")
      BY <1>2, ReadProgram DEF Now, Running
    <2>2. PartOf(cl, ReadFirst, 1, FirstLen(cl))
      BY ReadParts
    <2>3. \/ Breaks
          \/ /\ Part(cl, ReadFirst, 1, FirstLen(cl))' \/ PartDone(cl, ReadFirst, 1, FirstLen(cl))'
                \/ nacked'
             /\ Stays /\ UNCHANGED <<ctrl0, ctrl1, addr, out>>
          \/ /\ PartDone(cl, ReadFirst, 1, FirstLen(cl))'
             /\ UNCHANGED <<ctrl0, ctrl1, addr, out>> /\ Advance
      BY <1>2, <2>1, <2>2, WaitRun
    <2>4. ASSUME out' = out, Part(cl, ReadFirst, 1, FirstLen(cl))' \/ PartDone(cl, ReadFirst, 1, FirstLen(cl))'
          PROVE  ReadAt(cl, 9)'
      <3>1. ReadRun(cl, 9)'
        BY <1>2, <2>4 DEF ReadRun
      <3> QED
        BY <3>1 DEF ReadAt
    <2>5. ASSUME out' = out, PartDone(cl, ReadFirst, 1, FirstLen(cl))'
          PROVE  ReadAt(cl, 10)'
      <3>1. out' = Bytes(1, 10 - 10) /\ 10 \in 10..(FirstLen(cl) + 10)
        BY <1>1, <1>2, <2>5, BytesSeq
      <3>2. Rest(ReadFirst \cup {"DONE"}, 0, 0, Bytes(10 - 9, FirstLen(cl)),
                 OnWire(cl, FirstLen(cl)))'
        <4>1. "STOP" \notin ReadFirst
          BY DEF ReadFirst
        <4> QED
          BY <4>1, <2>5 DEF PartDone, Load, Stopped
      <3>3. ReadFetch(cl, 10)'
        BY <3>1, <3>2 DEF ReadFetch
      <3> QED
        BY <3>3 DEF ReadAt
    <2> QED
      BY <1>2, <2>3, <2>4, <2>5
  <1>3. CASE /\ p = FirstLen(cl) + 20 /\ Long(cl) /\ out = Bytes(1, FirstLen(cl))
             /\ \/ Part(cl, ReadSecond, FirstLen(cl) + 1, cl.len)
                \/ PartDone(cl, ReadSecond, FirstLen(cl) + 1, cl.len)
    <2>1. Running /\ Now = WaitClear("GO")
      BY <1>1, <1>3, ReadProgram DEF Now, Running
    <2>2. PartOf(cl, ReadSecond, FirstLen(cl) + 1, cl.len)
      BY <1>3, ReadParts
    <2>3. \/ Breaks
          \/ /\ Part(cl, ReadSecond, FirstLen(cl) + 1, cl.len)'
                \/ PartDone(cl, ReadSecond, FirstLen(cl) + 1, cl.len)' \/ nacked'
             /\ Stays /\ UNCHANGED <<ctrl0, ctrl1, addr, out>>
          \/ /\ PartDone(cl, ReadSecond, FirstLen(cl) + 1, cl.len)'
             /\ UNCHANGED <<ctrl0, ctrl1, addr, out>> /\ Advance
      BY <1>3, <2>1, <2>2, WaitRun
    <2>4. ASSUME out' = out, Part(cl, ReadSecond, FirstLen(cl) + 1, cl.len)'
                             \/ PartDone(cl, ReadSecond, FirstLen(cl) + 1, cl.len)'
          PROVE  ReadAt(cl, p)'
      <3>1. ReadRun(cl, p)'
        BY <1>3, <2>4 DEF ReadRun
      <3> QED
        BY <3>1 DEF ReadAt
    <2>5. ASSUME out' = out, PartDone(cl, ReadSecond, FirstLen(cl) + 1, cl.len)'
          PROVE  ReadAt(cl, p + 1)'
      <3>1. /\ p + 1 = FirstLen(cl) + 21 /\ p + 1 \in (FirstLen(cl) + 21)..(cl.len + 21)
            /\ p + 1 - 21 = FirstLen(cl) /\ p + 1 - 20 = cl.len + 1 - (cl.len - FirstLen(cl))
        BY <1>1, <1>3
      <3>2. p + 1 - 20 = FirstLen(cl) + 1
        BY <1>1, <1>3
      <3>3. Rest(ReadSecond \cup {"DONE"}, 0, 0, Bytes(FirstLen(cl) + 1, cl.len),
                 Append(OnWire(cl, cl.len), <<"stop">>))'
        <4>1. "STOP" \in ReadSecond
          BY DEF ReadSecond
        <4> QED
          BY <4>1, <2>5 DEF PartDone, Load, Stopped
      <3>4. ReadFetch(cl, p + 1)'
        BY <1>3, <2>5, <3>1, <3>2, <3>3 DEF ReadFetch
      <3> QED
        BY <3>4 DEF ReadAt
    <2> QED
      BY <1>3, <2>3, <2>4, <2>5
  <1> QED
    BY <1>2, <1>3 DEF ReadRun

\* The driver takes a byte out of the controller.
LEMMA FetchGoes ==
    ASSUME Sound, Running, Now = Access("fetch"), NEW c0, NEW w, "GO" \notin c0,
           NEW k \in Nat, NEW b \in Nat, k < b,
           out = Bytes(1, k), Rest(c0, 0, 0, Bytes(k + 1, b), w)
    PROVE  \/ Breaks
           \/ Rest(c0, 0, 0, Bytes(k + 2, b), w)' /\ out' = Bytes(1, k + 1) /\ Advance
  <1>1. ~Busy /\ fifo = Bytes(k + 1, b)
    BY DEF Rest, Busy
  <1>2. /\ k + 1 \in Nat \ {0} /\ k + 1 <= b /\ k + 1 <= b + 1 /\ (k + 1) + 1 = k + 2
        /\ 1 \in Nat \ {0} /\ 1 <= k + 1
    OBVIOUS
  <1>3. fifo # << >> /\ Head(fifo) = <<"byte", k + 1>> /\ Tail(fifo) = Bytes(k + 2, b)
    <2>1. /\ Bytes(k + 1, b) # << >> /\ Head(Bytes(k + 1, b)) = <<"byte", k + 1>>
          /\ Tail(Bytes(k + 1, b)) = Bytes((k + 1) + 1, b)
      BY <1>2, BytesSeq, ZenonT(30)
    <2> QED
      BY <1>1, <1>2, <2>1
  <1>4. \/ Breaks
        \/ /\ out' = Append(out, Head(fifo)) /\ fifo' = Tail(fifo)
           /\ UNCHANGED <<cntl0, cntl1, begun, wire, nacked, ctrl0, ctrl1, addr>> /\ Advance
    BY <1>1, <1>3, FetchStep
  <1>5. Append(out, Head(fifo)) = Bytes(1, k + 1)
    <2>1. Append(Bytes(1, k), <<"byte", k + 1>>) = Bytes(1, k + 1)
      BY <1>2, BytesSeq, ZenonT(30)
    <2> QED
      BY <1>3, <2>1
  <1> QED
    BY <1>3, <1>4, <1>5 DEF Rest

LEMMA ReadFetchGoes ==
    ASSUME NEW cl \in Calls, call = cl, cl.dir = "read", NEW p \in Nat, pc = p, p <= Last(cl),
           Sound, ReadFetch(cl, p)
    PROVE  Breaks \/ (Advance /\ ReadAt(cl, p + 1)')
  <1> DEFINE n == FirstLen(cl)
  <1>1. n \in Nat \ {0} /\ cl.len \in Nat /\ (Long(cl) => n + 1 <= cl.len)
        /\ Last(cl) = IF Long(cl) THEN cl.len + 20 ELSE n + 9
    BY Numbers DEF Last
  <1>2. CASE /\ p \in 10..(n + 10) /\ out = Bytes(1, p - 10)
             /\ Rest(ReadFirst \cup {"DONE"}, 0, 0, Bytes(p - 9, n), OnWire(cl, n))
    <2>1. Running /\ "GO" \notin ReadFirst \cup {"DONE"}
      BY <1>2, ReadFlags DEF Running
    <2>2. CASE p <= n + 9
      <3> DEFINE k == p - 10
      <3>1. k \in Nat /\ n \in Nat /\ k < n /\ k + 1 = p - 9 /\ k + 2 = (p + 1) - 9
            /\ k + 1 = (p + 1) - 10 /\ p \in 10..(n + 9) /\ p + 1 \in 10..(n + 10)
        BY <1>1, <1>2, <2>2
      <3>2. Now = Access("fetch")
        BY <3>1, ReadProgram DEF Now
      <3>3. out = Bytes(1, k) /\ Rest(ReadFirst \cup {"DONE"}, 0, 0, Bytes(k + 1, n), OnWire(cl, n))
        BY <3>1, <1>2
      <3> HIDE DEF k, n
      <3>4. \/ Breaks
            \/ /\ Rest(ReadFirst \cup {"DONE"}, 0, 0, Bytes(k + 2, n), OnWire(cl, n))'
               /\ out' = Bytes(1, k + 1) /\ Advance
        BY <2>1, <3>1, <3>2, <3>3, FetchGoes, ZenonT(30)
      <3>5. ~Breaks => ReadFetch(cl, p + 1)'
        BY <3>1, <3>4 DEF ReadFetch, n
      <3> QED
        BY <3>4, <3>5 DEF ReadAt
    <2>3. CASE p = n + 10
      <3>1. Long(cl)
        BY <1>1, <2>3
      <3>2. Now = Get0 /\ (p + 1) - n = 11
        BY <1>1, <2>3, <3>1, ReadProgram DEF Now
      <3>3. ~Busy
        BY <1>2, <2>1 DEF Busy, Rest
      <3>4. \/ Breaks
            \/ /\ ctrl0' = cntl0
               /\ UNCHANGED <<controller, ctrl1, addr, out>> /\ Advance
        BY <2>1, <3>2, <3>3, GetStep
      <3>5. /\ cntl0 = ReadFirst \cup {"DONE"} /\ cntl1 = [n |-> 0, count |-> 0]
            /\ wire = OnWire(cl, n) /\ begun = FALSE
        BY <1>2 DEF Rest
      <3>6. out = Bytes(1, n) /\ fifo = << >>
        <4>1. p - 10 = n /\ p - 9 = n + 1 /\ n + 1 \in Nat \ {0} /\ n + 1 <= n + 1
          BY <1>1, <2>3
        <4>2. Bytes(n + 1, n) = << >>
          BY <1>1, <4>1, BytesSeq
        <4> QED
          BY <1>2, <4>1, <4>2 DEF Rest
      <3>7. ~Breaks => ReadBetween(cl, 11)'
        BY <3>1, <3>4, <3>5, <3>6 DEF ReadBetween, controller
      <3>8. ASSUME ReadBetween(cl, 11)'
            PROVE  ReadAt(cl, p + 1)'
        BY <3>2, <3>8 DEF ReadAt
      <3> QED
        BY <3>4, <3>7, <3>8
    <2> QED
      BY <1>1, <1>2, <2>2, <2>3
  <1>3. CASE /\ p \in (n + 21)..(cl.len + 21) /\ Long(cl) /\ out = Bytes(1, p - 21)
             /\ Rest(ReadSecond \cup {"DONE"}, 0, 0, Bytes(p - 20, cl.len),
                     Append(OnWire(cl, cl.len), <<"stop">>))
    <2>1. Running /\ "GO" \notin ReadSecond \cup {"DONE"}
      BY <1>1, <1>3, ReadFlags DEF Running
    <2> DEFINE k == p - 21
               m == cl.len
    <2>2. k \in Nat /\ m \in Nat /\ k < m /\ k + 1 = p - 20 /\ k + 2 = (p + 1) - 20
          /\ k + 1 = (p + 1) - 21 /\ p \in (n + 21)..(m + 20) /\ p + 1 \in (n + 21)..(m + 21)
      BY <1>1, <1>3
    <2>3. Now = Access("fetch")
      BY <1>3, <2>2, ReadProgram DEF Now
    <2>4. /\ out = Bytes(1, k)
          /\ Rest(ReadSecond \cup {"DONE"}, 0, 0, Bytes(k + 1, m), Append(OnWire(cl, m), <<"stop">>))
      BY <2>2, <1>3
    <2> HIDE DEF k, m, n
    <2>5. \/ Breaks
          \/ /\ Rest(ReadSecond \cup {"DONE"}, 0, 0, Bytes(k + 2, m), Append(OnWire(cl, m), <<"stop">>))'
             /\ out' = Bytes(1, k + 1) /\ Advance
      BY <2>1, <2>2, <2>3, <2>4, FetchGoes, ZenonT(30)
    <2>6. ~Breaks => ReadFetch(cl, p + 1)'
      BY <1>3, <2>2, <2>5 DEF ReadFetch, n, m
    <2> QED
      BY <2>5, <2>6 DEF ReadAt
  <1> QED
    BY <1>2, <1>3 DEF ReadFetch

LEMMA ReadBetweenGoes ==
    ASSUME NEW cl \in Calls, call = cl, cl.dir = "read", NEW p \in Nat, pc = p, Sound,
           ReadBetween(cl, p - FirstLen(cl))
    PROVE  Breaks \/ (Advance /\ ReadAt(cl, p + 1)')
  <1> DEFINE n == FirstLen(cl)
             q == p - n
             rest == cl.len - n
  <1>1. /\ q \in 11..19 /\ Long(cl) /\ out = Bytes(1, n) /\ begun = FALSE /\ fifo = << >>
        /\ wire = OnWire(cl, n)
    BY DEF ReadBetween
  <1>2. n \in Nat \ {0} /\ rest \in 1..255 /\ rest \in Nat /\ p = n + q /\ (p + 1) - n = q + 1
        /\ cl.len \in Nat
    <2>1. n \in 1..255 /\ rest \in 1..255 /\ cl.len \in Nat
      BY <1>1, Numbers
    <2> QED
      BY <2>1
  <1>3. Running /\ ~Busy /\ ~Controller
    <2>1. Running
      BY <1>1, <1>2 DEF Running
    <2>2. ~Busy
      BY DEF Busy, ReadBetween, ReadFirst, ReadSecond
    <2> QED
      BY <2>1, <2>2, ControllerAlone
  <1>4. /\ Program[n + 11] = Put0({"START"}, {}) /\ Program[n + 12] = WaitClear("DONE")
        /\ Program[n + 13] = Put0({}, {"STOP"}) /\ Program[n + 14] = Get1
        /\ Program[n + 15] = Put1("drop1", 0, 0) /\ Program[n + 16] = Access("wait1")
        /\ Program[n + 17] = Put1("or1", 0, rest) /\ Program[n + 18] = Get0
        /\ Program[n + 19] = Put0({}, {"GO"})
    BY <1>1, ReadProgram
  <1>5. /\ q = 11 => cntl0 = ReadFirst \cup {"DONE"} /\ ctrl0 = ReadFirst \cup {"DONE"}
        /\ q \in 12..13 => cntl0 = {"RECEIVE"} /\ ctrl0 = {"RECEIVE", "DONE"}
        /\ q > 13 => cntl0 = ReadSecond
        /\ q < 18 => cntl1 = [n |-> 0, count |-> 0]
        /\ q > 17 => cntl1 = [n |-> 0, count |-> rest]
        /\ q \in 15..17 => ctrl1 = [n |-> 0, count |-> 0]
        /\ q = 19 => ctrl0 = ReadSecond
    <2> HIDE DEF n
    <2>1. /\ cntl0 = IF q = 11 THEN ReadFirst \cup {"DONE"}
                     ELSE IF q < 14 THEN {"RECEIVE"} ELSE ReadSecond
          /\ cntl1 = [n |-> 0, count |-> IF q < 18 THEN 0 ELSE rest]
          /\ q \in 15..17 => ctrl1 = [n |-> 0, count |-> 0]
          /\ q = 11 => ctrl0 = ReadFirst \cup {"DONE"}
          /\ q \in 12..13 => ctrl0 = {"RECEIVE", "DONE"}
          /\ q = 19 => ctrl0 = ReadSecond
      BY DEF ReadBetween, n
    <2> HIDE DEF q, rest
    <2> QED
      BY <1>1, <2>1
  <1>6. ASSUME ReadBetween(cl, q + 1)'
        PROVE  ReadAt(cl, p + 1)'
    BY <1>2, <1>6 DEF ReadAt
  <1> HIDE DEF n, rest, q
  <1>7. CASE q = 11
    <2>1. Now = Put0({"START"}, {})
      BY <1>2, <1>4, <1>7 DEF Now
    <2>2. /\ cntl0 = ReadFirst \cup {"DONE"} /\ ctrl0 = ReadFirst \cup {"DONE"}
          /\ cntl1 = [n |-> 0, count |-> 0]
      BY <1>5, <1>7
    <2>3. \/ Breaks
          \/ /\ ctrl0' = (ctrl0 \ {"START"}) \cup {} /\ Controller0(ctrl0')
             /\ UNCHANGED <<ctrl1, addr, out>> /\ Advance
      <3>1. {} \in SUBSET Flags /\ {"START"} \in SUBSET Flags
        BY FlagSets
      <3> QED
        BY <1>3, <2>1, <3>1, PutStep
    <2>4. ASSUME ~Breaks
          PROVE  /\ ctrl0' = {"RECEIVE", "DONE"} /\ cntl0' = {"RECEIVE"}
                 /\ UNCHANGED <<fifo, begun, wire, cntl1>>
      <3>1. ctrl0' = {"RECEIVE", "DONE"} /\ Controller0({"RECEIVE", "DONE"})
        <4>1. (ctrl0 \ {"START"}) \cup {} = {"RECEIVE", "DONE"}
          BY <2>2 DEF ReadFirst
        <4> QED
          BY <2>3, <2>4, <4>1
      <3>2. UNCHANGED <<fifo, begun, wire, cntl1>>
        BY <3>1 DEF Controller0
      <3>3. cntl0' = {"RECEIVE"}
        <4>1. cntl0' = ((cntl0 \cap Status) \ {"RECEIVE", "DONE"}) \cup ({"RECEIVE", "DONE"} \ LowByte)
          BY <3>1 DEF Controller0
        <4> QED
          BY <4>1, <2>2, FlagSets DEF ReadFirst
      <3> QED
        BY <3>1, <3>2, <3>3
    <2>5. ~Breaks => ReadBetween(cl, 12)'
      BY <1>1, <2>2, <2>3, <2>4 DEF ReadBetween, n
    <2> QED
      BY <1>6, <1>7, <2>3, <2>5
  <1>8. CASE q = 12
    <2>1. Now = WaitClear("DONE")
      BY <1>2, <1>4, <1>8 DEF Now
    <2>2. cntl0 = {"RECEIVE"} /\ ctrl0 = {"RECEIVE", "DONE"} /\ cntl1 = [n |-> 0, count |-> 0]
      BY <1>5, <1>8
    <2>3. Breaks \/ (UNCHANGED <<controller, ctrl0, ctrl1, addr, out>> /\ Advance)
      <3>1. "DONE" \notin cntl0 /\ "DONE" \in Flags
        BY <2>2, FlagSets
      <3> QED
        BY <1>3, <2>1, <3>1, WaitStep
    <2>4. ~Breaks => /\ cntl0' = {"RECEIVE"} /\ ctrl0' = {"RECEIVE", "DONE"} /\ cntl1' = [n |-> 0, count |-> 0]
                     /\ UNCHANGED <<fifo, begun, wire, out>>
      BY <2>2, <2>3 DEF controller
    <2>5. ~Breaks => ReadBetween(cl, 13)'
      BY <1>1, <2>4 DEF ReadBetween, n, rest
    <2> QED
      BY <1>6, <1>8, <2>3, <2>5
  <1>9. CASE q = 13
    <2>1. Now = Put0({}, {"STOP"})
      BY <1>2, <1>4, <1>9 DEF Now
    <2>2. cntl0 = {"RECEIVE"} /\ ctrl0 = {"RECEIVE", "DONE"} /\ cntl1 = [n |-> 0, count |-> 0]
      BY <1>5, <1>9
    <2>3. \/ Breaks
          \/ /\ ctrl0' = (ctrl0 \ {}) \cup {"STOP"} /\ Controller0(ctrl0')
             /\ UNCHANGED <<ctrl1, addr, out>> /\ Advance
      <3>1. {} \in SUBSET Flags /\ {"STOP"} \in SUBSET Flags
        BY FlagSets
      <3> QED
        BY <1>3, <2>1, <3>1, PutStep
    <2>4. ASSUME ~Breaks
          PROVE  cntl0' = ReadSecond /\ UNCHANGED <<fifo, begun, wire, cntl1>>
      <3>1. Controller0({"RECEIVE", "DONE", "STOP"})
        <4>1. (ctrl0 \ {}) \cup {"STOP"} = {"RECEIVE", "DONE", "STOP"}
          BY <2>2
        <4> QED
          BY <2>3, <2>4, <4>1
      <3>2. UNCHANGED <<fifo, begun, wire, cntl1>>
        BY <3>1 DEF Controller0
      <3>3. cntl0' = ReadSecond
        <4>1. cntl0' = ((cntl0 \cap Status) \ {"RECEIVE", "DONE", "STOP"})
                          \cup ({"RECEIVE", "DONE", "STOP"} \ LowByte)
          BY <3>1 DEF Controller0
        <4> QED
          BY <4>1, <2>2, FlagSets DEF ReadSecond
      <3> QED
        BY <3>2, <3>3
    <2>5. ~Breaks => ReadBetween(cl, 14)'
      BY <1>1, <2>2, <2>3, <2>4 DEF ReadBetween, n
    <2> QED
      BY <1>6, <1>9, <2>3, <2>5
  <1>10. CASE q = 14
    <2>1. Now = Get1
      BY <1>2, <1>4, <1>10 DEF Now
    <2>2. cntl0 = ReadSecond /\ cntl1 = [n |-> 0, count |-> 0]
      BY <1>5, <1>10
    <2>3. \/ Breaks
          \/ /\ ctrl1' = cntl1
             /\ UNCHANGED <<controller, ctrl0, addr, out>> /\ Advance
      BY <1>3, <2>1, Get1Step
    <2>4. ~Breaks => /\ cntl0' = ReadSecond /\ cntl1' = [n |-> 0, count |-> 0] /\ ctrl1' = [n |-> 0, count |-> 0]
                     /\ UNCHANGED <<fifo, begun, wire, out>>
      BY <2>2, <2>3 DEF controller
    <2>5. ~Breaks => ReadBetween(cl, 15)'
      BY <1>1, <2>4 DEF ReadBetween, n, rest
    <2> QED
      BY <1>6, <1>10, <2>3, <2>5
  <1>11. CASE q = 15
    <2>1. Now = Put1("drop1", 0, 0)
      BY <1>2, <1>4, <1>11 DEF Now
    <2>2. cntl0 = ReadSecond /\ cntl1 = [n |-> 0, count |-> 0] /\ ctrl1 = [n |-> 0, count |-> 0]
      BY <1>5, <1>11
    <2>3. \/ Breaks
          \/ /\ ctrl1' = [n |-> 0, count |-> 0] /\ cntl1' = ctrl1'
             /\ UNCHANGED <<cntl0, fifo, begun, wire, nacked, ctrl0, addr, out>> /\ Advance
      BY <1>3, <2>1, <2>2, DropStep
    <2>4. ~Breaks => /\ cntl0' = ReadSecond /\ cntl1' = [n |-> 0, count |-> 0] /\ ctrl1' = [n |-> 0, count |-> 0]
                     /\ UNCHANGED <<fifo, begun, wire, out>>
      BY <2>2, <2>3 DEF controller
    <2>5. ~Breaks => ReadBetween(cl, 16)'
      BY <1>1, <2>4 DEF ReadBetween, n, rest
    <2> QED
      BY <1>6, <1>11, <2>3, <2>5
  <1>12. CASE q = 16
    <2>1. Now = Access("wait1")
      BY <1>2, <1>4, <1>12 DEF Now
    <2>2. cntl0 = ReadSecond /\ cntl1 = [n |-> 0, count |-> 0] /\ ctrl1 = [n |-> 0, count |-> 0]
          /\ cntl1.n = 0
      BY <1>5, <1>12
    <2>3. Breaks \/ (UNCHANGED <<controller, ctrl0, ctrl1, addr, out>> /\ Advance)
      BY <1>3, <2>1, <2>2, Wait1Step
    <2>4. ~Breaks => /\ cntl0' = ReadSecond /\ cntl1' = [n |-> 0, count |-> 0] /\ ctrl1' = [n |-> 0, count |-> 0]
                     /\ UNCHANGED <<fifo, begun, wire, out>>
      BY <2>2, <2>3 DEF controller
    <2>5. ~Breaks => ReadBetween(cl, 17)'
      BY <1>1, <2>4 DEF ReadBetween, n, rest
    <2> QED
      BY <1>6, <1>12, <2>3, <2>5
  <1>13. CASE q = 17
    <2>1. Now = Put1("or1", 0, rest)
      BY <1>2, <1>4, <1>13 DEF Now
    <2>2. cntl0 = ReadSecond /\ ctrl1 = [n |-> 0, count |-> 0]
      BY <1>5, <1>13
    <2>3. \/ Breaks
          \/ /\ ctrl1' = [n |-> 0, count |-> rest] /\ cntl1' = ctrl1'
             /\ UNCHANGED <<cntl0, fifo, begun, wire, nacked, ctrl0, addr, out>> /\ Advance
      <3>1. rest \in 0..255
        BY <1>2
      <3> QED
        BY <1>3, <2>1, <2>2, <3>1, OrStep
    <2>4. ~Breaks => /\ cntl0' = ReadSecond /\ cntl1' = [n |-> 0, count |-> rest]
                     /\ UNCHANGED <<fifo, begun, wire, out>>
      BY <2>2, <2>3 DEF controller
    <2>5. ~Breaks => ReadBetween(cl, 18)'
      BY <1>1, <2>4 DEF ReadBetween, n, rest
    <2> QED
      BY <1>6, <1>13, <2>3, <2>5
  <1>14. CASE q = 18
    <2>1. Now = Get0
      BY <1>2, <1>4, <1>14 DEF Now
    <2>2. cntl0 = ReadSecond /\ cntl1 = [n |-> 0, count |-> rest]
      BY <1>5, <1>14
    <2>3. \/ Breaks
          \/ /\ ctrl0' = cntl0
             /\ UNCHANGED <<controller, ctrl1, addr, out>> /\ Advance
      BY <1>3, <2>1, GetStep
    <2>4. ~Breaks => /\ cntl0' = ReadSecond /\ cntl1' = [n |-> 0, count |-> rest] /\ ctrl0' = ReadSecond
                     /\ UNCHANGED <<fifo, begun, wire, out>>
      BY <2>2, <2>3 DEF controller
    <2>5. ~Breaks => ReadBetween(cl, 19)'
      BY <1>1, <2>4 DEF ReadBetween, n, rest
    <2> QED
      BY <1>6, <1>14, <2>3, <2>5
  <1>15. CASE q = 19
    <2>1. Now = Put0({}, {"GO"})
      BY <1>2, <1>4, <1>15 DEF Now
    <2>2. cntl0 = ReadSecond /\ cntl1 = [n |-> 0, count |-> rest] /\ ctrl0 = ReadSecond
      BY <1>5, <1>15
    <2>3. Rest(ReadSecond, 0, cl.len - (n + 1) + 1, Load(cl, n + 1, (n + 1) - 1, cl.len),
               OnWire(cl, (n + 1) - 1))
      <3>1. /\ (n + 1) - 1 = n /\ cl.len - (n + 1) + 1 = rest
            /\ n + 1 \in Nat \ {0} /\ n + 1 <= n + 1 /\ n \in Nat
        BY <1>2 DEF rest
      <3>2. Load(cl, n + 1, n, cl.len) = << >>
        BY <3>1, BytesSeq DEF Load
      <3> QED
        BY <1>1, <2>2, <3>1, <3>2 DEF Rest
    <2>4. PartOf(cl, ReadSecond, n + 1, cl.len) /\ ReadSecond \cap LowByte = {} /\ "START" \notin ReadSecond
      BY <1>1, ReadParts, ReadFlags DEF n, ReadSecond
    <2>5. \/ Breaks
          \/ /\ Part(cl, ReadSecond, n + 1, cl.len)' /\ ctrl0' = ReadSecond \cup {"GO"}
             /\ UNCHANGED <<ctrl1, addr, out>> /\ Advance
      BY <1>3, <2>1, <2>2, <2>3, <2>4, GoNext
    <2>6. ~Breaks => ReadRun(cl, n + 20)'
      BY <1>1, <2>5 DEF ReadRun, n
    <2>7. p + 1 = n + 20
      BY <1>2, <1>15
    <2> QED
      BY <2>5, <2>6, <2>7 DEF ReadAt
  <1> QED
    BY <1>1, <1>7, <1>8, <1>9, <1>10, <1>11, <1>12, <1>13, <1>14, <1>15

\* One step of a read.
LEMMA ReadGoes ==
    ASSUME NEW cl \in Calls, call = cl, cl.dir = "read", NEW p \in Nat, pc = p, p <= Last(cl),
           Sound, ReadAt(cl, p)
    PROVE  \/ Breaks
           \/ Stays /\ (ReadAt(cl, p)' \/ nacked')
           \/ Advance /\ ReadAt(cl, p + 1)'
  BY ReadSetupGoes, ReadRunGoes, ReadFetchGoes, ReadBetweenGoes DEF ReadAt

-----------------------------------------------------------------------------
\* A write goes from each of its states to the next.

LEMMA WriteFlags ==
    ASSUME NEW cl
    PROVE  /\ WriteFirst(cl) \in SUBSET Flags /\ {"STOP"} \in SUBSET Flags
           /\ WriteFirst(cl) \cap LowByte = {} /\ {"STOP"} \cap LowByte = {}
           /\ "GO" \notin WriteFirst(cl) /\ "RECEIVE" \notin WriteFirst(cl) /\ "START" \in WriteFirst(cl)
           /\ Long(cl) => WriteFirst(cl) = {"START"}
  BY FlagSets DEF WriteFirst

LEMMA WriteParts ==
    ASSUME NEW cl \in Calls, cl.dir = "write"
    PROVE  /\ PartOf(cl, WriteFirst(cl), 1, FirstLen(cl))
           /\ Long(cl) => PartOf(cl, {"STOP"}, FirstLen(cl) + 1, cl.len)
  <1>1. /\ FirstLen(cl) \in Nat \ {0} /\ cl.len \in Nat
        /\ Long(cl) => FirstLen(cl) + 1 <= cl.len
    BY Numbers
  <1>2. /\ WriteFirst(cl) \in SUBSET (Flags \ {"GO"}) /\ {"STOP"} \in SUBSET (Flags \ {"GO"})
        /\ "RECEIVE" \notin WriteFirst(cl) /\ cl.dir # "read"
    BY WriteFlags, FlagSets
  <1> QED
    BY <1>1, <1>2 DEF PartOf

LEMMA OpKinds ==
    /\ \A o, i : Put0(o, i).op = "put0"
    /\ \A op, n, count : Put1(op, n, count).op = op
    /\ \A op : Access(op).op = op
    /\ \A flag : WaitClear(flag).op = "wait"
    /\ Get0.op = "get0" /\ Get1.op = "get1"
  BY DEF Put0, Put1, Access, WaitClear, Get0, Get1, Op

\* The last accesses of a long write.
LEMMA WriteTail ==
    ASSUME NEW cl \in Calls, call = cl, cl.dir = "write", Long(cl)
    PROVE  /\ Program[cl.len + 21] = Get0 /\ Program[cl.len + 22] = Put0({}, {"GO"})
           /\ Program[cl.len + 23] = WaitClear("GO")
  BY WriteProgram

\* The number of the byte that is sent.
LEMMA SendNumber ==
    ASSUME call \in Calls, call.dir = "write", NEW p \in Nat, pc = p
    PROVE  /\ p \in 11..(FirstLen(call) + 10) => ByteNo("send") = p - 10
           /\ Long(call) /\ p \in (FirstLen(call) + 21)..(call.len + 20) => ByteNo("send") = p - 20
  <1> DEFINE n == FirstLen(call)
             S == {i \in 1..p : Program[i].op = "send"}
  <1>1. n \in Nat \ {0} /\ call.len \in Nat /\ ByteNo("send") = Cardinality(S)
    BY Numbers DEF ByteNo
  <1>2. \A i \in 1..10 : Program[i].op # "send"
    <2>1. /\ Program[1].op # "send" /\ Program[2].op # "send" /\ Program[3].op # "send"
          /\ Program[4].op # "send" /\ Program[5].op # "send" /\ Program[6].op # "send"
          /\ Program[7].op # "send" /\ Program[8].op # "send" /\ Program[9].op # "send"
          /\ Program[10].op # "send"
      BY WriteProgram, OpKinds, SMTT(30) DEF Set0
    <2> QED
      BY <2>1
  <1>3. \A i \in 11..(n + 10) : Program[i].op = "send"
    BY WriteProgram, OpKinds
  <1>4. ASSUME p \in 11..(n + 10)
        PROVE  ByteNo("send") = p - 10
    <2>1. S = 11..p
      BY <1>1, <1>2, <1>3, <1>4
    <2>2. Cardinality(11..p) = p - 10
      BY <1>4, FS_Interval
    <2> QED
      BY <1>1, <2>1, <2>2
  <1>5. ASSUME Long(call), p \in (n + 21)..(call.len + 20)
        PROVE  ByteNo("send") = p - 20
    <2>1. \A i \in (n + 11)..(n + 20) : Program[i].op # "send"
      <3>1. /\ Program[n + 11] = Get0 /\ Program[n + 12] = Put0({}, {"GO"})
            /\ Program[n + 13] = WaitClear("GO")
            /\ Program[n + 14] = Put0(Flags \ LowByte, Status)
            /\ Program[n + 15] = Get0 /\ Program[n + 16] = Put0({}, {"STOP"})
            /\ Program[n + 17] = Get1 /\ Program[n + 18] = Put1("drop1", 0, 0)
            /\ Program[n + 19] = Access("wait1")
            /\ Program[n + 20] = Put1("or1", 0, call.len - n)
        BY <1>5, WriteProgram
      <3>2. /\ Program[n + 11].op # "send" /\ Program[n + 12].op # "send"
            /\ Program[n + 13].op # "send" /\ Program[n + 14].op # "send"
            /\ Program[n + 15].op # "send" /\ Program[n + 16].op # "send"
            /\ Program[n + 17].op # "send" /\ Program[n + 18].op # "send"
            /\ Program[n + 19].op # "send" /\ Program[n + 20].op # "send"
        BY <3>1, OpKinds
      <3> HIDE DEF n
      <3>3. \A i \in (n + 11)..(n + 20) : \/ i = n + 11 \/ i = n + 12 \/ i = n + 13 \/ i = n + 14
                                          \/ i = n + 15 \/ i = n + 16 \/ i = n + 17 \/ i = n + 18
                                          \/ i = n + 19 \/ i = n + 20
        BY <1>1
      <3> QED
        BY <3>2, <3>3
    <2>2. \A i \in (n + 21)..(call.len + 20) : Program[i].op = "send"
      BY <1>5, WriteProgram, OpKinds
    <2> HIDE DEF n
    <2>3. S = (11..(n + 10)) \cup ((n + 21)..p)
      <3>1. \A i \in 1..p : \/ i \in 1..10 \/ i \in 11..(n + 10)
                            \/ i \in (n + 11)..(n + 20) \/ i \in (n + 21)..(call.len + 20)
        BY <1>1, <1>5
      <3>2. 11..(n + 10) \subseteq 1..p /\ (n + 21)..p \subseteq 1..p
            /\ (n + 21)..p \subseteq (n + 21)..(call.len + 20)
        BY <1>1, <1>5
      <3>3. \A i \in 1..p : i \in (n + 21)..(call.len + 20) => i \in (n + 21)..p
        OBVIOUS
      <3> QED
        BY <3>1, <3>2, <3>3, <1>2, <1>3, <2>1, <2>2
    <2> DEFINE A == 11..(n + 10)
               B == (n + 21)..p
    <2>4. A \cap B = {} /\ S = A \cup B
      BY <1>1, <2>3
    <2>5. IsFiniteSet(A) /\ IsFiniteSet(B) /\ Cardinality(A) = n /\ Cardinality(B) = p - n - 20
      <3>1. n + 10 \in Int /\ n + 21 \in Int /\ p \in Int /\ 11 \in Int
        BY <1>1
      <3>2. /\ IsFiniteSet(A) /\ Cardinality(A) = IF 11 > n + 10 THEN 0 ELSE (n + 10) - 11 + 1
        BY <3>1, FS_Interval, ZenonT(30)
      <3>3. /\ IsFiniteSet(B) /\ Cardinality(B) = IF n + 21 > p THEN 0 ELSE p - (n + 21) + 1
        BY <3>1, FS_Interval, ZenonT(30)
      <3> HIDE DEF A, B
      <3> QED
        BY <3>2, <3>3, <1>1, <1>5
    <2> HIDE DEF A, B, S
    <2>6. Cardinality(A \cup B) = Cardinality(A) + Cardinality(B) - Cardinality(A \cap B)
      BY <2>5, FS_Union
    <2>7. Cardinality({}) = 0
      BY FS_EmptySet
    <2>8. Cardinality(S) = n + (p - n - 20) - 0
      BY <2>4, <2>5, <2>6, <2>7
    <2>9. n + (p - n - 20) - 0 = p - 20
      BY <1>1
    <2> QED
      BY <1>1, <2>8, <2>9
  <1> QED
    BY <1>4, <1>5

LEMMA WriteSetupGoes ==
    ASSUME NEW cl \in Calls, call = cl, cl.dir = "write", NEW p \in Nat, pc = p, Sound,
           WriteSetup(cl, p)
    PROVE  Breaks \/ (Advance /\ WriteAt(cl, p + 1)')
  <1> DEFINE n == FirstLen(cl)
  <1>1. p \in 2..10 /\ begun = FALSE /\ fifo = << >> /\ wire = << >>
    BY DEF WriteSetup
  <1>2. Running /\ ~Busy /\ ~Controller /\ n \in 1..255 /\ n \in Nat
    <2>1. Running
      BY <1>1 DEF Running
    <2>2. n \in 1..255
      BY Numbers
    <2>3. ~Busy
      BY WriteFlags DEF Busy, WriteSetup
    <2> QED
      BY <2>1, <2>2, <2>3, ControllerAlone
  <1> HIDE DEF n
  <1>3. ASSUME WriteSetup(cl, p + 1)'
        PROVE  WriteAt(cl, p + 1)'
    BY <1>3 DEF WriteAt
  <1>4. CASE p = 2
    <2>1. Now = Put1("set1", 0, 0)
      BY <1>4, WriteProgram DEF Now
    <2>2. \/ Breaks
          \/ /\ ctrl1' = [n |-> 0, count |-> 0] /\ cntl1' = ctrl1'
             /\ UNCHANGED <<cntl0, fifo, begun, wire, nacked, ctrl0, addr, out>> /\ Advance
      BY <1>2, <2>1, SetStep
    <2>3. cntl0 = {"START"}
      BY <1>4 DEF WriteSetup
    <2>4. ~Breaks => WriteSetup(cl, 3)'
      BY <1>1, <2>2, <2>3 DEF WriteSetup
    <2> QED
      BY <1>3, <1>4, <2>2, <2>4
  <1>5. CASE p = 3
    <2>1. Now = Put1("set1", 0, 0)
      BY <1>5, WriteProgram DEF Now
    <2>2. \/ Breaks
          \/ /\ ctrl1' = [n |-> 0, count |-> 0] /\ cntl1' = ctrl1'
             /\ UNCHANGED <<cntl0, fifo, begun, wire, nacked, ctrl0, addr, out>> /\ Advance
      BY <1>2, <2>1, SetStep
    <2>3. cntl0 = {"START"}
      BY <1>5 DEF WriteSetup
    <2>4. ~Breaks => WriteSetup(cl, 4)'
      BY <1>1, <2>2, <2>3 DEF WriteSetup
    <2> QED
      BY <1>3, <1>5, <2>2, <2>4
  <1>6. CASE p = 4
    <2>1. Now = Access("addr")
      BY <1>6, WriteProgram DEF Now
    <2>2. \/ Breaks
          \/ /\ ctrl0' = cntl0 /\ addr' = cntl0 \cap LowByte
             /\ UNCHANGED <<controller, ctrl1, out>> /\ Advance
      BY <1>2, <2>1, AddrStep
    <2>3. cntl0 = {"START"} /\ cntl1 = [n |-> 0, count |-> 0]
      BY <1>6 DEF WriteSetup
    <2>4. cntl0 \cap LowByte = {}
      BY <2>3, FlagSets
    <2>5. ~Breaks => WriteSetup(cl, 5)'
      BY <1>1, <2>2, <2>3, <2>4 DEF WriteSetup, controller
    <2> QED
      BY <1>3, <1>6, <2>2, <2>5
  <1>7. CASE p = 5
    <2> DEFINE stop == FirstStop(cl)
    <2>1. Now = Put0({}, stop)
      BY <1>7, WriteProgram DEF Now
    <2>2. cntl0 = {"START"} /\ ctrl0 = {"START"} /\ cntl1 = [n |-> 0, count |-> 0] /\ addr = {}
      BY <1>7 DEF WriteSetup
    <2>3. {} \in SUBSET Flags /\ stop \in SUBSET Flags /\ {"START"} \cup stop = WriteFirst(cl)
      BY FlagSets DEF WriteFirst, FirstStop
    <2> HIDE DEF stop
    <2>4. \/ Breaks
          \/ /\ ctrl0' = (ctrl0 \ {}) \cup stop /\ Controller0(ctrl0')
             /\ UNCHANGED <<ctrl1, addr, out>> /\ Advance
      BY <1>2, <2>1, <2>3, PutStep
    <2>5. ASSUME ~Breaks
          PROVE  cntl0' = WriteFirst(cl) /\ UNCHANGED <<fifo, begun, wire, cntl1>>
      <3>1. Controller0(WriteFirst(cl))
        <4>1. (ctrl0 \ {}) \cup stop = WriteFirst(cl)
          BY <2>2, <2>3
        <4> QED
          BY <2>4, <2>5, <4>1
      <3>2. "SOFT_RST" \notin WriteFirst(cl)
        BY WriteFlags, FlagSets
      <3>3. UNCHANGED <<fifo, begun, wire, cntl1>>
        BY <3>1, <3>2 DEF Controller0
      <3>4. cntl0' = ((cntl0 \cap Status) \ WriteFirst(cl)) \cup (WriteFirst(cl) \ LowByte)
        BY <3>1, <3>2 DEF Controller0
      <3>5. cntl0 \cap Status = {} /\ WriteFirst(cl) \ LowByte = WriteFirst(cl)
        BY <2>2, WriteFlags, FlagSets
      <3> QED
        BY <3>3, <3>4, <3>5
    <2>6. ~Breaks => WriteSetup(cl, 6)'
      BY <1>1, <2>2, <2>4, <2>5 DEF WriteSetup
    <2> QED
      BY <1>3, <1>7, <2>4, <2>6
  <1>8. CASE p = 6
    <2>1. Now = Get1
      BY <1>8, WriteProgram DEF Now
    <2>2. \/ Breaks
          \/ /\ ctrl1' = cntl1
             /\ UNCHANGED <<controller, ctrl0, addr, out>> /\ Advance
      BY <1>2, <2>1, Get1Step
    <2>3. cntl0 = WriteFirst(cl) /\ cntl1 = [n |-> 0, count |-> 0] /\ addr = {}
      BY <1>8 DEF WriteSetup
    <2>4. ~Breaks => /\ cntl0' = WriteFirst(cl) /\ addr' = {} /\ cntl1' = [n |-> 0, count |-> 0]
                     /\ ctrl1' = [n |-> 0, count |-> 0]
                     /\ UNCHANGED <<fifo, begun, wire>>
      BY <2>2, <2>3 DEF controller
    <2>5. ~Breaks => WriteSetup(cl, 7)'
      BY <1>1, <2>4 DEF WriteSetup, n
    <2> QED
      BY <1>3, <1>8, <2>2, <2>5
  <1>9. CASE p = 7
    <2>1. Now = Put1("one1", 0, 0)
      BY <1>9, WriteProgram DEF Now
    <2>2. cntl0 = WriteFirst(cl) /\ ctrl1 = [n |-> 0, count |-> 0] /\ addr = {}
      BY <1>9 DEF WriteSetup
    <2>3. \/ Breaks
          \/ /\ ctrl1' = [n |-> 1, count |-> 0] /\ cntl1' = ctrl1'
             /\ UNCHANGED <<cntl0, fifo, begun, wire, nacked, ctrl0, addr, out>> /\ Advance
      BY <1>2, <2>1, <2>2, OneStep
    <2>4. ~Breaks => /\ cntl0' = WriteFirst(cl) /\ addr' = {} /\ cntl1' = [n |-> 1, count |-> 0]
                     /\ UNCHANGED <<fifo, begun, wire>>
      BY <2>2, <2>3 DEF controller
    <2>5. ~Breaks => WriteSetup(cl, 8)'
      BY <1>1, <2>4 DEF WriteSetup, n
    <2> QED
      BY <1>3, <1>9, <2>3, <2>5
  <1>10. CASE p = 8
    <2>1. Now = Get1
      BY <1>10, WriteProgram DEF Now
    <2>2. \/ Breaks
          \/ /\ ctrl1' = cntl1
             /\ UNCHANGED <<controller, ctrl0, addr, out>> /\ Advance
      BY <1>2, <2>1, Get1Step
    <2>3. cntl0 = WriteFirst(cl) /\ cntl1 = [n |-> 1, count |-> 0] /\ addr = {}
      BY <1>10 DEF WriteSetup
    <2>4. ~Breaks => /\ cntl0' = WriteFirst(cl) /\ addr' = {} /\ cntl1' = [n |-> 1, count |-> 0]
                     /\ ctrl1' = [n |-> 1, count |-> 0]
                     /\ UNCHANGED <<fifo, begun, wire>>
      BY <2>2, <2>3 DEF controller
    <2>5. ~Breaks => WriteSetup(cl, 9)'
      BY <1>1, <2>4 DEF WriteSetup, n
    <2> QED
      BY <1>3, <1>10, <2>2, <2>5
  <1>11. CASE p = 9
    <2>1. Now = Put1("or1", 0, n)
      BY <1>11, WriteProgram DEF Now, n
    <2>2. cntl0 = WriteFirst(cl) /\ ctrl1 = [n |-> 1, count |-> 0] /\ addr = {}
      BY <1>11 DEF WriteSetup
    <2>3. \/ Breaks
          \/ /\ ctrl1' = [n |-> 1, count |-> n] /\ cntl1' = ctrl1'
             /\ UNCHANGED <<cntl0, fifo, begun, wire, nacked, ctrl0, addr, out>> /\ Advance
      <3>1. n \in 0..255 /\ 1 \in {0, 1}
        BY <1>2
      <3> QED
        BY <1>2, <2>1, <2>2, <3>1, OrStep
    <2>4. ~Breaks => /\ cntl0' = WriteFirst(cl) /\ addr' = {} /\ cntl1' = [n |-> 1, count |-> n]
                     /\ UNCHANGED <<fifo, begun, wire>>
      BY <2>2, <2>3 DEF controller
    <2>5. ~Breaks => WriteSetup(cl, 10)'
      BY <1>1, <2>4 DEF WriteSetup, n
    <2> QED
      BY <1>3, <1>11, <2>3, <2>5
  <1>12. CASE p = 10
    <2>1. Now = Access("chip")
      BY <1>12, WriteProgram DEF Now
    <2>2. \/ Breaks
          \/ /\ fifo' = Append(fifo, <<"address", call.dir, addr>>)
             /\ UNCHANGED <<cntl0, cntl1, begun, wire, nacked, ctrl0, ctrl1, addr, out>> /\ Advance
      BY <1>2, <2>1, ChipStep
    <2>3. cntl0 = WriteFirst(cl) /\ cntl1 = [n |-> 1, count |-> n] /\ addr = {}
      BY <1>12 DEF WriteSetup, n
    <2>4. Append(fifo, <<"address", call.dir, addr>>) = Filled(cl, 0)
      BY <1>1, <2>3, FilledSeq DEF AddressOf
    <2>5. ~Breaks => Rest(WriteFirst(cl), 1, n, Filled(cl, 0), << >>)'
      BY <1>1, <2>2, <2>3, <2>4 DEF Rest
    <2>6. 11 \in 11..(n + 11) /\ 11 - 11 = 0
      BY <1>2
    <2>7. ~Breaks => WriteSend(cl, 11)'
      BY <2>5, <2>6 DEF WriteSend, n
    <2> QED
      BY <1>12, <2>2, <2>7 DEF WriteAt
  <1> QED
    BY <1>1, <1>4, <1>5, <1>6, <1>7, <1>8, <1>9, <1>10, <1>11, <1>12

LEMMA WriteSendGoes ==
    ASSUME NEW cl \in Calls, call = cl, cl.dir = "write", NEW p \in Nat, pc = p, p <= Last(cl),
           Sound, WriteSend(cl, p)
    PROVE  Breaks \/ (Advance /\ WriteAt(cl, p + 1)')
  <1> DEFINE n == FirstLen(cl)
             m == cl.len
  <1>1. n \in Nat \ {0} /\ m \in Nat /\ (Long(cl) => n + 1 <= m)
    BY Numbers
  <1>2. CASE /\ p \in 11..(n + 11)
             /\ Rest(WriteFirst(cl), 1, n, Filled(cl, p - 11), << >>)
    <2>1. Running /\ ~Busy /\ fifo = Filled(cl, p - 11)
      BY <1>2, WriteFlags DEF Running, Busy, Rest
    <2>2. CASE p <= n + 10
      <3> HIDE DEF n
      <3>1. /\ p \in 11..(n + 10) /\ p + 1 \in 11..(n + 11) /\ p - 11 \in Nat
            /\ (p - 11) + 1 = p - 10 /\ (p + 1) - 11 = p - 10
        BY <1>1, <1>2, <2>2
      <3>2. Now = Access("send") /\ ByteNo("send") = p - 10
        BY <3>1, WriteProgram, SendNumber DEF Now, n
      <3>3. \/ Breaks
            \/ /\ fifo' = Append(fifo, <<"byte", p - 10>>)
               /\ UNCHANGED <<cntl0, cntl1, begun, wire, nacked, ctrl0, ctrl1, addr, out>> /\ Advance
        BY <2>1, <3>2, SendStep
      <3>4. Append(fifo, <<"byte", p - 10>>) = Filled(cl, p - 10)
        <4>1. Append(Filled(cl, p - 11), <<"byte", (p - 11) + 1>>) = Filled(cl, (p - 11) + 1)
          BY <3>1, FilledSeq
        <4> QED
          BY <4>1, <2>1, <3>1
      <3>5. ~Breaks => Rest(WriteFirst(cl), 1, n, Filled(cl, p - 10), << >>)'
        BY <1>2, <3>3, <3>4 DEF Rest
      <3>6. ~Breaks => WriteSend(cl, p + 1)'
        BY <3>1, <3>5 DEF WriteSend, n
      <3> QED
        BY <3>3, <3>6 DEF WriteAt
    <2>3. CASE p = n + 11
      <3>1. Now = Get0 /\ p + 1 = n + 12 /\ p - 11 = n
        BY <1>1, <2>3, WriteProgram DEF Now
      <3>2. \/ Breaks
            \/ /\ ctrl0' = cntl0
               /\ UNCHANGED <<controller, ctrl1, addr, out>> /\ Advance
        BY <2>1, <3>1, GetStep
      <3>3. ~Breaks => ctrl0' = WriteFirst(cl) /\ Rest(WriteFirst(cl), 1, n, Filled(cl, n), << >>)'
        BY <1>2, <3>1, <3>2 DEF Rest, controller
      <3>4. ~Breaks => WriteRun(cl, n + 12)'
        BY <3>3 DEF WriteRun
      <3> QED
        BY <3>1, <3>2, <3>4 DEF WriteAt
    <2> QED
      BY <1>1, <1>2, <2>2, <2>3
  <1>3. CASE /\ p \in (n + 21)..(m + 21) /\ Long(cl)
             /\ Rest({"STOP"}, 0, m - n, Bytes(n + 1, p - 21), OnWire(cl, n))
    <2>1. Running /\ ~Busy /\ fifo = Bytes(n + 1, p - 21)
      BY <1>1, <1>3 DEF Running, Busy, Rest
    <2>2. CASE p <= m + 20
      <3> HIDE DEF n, m
      <3>1. /\ p \in (n + 21)..(m + 20) /\ p + 1 \in (n + 21)..(m + 21)
            /\ n + 1 \in Nat \ {0} /\ p - 21 \in Nat /\ n + 1 <= (p - 21) + 1
            /\ (p - 21) + 1 = p - 20 /\ (p + 1) - 21 = p - 20
        BY <1>1, <1>3, <2>2
      <3>2. Now = Access("send") /\ ByteNo("send") = p - 20
        BY <1>3, <3>1, WriteProgram, SendNumber DEF Now, n, m
      <3>3. \/ Breaks
            \/ /\ fifo' = Append(fifo, <<"byte", p - 20>>)
               /\ UNCHANGED <<cntl0, cntl1, begun, wire, nacked, ctrl0, ctrl1, addr, out>> /\ Advance
        BY <2>1, <3>2, SendStep
      <3>4. Append(fifo, <<"byte", p - 20>>) = Bytes(n + 1, p - 20)
        <4>1. Append(Bytes(n + 1, p - 21), <<"byte", (p - 21) + 1>>) = Bytes(n + 1, (p - 21) + 1)
          BY <3>1, BytesSeq
        <4> QED
          BY <4>1, <2>1, <3>1
      <3>5. ~Breaks => Rest({"STOP"}, 0, m - n, Bytes(n + 1, p - 20), OnWire(cl, n))'
        BY <1>3, <3>3, <3>4 DEF Rest
      <3>6. ~Breaks => WriteSend(cl, p + 1)'
        BY <1>3, <3>1, <3>5 DEF WriteSend, n, m
      <3> QED
        BY <3>3, <3>6 DEF WriteAt
    <2>3. CASE p = m + 21
      <3>1. Now = Get0 /\ p + 1 = m + 22 /\ p - 21 = m
        <4>1. Program[m + 21] = Get0
          BY <1>3, WriteTail
        <4>2. p + 1 = m + 22 /\ p - 21 = m
          BY <1>1, <2>3
        <4> QED
          BY <4>1, <4>2, <2>3 DEF Now
      <3>2. \/ Breaks
            \/ /\ ctrl0' = cntl0
               /\ UNCHANGED <<controller, ctrl1, addr, out>> /\ Advance
        BY <2>1, <3>1, GetStep
      <3>3. ~Breaks => ctrl0' = {"STOP"} /\ Rest({"STOP"}, 0, m - n, Bytes(n + 1, m), OnWire(cl, n))'
        BY <1>3, <3>1, <3>2 DEF Rest, controller
      <3>4. ~Breaks => WriteRun(cl, m + 22)'
        BY <1>3, <3>3 DEF WriteRun
      <3> QED
        BY <3>1, <3>2, <3>4 DEF WriteAt
    <2> QED
      BY <1>1, <1>3, <2>2, <2>3
  <1> QED
    BY <1>2, <1>3 DEF WriteSend

LEMMA WriteRunGoes ==
    ASSUME NEW cl \in Calls, call = cl, cl.dir = "write", NEW p \in Nat, pc = p, p <= Last(cl),
           Sound, WriteRun(cl, p)
    PROVE  \/ Breaks
           \/ Stays /\ (WriteAt(cl, p)' \/ nacked')
           \/ Advance /\ WriteAt(cl, p + 1)'
  <1> DEFINE n == FirstLen(cl)
             m == cl.len
             c0 == WriteFirst(cl)
  <1>1. n \in Nat \ {0} /\ m \in Nat /\ (Long(cl) => n + 1 <= m)
        /\ Last(cl) = IF Long(cl) THEN m + 23 ELSE n + 13
    BY Numbers, SMTT(30) DEF Last
  <1>2. PartOf(cl, c0, 1, n) /\ (Long(cl) => PartOf(cl, {"STOP"}, n + 1, m))
    BY WriteParts
  <1>3. Running
    BY <1>1 DEF WriteRun, Running
  <1>4. CASE p = n + 12 /\ ctrl0 = c0 /\ Rest(c0, 1, n, Filled(cl, n), << >>)
    <2>1. Now = Put0({}, {"GO"}) /\ p + 1 = n + 13
      BY <1>1, <1>4, WriteProgram DEF Now
    <2>2. Filled(cl, IF cl.dir = "read" THEN 0 ELSE n) = Filled(cl, n)
          /\ "START" \in c0 /\ c0 \cap LowByte = {}
      BY WriteFlags
    <2> HIDE DEF n, c0
    <2>3. \/ Breaks
          \/ /\ Part(cl, c0, 1, n)' /\ ctrl0' = c0 \cup {"GO"}
             /\ UNCHANGED <<ctrl1, addr, out>> /\ Advance
      BY <1>2, <1>3, <1>4, <2>1, <2>2, GoFirst
    <2>4. ~Breaks => WriteRun(cl, p + 1)'
      BY <2>1, <2>3 DEF WriteRun, n, c0
    <2> QED
      BY <2>3, <2>4 DEF WriteAt
  <1>5. CASE /\ p = n + 13 /\ ctrl0 = c0 \cup {"GO"}
             /\ Part(cl, c0, 1, n) \/ PartDone(cl, c0, 1, n)
    <2>1. Now = WaitClear("GO") /\ p + 1 = n + 14
      BY <1>1, <1>5, WriteProgram DEF Now
    <2> HIDE DEF n, c0
    <2>2. \/ Breaks
          \/ /\ Part(cl, c0, 1, n)' \/ PartDone(cl, c0, 1, n)' \/ nacked'
             /\ Stays /\ UNCHANGED <<ctrl0, ctrl1, addr, out>>
          \/ /\ PartDone(cl, c0, 1, n)'
             /\ UNCHANGED <<ctrl0, ctrl1, addr, out>> /\ Advance
      BY <1>2, <1>3, <1>5, <2>1, WaitRun
    <2>3. ASSUME ctrl0' = ctrl0, Part(cl, c0, 1, n)' \/ PartDone(cl, c0, 1, n)'
          PROVE  WriteAt(cl, p)'
      <3>1. WriteRun(cl, p)'
        BY <1>5, <2>3 DEF WriteRun, n, c0
      <3> QED
        BY <3>1 DEF WriteAt
    <2>4. ASSUME ctrl0' = ctrl0, PartDone(cl, c0, 1, n)'
          PROVE  WriteAt(cl, p + 1)'
      <3>1. WriteRun(cl, p + 1)'
        BY <1>5, <2>1, <2>4 DEF WriteRun, n, c0
      <3> QED
        BY <3>1 DEF WriteAt
    <2> QED
      BY <2>2, <2>3, <2>4
  <1>6. CASE /\ p = n + 14 /\ ctrl0 = c0 \cup {"GO"} /\ PartDone(cl, c0, 1, n)
    <2>1. Long(cl) /\ c0 = {"START"}
      BY <1>1, <1>6, WriteFlags
    <2>2. Now = Put0(Flags \ LowByte, Status) /\ (p + 1) - n = 15
      BY <1>1, <1>6, <2>1, WriteProgram DEF Now
    <2>3. /\ cntl0 = {"START", "DONE"} /\ cntl1 = [n |-> 0, count |-> 0] /\ begun = FALSE
          /\ fifo = << >> /\ wire = OnWire(cl, n)
      <3>1. Load(cl, 1, n, n) = << >>
        <4>1. n + 1 \in Nat \ {0} /\ n \in Nat /\ n + 1 <= n + 1
          BY <1>1
        <4> QED
          BY <4>1, BytesSeq DEF Load
      <3>2. Stopped(c0, OnWire(cl, n)) = OnWire(cl, n)
        BY <2>1 DEF Stopped
      <3> QED
        BY <1>6, <2>1, <3>1, <3>2 DEF PartDone, Rest
    <2>4. ~Controller
      BY <2>3, ControllerAlone DEF Busy
    <2>5. \/ Breaks
          \/ /\ ctrl0' = (ctrl0 \ (Flags \ LowByte)) \cup Status /\ Controller0(ctrl0')
             /\ UNCHANGED <<ctrl1, addr, out>> /\ Advance
      <3>1. Flags \ LowByte \in SUBSET Flags /\ Status \in SUBSET Flags
        BY FlagSets
      <3> QED
        BY <1>3, <2>2, <2>4, <3>1, PutStep
    <2>6. ASSUME ~Breaks
          PROVE  cntl0' = {} /\ UNCHANGED <<fifo, begun, wire, cntl1>>
      <3>1. Controller0(Status)
        <4>1. (ctrl0 \ (Flags \ LowByte)) \cup Status = Status
          BY <1>6, <2>1, FlagSets
        <4> QED
          BY <2>5, <2>6, <4>1
      <3>2. "SOFT_RST" \notin Status /\ Status \ LowByte = {} /\ (cntl0 \cap Status) \ Status = {}
        BY FlagSets
      <3> QED
        BY <3>1, <3>2 DEF Controller0
    <2>7. ~Breaks => Rest({}, 0, 0, << >>, OnWire(cl, n))'
      BY <2>3, <2>6 DEF Rest
    <2>8. ~Breaks => WriteBetween(cl, 15)'
      BY <2>1, <2>7 DEF WriteBetween
    <2>9. ASSUME WriteBetween(cl, 15)'
          PROVE  WriteAt(cl, p + 1)'
      BY <2>2, <2>9 DEF WriteAt
    <2> QED
      BY <2>5, <2>8, <2>9
  <1>7. CASE /\ p = m + 22 /\ Long(cl) /\ ctrl0 = {"STOP"}
             /\ Rest({"STOP"}, 0, m - n, Bytes(n + 1, m), OnWire(cl, n))
    <2>1. Now = Put0({}, {"GO"}) /\ p + 1 = m + 23
      <3>1. Program[m + 22] = Put0({}, {"GO"})
        BY <1>7, WriteTail
      <3>2. p + 1 = m + 23
        BY <1>1, <1>7
      <3> QED
        BY <3>1, <3>2, <1>7 DEF Now
    <2>2. /\ m - (n + 1) + 1 = m - n /\ (n + 1) - 1 = n
          /\ {"STOP"} \cap LowByte = {} /\ "START" \notin {"STOP"}
      BY <1>1, FlagSets
    <2>3. Load(cl, n + 1, n, m) = Bytes(n + 1, m)
      BY DEF Load
    <2>4. Rest({"STOP"}, 0, m - (n + 1) + 1, Load(cl, n + 1, (n + 1) - 1, m), OnWire(cl, (n + 1) - 1))
      BY <1>7, <2>2, <2>3
    <2> HIDE DEF n, m
    <2>5. \/ Breaks
          \/ /\ Part(cl, {"STOP"}, n + 1, m)' /\ ctrl0' = {"STOP"} \cup {"GO"}
             /\ UNCHANGED <<ctrl1, addr, out>> /\ Advance
      BY <1>2, <1>3, <1>7, <2>1, <2>2, <2>4, GoNext
    <2>6. ~Breaks => WriteRun(cl, p + 1)'
      BY <1>7, <2>1, <2>5 DEF WriteRun, n, m
    <2> QED
      BY <2>5, <2>6 DEF WriteAt
  <1>8. CASE /\ p = m + 23 /\ Long(cl)
             /\ Part(cl, {"STOP"}, n + 1, m) \/ PartDone(cl, {"STOP"}, n + 1, m)
    <2>1. Now = WaitClear("GO") /\ p + 1 = m + 24
      <3>1. Program[m + 23] = WaitClear("GO")
        BY <1>8, WriteTail
      <3>2. p + 1 = m + 24
        BY <1>1, <1>8
      <3> QED
        BY <3>1, <3>2, <1>8 DEF Now
    <2> HIDE DEF n, m
    <2>2. \/ Breaks
          \/ /\ Part(cl, {"STOP"}, n + 1, m)' \/ PartDone(cl, {"STOP"}, n + 1, m)' \/ nacked'
             /\ Stays /\ UNCHANGED <<ctrl0, ctrl1, addr, out>>
          \/ /\ PartDone(cl, {"STOP"}, n + 1, m)'
             /\ UNCHANGED <<ctrl0, ctrl1, addr, out>> /\ Advance
      BY <1>2, <1>3, <1>8, <2>1, WaitRun
    <2>3. ASSUME Part(cl, {"STOP"}, n + 1, m)' \/ PartDone(cl, {"STOP"}, n + 1, m)'
          PROVE  WriteAt(cl, p)'
      <3>1. WriteRun(cl, p)'
        BY <1>8, <2>3 DEF WriteRun, n, m
      <3> QED
        BY <3>1 DEF WriteAt
    <2>4. ASSUME PartDone(cl, {"STOP"}, n + 1, m)'
          PROVE  WriteAt(cl, p + 1)'
      <3>1. WriteRun(cl, p + 1)'
        BY <1>8, <2>1, <2>4 DEF WriteRun, n, m
      <3> QED
        BY <3>1 DEF WriteAt
    <2> QED
      BY <2>2, <2>3, <2>4
  <1>9. ~(p = m + 24 /\ Long(cl))
    BY <1>1
  <1> QED
    BY <1>4, <1>5, <1>6, <1>7, <1>8, <1>9 DEF WriteRun

LEMMA WriteBetweenGoes ==
    ASSUME NEW cl \in Calls, call = cl, cl.dir = "write", NEW p \in Nat, pc = p, Sound,
           WriteBetween(cl, p - FirstLen(cl))
    PROVE  Breaks \/ (Advance /\ WriteAt(cl, p + 1)')
  <1> DEFINE n == FirstLen(cl)
             q == p - n
             rest == cl.len - n
             Idle(c0) == Rest(c0, 0, 0, << >>, OnWire(cl, n))
  <1>1. q \in 15..20 /\ Long(cl) /\ Idle(IF q < 17 THEN {} ELSE {"STOP"})
    BY DEF WriteBetween
  <1>2. n \in Nat \ {0} /\ rest \in 1..255 /\ p = n + q /\ (p + 1) - n = q + 1 /\ cl.len \in Nat
    <2>1. n \in 1..255 /\ rest \in 1..255 /\ cl.len \in Nat
      BY <1>1, Numbers
    <2> QED
      BY <2>1
  <1>3. Running /\ ~Busy /\ ~Controller
    <2>1. Running
      BY <1>1, <1>2 DEF Running
    <2>2. ~Busy
      BY <1>1 DEF Busy, Rest
    <2> QED
      BY <2>1, <2>2, ControllerAlone
  <1>4. /\ Program[n + 15] = Get0 /\ Program[n + 16] = Put0({}, {"STOP"})
        /\ Program[n + 17] = Get1 /\ Program[n + 18] = Put1("drop1", 0, 0)
        /\ Program[n + 19] = Access("wait1") /\ Program[n + 20] = Put1("or1", 0, rest)
    BY <1>1, WriteProgram
  <1>5. WriteBetween(cl, q)
    OBVIOUS
  <1>6. ASSUME WriteBetween(cl, q + 1)'
        PROVE  WriteAt(cl, p + 1)'
    BY <1>2, <1>6 DEF WriteAt
  <1>7. \A c0 : Idle(c0) /\ UNCHANGED <<cntl0, cntl1, fifo, begun, wire>> => Idle(c0)'
    BY DEF Rest
  <1>8. \A c0 : Idle(c0) => cntl0 = c0 /\ cntl1 = [n |-> 0, count |-> 0] /\ cntl1.n = 0
    BY DEF Rest
  <1> HIDE DEF n, rest, q
  <1>9. CASE q = 15
    <2>1. Now = Get0 /\ Idle({})
      BY <1>1, <1>2, <1>4, <1>9 DEF Now
    <2>2. \/ Breaks
          \/ /\ ctrl0' = cntl0
             /\ UNCHANGED <<controller, ctrl1, addr, out>> /\ Advance
      BY <1>3, <2>1, GetStep
    <2>3. ~Breaks => Idle({})' /\ ctrl0' = {}
      BY <1>7, <1>8, <2>1, <2>2 DEF controller
    <2>4. ~Breaks => WriteBetween(cl, 16)'
      BY <1>1, <2>3 DEF WriteBetween, n
    <2> QED
      BY <1>6, <1>9, <2>2, <2>4
  <1>10. CASE q = 16
    <2>1. Now = Put0({}, {"STOP"}) /\ Idle({}) /\ ctrl0 = {}
      BY <1>1, <1>2, <1>4, <1>5, <1>10 DEF Now, WriteBetween
    <2>2. \/ Breaks
          \/ /\ ctrl0' = (ctrl0 \ {}) \cup {"STOP"} /\ Controller0(ctrl0')
             /\ UNCHANGED <<ctrl1, addr, out>> /\ Advance
      <3>1. {} \in SUBSET Flags /\ {"STOP"} \in SUBSET Flags
        BY FlagSets
      <3> QED
        BY <1>3, <2>1, <3>1, PutStep
    <2>3. ASSUME ~Breaks
          PROVE  cntl0' = {"STOP"} /\ UNCHANGED <<fifo, begun, wire, cntl1>>
      <3>1. Controller0({"STOP"})
        <4>1. (ctrl0 \ {}) \cup {"STOP"} = {"STOP"}
          BY <2>1
        <4> QED
          BY <2>2, <2>3, <4>1
      <3>2. cntl0 = {} /\ "SOFT_RST" \notin {"STOP"} /\ {"STOP"} \ LowByte = {"STOP"}
        BY <1>8, <2>1, FlagSets
      <3> QED
        BY <3>1, <3>2 DEF Controller0
    <2>4. ~Breaks => Idle({"STOP"})'
      BY <2>1, <2>3 DEF Rest
    <2>5. ~Breaks => WriteBetween(cl, 17)'
      BY <1>1, <2>4 DEF WriteBetween, n
    <2> QED
      BY <1>6, <1>10, <2>2, <2>5
  <1>11. CASE q = 17
    <2>1. Now = Get1 /\ Idle({"STOP"})
      BY <1>1, <1>2, <1>4, <1>11 DEF Now
    <2>2. \/ Breaks
          \/ /\ ctrl1' = cntl1
             /\ UNCHANGED <<controller, ctrl0, addr, out>> /\ Advance
      BY <1>3, <2>1, Get1Step
    <2>3. ~Breaks => Idle({"STOP"})' /\ ctrl1' = [n |-> 0, count |-> 0]
      BY <1>7, <1>8, <2>1, <2>2 DEF controller
    <2>4. ~Breaks => WriteBetween(cl, 18)'
      BY <1>1, <2>3 DEF WriteBetween, n
    <2> QED
      BY <1>6, <1>11, <2>2, <2>4
  <1>12. CASE q = 18
    <2>1. Now = Put1("drop1", 0, 0) /\ Idle({"STOP"}) /\ ctrl1 = [n |-> 0, count |-> 0]
      BY <1>1, <1>2, <1>4, <1>5, <1>12 DEF Now, WriteBetween
    <2>2. \/ Breaks
          \/ /\ ctrl1' = [n |-> 0, count |-> 0] /\ cntl1' = ctrl1'
             /\ UNCHANGED <<cntl0, fifo, begun, wire, nacked, ctrl0, addr, out>> /\ Advance
      BY <1>3, <2>1, DropStep
    <2>3. ~Breaks => Idle({"STOP"})' /\ ctrl1' = [n |-> 0, count |-> 0]
      <3>1. cntl1 = [n |-> 0, count |-> 0]
        BY <1>8, <2>1
      <3>2. ~Breaks => UNCHANGED <<cntl0, cntl1, fifo, begun, wire>>
        BY <2>2, <3>1
      <3> QED
        BY <1>7, <2>1, <2>2, <3>2
    <2>4. ~Breaks => WriteBetween(cl, 19)'
      BY <1>1, <2>3 DEF WriteBetween, n
    <2> QED
      BY <1>6, <1>12, <2>2, <2>4
  <1>13. CASE q = 19
    <2>1. Now = Access("wait1") /\ Idle({"STOP"}) /\ ctrl1 = [n |-> 0, count |-> 0]
      BY <1>1, <1>2, <1>4, <1>5, <1>13 DEF Now, WriteBetween
    <2>2. Breaks \/ (UNCHANGED <<controller, ctrl0, ctrl1, addr, out>> /\ Advance)
      <3>1. cntl1.n = 0
        BY <1>8, <2>1
      <3> QED
        BY <1>3, <2>1, <3>1, Wait1Step
    <2>3. ~Breaks => Idle({"STOP"})' /\ ctrl1' = [n |-> 0, count |-> 0]
      BY <1>7, <2>1, <2>2 DEF controller
    <2>4. ~Breaks => WriteBetween(cl, 20)'
      BY <1>1, <2>3 DEF WriteBetween, n
    <2> QED
      BY <1>6, <1>13, <2>2, <2>4
  <1>14. CASE q = 20
    <2>1. Now = Put1("or1", 0, rest) /\ Idle({"STOP"}) /\ ctrl1 = [n |-> 0, count |-> 0]
      BY <1>1, <1>2, <1>4, <1>5, <1>14 DEF Now, WriteBetween
    <2>2. \/ Breaks
          \/ /\ ctrl1' = [n |-> 0, count |-> rest] /\ cntl1' = ctrl1'
             /\ UNCHANGED <<cntl0, fifo, begun, wire, nacked, ctrl0, addr, out>> /\ Advance
      <3>1. rest \in 0..255 /\ 0 \in {0, 1}
        BY <1>2
      <3> QED
        BY <1>3, <2>1, <3>1, OrStep
    <2>3. /\ p + 1 = n + 21 /\ (p + 1) - 21 = n /\ p + 1 \in (n + 21)..(cl.len + 21)
          /\ n + 1 \in Nat \ {0} /\ n \in Nat /\ n + 1 <= n + 1
      BY <1>2, <1>14 DEF rest
    <2>4. Bytes(n + 1, n) = << >>
      BY <2>3, BytesSeq
    <2>5. ~Breaks => Rest({"STOP"}, 0, rest, Bytes(n + 1, n), OnWire(cl, n))'
      BY <2>1, <2>2, <2>4 DEF Rest
    <2>6. ~Breaks => WriteSend(cl, p + 1)'
      BY <1>1, <2>3, <2>5 DEF WriteSend, n, rest
    <2> QED
      BY <2>2, <2>6 DEF WriteAt
  <1> QED
    BY <1>1, <1>9, <1>10, <1>11, <1>12, <1>13, <1>14

\* One step of a write.
LEMMA WriteGoes ==
    ASSUME NEW cl \in Calls, call = cl, cl.dir = "write", NEW p \in Nat, pc = p, p <= Last(cl),
           Sound, WriteAt(cl, p)
    PROVE  \/ Breaks
           \/ Stays /\ (WriteAt(cl, p)' \/ nacked')
           \/ Advance /\ WriteAt(cl, p + 1)'
  BY WriteSetupGoes, WriteSendGoes, WriteRunGoes, WriteBetweenGoes DEF WriteAt

-----------------------------------------------------------------------------
\* The reset is written by the first access alone, and clears itself.

LEMMA ResetClears ==
    ASSUME Sound, "SOFT_RST" \notin cntl0
    PROVE  "SOFT_RST" \notin cntl0'
  <1>1. "SOFT_RST" \in LowByte /\ "SOFT_RST" \notin Status
    BY FlagSets
  <1>2. \A value : Controller0(value) => "SOFT_RST" \notin cntl0'
    BY <1>1 DEF Controller0
  <1>3. Next
    BY Sounds
  <1> QED
    BY <1>2, <1>3
       DEF Next, Call, Write0, Read0, Write1, Read1, WriteData, ReadData, WaitOver, Poll,
           AccessFails, GiveUp, Controller, Begins, SendsByte, TakesByte, Finishes, Refused,
           controller

\* An access that does not write it.
Spares(o) == o.op = "put0" => "SOFT_RST" \notin o.in

LEMMA Sparing ==
    /\ \A o, i : "SOFT_RST" \notin i => Spares(Put0(o, i))
    /\ \A op, n, count : op # "put0" => Spares(Put1(op, n, count))
    /\ \A op : op # "put0" => Spares(Access(op))
    /\ Spares(Get0) /\ Spares(Get1) /\ \A flag : Spares(WaitClear(flag))
  BY DEF Spares, Put0, Put1, Access, WaitClear, Get0, Get1, Op

LEMMA ReadSpares ==
    ASSUME call \in Calls, call.dir = "read"
    PROVE  \A i \in 2..Last(call) : Spares(Program[i])
  <1> DEFINE n == FirstLen(call)
  <1>1. n \in Nat \ {0} /\ call.len \in Nat /\ (Long(call) => n + 1 <= call.len)
        /\ Last(call) = IF Long(call) THEN call.len + 20 ELSE n + 9
    BY Numbers DEF Last
  <1>2. \A i \in 2..9 : Spares(Program[i])
    <2>1. /\ Spares(Program[2]) /\ Spares(Program[3]) /\ Spares(Program[4]) /\ Spares(Program[5])
          /\ Spares(Program[6]) /\ Spares(Program[7]) /\ Spares(Program[8]) /\ Spares(Program[9])
      BY ReadProgram, Sparing
    <2> QED
      BY <2>1
  <1>3. \A i \in 10..(n + 9) : Spares(Program[i])
    BY ReadProgram, Sparing
  <1>4. ASSUME Long(call)
        PROVE  /\ \A i \in (n + 10)..(n + 20) : Spares(Program[i])
               /\ \A i \in (n + 21)..(call.len + 20) : Spares(Program[i])
    <2>1. /\ Spares(Program[n + 10]) /\ Spares(Program[n + 11]) /\ Spares(Program[n + 12])
          /\ Spares(Program[n + 13]) /\ Spares(Program[n + 14]) /\ Spares(Program[n + 15])
          /\ Spares(Program[n + 16]) /\ Spares(Program[n + 17]) /\ Spares(Program[n + 18])
          /\ Spares(Program[n + 19]) /\ Spares(Program[n + 20])
      <3>1. /\ Program[n + 10] = Get0 /\ Program[n + 11] = Put0({"START"}, {})
            /\ Program[n + 12] = WaitClear("DONE") /\ Program[n + 13] = Put0({}, {"STOP"})
            /\ Program[n + 14] = Get1 /\ Program[n + 15] = Put1("drop1", 0, 0)
            /\ Program[n + 16] = Access("wait1")
            /\ Program[n + 17] = Put1("or1", 0, call.len - n)
            /\ Program[n + 18] = Get0 /\ Program[n + 19] = Put0({}, {"GO"})
            /\ Program[n + 20] = WaitClear("GO")
        BY <1>4, ReadProgram
      <3> QED
        BY <3>1, Sparing
    <2>2. \A i \in (n + 21)..(call.len + 20) : Spares(Program[i])
      BY <1>4, ReadProgram, Sparing
    <2> HIDE DEF n
    <2>3. \A i \in (n + 10)..(n + 20) : \/ i = n + 10 \/ i = n + 11 \/ i = n + 12 \/ i = n + 13
                                        \/ i = n + 14 \/ i = n + 15 \/ i = n + 16 \/ i = n + 17
                                        \/ i = n + 18 \/ i = n + 19 \/ i = n + 20
      BY <1>1
    <2> QED
      BY <2>1, <2>2, <2>3
  <1> HIDE DEF n
  <1>5. \A i \in 2..Last(call) :
           \/ i \in 2..9 \/ i \in 10..(n + 9)
           \/ Long(call) /\ (i \in (n + 10)..(n + 20) \/ i \in (n + 21)..(call.len + 20))
    BY <1>1
  <1> QED
    BY <1>2, <1>3, <1>4, <1>5

LEMMA WriteSpares ==
    ASSUME call \in Calls, call.dir = "write"
    PROVE  \A i \in 2..Last(call) : Spares(Program[i])
  <1> DEFINE n == FirstLen(call)
  <1>1. n \in Nat \ {0} /\ call.len \in Nat /\ (Long(call) => n + 1 <= call.len)
        /\ Last(call) = IF Long(call) THEN call.len + 23 ELSE n + 13
    BY Numbers DEF Last
  <1>2. \A i \in 2..10 : Spares(Program[i])
    <2>1. "SOFT_RST" \notin FirstStop(call)
      BY DEF FirstStop
    <2>2. /\ Program[2] = Put1("set1", 0, 0) /\ Program[3] = Put1("set1", 0, 0)
          /\ Program[4] = Access("addr") /\ Program[5] = Put0({}, FirstStop(call))
          /\ Program[6] = Get1 /\ Program[7] = Put1("one1", 0, 0) /\ Program[8] = Get1
          /\ Program[9] = Put1("or1", 0, n) /\ Program[10] = Access("chip")
      BY WriteProgram
    <2>3. /\ Spares(Program[2]) /\ Spares(Program[3]) /\ Spares(Program[4]) /\ Spares(Program[5])
          /\ Spares(Program[6]) /\ Spares(Program[7]) /\ Spares(Program[8]) /\ Spares(Program[9])
          /\ Spares(Program[10])
      BY <2>1, <2>2, Sparing
    <2> QED
      BY <2>3
  <1>3. \A i \in 11..(n + 10) : Spares(Program[i])
    BY WriteProgram, Sparing
  <1>4. Spares(Program[n + 11]) /\ Spares(Program[n + 12]) /\ Spares(Program[n + 13])
    <2>1. /\ Program[n + 11] = Get0 /\ Program[n + 12] = Put0({}, {"GO"})
          /\ Program[n + 13] = WaitClear("GO")
      BY WriteProgram
    <2> QED
      BY <2>1, Sparing
  <1>5. ASSUME Long(call)
        PROVE  /\ \A i \in (n + 14)..(n + 20) : Spares(Program[i])
               /\ \A i \in (n + 21)..(call.len + 20) : Spares(Program[i])
               /\ Spares(Program[call.len + 21]) /\ Spares(Program[call.len + 22])
               /\ Spares(Program[call.len + 23])
    <2>1. /\ Spares(Program[n + 14]) /\ Spares(Program[n + 15]) /\ Spares(Program[n + 16])
          /\ Spares(Program[n + 17]) /\ Spares(Program[n + 18]) /\ Spares(Program[n + 19])
          /\ Spares(Program[n + 20])
      <3>1. /\ Program[n + 14] = Put0(Flags \ LowByte, Status) /\ Program[n + 15] = Get0
            /\ Program[n + 16] = Put0({}, {"STOP"}) /\ Program[n + 17] = Get1
            /\ Program[n + 18] = Put1("drop1", 0, 0) /\ Program[n + 19] = Access("wait1")
            /\ Program[n + 20] = Put1("or1", 0, call.len - n)
        BY <1>5, WriteProgram
      <3>2. "SOFT_RST" \notin Status
        BY FlagSets
      <3> QED
        BY <3>1, <3>2, Sparing
    <2>2. \A i \in (n + 21)..(call.len + 20) : Spares(Program[i])
      BY <1>5, WriteProgram, Sparing
    <2>3. /\ Spares(Program[call.len + 21]) /\ Spares(Program[call.len + 22])
          /\ Spares(Program[call.len + 23])
      <3>1. /\ Program[call.len + 21] = Get0 /\ Program[call.len + 22] = Put0({}, {"GO"})
            /\ Program[call.len + 23] = WaitClear("GO")
        BY <1>5, WriteProgram
      <3> QED
        BY <3>1, Sparing
    <2> HIDE DEF n
    <2>4. \A i \in (n + 14)..(n + 20) : \/ i = n + 14 \/ i = n + 15 \/ i = n + 16 \/ i = n + 17
                                        \/ i = n + 18 \/ i = n + 19 \/ i = n + 20
      BY <1>1
    <2> QED
      BY <2>1, <2>2, <2>3, <2>4
  <1> HIDE DEF n
  <1>6. \A i \in 2..Last(call) :
           \/ i \in 2..10 \/ i \in 11..(n + 10)
           \/ i = n + 11 \/ i = n + 12 \/ i = n + 13
           \/ /\ Long(call)
              /\ \/ i \in (n + 14)..(n + 20) \/ i \in (n + 21)..(call.len + 20)
                 \/ i = call.len + 21 \/ i = call.len + 22 \/ i = call.len + 23
    BY <1>1
  <1> QED
    BY <1>2, <1>3, <1>4, <1>5, <1>6

\* Control goes nowhere, on, or out of the call.
LEMMA Moves ==
    ASSUME Sound, Running
    PROVE  Breaks \/ Stays \/ Advance
  BY ControllerAlone, Sounds
     DEF Next, Call, Write0, Read0, Write1, Read1, WriteData, ReadData, WaitOver, Poll,
         AccessFails, GiveUp, Breaks, Stays, driver

\* Behind the read of CNTL_0 ctrl does not hold the reset, and a refusal is not
\* forgotten.
LEMMA ResetForgotten ==
    ASSUME Sound, call \in Calls, pc \in 2..Last(call), "SOFT_RST" \notin cntl0,
           "SOFT_RST" \in ctrl0 => pc <= AddrAt(call)
    PROVE  \/ Breaks
           \/ /\ "SOFT_RST" \in ctrl0' => pc < AddrAt(call) \/ (Stays /\ ctrl0' = ctrl0)
              /\ nacked => nacked'
  <1> DEFINE a == AddrAt(call)
  <1>1. a \in {3, 4} /\ Program[a] = Access("addr") /\ pc \in Nat
        /\ \A i \in 2..a : Program[i].op # "put0"
    <2>1. CASE call.dir = "read"
      <3>1. /\ Program[2] = Put1("set1", 0, 0) /\ Program[3] = Access("addr")
        BY <2>1, ReadProgram
      <3>2. Program[2].op # "put0" /\ Program[3].op # "put0" /\ a = 3
        BY <2>1, <3>1, OpKinds DEF AddrAt
      <3> QED
        BY <3>1, <3>2
    <2>2. CASE call.dir = "write"
      <3>1. /\ Program[2] = Put1("set1", 0, 0) /\ Program[3] = Put1("set1", 0, 0)
            /\ Program[4] = Access("addr")
        BY <2>2, WriteProgram
      <3>2. Program[2].op # "put0" /\ Program[3].op # "put0" /\ Program[4].op # "put0" /\ a = 4
        BY <2>2, <3>1, OpKinds DEF AddrAt
      <3> QED
        BY <3>1, <3>2
    <2> QED
      BY <2>1, <2>2, Numbers
  <1>2. Spares(Now) /\ Running
    BY ReadSpares, WriteSpares, Numbers DEF Now, Running
  <1> HIDE DEF a
  <1>3. CASE Write0
    <2>1. Now.op = "put0" /\ "SOFT_RST" \notin Now.in
      BY <1>2, <1>3 DEF Write0, Spares
    <2>2. ~(pc <= a)
      BY <1>1, <2>1 DEF Now
    <2>3. "SOFT_RST" \notin (ctrl0 \ Now.out) \cup Now.in
      BY <2>1, <2>2 DEF a
    <2>4. "SOFT_RST" \notin ctrl0' /\ nacked' = nacked
      BY <1>3, <2>3 DEF Write0, Controller0
    <2> QED
      BY <2>4
  <1>4. CASE Read0
    BY <1>4, Sounds DEF Read0, controller
  <1>5. CASE Controller
    BY <1>5 DEF Controller, Begins, SendsByte, TakesByte, Finishes, Refused, driver, Stays
  <1>6. CASE AccessFails
    BY <1>6 DEF AccessFails, GiveUp, Breaks
  <1>7. CASE Poll
    BY <1>7 DEF Poll, GiveUp, Breaks, Stays, controller
  <1>8. CASE Write1 \/ Read1 \/ WriteData \/ ReadData \/ WaitOver
    <2>1. ctrl0' = ctrl0 /\ nacked' = nacked
      BY <1>8 DEF Write1, Read1, WriteData, ReadData, WaitOver, controller
    <2>2. Now.op \notin {"addr"}
      BY <1>8 DEF Write1, Read1, WriteData, ReadData, WaitOver, Waits
    <2>3. pc # a
      BY <1>1, <2>2, OpKinds DEF Now
    <2>4. pc <= a => pc < a
      BY <1>1, <2>3
    <2> QED
      BY <2>1, <2>4 DEF a
  <1> QED
    BY <1>2, <1>3, <1>4, <1>5, <1>6, <1>7, <1>8, Sounds DEF Next, Call

-----------------------------------------------------------------------------
\* Every step keeps the invariant.

\* The first access resets the controller, whatever it was left in.
LEMMA FirstGoes ==
    ASSUME NEW cl \in Calls, call = cl, pc = 1, Sound, out = << >>, ctrl0 = {}
    PROVE  Controller \/ Breaks \/ (Advance /\ At(cl, 2)')
  <1> DEFINE receive == IF cl.dir = "read" THEN {"RECEIVE"} ELSE {}
             value == Reset(receive)
  <1>1. Running /\ Now = Put0(Flags, value)
    <2>1. CASE cl.dir = "read"
      BY <2>1, ReadProgram DEF Now, Running, Set0
    <2>2. CASE cl.dir = "write"
      BY <2>2, WriteProgram DEF Now, Running, Set0
    <2> QED
      BY <2>1, <2>2, Numbers
  <1>2. /\ Flags \in SUBSET Flags /\ value \in SUBSET Flags
        /\ "SOFT_RST" \in value /\ value \ LowByte = {"START"} \cup receive
    BY FlagSets DEF Reset
  <1> HIDE DEF value
  <1>3. \/ Controller
        \/ Breaks
        \/ /\ ctrl0' = (ctrl0 \ Flags) \cup value /\ Controller0(ctrl0')
           /\ UNCHANGED <<ctrl1, addr, out>> /\ Advance
    BY <1>1, <1>2, PutStep
  <1>4. ASSUME ctrl0' = (ctrl0 \ Flags) \cup value, Controller0(ctrl0'), out' = out
        PROVE  At(cl, 2)'
    <2>1. "SOFT_RST" \in ctrl0'
      BY <1>2, <1>4
    <2>2. fifo' = << >> /\ begun' = FALSE /\ wire' = << >>
      BY <1>4, <2>1 DEF Controller0
    <2>3. cntl0' = {"START"} \cup receive
      <3>1. ctrl0' \ LowByte = {"START"} \cup receive
        BY <1>2, <1>4
      <3> QED
        BY <1>4, <2>1, <3>1 DEF Controller0
    <2>4. CASE cl.dir = "read"
      <3>1. ReadSetup(cl, 2)'
        BY <1>4, <2>2, <2>3, <2>4 DEF ReadSetup, ReadFirst
      <3> QED
        BY <2>4, <3>1 DEF At, ReadAt
    <2>5. CASE cl.dir = "write"
      <3>1. WriteSetup(cl, 2)'
        BY <2>2, <2>3, <2>5 DEF WriteSetup
      <3> QED
        BY <2>5, <3>1 DEF At, WriteAt
    <2> QED
      BY <2>4, <2>5, Numbers
  <1> QED
    BY <1>3, <1>4

\* After the last access the transaction is on the bus, and the controller rests.
LEMMA ReadEnds ==
    ASSUME NEW cl \in Calls, cl.dir = "read", ReadAt(cl, Last(cl) + 1)
    PROVE  /\ ~Busy /\ out = Bytes(1, cl.len)
           /\ wire = IF Long(cl) THEN Append(OnWire(cl, cl.len), <<"stop">>) ELSE OnWire(cl, cl.len)
  <1> DEFINE n == FirstLen(cl)
             p == Last(cl) + 1
  <1>1. /\ n \in Nat \ {0} /\ cl.len \in Nat
        /\ Long(cl) => n + 1 <= cl.len /\ p = cl.len + 21
        /\ ~Long(cl) => n = cl.len /\ p = n + 10
    BY Numbers DEF Last
  <1>2. ReadFetch(cl, p)
    <2>1. ~(p \in 2..8) /\ p # 9 /\ ~(Long(cl) /\ p = n + 20) /\ ~(Long(cl) /\ p - n \in 11..19)
      BY <1>1
    <2>2. ~ReadSetup(cl, p) /\ ~ReadRun(cl, p) /\ ~ReadBetween(cl, p - n)
      BY <2>1 DEF ReadSetup, ReadRun, ReadBetween
    <2> QED
      BY <2>2 DEF ReadAt
  <1>3. CASE Long(cl)
    <2>1. ~(p \in 10..(n + 10)) /\ p - 21 = cl.len
      BY <1>1, <1>3
    <2> HIDE DEF p
    <2>2. /\ out = Bytes(1, cl.len) /\ cntl0 = ReadSecond \cup {"DONE"}
          /\ wire = Append(OnWire(cl, cl.len), <<"stop">>)
      BY <1>2, <2>1 DEF ReadFetch, Rest
    <2> QED
      BY <1>3, <2>2, ReadFlags DEF Busy
  <1>4. CASE ~Long(cl)
    <2>1. p - 10 = cl.len /\ n = cl.len
      BY <1>1, <1>4
    <2> HIDE DEF p
    <2>2. /\ out = Bytes(1, cl.len) /\ cntl0 = ReadFirst \cup {"DONE"}
          /\ wire = OnWire(cl, cl.len)
      BY <1>2, <1>4, <2>1 DEF ReadFetch, Rest
    <2> QED
      BY <1>4, <2>2, ReadFlags DEF Busy
  <1> QED
    BY <1>3, <1>4

LEMMA WriteEnds ==
    ASSUME NEW cl \in Calls, cl.dir = "write", WriteAt(cl, Last(cl) + 1)
    PROVE  ~Busy /\ wire = Append(OnWire(cl, cl.len), <<"stop">>)
  <1> DEFINE n == FirstLen(cl)
             p == Last(cl) + 1
  <1>1. /\ n \in Nat \ {0} /\ cl.len \in Nat
        /\ Long(cl) => n + 1 <= cl.len /\ p = cl.len + 24
        /\ ~Long(cl) => n = cl.len /\ p = n + 14
    BY Numbers DEF Last
  <1>2. WriteRun(cl, p)
    <2>1. ~(p \in 2..10) /\ ~(p \in 11..(n + 11)) /\ ~(Long(cl) /\ p \in (n + 21)..(cl.len + 21))
          /\ ~(Long(cl) /\ p - n \in 15..20)
      BY <1>1
    <2>2. ~WriteSetup(cl, p) /\ ~WriteSend(cl, p) /\ ~WriteBetween(cl, p - n)
      BY <2>1 DEF WriteSetup, WriteSend, WriteBetween
    <2> QED
      BY <2>2 DEF WriteAt
  <1>3. CASE Long(cl)
    <2>1. p # n + 12 /\ p # n + 13 /\ p # n + 14 /\ p # cl.len + 22 /\ p # cl.len + 23
      BY <1>1, <1>3
    <2> HIDE DEF p
    <2>2. PartDone(cl, {"STOP"}, n + 1, cl.len)
      BY <1>2, <2>1 DEF WriteRun
    <2>3. cntl0 = {"STOP", "DONE"} /\ wire = Append(OnWire(cl, cl.len), <<"stop">>)
      BY <2>2 DEF PartDone, Rest, Stopped
    <2> QED
      BY <2>3 DEF Busy
  <1>4. CASE ~Long(cl)
    <2>1. p # n + 12 /\ p # n + 13 /\ n = cl.len
      BY <1>1, <1>4
    <2> HIDE DEF p
    <2>2. PartDone(cl, WriteFirst(cl), 1, n)
      BY <1>2, <1>4, <2>1 DEF WriteRun
    <2>3. cntl0 = WriteFirst(cl) \cup {"DONE"} /\ wire = Stopped(WriteFirst(cl), OnWire(cl, n))
      BY <2>2 DEF PartDone, Rest
    <2>4. "STOP" \in WriteFirst(cl)
      BY <1>4 DEF WriteFirst
    <2> QED
      BY <2>1, <2>3, <2>4, WriteFlags DEF Busy, Stopped
  <1> QED
    BY <1>3, <1>4

LEMMA EndRests ==
    ASSUME NEW cl \in Calls, At(cl, Last(cl) + 1)
    PROVE  ~Busy
  BY Numbers, ReadEnds, WriteEnds DEF At

LEMMA OrderlyInit == Init => Orderly
  <1> SUFFICES ASSUME Init PROVE Orderly
    OBVIOUS
  <1>1. call \in Calls /\ pc = 0 /\ ret = -1 /\ cntl0 = {} /\ ctrl0 = {}
    BY DEF Init
  <1>2. Last(call) \in Nat
    BY <1>1, Numbers DEF Last
  <1>3. 0 \in 0..(Last(call) + 1) /\ 0 \in 0..Last(call) /\ Reached(call, 0)
    BY <1>1, <1>2 DEF Reached
  <1> QED
    BY <1>1, <1>3 DEF Orderly

\* The clauses of the invariant for a call cl whose access p is reached.
InvAt(cl, p) ==
    /\ call = cl
    /\ Reached(cl, p)
    /\ pc \in 0..Last(cl)
    /\ "SOFT_RST" \notin cntl0
    /\ "SOFT_RST" \in ctrl0 => p <= AddrAt(cl)
    /\ p = 1 => out = << >> /\ ctrl0 = {}
    /\ p > 1 /\ ~nacked => At(cl, p)

LEMMA InvIs == Orderly <=> \E cl \in Calls : \E p \in 0..(Last(cl) + 1) : InvAt(cl, p)
  BY DEF Orderly, InvAt

\* No call runs.
LEMMA InvIdle ==
    ASSUME NEW cl \in Calls, NEW p \in 0..(Last(cl) + 1), InvAt(cl, p), ~Running, Sound
    PROVE  Orderly'
  <1>1. "SOFT_RST" \notin cntl0'
    BY ResetClears DEF InvAt
  <1>2. Call \/ Controller
    BY Sounds DEF Next, Write0, Read0, Write1, Read1, WriteData, ReadData, WaitOver, Waits, Poll, AccessFails
  <1>3. CASE Call
    <2>1. /\ call' \in Calls /\ pc' = 1 /\ ctrl0' = {} /\ out' = << >>
      BY <1>3 DEF Call
    <2>2. PICK c \in Calls : call' = c
      BY <2>1
    <2>3. Last(c) \in Nat \ {0}
      BY Numbers DEF Last
    <2>4. 1 \in 0..(Last(c) + 1) /\ 1 \in 0..Last(c)
      BY <2>3
    <2>5. Reached(c, 1)'
      BY <2>1 DEF Reached
    <2>6. InvAt(c, 1)'
      BY <1>1, <2>1, <2>2, <2>4, <2>5 DEF InvAt
    <2> QED
      BY <2>4, <2>6 DEF Orderly, InvAt
  <1>4. CASE Controller
    <2>1. Busy /\ UNCHANGED driver
      BY <1>4, ControllerAlone
    <2>2. nacked => nacked'
      BY <1>4 DEF Controller, Begins, SendsByte, TakesByte, Finishes, Refused
    <2>3. p > 1 => p = Last(cl) + 1
      BY DEF InvAt, Reached, Running
    <2>4. p > 1 => nacked
      BY <2>1, <2>3, EndRests DEF InvAt
    <2>5. Reached(cl, p)' /\ call' = call /\ pc' = pc /\ ctrl0' = ctrl0 /\ out' = out
      BY <2>1 DEF driver, Reached, InvAt
    <2>6. InvAt(cl, p)'
      BY <1>1, <2>2, <2>4, <2>5 DEF InvAt
    <2> QED
      BY <2>6 DEF Orderly, InvAt
  <1> QED
    BY <1>2, <1>3, <1>4

\* A call runs: it is given up, waits, or goes on.
LEMMA InvBreaks ==
    ASSUME NEW cl \in Calls, NEW p \in 0..(Last(cl) + 1), InvAt(cl, p), Sound, Breaks
    PROVE  Orderly'
  <1>1. "SOFT_RST" \notin cntl0'
    BY ResetClears DEF InvAt
  <1>2. call' = cl /\ pc' = 0 /\ ret' = -1
    BY DEF Breaks, InvAt
  <1>3. Last(cl) \in Nat
    BY Numbers DEF Last
  <1>4. 0 \in 0..(Last(cl) + 1) /\ 0 \in 0..Last(cl) /\ 0 <= AddrAt(cl)
    BY <1>3 DEF AddrAt
  <1>5. Reached(cl, 0)'
    BY <1>2 DEF Reached
  <1>6. InvAt(cl, 0)'
    BY <1>1, <1>2, <1>4, <1>5 DEF InvAt
  <1> QED
    BY <1>4, <1>6 DEF Orderly, InvAt

LEMMA NextReached ==
    ASSUME NEW cl \in Calls, NEW p \in 0..(Last(cl) + 1), InvAt(cl, p), Running
    PROVE  /\ p = pc /\ p \in 1..Last(cl) /\ Len(Program) = Last(cl) /\ Last(cl) \in Nat
           /\ Stays => Reached(cl, p)' /\ call' = cl /\ pc' = p
           /\ Advance => Reached(cl, p + 1)' /\ call' = cl /\ pc' \in 0..Last(cl)
  <1>1. call = cl /\ Last(cl) \in Nat
    BY Numbers, SMTT(30) DEF Last, InvAt
  <1>2. Len(Program) = Last(cl)
    BY <1>1, ReadProgram, WriteProgram, Numbers
  <1>3. p = pc /\ p \in 1..Last(cl)
    BY <1>1 DEF InvAt, Reached, Running
  <1>4. ASSUME Stays
        PROVE  Reached(cl, p)' /\ call' = cl /\ pc' = p
    BY <1>1, <1>3, <1>4 DEF Stays, Reached
  <1>5. ASSUME Advance
        PROVE  Reached(cl, p + 1)' /\ call' = cl /\ pc' \in 0..Last(cl)
    <2>1. CASE p < Last(cl)
      <3>1. pc' = p + 1 /\ call' = cl /\ p + 1 \in 0..Last(cl) /\ p + 1 # 0
        BY <1>1, <1>2, <1>3, <1>5, <2>1 DEF Advance
      <3> QED
        BY <3>1 DEF Reached
    <2>2. CASE p = Last(cl)
      <3>1. pc' = 0 /\ ret' = 0 /\ call' = cl /\ 0 \in 0..Last(cl)
        BY <1>1, <1>2, <1>3, <1>5, <2>2 DEF Advance
      <3> QED
        BY <2>2, <3>1 DEF Reached
    <2>3. p < Last(cl) \/ p = Last(cl)
      BY <1>1, <1>3
    <2> QED
      BY <2>1, <2>2, <2>3
  <1> QED
    BY <1>1, <1>2, <1>3, <1>4, <1>5

LEMMA InvFirst ==
    ASSUME NEW cl \in Calls, InvAt(cl, 1), Running, Sound
    PROVE  Orderly'
  <1>1. "SOFT_RST" \notin cntl0'
    BY ResetClears DEF InvAt
  <1>2. Last(cl) \in Nat \ {0}
    BY Numbers DEF Last
  <1>3. 1 \in 0..(Last(cl) + 1) /\ 2 \in 0..(Last(cl) + 1) /\ 2 <= AddrAt(cl)
    BY <1>2 DEF AddrAt
  <1>4. pc = 1 /\ call = cl /\ out = << >> /\ ctrl0 = {}
    BY <1>3, NextReached DEF InvAt
  <1>5. CASE Breaks
    BY <1>3, <1>5, InvBreaks
  <1>6. CASE Controller
    <2>1. UNCHANGED driver
      BY <1>6, ControllerAlone
    <2>2. Reached(cl, 1)' /\ call' = cl /\ pc' = pc /\ ctrl0' = ctrl0 /\ out' = out
      BY <1>4, <2>1 DEF driver, Reached, InvAt
    <2>3. InvAt(cl, 1)'
      BY <1>1, <1>4, <2>2 DEF InvAt
    <2> QED
      BY <1>3, <2>3 DEF Orderly, InvAt
  <1>7. CASE Advance /\ At(cl, 2)'
    <2>1. Reached(cl, 2)' /\ call' = cl /\ pc' \in 0..Last(cl)
      BY <1>3, <1>7, NextReached
    <2>2. InvAt(cl, 2)'
      BY <1>1, <1>3, <1>7, <2>1 DEF InvAt
    <2> QED
      BY <1>3, <2>2 DEF Orderly, InvAt
  <1> QED
    BY <1>4, <1>5, <1>6, <1>7, FirstGoes

LEMMA InvRunning ==
    ASSUME NEW cl \in Calls, NEW p \in 2..(Last(cl) + 1), InvAt(cl, p), Running, Sound, ~Breaks
    PROVE  Orderly'
  <1>1. "SOFT_RST" \notin cntl0'
    BY ResetClears DEF InvAt
  <1>2. /\ p \in 0..(Last(cl) + 1) /\ p = pc /\ p \in 2..Last(cl) /\ p + 1 \in 0..(Last(cl) + 1)
        /\ call = cl /\ p > 1 /\ p + 1 > 1 /\ p # 1 /\ p + 1 # 1 /\ p \in Nat /\ p \in 0..Last(cl)
    <2>1. Last(cl) \in Nat
      BY Numbers DEF Last
    <2>2. p \in 0..(Last(cl) + 1)
      BY <2>1
    <2>3. p = pc /\ p \in 1..Last(cl) /\ call = cl
      BY <2>2, NextReached DEF InvAt
    <2> QED
      BY <2>1, <2>2, <2>3
  <1>3. /\ "SOFT_RST" \in ctrl0' => p < AddrAt(cl) \/ (Stays /\ ctrl0' = ctrl0)
        /\ nacked => nacked'
    <2>1. "SOFT_RST" \in ctrl0 => pc <= AddrAt(call)
      BY <1>2 DEF InvAt
    <2>2. "SOFT_RST" \notin cntl0
      BY DEF InvAt
    <2> QED
      BY <1>2, <2>1, <2>2, ResetForgotten
  <1>4. \/ Stays /\ (nacked' \/ At(cl, p)')
        \/ Advance /\ (nacked' \/ At(cl, p + 1)')
    <2>1. CASE nacked
      BY <1>2, <1>3, <2>1, Moves
    <2>2. CASE ~nacked
      <3>1. At(cl, p)
        BY <1>2, <2>2 DEF InvAt
      <3>2. CASE cl.dir = "read"
        <4>1. p <= Last(cl) /\ ReadAt(cl, p)
          BY <1>2, <3>1, <3>2 DEF At
        <4> QED
          BY <1>2, <3>2, <4>1, ReadGoes DEF At
      <3>3. CASE cl.dir = "write"
        <4>1. p <= Last(cl) /\ WriteAt(cl, p)
          BY <1>2, <3>1, <3>3 DEF At
        <4> QED
          BY <1>2, <3>3, <4>1, WriteGoes DEF At
      <3> QED
        BY <3>2, <3>3, Numbers
    <2> QED
      BY <2>1, <2>2
  <1>5. CASE Stays /\ (nacked' \/ At(cl, p)')
    <2>1. Reached(cl, p)' /\ call' = cl /\ pc' = p
      BY <1>2, <1>5, NextReached
    <2>2. "SOFT_RST" \in ctrl0' => p <= AddrAt(cl)
      BY <1>2, <1>3 DEF InvAt, AddrAt
    <2>3. InvAt(cl, p)'
      BY <1>1, <1>2, <1>5, <2>1, <2>2 DEF InvAt
    <2> QED
      BY <1>2, <2>3 DEF Orderly, InvAt
  <1>6. CASE Advance /\ (nacked' \/ At(cl, p + 1)')
    <2>1. Reached(cl, p + 1)' /\ call' = cl /\ pc' \in 0..Last(cl)
      BY <1>2, <1>6, NextReached
    <2>2. "SOFT_RST" \in ctrl0' => p + 1 <= AddrAt(cl)
      <3>1. pc' # pc
        BY <1>2, <1>6 DEF Advance
      <3>2. ~Stays
        BY <3>1 DEF Stays
      <3>3. AddrAt(cl) \in Nat
        BY DEF AddrAt
      <3> QED
        BY <1>2, <1>3, <3>2, <3>3
    <2>3. InvAt(cl, p + 1)'
      BY <1>1, <1>2, <1>6, <2>1, <2>2 DEF InvAt
    <2> QED
      BY <1>2, <2>3 DEF Orderly, InvAt
  <1> QED
    BY <1>4, <1>5, <1>6

LEMMA OrderlyNext ==
    ASSUME Orderly, [Next]_vars, ~stale
    PROVE  Orderly'
  <1>1. PICK cl \in Calls : \E p \in 0..(Last(cl) + 1) : InvAt(cl, p)
    BY InvIs
  <1>2. PICK p \in 0..(Last(cl) + 1) : InvAt(cl, p)
    BY <1>1
  <1>3. CASE Next
    <2> Sound
      BY <1>3 DEF Sound
    <2>1. CASE ~Running
      BY <1>2, <1>3, <2>1, InvIdle
    <2>2. CASE Running /\ Breaks
      BY <1>2, <1>3, <2>2, InvBreaks
    <2>3. CASE Running /\ ~Breaks
      <3>1. p = 1 \/ p \in 2..(Last(cl) + 1)
        BY <1>2, <2>3, NextReached
      <3> QED
        BY <1>2, <1>3, <2>3, <3>1, InvFirst, InvRunning
    <2> QED
      BY <2>1, <2>2, <2>3
  <1>4. CASE UNCHANGED vars
    <2>1. UNCHANGED <<cntl0, cntl1, fifo, begun, wire, nacked, call, pc, ctrl0, ctrl1, addr, out, ret>>
      BY <1>4 DEF vars, controller, driver
    <2>2. At(cl, p) => At(cl, p)'
      <3>1. ReadAt(cl, p) => ReadAt(cl, p)'
        BY <2>1 DEF ReadAt, ReadSetup, ReadRun, ReadFetch, ReadBetween, Part, PartStarts, PartBehind,
                    PartDone, Rest
      <3>2. WriteAt(cl, p) => WriteAt(cl, p)'
        BY <2>1 DEF WriteAt, WriteSetup, WriteRun, WriteSend, WriteBetween, Part, PartStarts,
                    PartBehind, PartDone, Rest
      <3> QED
        BY <3>1, <3>2 DEF At
    <2>3. InvAt(cl, p)'
      BY <1>2, <2>1, <2>2 DEF InvAt, Reached
    <2> QED
      BY <2>3 DEF Orderly, InvAt
  <1> QED
    BY <1>3, <1>4

\* An answer that is left stays: nothing drains the endpoint.
LEMMA AnswersStay ==
    ASSUME stale, [Next]_vars
    PROVE  stale'
  <1>1. Controller => stale'
    BY ControllerAlone DEF driver
  <1> QED
    BY <1>1
       DEF Next, Call, Write0, Read0, Write1, Read1, WriteData, ReadData, WaitOver, Poll, AccessFails,
           GiveUp, Advance, MayLeaveAnswer, vars, driver

\* The invariant: that state, as long as reads bring their own answers.
IInv == ~stale => Orderly

\* The state of the driver and of the controller at every access of a call that
\* nothing interrupted, whatever calls went before it, when no read among them
\* was given up behind its header.
THEOREM Invariant == Spec => []IInv
  <1>1. Init => IInv
    BY OrderlyInit DEF IInv
  <1>2. IInv /\ [Next]_vars => IInv'
    BY OrderlyNext, AnswersStay DEF IInv
  <1> QED
    BY <1>1, <1>2, PTL DEF Spec

\* What stands in front of and behind the joint of two sequences.
LEMMA Joint ==
    ASSUME NEW S, NEW s \in Seq(S), NEW t \in Seq(S), Len(s) = 2
    PROVE  /\ s \o t \in Seq(S) /\ Len(s \o t) = Len(t) + 2
           /\ (s \o t)[1] = s[1] /\ (s \o t)[2] = s[2]
           /\ \A i \in 3..(Len(t) + 2) : i - 2 \in 1..Len(t) /\ (s \o t)[i] = t[i - 2]
  <1>1. s \o t \in Seq(S)
    BY ConcatProperties
  <1>2. Len(s \o t) = Len(s) + Len(t)
    BY ConcatProperties
  <1>3. \A i \in 1..(Len(s) + Len(t)) : (s \o t)[i] = IF i <= Len(s) THEN s[i] ELSE t[i - Len(s)]
    BY ConcatProperties
  <1>4. Len(t) \in Nat
    OBVIOUS
  <1> QED
    BY <1>1, <1>2, <1>3, <1>4

LEMMA TransactionSeq ==
    ASSUME call \in Calls
    PROVE  /\ Bytes(1, call.len) = [i \in 1..call.len |-> <<"byte", i>>]
           /\ Transaction = IF call.dir = "write" \/ Long(call)
                            THEN Append(OnWire(call, call.len), <<"stop">>) ELSE OnWire(call, call.len)
  <1> DEFINE m == call.len
             h == << <<"start">>, AddressOf(call) >>
             b == [i \in 1..m |-> <<"byte", i>>]
             S == {Byte(x) : x \in Int} \cup {<<"start">>, AddressOf(call), <<"stop">>}
             w == OnWire(call, m)
  <1>1. m \in Nat
    BY Numbers
  <1>2. Bytes(1, m) = b
    BY <1>1 DEF Bytes
  <1>3. h \o b = w
    <2>1. h \in Seq(S) /\ Len(h) = 2 /\ h[1] = <<"start">> /\ h[2] = AddressOf(call)
      OBVIOUS
    <2>2. b \in Seq(S) /\ Len(b) = m /\ \A i \in 1..m : b[i] = Byte(i)
      BY <1>1 DEF Byte
    <2>3. w \in Seq(S) /\ Len(w) = m + 2 /\ w[1] = <<"start">> /\ w[2] = AddressOf(call)
          /\ \A i \in 3..(m + 2) : w[i] = Byte(i - 2)
      BY <1>1 DEF OnWire, Byte
    <2> HIDE DEF h, b, w, S
    <2>4. h \o b \in Seq(S) /\ Len(h \o b) = m + 2 /\ (h \o b)[1] = <<"start">>
          /\ (h \o b)[2] = AddressOf(call) /\ \A i \in 3..(m + 2) : (h \o b)[i] = Byte(i - 2)
      <3>1. /\ h \o b \in Seq(S) /\ Len(h \o b) = Len(b) + 2
            /\ (h \o b)[1] = h[1] /\ (h \o b)[2] = h[2]
            /\ \A i \in 3..(Len(b) + 2) : i - 2 \in 1..Len(b) /\ (h \o b)[i] = b[i - 2]
        BY <2>1, <2>2, Joint
      <3> QED
        BY <2>1, <2>2, <3>1
    <2>5. \A i \in 1..(m + 2) : i = 1 \/ i = 2 \/ i \in 3..(m + 2)
      BY <1>1
    <2>6. \A i \in 1..(m + 2) : (h \o b)[i] = w[i]
      BY <2>3, <2>4, <2>5
    <2> QED
      BY <2>3, <2>4, <2>6, SeqEqual
  <1>4. w \in Seq(S)
    BY <1>1 DEF OnWire, Byte
  <1>5. w \o << <<"stop">> >> = Append(w, <<"stop">>) /\ w \o << >> = w
    <2> HIDE DEF w, S
    <2> QED
      BY <1>4
  <1>6. call.dir = "read" => (Long(call) <=> m > ReadChunk)
    BY DEF Long
  <1>7. Transaction = (h \o b) \o (IF call.dir = "write" \/ m > ReadChunk THEN << <<"stop">> >> ELSE << >>)
    BY DEF Transaction, AddressOf
  <1> QED
    BY <1>2, <1>3, <1>5, <1>6, <1>7, Numbers

\* A call that returned 0, and whose bytes the chip did not refuse, put one
\* transaction on the bus, for any sizes of the parts and lengths, after any
\* calls that failed, gave up or were refused (tvw_read_i2c, tvw_write_i2c),
\* unless one of them left an answer on the endpoint for which nobody asked.
THEOREM OneTransaction == Spec => []WireIsTransaction
  <1>1. IInv => WireIsTransaction
    <2> SUFFICES ASSUME Orderly, ~Running, ret = 0, ~nacked, ~stale
                 PROVE  /\ wire = Transaction
                        /\ call.dir = "read" => out = [i \in 1..call.len |-> <<"byte", i>>]
      BY DEF WireIsTransaction, IInv
    <2>1. PICK cl \in Calls : \E p \in 0..(Last(cl) + 1) : InvAt(cl, p)
      BY InvIs
    <2>2. PICK p \in 0..(Last(cl) + 1) : InvAt(cl, p)
      BY <2>1
    <2>3. p = Last(cl) + 1 /\ p > 1 /\ call = cl
      <3>1. Last(cl) \in Nat \ {0}
        BY Numbers DEF Last
      <3> QED
        BY <2>2, <3>1 DEF InvAt, Reached, Running
    <2>4. At(cl, Last(cl) + 1)
      BY <2>2, <2>3 DEF InvAt
    <2>5. CASE cl.dir = "read"
      <3>1. ReadAt(cl, Last(cl) + 1)
        BY <2>4, <2>5 DEF At
      <3>2. out = Bytes(1, cl.len)
            /\ wire = IF Long(cl) THEN Append(OnWire(cl, cl.len), <<"stop">>) ELSE OnWire(cl, cl.len)
        BY <2>5, <3>1, ReadEnds
      <3> QED
        BY <2>3, <2>5, <3>2, TransactionSeq
    <2>6. CASE cl.dir = "write"
      <3>1. WriteAt(cl, Last(cl) + 1)
        BY <2>4, <2>6 DEF At
      <3>2. wire = Append(OnWire(cl, cl.len), <<"stop">>)
        BY <2>6, <3>1, WriteEnds
      <3> QED
        BY <2>3, <2>6, <3>2, TransactionSeq
    <2> QED
      BY <2>5, <2>6, Numbers
  <1> QED
    BY Invariant, <1>1, PTL

-----------------------------------------------------------------------------
\* The type invariant also holds once the chip has refused a byte, where the
\* invariant above says nothing: the controller works only while the driver
\* waits for it.

\* Writes to CNTL_0 for which ctrl does not hold GO, and the wait between two.
Quiet(cl) ==
    IF cl.dir = "read"
    THEN {4} \cup (IF Long(cl) THEN (FirstLen(cl) + 11)..(FirstLen(cl) + 13) ELSE {})
    ELSE {5} \cup (IF Long(cl) THEN {FirstLen(cl) + 16} ELSE {})

\* How many bytes a call has fetched when it reaches access p.
Fetched(cl, p) ==
    IF cl.dir = "write" \/ p <= 10 THEN 0
    ELSE IF p <= FirstLen(cl) + 10 THEN p - 10
    ELSE IF p <= FirstLen(cl) + 21 THEN FirstLen(cl) ELSE p - 21

\* What an access of the driver may be.
Typed(o) == o.in \in SUBSET Flags /\ o.out \in SUBSET Flags /\ o.n \in {0, 1} /\ o.count \in Nat

\* A write to CNTL_0 resets the controller, sets GO and is followed by the wait
\* for its end, or does not set it;
SetsGo(cl, p) == "GO" \in Program[p].in /\ p < Last(cl) /\ Program[p + 1] = WaitClear("GO")
DropsGo(cl, p) == "GO" \notin Program[p].in /\ ("GO" \in Program[p].out \/ p \in Quiet(cl))
Resets(o) == "SOFT_RST" \in o.in /\ "GO" \in o.out /\ "GO" \notin o.in

\* and ctrl has no GO where it must not, and no more is fetched than was asked
\* for.
Settled(cl, p) ==
    /\ Typed(Program[p])
    /\ Program[p].op = "put0" => IF p = 1 THEN Resets(Program[p]) ELSE SetsGo(cl, p) \/ DropsGo(cl, p)
    /\ p + 1 \in Quiet(cl) =>
          /\ p > 1
          /\ Program[p].op \in {"get0", "addr"} \/ (p \in Quiet(cl) /\ "GO" \notin Program[p].in)
    /\ Fetched(cl, p) <= Fetched(cl, p + 1) /\ Fetched(cl, p + 1) <= cl.len
    /\ Program[p].op = "fetch" => Fetched(cl, p + 1) = Fetched(cl, p) + 1

\* The fields of an access.
LEMMA Fields ==
    /\ \A o, i : /\ Put0(o, i).op = "put0" /\ Put0(o, i).out = o /\ Put0(o, i).in = i
                 /\ Put0(o, i).n = 0 /\ Put0(o, i).count = 0
    /\ \A op, n, count : /\ Put1(op, n, count).op = op /\ Put1(op, n, count).out = {}
                         /\ Put1(op, n, count).in = {} /\ Put1(op, n, count).n = n
                         /\ Put1(op, n, count).count = count
    /\ \A op : /\ Access(op).op = op /\ Access(op).out = {} /\ Access(op).in = {}
               /\ Access(op).n = 0 /\ Access(op).count = 0
    /\ \A flag : /\ WaitClear(flag).op = "wait" /\ WaitClear(flag).out = {}
                 /\ WaitClear(flag).in = {flag}
                 /\ WaitClear(flag).n = 0 /\ WaitClear(flag).count = 0
  BY DEF Put0, Put1, Access, WaitClear, Op

\* An access that is neither a write to CNTL_0 nor a fetch, and does not wait
\* for GO.
Plain(o) == Typed(o) /\ o.op \notin {"put0", "fetch"}

\* The accesses of a call by kind: the plain ones,
LEMMA PlainAccesses ==
    /\ \A n \in {0, 1} : \A count \in Nat : /\ Plain(Put1("set1", n, count)) /\ Plain(Put1("or1", n, count))
                                            /\ Plain(Put1("one1", n, count)) /\ Plain(Put1("drop1", n, count))
    /\ Plain(Access("addr")) /\ Plain(Access("chip")) /\ Plain(Access("wait1")) /\ Plain(Access("send"))
    /\ Plain(Get0) /\ Plain(Get1) /\ Plain(WaitClear("GO")) /\ Plain(WaitClear("DONE"))
    /\ Typed(Access("fetch")) /\ Access("fetch").op = "fetch"
    /\ Access("addr").op = "addr" /\ Get0.op = "get0" /\ "GO" \notin WaitClear("DONE").in
  BY Fields, FlagSets DEF Plain, Typed, Get0, Get1

\* and the writes to CNTL_0.
LEMMA Puts ==
    /\ \A o, i \in SUBSET Flags : Typed(Put0(o, i)) /\ Put0(o, i).op = "put0"
                                  /\ Put0(o, i).out = o /\ Put0(o, i).in = i
    /\ \A r \in {{}, {"RECEIVE"}} : Typed(Set0(Reset(r))) /\ Set0(Reset(r)).op = "put0" /\ Resets(Set0(Reset(r)))
  <1>1. \A o, i \in SUBSET Flags : Typed(Put0(o, i)) /\ Put0(o, i).op = "put0"
                                   /\ Put0(o, i).out = o /\ Put0(o, i).in = i
    BY Fields DEF Typed
  <1>2. \A r \in {{}, {"RECEIVE"}} : Reset(r) \in SUBSET Flags /\ "SOFT_RST" \in Reset(r) /\ "GO" \notin Reset(r)
    BY FlagSets DEF Reset
  <1> QED
    BY <1>1, <1>2, FlagSets DEF Set0, Resets

\* Where it is enough to be plain.
LEMMA PlainSettled ==
    ASSUME NEW cl, NEW p, Plain(Program[p]), p + 1 \notin Quiet(cl),
           Fetched(cl, p) <= Fetched(cl, p + 1), Fetched(cl, p + 1) <= cl.len
    PROVE  Settled(cl, p)
  BY DEF Settled, Plain

\* Every access of a read is settled: the accesses before the bytes, the bytes
\* of the first part, the accesses between the parts and the bytes of the second.
LEMMA ReadSettled ==
    ASSUME call \in Calls, call.dir = "read"
    PROVE  \A i \in 1..Last(call) : Settled(call, i)
  <1> DEFINE n == FirstLen(call)
  <1>1. n \in Nat \ {0} /\ call.len \in Nat /\ (Long(call) => n + 1 <= call.len) /\ n <= call.len
        /\ (~Long(call) => n = call.len)
        /\ Last(call) = IF Long(call) THEN call.len + 20 ELSE n + 9
    <2>1. n \in 1..255 /\ call.len \in Nat /\ n <= call.len /\ (~Long(call) => n = call.len)
          /\ (Long(call) => call.len - n \in 1..255)
      BY Numbers
    <2>2. Last(call) = IF Long(call) THEN call.len + 20 ELSE n + 9
      BY DEF Last
    <2> HIDE DEF n
    <2> QED
      BY <2>1, <2>2
  <1>2. \A p \in Nat : p \in Quiet(call) <=> p = 4 \/ (Long(call) /\ p \in {n + 11, n + 12, n + 13})
    BY <1>1 DEF Quiet
  <1>3. \A p \in Nat : Fetched(call, p) = IF p <= 10 THEN 0 ELSE IF p <= n + 10 THEN p - 10
                                          ELSE IF p <= n + 21 THEN n ELSE p - 21
    BY DEF Fetched
  <1>4. \A p \in 1..Last(call) : /\ Fetched(call, p) <= Fetched(call, p + 1)
                                 /\ Fetched(call, p + 1) <= call.len
    <2> HIDE DEF n
    <2> QED
      BY <1>1, <1>3
  <1>5. \A i \in 1..9 : Settled(call, i)
    <2>1. /\ Program[1] = Set0(Reset({"RECEIVE"})) /\ Program[2] = Put1("set1", 0, 0)
          /\ Program[3] = Access("addr") /\ Program[4] = Put0({}, {})
          /\ Program[5] = Put1("set1", 1, n) /\ Program[6] = Access("chip")
          /\ Program[7] = Get0 /\ Program[8] = Put0({}, {"GO"})
          /\ Program[9] = WaitClear("GO")
      BY ReadProgram
    <2>2. \A i \in 1..9 : i \in 1..Last(call) /\ i \in Nat /\ (i + 1 \in Quiet(call) <=> i = 3)
                          /\ Fetched(call, i + 1) = 0 /\ Fetched(call, i) = 0
      <3> HIDE DEF n
      <3> QED
        BY <1>1, <1>2, <1>3
    <2>3. Plain(Program[2]) /\ Plain(Program[3]) /\ Plain(Program[5]) /\ Plain(Program[6])
          /\ Plain(Program[7]) /\ Plain(Program[9])
      BY <1>1, <2>1, PlainAccesses
    <2>4. \A i \in {2, 5, 6, 7, 9} : Settled(call, i)
      <3>1. \A i \in {2, 5, 6, 7, 9} : i \in 1..9 /\ i # 3 /\ Plain(Program[i])
        BY <2>3
      <3> QED
        BY <2>2, <3>1, <1>4, PlainSettled
    <2>5. Settled(call, 1)
      <3>1. Typed(Program[1]) /\ Program[1].op = "put0" /\ Resets(Program[1])
        BY <2>1, Puts
      <3>2. 1 \in 1..9 /\ 1 # 3
        OBVIOUS
      <3> QED
        BY <3>1, <3>2, <2>2, <1>4 DEF Settled
    <2>6. Settled(call, 3)
      <3>1. Typed(Program[3]) /\ Program[3].op = "addr"
        BY <2>1, <2>3, PlainAccesses DEF Plain
      <3>2. 3 \in 1..9 /\ 3 > 1
        OBVIOUS
      <3> QED
        BY <3>1, <3>2, <2>2, <1>4 DEF Settled
    <2>7. Settled(call, 4)
      <3>1. Typed(Program[4]) /\ Program[4].op = "put0" /\ Program[4].in = {}
        BY <2>1, Puts
      <3>2. 4 \in 1..9 /\ 4 # 3 /\ 4 # 1 /\ 4 \in Quiet(call)
        BY <1>2
      <3> QED
        BY <3>1, <3>2, <2>2, <1>4 DEF Settled, DropsGo
    <2>8. Settled(call, 8)
      <3>1. Typed(Program[8]) /\ Program[8].op = "put0" /\ Program[8].in = {"GO"}
        BY <2>1, Puts, FlagSets
      <3>2. 8 \in 1..9 /\ 8 # 3 /\ 8 # 1 /\ 8 < Last(call) /\ 8 + 1 = 9
        BY <1>1
      <3>3. SetsGo(call, 8)
        BY <2>1, <3>1, <3>2 DEF SetsGo
      <3> QED
        BY <3>1, <3>2, <3>3, <2>2, <1>4 DEF Settled
    <2> QED
      BY <2>4, <2>5, <2>6, <2>7, <2>8
  <1>6. \A i \in 10..(n + 9) : Settled(call, i)
    <2>1. \A i \in 10..(n + 9) : Program[i] = Access("fetch")
      BY ReadProgram
    <2>2. \A i \in 10..(n + 9) : Typed(Program[i]) /\ Program[i].op = "fetch"
      BY <2>1, PlainAccesses
    <2>3. \A i \in 10..(n + 9) : i \in 1..Last(call) /\ i + 1 \notin Quiet(call)
                                 /\ Fetched(call, i + 1) = Fetched(call, i) + 1
      <3> HIDE DEF n
      <3> QED
        BY <1>1, <1>2, <1>3
    <2> QED
      BY <2>2, <2>3, <1>4 DEF Settled
  <1>7. ASSUME Long(call)
        PROVE  /\ \A i \in (n + 10)..(n + 20) : Settled(call, i)
               /\ \A i \in (n + 21)..(call.len + 20) : Settled(call, i)
    <2>1. /\ Program[n + 10] = Get0 /\ Program[n + 11] = Put0({"START"}, {})
          /\ Program[n + 12] = WaitClear("DONE") /\ Program[n + 13] = Put0({}, {"STOP"})
          /\ Program[n + 14] = Get1 /\ Program[n + 15] = Put1("drop1", 0, 0)
          /\ Program[n + 16] = Access("wait1")
          /\ Program[n + 17] = Put1("or1", 0, call.len - n)
          /\ Program[n + 18] = Get0 /\ Program[n + 19] = Put0({}, {"GO"})
          /\ Program[n + 20] = WaitClear("GO")
          /\ \A i \in (n + 21)..(call.len + 20) : Program[i] = Access("fetch")
      BY <1>7, ReadProgram
    <2> HIDE DEF n
    <2>2. \A i \in (n + 10)..(n + 20) : i \in 1..Last(call) /\ i # 1
                          /\ (i \in Quiet(call) <=> i \in {n + 11, n + 12, n + 13})
                          /\ (i + 1 \in Quiet(call) <=> i \in {n + 10, n + 11, n + 12})
      BY <1>1, <1>2, <1>7
    <2>3. \A i \in {n + 14, n + 15, n + 16, n + 17, n + 18, n + 20} : Settled(call, i)
      <3>1. call.len - n \in Nat
        BY <1>1, <1>7
      <3>2. \A i \in {n + 14, n + 15, n + 16, n + 17, n + 18, n + 20} : Plain(Program[i])
        BY <2>1, <3>1, PlainAccesses
      <3>3. \A i \in {n + 14, n + 15, n + 16, n + 17, n + 18, n + 20} :
               i \in 1..Last(call) /\ i + 1 \notin Quiet(call)
        BY <2>2, <1>1
      <3> QED
        BY <3>2, <3>3, <1>4, PlainSettled
    <2>4. Settled(call, n + 10)
      <3>1. Typed(Program[n + 10]) /\ Program[n + 10].op = "get0"
        BY <2>1, PlainAccesses DEF Plain
      <3>2. n + 10 \in 1..Last(call) /\ n + 10 > 1
        BY <1>1, <1>7
      <3> QED
        BY <3>1, <3>2, <1>4 DEF Settled
    <2>5. \A i \in {n + 11, n + 13} : Settled(call, i)
      <3>1. \A i \in {n + 11, n + 13} : Typed(Program[i]) /\ Program[i].op = "put0" /\ "GO" \notin Program[i].in
        <4>1. Typed(Program[n + 11]) /\ Program[n + 11].op = "put0" /\ Program[n + 11].in = {}
          BY <2>1, Puts, FlagSets
        <4>2. Typed(Program[n + 13]) /\ Program[n + 13].op = "put0" /\ Program[n + 13].in = {"STOP"}
          BY <2>1, Puts, FlagSets
        <4> QED
          BY <4>1, <4>2
      <3>2. \A i \in {n + 11, n + 13} : i \in 1..Last(call) /\ i > 1 /\ i # 1 /\ i \in Quiet(call)
        BY <2>2, <1>1
      <3> QED
        BY <3>1, <3>2, <1>4 DEF Settled, DropsGo
    <2>6. Settled(call, n + 12)
      <3>1. Typed(Program[n + 12]) /\ Program[n + 12].op \notin {"put0", "fetch"}
            /\ "GO" \notin Program[n + 12].in
        BY <2>1, PlainAccesses DEF Plain
      <3>2. n + 12 \in 1..Last(call) /\ n + 12 > 1 /\ n + 12 \in Quiet(call)
        BY <2>2, <1>1
      <3> QED
        BY <3>1, <3>2, <1>4 DEF Settled
    <2>7. Settled(call, n + 19)
      <3>1. Typed(Program[n + 19]) /\ Program[n + 19].op = "put0" /\ Program[n + 19].in = {"GO"}
        BY <2>1, Puts, FlagSets
      <3>2. n + 19 \in 1..Last(call) /\ n + 19 # 1 /\ n + 19 < Last(call) /\ (n + 19) + 1 = n + 20
            /\ (n + 19) + 1 \notin Quiet(call)
        BY <2>2, <1>1, <1>7
      <3>3. SetsGo(call, n + 19)
        BY <2>1, <3>1, <3>2 DEF SetsGo
      <3> QED
        BY <3>1, <3>2, <3>3, <1>4 DEF Settled
    <2>8. \A i \in (n + 10)..(n + 20) : Settled(call, i)
      <3>1. \A i \in (n + 10)..(n + 20) : \/ i = n + 10 \/ i \in {n + 11, n + 13} \/ i = n + 12
              \/ i \in {n + 14, n + 15, n + 16, n + 17, n + 18, n + 20} \/ i = n + 19
        BY <1>1
      <3> QED
        BY <3>1, <2>3, <2>4, <2>5, <2>6, <2>7
    <2>9. \A i \in (n + 21)..(call.len + 20) : Settled(call, i)
      <3>1. \A i \in (n + 21)..(call.len + 20) : Typed(Program[i]) /\ Program[i].op = "fetch"
        BY <2>1, PlainAccesses
      <3>2. \A i \in (n + 21)..(call.len + 20) : i \in 1..Last(call) /\ i + 1 \notin Quiet(call)
                                 /\ Fetched(call, i + 1) = Fetched(call, i) + 1
        BY <1>1, <1>2, <1>3, <1>7
      <3> QED
        BY <3>1, <3>2, <1>4 DEF Settled
    <2> QED
      BY <2>8, <2>9
  <1> HIDE DEF n
  <1>8. \A i \in 1..Last(call) :
           \/ i \in 1..9 \/ i \in 10..(n + 9)
           \/ Long(call) /\ (i \in (n + 10)..(n + 20) \/ i \in (n + 21)..(call.len + 20))
    BY <1>1
  <1> QED
    BY <1>5, <1>6, <1>7, <1>8

\* The same for a write.
LEMMA WriteSettled ==
    ASSUME call \in Calls, call.dir = "write"
    PROVE  \A i \in 1..Last(call) : Settled(call, i)
  <1> DEFINE n == FirstLen(call)
  <1>1. n \in Nat \ {0} /\ call.len \in Nat /\ (Long(call) => n + 1 <= call.len) /\ n <= call.len
        /\ Last(call) = IF Long(call) THEN call.len + 23 ELSE n + 13
    <2>1. n \in 1..255 /\ call.len \in Nat /\ n <= call.len
          /\ (Long(call) => call.len - n \in 1..255)
      BY Numbers
    <2>2. Last(call) = IF Long(call) THEN call.len + 23 ELSE n + 13
      BY DEF Last
    <2> HIDE DEF n
    <2> QED
      BY <2>1, <2>2
  <1>2. \A p \in Nat : p \in Quiet(call) <=> p = 5 \/ (Long(call) /\ p = n + 16)
    BY <1>1 DEF Quiet
  <1>3. \A p \in 1..Last(call) : /\ Fetched(call, p) <= Fetched(call, p + 1)
                                 /\ Fetched(call, p + 1) <= call.len
    BY <1>1 DEF Fetched
  <1>4. \A i \in 1..10 : Settled(call, i)
    <2>1. FirstStop(call) \in SUBSET Flags /\ "GO" \notin FirstStop(call)
      BY FlagSets DEF FirstStop
    <2>2. /\ Program[1] = Set0(Reset({})) /\ Program[2] = Put1("set1", 0, 0)
          /\ Program[3] = Put1("set1", 0, 0) /\ Program[4] = Access("addr")
          /\ Program[5] = Put0({}, FirstStop(call))
          /\ Program[6] = Get1 /\ Program[7] = Put1("one1", 0, 0) /\ Program[8] = Get1
          /\ Program[9] = Put1("or1", 0, n) /\ Program[10] = Access("chip")
      BY WriteProgram
    <2>3. \A i \in 1..10 : i \in 1..Last(call) /\ i \in Nat /\ (i + 1 \in Quiet(call) <=> i = 4)
      <3> HIDE DEF n
      <3> QED
        BY <1>1, <1>2
    <2>4. \A i \in {2, 3, 6, 7, 8, 9, 10} : Settled(call, i)
      <3>1. Plain(Program[2]) /\ Plain(Program[3]) /\ Plain(Program[6]) /\ Plain(Program[7])
            /\ Plain(Program[8]) /\ Plain(Program[9]) /\ Plain(Program[10])
        BY <1>1, <2>2, PlainAccesses
      <3>2. \A i \in {2, 3, 6, 7, 8, 9, 10} : i \in 1..10 /\ i # 4 /\ Plain(Program[i])
        BY <3>1
      <3> QED
        BY <1>3, <2>3, <3>2, PlainSettled
    <2>5. Settled(call, 1)
      <3>1. Typed(Program[1]) /\ Program[1].op = "put0" /\ Resets(Program[1])
        BY <2>2, Puts
      <3>2. 1 \in 1..10 /\ 1 # 4
        OBVIOUS
      <3> QED
        BY <1>3, <2>3, <3>1, <3>2 DEF Settled
    <2>6. Settled(call, 4)
      <3>1. Typed(Program[4]) /\ Program[4].op = "addr"
        BY <2>2, PlainAccesses DEF Plain
      <3>2. 4 \in 1..10 /\ 4 > 1
        OBVIOUS
      <3> QED
        BY <1>3, <2>3, <3>1, <3>2 DEF Settled
    <2>7. Settled(call, 5)
      <3>1. Typed(Program[5]) /\ Program[5].op = "put0" /\ "GO" \notin Program[5].in
        BY <2>1, <2>2, Puts
      <3>2. 5 \in 1..10 /\ 5 # 4 /\ 5 # 1 /\ 5 \in Quiet(call)
        BY <1>2
      <3> QED
        BY <1>3, <2>3, <3>1, <3>2 DEF Settled, DropsGo
    <2> QED
      BY <2>4, <2>5, <2>6, <2>7
  <1>5. \A i \in 11..(n + 10) : Settled(call, i)
    <2>1. \A i \in 11..(n + 10) : Plain(Program[i])
      BY WriteProgram, PlainAccesses
    <2>2. \A i \in 11..(n + 10) : i \in 1..Last(call) /\ i + 1 \notin Quiet(call)
      <3> HIDE DEF n
      <3> QED
        BY <1>1, <1>2
    <2> QED
      BY <1>3, <2>1, <2>2, PlainSettled
  <1>6. \A i \in (n + 11)..(n + 13) : Settled(call, i)
    <2>1. Program[n + 11] = Get0 /\ Program[n + 12] = Put0({}, {"GO"}) /\ Program[n + 13] = WaitClear("GO")
      BY WriteProgram
    <2> HIDE DEF n
    <2>2. \A i \in (n + 11)..(n + 13) : i \in 1..Last(call) /\ i # 1 /\ i + 1 \notin Quiet(call)
      BY <1>1, <1>2
    <2>3. Settled(call, n + 11) /\ Settled(call, n + 13)
      <3>1. Plain(Program[n + 11]) /\ Plain(Program[n + 13])
        BY <2>1, PlainAccesses
      <3>2. n + 11 \in (n + 11)..(n + 13) /\ n + 13 \in (n + 11)..(n + 13)
        BY <1>1
      <3> QED
        BY <1>3, <2>2, <3>1, <3>2, PlainSettled
    <2>4. Settled(call, n + 12)
      <3>1. Typed(Program[n + 12]) /\ Program[n + 12].op = "put0" /\ Program[n + 12].in = {"GO"}
        BY <2>1, Puts, FlagSets
      <3>2. n + 12 \in 1..Last(call) /\ n + 12 # 1 /\ n + 12 < Last(call) /\ (n + 12) + 1 = n + 13
            /\ (n + 12) + 1 \notin Quiet(call)
        BY <1>1, <2>2
      <3>3. SetsGo(call, n + 12)
        BY <2>1, <3>1, <3>2 DEF SetsGo
      <3> QED
        BY <1>3, <3>1, <3>2, <3>3 DEF Settled
    <2>5. \A i \in (n + 11)..(n + 13) : i = n + 11 \/ i = n + 12 \/ i = n + 13
      BY <1>1
    <2> QED
      BY <2>3, <2>4, <2>5
  <1>7. ASSUME Long(call)
        PROVE  /\ \A i \in (n + 14)..(n + 20) : Settled(call, i)
               /\ \A i \in (n + 21)..(call.len + 20) : Settled(call, i)
               /\ \A i \in (call.len + 21)..(call.len + 23) : Settled(call, i)
    <2>1. /\ Program[n + 14] = Put0(Flags \ LowByte, Status) /\ Program[n + 15] = Get0
          /\ Program[n + 16] = Put0({}, {"STOP"}) /\ Program[n + 17] = Get1
          /\ Program[n + 18] = Put1("drop1", 0, 0) /\ Program[n + 19] = Access("wait1")
          /\ Program[n + 20] = Put1("or1", 0, call.len - n)
          /\ \A i \in (n + 21)..(call.len + 20) : Program[i] = Access("send")
          /\ Program[call.len + 21] = Get0 /\ Program[call.len + 22] = Put0({}, {"GO"})
          /\ Program[call.len + 23] = WaitClear("GO")
      BY <1>7, WriteProgram
    <2> HIDE DEF n
    <2>2. \A i \in (n + 14)..(call.len + 23) :
             /\ i \in 1..Last(call) /\ i # 1
             /\ (i \in Quiet(call) <=> i = n + 16) /\ (i + 1 \in Quiet(call) <=> i = n + 15)
      BY <1>1, <1>2, <1>7
    <2>3. \A i \in {n + 17, n + 18, n + 19, n + 20, call.len + 21, call.len + 23} : Settled(call, i)
      <3>1. call.len - n \in Nat
        BY <1>1, <1>7
      <3>2. \A i \in {n + 17, n + 18, n + 19, n + 20, call.len + 21, call.len + 23} : Plain(Program[i])
        BY <2>1, <3>1, PlainAccesses
      <3>3. \A i \in {n + 17, n + 18, n + 19, n + 20, call.len + 21, call.len + 23} :
               i \in (n + 14)..(call.len + 23) /\ i # n + 15
        BY <1>1, <1>7
      <3> QED
        BY <1>3, <2>2, <3>2, <3>3, PlainSettled
    <2>4. Settled(call, n + 14)
      <3>1. Typed(Program[n + 14]) /\ Program[n + 14].op = "put0" /\ Program[n + 14].in = Status
            /\ Program[n + 14].out = Flags \ LowByte
        BY <2>1, Puts, FlagSets
      <3>2. "GO" \in Flags \ LowByte /\ "GO" \notin Status
        BY FlagSets
      <3>3. n + 14 \in (n + 14)..(call.len + 23) /\ n + 14 # n + 15
        BY <1>1, <1>7
      <3> QED
        BY <1>3, <2>2, <3>1, <3>2, <3>3 DEF Settled, DropsGo
    <2>5. Settled(call, n + 15)
      <3>1. Typed(Program[n + 15]) /\ Program[n + 15].op = "get0"
        BY <2>1, PlainAccesses DEF Plain
      <3>2. n + 15 \in (n + 14)..(call.len + 23) /\ n + 15 > 1
        BY <1>1, <1>7
      <3> QED
        BY <1>3, <2>2, <3>1, <3>2 DEF Settled
    <2>6. Settled(call, n + 16)
      <3>1. Typed(Program[n + 16]) /\ Program[n + 16].op = "put0" /\ Program[n + 16].in = {"STOP"}
        BY <2>1, Puts, FlagSets
      <3>2. n + 16 \in (n + 14)..(call.len + 23) /\ n + 16 # n + 15
        BY <1>1, <1>7
      <3> QED
        BY <1>3, <2>2, <3>1, <3>2 DEF Settled, DropsGo
    <2>7. Settled(call, call.len + 22)
      <3>1. Typed(Program[call.len + 22]) /\ Program[call.len + 22].op = "put0"
            /\ Program[call.len + 22].in = {"GO"}
        BY <2>1, Puts, FlagSets
      <3>2. /\ call.len + 22 \in (n + 14)..(call.len + 23) /\ call.len + 22 # n + 15
            /\ call.len + 22 < Last(call) /\ (call.len + 22) + 1 = call.len + 23
        BY <1>1, <1>7
      <3>3. SetsGo(call, call.len + 22)
        BY <2>1, <3>1, <3>2 DEF SetsGo
      <3> QED
        BY <1>3, <2>2, <3>1, <3>2, <3>3 DEF Settled
    <2>8. \A i \in (n + 21)..(call.len + 20) : Settled(call, i)
      <3>1. \A i \in (n + 21)..(call.len + 20) : Plain(Program[i])
        BY <2>1, PlainAccesses
      <3>2. \A i \in (n + 21)..(call.len + 20) : i \in (n + 14)..(call.len + 23) /\ i # n + 15
        BY <1>1
      <3> QED
        BY <1>3, <2>2, <3>1, <3>2, PlainSettled
    <2>9. \A i \in (n + 14)..(n + 20) : \/ i = n + 14 \/ i = n + 15 \/ i = n + 16
            \/ i \in {n + 17, n + 18, n + 19, n + 20, call.len + 21, call.len + 23}
      BY <1>1
    <2>10. \A i \in (call.len + 21)..(call.len + 23) : \/ i = call.len + 22
            \/ i \in {n + 17, n + 18, n + 19, n + 20, call.len + 21, call.len + 23}
      BY <1>1
    <2> QED
      BY <2>3, <2>4, <2>5, <2>6, <2>7, <2>8, <2>9, <2>10
  <1> HIDE DEF n
  <1>8. \A i \in 1..Last(call) :
           \/ i \in 1..10 \/ i \in 11..(n + 10) \/ i \in (n + 11)..(n + 13)
           \/ /\ Long(call)
              /\ \/ i \in (n + 14)..(n + 20) \/ i \in (n + 21)..(call.len + 20)
                 \/ i \in (call.len + 21)..(call.len + 23)
    BY <1>1
  <1> QED
    BY <1>4, <1>5, <1>6, <1>7, <1>8

\* The invariant: types; what a read has stored; and, as long as reads bring
\* their own answers, the controller works only in a wait for it, and is not told
\* to while it does.
Counts == [n : {0, 1}, count : Nat]

RegistersTyped == cntl0 \in SUBSET (Flags \ {"SOFT_RST"}) /\ cntl1 \in Counts

LocalsTyped ==
    /\ call \in Calls /\ pc \in 0..Last(call)
    /\ ctrl0 \in SUBSET Flags /\ ctrl1 \in Counts /\ addr \in SUBSET LowByte
    /\ polls \in 0..(Loops - 1) /\ ret \in {0, -1} /\ stale \in BOOLEAN

WaitsForGo ==
    /\ begun => Busy
    /\ pc > 1 /\ Busy => Now = WaitClear("GO")
    /\ pc \in Quiet(call) => "GO" \notin ctrl0

Stored ==
    /\ \E S : out \in Seq(S)
    /\ Len(out) <= IF Running THEN Fetched(call, pc) ELSE call.len

TInv == RegistersTyped /\ LocalsTyped /\ Stored /\ (~stale => WaitsForGo)

\* The same for the running call.
LEMMA AllSettled ==
    ASSUME call \in Calls
    PROVE  /\ Len(Program) = Last(call) /\ Last(call) \in Nat \ {0} /\ call.len \in Nat
           /\ \A p \in 1..Last(call) : Settled(call, p)
  <1>1. call.dir \in {"read", "write"} /\ call.len \in Nat
    BY Numbers
  <1>2. Last(call) \in Nat \ {0}
    BY Numbers DEF Last
  <1>3. Len(Program) = Last(call)
    BY <1>1, ReadProgram, WriteProgram
  <1>4. \A p \in 1..Last(call) : Settled(call, p)
    BY <1>1, ReadSettled, WriteSettled
  <1> QED
    BY <1>1, <1>2, <1>3, <1>4

\* The first access writes CNTL_0, and neither it nor the return is quiet.
LEMMA Edges ==
    ASSUME NEW cl \in Calls
    PROVE  /\ 0 \notin Quiet(cl) /\ 1 \notin Quiet(cl) /\ Fetched(cl, 1) = 0
           /\ \A p \in Nat : Fetched(cl, p) \in Nat
           /\ call = cl => Program[1].op = "put0"
  <1>1. FirstLen(cl) \in Nat \ {0}
    BY Numbers
  <1>2. 0 \notin Quiet(cl) /\ 1 \notin Quiet(cl)
    BY <1>1 DEF Quiet
  <1>3. Fetched(cl, 1) = 0 /\ \A p \in Nat : Fetched(cl, p) \in Nat
    BY <1>1 DEF Fetched
  <1>4. ASSUME call = cl
        PROVE  Program[1].op = "put0"
    <2>1. CASE cl.dir = "read"
      <3>1. Program[1] = Set0(Reset({"RECEIVE"}))
        BY <1>4, <2>1, ReadProgram
      <3> QED
        BY <3>1, Puts
    <2>2. CASE cl.dir = "write"
      <3>1. Program[1] = Set0(Reset({}))
        BY <1>4, <2>2, WriteProgram
      <3> QED
        BY <3>1, Puts
    <2> QED
      BY <2>1, <2>2, Numbers
  <1> QED
    BY <1>2, <1>3, <1>4

\* What is ORed into CNTL_1 is a number.
LEMMA OrNat == \A a, b \in Nat : Or(a, b) \in Nat
  BY DEF Or, OrBit

\* The access that is made, and where control goes from it.
LEMMA Made ==
    ASSUME TInv, Running
    PROVE  /\ pc \in 1..Last(call) /\ call \in Calls /\ call.len \in Nat /\ Len(Program) = Last(call)
           /\ Typed(Now) /\ Settled(call, pc) /\ Now = Program[pc]
           /\ Fetched(call, pc) <= Fetched(call, pc + 1) /\ Fetched(call, pc + 1) <= call.len
           /\ Fetched(call, pc) \in Nat /\ Fetched(call, pc + 1) \in Nat
  <1>1. call \in Calls /\ pc \in 0..Last(call) /\ pc # 0
    BY DEF TInv, LocalsTyped, Running
  <1>2. pc \in 1..Last(call)
    BY <1>1, AllSettled
  <1>3. Settled(call, pc)
    BY <1>1, <1>2, AllSettled
  <1>4. pc \in Nat /\ pc + 1 \in Nat
    BY <1>1, AllSettled
  <1>5. Fetched(call, pc) \in Nat /\ Fetched(call, pc + 1) \in Nat
    BY <1>1, <1>4, Edges
  <1> QED
    BY <1>1, <1>2, <1>3, <1>5, AllSettled DEF Settled, Now

\* An access that goes on,
LEMMA GoesOn ==
    ASSUME TInv, Running, Advance
    PROVE  /\ call' = call /\ Program' = Program /\ pc' \in 0..Last(call) /\ stale' = stale
           /\ polls' \in 0..(Loops - 1) /\ ret' \in {0, -1}
           /\ pc' = 0 \/ pc' = pc + 1
           /\ pc' # 0 => Now' = Program[pc + 1]
  <1>1. pc \in 1..Last(call) /\ Len(Program) = Last(call) /\ Last(call) \in Nat
    BY Made, AllSettled
  <1>2. call' = call /\ polls' = 0 /\ stale' = stale
    BY DEF Advance
  <1>3. \/ pc < Last(call) /\ pc' = pc + 1 /\ ret' = ret
        \/ pc' = 0 /\ ret' = 0
    BY <1>1 DEF Advance
  <1>4. Program' = Program
    BY <1>2 DEF Program
  <1>5. 0 \in 0..(Loops - 1) /\ ret \in {0, -1}
    BY ChunkAssumption DEF TInv, LocalsTyped
  <1>6. pc' \in 0..Last(call)
    BY <1>1, <1>3
  <1>7. pc' # 0 => Now' = Program[pc + 1]
    BY <1>3, <1>4 DEF Now
  <1> QED
    BY <1>2, <1>3, <1>4, <1>5, <1>6, <1>7

\* and one that fails or a wait that gives up.
LEMMA StopsHere ==
    ASSUME TInv, Running, GiveUp, MayLeaveAnswer
    PROVE  /\ LocalsTyped' /\ Stored'
           /\ (begun' => Busy') => WaitsForGo'
           /\ stale => stale'
  <1>1. /\ call' = call /\ pc' = 0 /\ polls' = 0 /\ ret' = -1
        /\ ctrl0' = ctrl0 /\ ctrl1' = ctrl1 /\ addr' = addr /\ out' = out
        /\ stale' \in BOOLEAN /\ (stale => stale')
    BY DEF GiveUp, MayLeaveAnswer, TInv, LocalsTyped
  <1>2. call \in Calls /\ Last(call) \in Nat /\ 0 \in 0..(Loops - 1)
    BY AllSettled, ChunkAssumption DEF TInv, LocalsTyped
  <1>3. LocalsTyped'
    <2>1. 0 \in 0..Last(call)
      BY <1>2
    <2> QED
      BY <1>1, <1>2, <2>1 DEF TInv, LocalsTyped
  <1>4. (begun' => Busy') => WaitsForGo'
    <2>1. 0 \notin Quiet(call)
      BY <1>2, Edges
    <2> QED
      BY <1>1, <2>1 DEF WaitsForGo
  <1>5. Stored'
    <2>1. Len(out) <= call.len
      <3>1. Len(out) \in Nat /\ Len(out) <= Fetched(call, pc)
        BY DEF TInv, Stored
      <3>2. Fetched(call, pc) \in Nat /\ Fetched(call, pc + 1) \in Nat
        BY Made
      <3> QED
        BY <3>1, <3>2, Made
    <2> QED
      BY <1>1, <2>1 DEF TInv, Stored, Running
  <1> QED
    BY <1>1, <1>3, <1>4, <1>5

\* Nothing is stored by an access that goes on.
LEMMA StoredStays ==
    ASSUME TInv, Running, Advance, out' = out
    PROVE  Stored'
  <1>1. call' = call /\ (pc' = 0 \/ pc' = pc + 1)
    BY GoesOn
  <1>2. Len(out) \in Nat /\ Len(out) <= Fetched(call, pc)
    BY DEF TInv, Stored
  <1>3. Fetched(call, pc) \in Nat /\ Fetched(call, pc + 1) \in Nat
    BY Made
  <1>4. Len(out) <= Fetched(call, pc + 1) /\ Len(out) <= call.len
    BY <1>2, <1>3, Made
  <1> QED
    BY <1>1, <1>4 DEF TInv, Stored, Running

\* An access other than a write to CNTL_0 and the wait for GO finds the
\* controller at rest, and leaves ctrl without GO where it must.
LEMMA AtRest ==
    ASSUME TInv, ~stale, Running, Now.op # "wait", pc > 1
    PROVE  ~Busy /\ ~begun
  <1>1. Now # WaitClear("GO")
    BY Fields
  <1> QED
    BY <1>1 DEF TInv, WaitsForGo

\* and such an access leaves it so.
LEMMA QuietStays ==
    ASSUME TInv, ~stale, Running, Advance, UNCHANGED <<cntl0, begun, ctrl0>>,
           Now.op \notin {"put0", "get0", "addr"},
           Now.op = "wait" => Now.in \cap cntl0 = {}
    PROVE  WaitsForGo'
  <1>1. pc \in 1..Last(call) /\ Settled(call, pc) /\ Now = Program[pc] /\ pc \in Nat
    BY Made
  <1>2. call' = call /\ (pc' = 0 \/ pc' = pc + 1) /\ pc' \in Nat
    BY GoesOn
  <1>3. pc' \in Quiet(call') => "GO" \notin ctrl0'
    <2>1. 0 \notin Quiet(call)
      BY Made, Edges
    <2>2. pc + 1 \in Quiet(call) => pc \in Quiet(call)
      BY <1>1 DEF Settled
    <2> QED
      BY <1>2, <2>1, <2>2 DEF TInv, WaitsForGo
  <1>4. pc' > 1 => ~Busy'
    <2>1. CASE pc = 1
      <3>1. Now.op = "put0"
        BY <2>1, <1>1, Made, Edges
      <3> QED
        BY <3>1
    <2>2. CASE pc > 1
      <3>1. Now.op = "wait" /\ Busy => FALSE
        <4>1. Busy => Now = WaitClear("GO")
          BY <2>2 DEF TInv, WaitsForGo
        <4> QED
          BY <4>1, Fields DEF Busy
      <3>2. ~Busy
        BY <2>2, <3>1, AtRest
      <3> QED
        BY <3>2 DEF Busy
    <2> QED
      BY <1>1, <2>1, <2>2
  <1>5. begun' => Busy'
    BY DEF TInv, WaitsForGo, Busy
  <1> QED
    BY <1>3, <1>4, <1>5 DEF WaitsForGo

\* A value written to CNTL_0.
LEMMA Written ==
    ASSUME NEW value \in SUBSET Flags, cntl0 \in SUBSET (Flags \ {"SOFT_RST"}), Controller0(value)
    PROVE  /\ cntl0' \in SUBSET (Flags \ {"SOFT_RST"}) /\ cntl1' = cntl1
           /\ Busy' <=> "GO" \in value
           /\ begun' => begun /\ "SOFT_RST" \notin value
  <1>1. "GO" \in Flags /\ "GO" \notin LowByte /\ "GO" \notin Status
        /\ "SOFT_RST" \in LowByte /\ "SOFT_RST" \notin Status /\ Status \subseteq Flags
    BY FlagSets
  <1>2. cntl0' = ((IF "SOFT_RST" \in value THEN {} ELSE cntl0 \cap Status) \ value)
                    \cup (value \ LowByte)
    BY DEF Controller0
  <1>3. cntl0' \in SUBSET (Flags \ {"SOFT_RST"}) /\ ("GO" \in cntl0' <=> "GO" \in value)
    BY <1>1, <1>2
  <1> QED
    BY <1>3 DEF Controller0, Busy

\* The value of an access that writes it, and what is left of it.
LEMMA WritesControl ==
    ASSUME TInv, Running, Now.op = "put0", NEW value, value = (ctrl0 \ Now.out) \cup Now.in,
           Controller0(value)
    PROVE  /\ value \in SUBSET Flags /\ RegistersTyped'
           /\ ~stale => ~begun'
  <1>1. Typed(Now) /\ ctrl0 \in SUBSET Flags
    BY Made DEF TInv, LocalsTyped
  <1>2. value \in SUBSET Flags
    BY <1>1 DEF Typed
  <1>3. /\ cntl0' \in SUBSET (Flags \ {"SOFT_RST"}) /\ cntl1' = cntl1
        /\ begun' => begun /\ "SOFT_RST" \notin value
    BY <1>2, Written DEF TInv, RegistersTyped
  <1>4. ASSUME ~stale
        PROVE  ~begun'
    <2>1. CASE pc = 1
      <3>1. Resets(Now)
        BY <2>1, Made DEF Settled
      <3> QED
        BY <1>3, <3>1 DEF Resets
    <2>2. CASE pc > 1
      BY <1>3, <1>4, <2>2, AtRest
    <2> QED
      BY <2>1, <2>2, Made
  <1> QED
    BY <1>2, <1>3, <1>4 DEF TInv, RegistersTyped

\* The actions of the driver.
LEMMA WriteZero ==
    ASSUME TInv, Write0
    PROVE  TInv'
  <1>1. Running /\ Now.op = "put0" /\ ctrl0' = (ctrl0 \ Now.out) \cup Now.in /\ Controller0(ctrl0')
        /\ ctrl1' = ctrl1 /\ addr' = addr /\ out' = out /\ Advance
    BY DEF Write0
  <1>2. ctrl0' \in SUBSET Flags /\ RegistersTyped' /\ (~stale => ~begun')
    BY <1>1, WritesControl
  <1>3. Stored'
    BY <1>1, StoredStays
  <1>4. LocalsTyped'
    BY <1>1, <1>2, GoesOn DEF TInv, LocalsTyped
  <1>5. ASSUME ~stale
        PROVE  WaitsForGo'
    <2>1. /\ pc \in 1..Last(call) /\ Settled(call, pc) /\ Now = Program[pc] /\ pc \in Nat
          /\ call \in Calls
      BY Made, <1>1
    <2>2. /\ call' = call /\ (pc' = 0 \/ pc' = pc + 1) /\ Program' = Program
          /\ pc' # 0 => Now' = Program[pc + 1]
      BY <1>1, GoesOn
    <2>3. Busy' <=> "GO" \in ctrl0'
      BY <1>1, <1>2, Written DEF TInv, RegistersTyped
    <2>4. CASE pc = 1
      <3>1. "GO" \notin ctrl0'
        BY <1>1, <2>1, <2>4 DEF Settled, Resets
      <3> QED
        BY <1>2, <1>5, <2>3, <3>1 DEF WaitsForGo
    <2>5. CASE pc > 1 /\ SetsGo(call, pc)
      <3>1. pc' # 0 => Now' = WaitClear("GO")
        BY <2>2, <2>5 DEF SetsGo
      <3>2. pc' \notin Quiet(call)
        <4>1. pc + 1 \in Quiet(call) => FALSE
          BY <1>1, <2>1, <2>5 DEF Settled, SetsGo
        <4> QED
          BY <2>1, <2>2, <4>1, Edges
      <3> QED
        BY <1>2, <1>5, <2>2, <3>1, <3>2 DEF WaitsForGo
    <2>6. CASE pc > 1 /\ DropsGo(call, pc)
      <3>1. "GO" \notin ctrl0'
        BY <1>1, <1>5, <2>1, <2>6 DEF DropsGo, TInv, WaitsForGo
      <3> QED
        BY <1>2, <1>5, <2>3, <3>1 DEF WaitsForGo
    <2> QED
      BY <1>1, <2>1, <2>4, <2>5, <2>6 DEF Settled
  <1> QED
    BY <1>1, <1>2, <1>3, <1>4, <1>5, GoesOn DEF TInv

\* What a read may bring.
LEMMA SeenTyped ==
    ASSUME TInv
    PROVE  Seen0 \subseteq SUBSET Flags /\ Seen1 \subseteq Counts
  <1>1. Foreign0 \subseteq SUBSET Flags /\ Foreign1 \subseteq Counts
    BY ForeignAssumption DEF Counts
  <1> QED
    BY <1>1 DEF TInv, RegistersTyped, Seen0, Seen1

LEMMA ReadZero ==
    ASSUME TInv, Read0
    PROVE  TInv'
  <1>1. /\ Running /\ Now.op \in {"get0", "addr"} /\ ctrl0' \in Seen0
        /\ addr' = (IF Now.op = "addr" THEN ctrl0' \cap LowByte ELSE addr)
        /\ UNCHANGED controller /\ ctrl1' = ctrl1 /\ out' = out /\ Advance
    BY DEF Read0
  <1>2. UNCHANGED <<cntl0, cntl1, fifo, begun, wire, nacked>>
    BY <1>1 DEF controller
  <1>3. RegistersTyped'
    BY <1>2 DEF TInv, RegistersTyped
  <1>4. LocalsTyped'
    <2>1. ctrl0' \in SUBSET Flags
      BY <1>1, SeenTyped
    <2> QED
      BY <1>1, <2>1, GoesOn DEF TInv, LocalsTyped
  <1>5. ASSUME ~stale
        PROVE  WaitsForGo'
    <2>1. pc > 1
      <3>1. pc \in 1..Last(call) /\ call \in Calls /\ Now = Program[pc] /\ pc \in Nat
        BY <1>1, Made
      <3>2. pc # 1
        BY <1>1, <3>1, Edges
      <3> QED
        BY <3>1, <3>2
    <2>2. ~Busy /\ ~begun
      BY <1>1, <1>5, <2>1, AtRest
    <2>3. ctrl0' = cntl0
      BY <1>1, <1>5 DEF Seen0
    <2> QED
      BY <1>2, <2>2, <2>3 DEF WaitsForGo, Busy
  <1> QED
    BY <1>1, <1>3, <1>4, <1>5, GoesOn, StoredStays DEF TInv

\* A value written to CNTL_1.
LEMMA CountsTyped ==
    ASSUME TInv, Running, Now.op \in {"set1", "one1", "drop1", "or1"}
    PROVE  Value1 \in Counts
  <1>1. Now.n \in {0, 1} /\ Now.count \in Nat /\ ctrl1 \in Counts
    BY Made DEF Typed, TInv, LocalsTyped
  <1>2. Or(ctrl1.count, Now.count) \in Nat
    BY <1>1, OrNat DEF Counts
  <1>3. CASE Now.op = "set1"
    BY <1>1, <1>3 DEF Value1, Counts
  <1>4. CASE Now.op = "one1"
    BY <1>1, <1>4 DEF Value1, Counts
  <1>5. CASE Now.op = "drop1"
    BY <1>1, <1>5 DEF Value1, Counts
  <1>6. CASE Now.op = "or1"
    <2>1. Value1 = [ctrl1 EXCEPT !.count = Or(@, Now.count)]
      BY <1>6 DEF Value1
    <2> HIDE DEF Value1
    <2> QED
      BY <1>1, <1>2, <2>1 DEF Counts
  <1> QED
    BY <1>3, <1>4, <1>5, <1>6

LEMMA WriteOne ==
    ASSUME TInv, Write1
    PROVE  TInv'
  <1>1. /\ Running /\ Now.op \in {"set1", "one1", "drop1", "or1"}
        /\ ctrl1' = Value1 /\ cntl1' = ctrl1'
        /\ UNCHANGED <<cntl0, fifo, begun, wire, nacked, ctrl0, addr, out>> /\ Advance
    BY DEF Write1
  <1>2. ctrl1' \in Counts /\ cntl1' \in Counts
    BY <1>1, CountsTyped
  <1>3. RegistersTyped'
    BY <1>1, <1>2 DEF TInv, RegistersTyped
  <1>4. LocalsTyped'
    BY <1>1, <1>2, GoesOn DEF TInv, LocalsTyped
  <1>5. ASSUME ~stale
        PROVE  WaitsForGo'
    BY <1>1, <1>5, QuietStays
  <1> QED
    BY <1>1, GoesOn, <1>3, <1>4, <1>5, StoredStays DEF TInv

LEMMA ReadOne ==
    ASSUME TInv, Read1
    PROVE  TInv'
  <1>1. /\ Running /\ Now.op = "get1" /\ ctrl1' \in Seen1
        /\ UNCHANGED <<cntl0, cntl1, fifo, begun, wire, nacked, ctrl0, addr, out>> /\ Advance
    BY DEF Read1, controller
  <1>2. RegistersTyped'
    BY <1>1 DEF TInv, RegistersTyped
  <1>3. LocalsTyped'
    BY <1>1, GoesOn, SeenTyped DEF TInv, LocalsTyped
  <1>4. ASSUME ~stale
        PROVE  WaitsForGo'
    BY <1>1, <1>4, QuietStays
  <1> QED
    BY <1>1, GoesOn, <1>2, <1>3, <1>4, StoredStays DEF TInv

LEMMA DataWritten ==
    ASSUME TInv, WriteData
    PROVE  TInv'
  <1>1. /\ Running /\ Now.op \in {"chip", "send"}
        /\ UNCHANGED <<cntl0, cntl1, begun, ctrl0, ctrl1, addr, out>> /\ Advance
    BY DEF WriteData
  <1>2. RegistersTyped'
    BY <1>1 DEF TInv, RegistersTyped
  <1>3. LocalsTyped'
    BY <1>1, GoesOn DEF TInv, LocalsTyped
  <1>4. ASSUME ~stale
        PROVE  WaitsForGo'
    BY <1>1, <1>4, QuietStays
  <1> QED
    BY <1>1, GoesOn, <1>2, <1>3, <1>4, StoredStays DEF TInv

\* A byte is stored.
LEMMA OneMore ==
    ASSUME NEW S, NEW s \in Seq(S), NEW x
    PROVE  Append(s, x) \in Seq(S \cup {x}) /\ Len(Append(s, x)) = Len(s) + 1
  <1>1. s \in Seq(S \cup {x})
    OBVIOUS
  <1> QED
    BY <1>1

LEMMA DataRead ==
    ASSUME TInv, ReadData
    PROVE  TInv'
  <1>1. /\ Running /\ Now.op = "fetch"
        /\ UNCHANGED <<cntl0, cntl1, begun, ctrl0, ctrl1, addr>> /\ Advance
    BY DEF ReadData
  <1>2. RegistersTyped'
    BY <1>1 DEF TInv, RegistersTyped
  <1>3. LocalsTyped'
    BY <1>1, GoesOn DEF TInv, LocalsTyped
  <1>4. ASSUME ~stale
        PROVE  WaitsForGo'
    BY <1>1, <1>4, QuietStays
  <1>5. Stored'
    <2>1. PICK S : out \in Seq(S)
      BY DEF TInv, Stored
    <2>2. PICK x : out' = Append(out, x)
      BY DEF ReadData
    <2>3. out' \in Seq(S \cup {x}) /\ Len(out') = Len(out) + 1 /\ Len(out) \in Nat
      BY <2>1, <2>2, OneMore
    <2>4. Len(out) <= Fetched(call, pc)
      BY <1>1 DEF TInv, Stored
    <2>5. /\ Fetched(call, pc + 1) = Fetched(call, pc) + 1 /\ Fetched(call, pc) \in Nat
          /\ Fetched(call, pc + 1) <= call.len /\ call.len \in Nat
      BY <1>1, Made DEF Settled
    <2>6. Len(out') <= Fetched(call, pc + 1) /\ Len(out') <= call.len
      BY <2>3, <2>4, <2>5
    <2>7. call' = call /\ (pc' = 0 \/ pc' = pc + 1)
      BY <1>1, GoesOn
    <2> QED
      BY <2>3, <2>6, <2>7 DEF Stored, Running
  <1> QED
    BY <1>1, <1>2, <1>3, <1>4, <1>5, GoesOn DEF TInv

LEMMA WaitEnds ==
    ASSUME TInv, WaitOver
    PROVE  TInv'
  <1>1. /\ Running /\ Now.op \in {"wait", "wait1"}
        /\ UNCHANGED <<cntl0, cntl1, begun, ctrl0, ctrl1, addr, out>> /\ Advance
    BY DEF WaitOver, Waits, controller
  <1>2. RegistersTyped'
    BY <1>1 DEF TInv, RegistersTyped
  <1>3. LocalsTyped'
    BY <1>1, GoesOn DEF TInv, LocalsTyped
  <1>4. ASSUME ~stale
        PROVE  WaitsForGo'
    <2>1. Awaited(cntl0, cntl1)
      BY <1>4 DEF WaitOver, Seen0, Seen1
    <2>2. Now.op = "wait" => Now.in \cap cntl0 = {}
      BY <2>1 DEF Awaited
    <2> QED
      BY <1>1, <1>4, <2>2, QuietStays
  <1> QED
    BY <1>1, GoesOn, <1>2, <1>3, <1>4, StoredStays DEF TInv

\* Where the driver stays where it is.
LEMMA DriverStays ==
    ASSUME TInv, call' = call, pc' = pc, ctrl0' = ctrl0, out' = out, ctrl1' = ctrl1, addr' = addr,
           ret' = ret, polls' \in 0..(Loops - 1), stale' = stale, Busy' => Busy
    PROVE  /\ LocalsTyped' /\ Stored'
           /\ ~stale /\ (begun' => Busy') => WaitsForGo'
  <1>1. Now' = Now
    BY DEF Now, Program
  <1>2. LocalsTyped'
    BY DEF TInv, LocalsTyped
  <1>3. ~stale /\ (begun' => Busy') => WaitsForGo'
    BY <1>1 DEF TInv, WaitsForGo
  <1>4. Stored'
    BY DEF TInv, Stored, Running
  <1> QED
    BY <1>2, <1>3, <1>4

LEMMA Polls ==
    ASSUME TInv, Poll
    PROVE  TInv'
  <1>1. Running /\ UNCHANGED <<cntl0, cntl1, begun>>
    BY DEF Poll, Waits, controller
  <1>2. RegistersTyped' /\ (~stale => (begun' => Busy'))
    BY <1>1 DEF TInv, RegistersTyped, WaitsForGo, Busy
  <1>3. CASE GiveUp /\ UNCHANGED stale
    <2>1. MayLeaveAnswer
      BY <1>3 DEF MayLeaveAnswer
    <2> QED
      BY <1>1, <1>2, <1>3, <2>1, StopsHere DEF TInv
  <1>4. CASE polls + 1 < Loops /\ polls' = polls + 1
             /\ UNCHANGED <<call, pc, ctrl0, ctrl1, addr, out, ret, calls, stale>>
    <2>1. polls' \in 0..(Loops - 1)
      BY <1>4, ChunkAssumption DEF TInv, LocalsTyped
    <2>2. Busy' => Busy
      BY <1>1 DEF Busy
    <2> QED
      BY <1>2, <1>4, <2>1, <2>2, DriverStays DEF TInv
  <1> QED
    BY <1>3, <1>4 DEF Poll

LEMMA Fails ==
    ASSUME TInv, AccessFails
    PROVE  TInv'
  <1>1. Running /\ GiveUp /\ MayLeaveAnswer
    BY DEF AccessFails, MayLeaveAnswer
  <1>2. RegistersTyped' /\ (~stale => (begun' => Busy'))
    <2>1. CASE UNCHANGED controller
      BY <2>1 DEF TInv, RegistersTyped, WaitsForGo, Busy, controller
    <2>2. CASE Now.op = "put0" /\ Controller0((ctrl0 \ Now.out) \cup Now.in)
      BY <1>1, <2>2, WritesControl
    <2>3. CASE /\ Now.op \in {"set1", "one1", "drop1", "or1"}
               /\ cntl1' = Value1
               /\ UNCHANGED <<cntl0, fifo, begun, wire, nacked>>
      BY <1>1, <2>3, CountsTyped DEF TInv, RegistersTyped, WaitsForGo, Busy
    <2>4. CASE UNCHANGED <<cntl0, cntl1, begun, wire, nacked>>
      BY <2>4 DEF TInv, RegistersTyped, WaitsForGo, Busy
    <2> QED
      BY <2>1, <2>2, <2>3, <2>4 DEF AccessFails
  <1> QED
    BY <1>1, <1>2, StopsHere DEF TInv

\* A call begins, and the controller works.
LEMMA Calling ==
    ASSUME TInv, Call
    PROVE  TInv'
  <1>1. /\ call' \in Calls /\ pc' = 1 /\ ctrl0' = {} /\ ctrl1' = [n |-> 0, count |-> 0]
        /\ addr' = {} /\ polls' = 0 /\ out' = << >> /\ ret' = -1
        /\ UNCHANGED <<cntl0, cntl1, begun>>
    BY DEF Call, controller
  <1>2. stale' \in BOOLEAN /\ (stale => stale')
    <2>1. stale' = stale \/ stale' = TRUE
      BY DEF Call, MayLeaveAnswer
    <2>2. stale \in BOOLEAN
      BY DEF TInv, LocalsTyped
    <2>3. CASE stale' = stale
      BY <2>2, <2>3, Zenon
    <2>4. CASE stale' = TRUE
      BY <2>4, Zenon
    <2> QED
      BY <2>1, <2>3, <2>4, Zenon
  <1>3. PICK c \in Calls : call' = c
    BY <1>1
  <1>4. Last(c) \in Nat \ {0}
    BY Numbers DEF Last
  <1>5. LocalsTyped'
    <2>1. 1 \in 0..Last(c) /\ 0 \in 0..(Loops - 1) /\ [n |-> 0, count |-> 0] \in Counts
      BY <1>4, ChunkAssumption DEF Counts
    <2> QED
      BY <1>1, <1>3, <1>2, <2>1 DEF LocalsTyped
  <1>6. RegistersTyped'
    BY <1>1 DEF TInv, RegistersTyped
  <1>7. ~stale => WaitsForGo'
    <2>1. ctrl0' = {}
      BY <1>1
    <2> QED
      BY <1>1, <2>1 DEF TInv, WaitsForGo, Busy
  <1>8. Stored'
    <2>1. Fetched(c, 1) = 0
      BY Edges
    <2>2. << >> \in Seq({}) /\ Len(<< >>) = 0
      OBVIOUS
    <2> QED
      BY <1>1, <1>3, <2>1, <2>2 DEF Stored, Running
  <1> QED
    BY <1>5, <1>6, <1>7, <1>8, <1>2 DEF TInv

LEMMA ControllerWorks ==
    ASSUME TInv, Controller
    PROVE  TInv'
  <1>1. UNCHANGED <<call, pc, ctrl0, ctrl1, addr, polls, out, ret, stale>> /\ Busy
    BY ControllerAlone DEF driver
  <1>2. LocalsTyped' /\ Stored' /\ (~stale /\ (begun' => Busy') => WaitsForGo')
    BY <1>1, DriverStays DEF TInv, LocalsTyped
  <1>3. RegistersTyped' /\ (begun' => Busy')
    <2>1. CASE Begins
      BY <2>1 DEF Begins, TInv, RegistersTyped, Busy
    <2>2. CASE SendsByte
      <3>1. cntl1' \in Counts
        BY <2>2 DEF SendsByte, TInv, RegistersTyped, Counts
      <3> QED
        BY <2>2, <3>1 DEF SendsByte, TInv, RegistersTyped, Busy
    <2>3. CASE TakesByte
      <3>1. cntl1' \in Counts
        BY <2>3 DEF TakesByte, TInv, RegistersTyped, Counts
      <3> QED
        BY <2>3, <3>1 DEF TakesByte, TInv, RegistersTyped, Busy
    <2>4. CASE Finishes
      BY <2>4, FlagSets DEF Finishes, TInv, RegistersTyped
    <2>5. CASE Refused
      BY <2>5, FlagSets DEF Refused, TInv, RegistersTyped
    <2> QED
      BY <2>1, <2>2, <2>3, <2>4, <2>5 DEF Controller
  <1> QED
    BY <1>1, <1>2, <1>3 DEF TInv

\* The invariant holds at first, and after every step.
LEMMA TypesInit == Init => TInv
  <1> SUFFICES ASSUME Init PROVE TInv
    OBVIOUS
  <1>1. /\ call \in Calls /\ pc = 0 /\ ctrl0 = {} /\ ctrl1 = [n |-> 0, count |-> 0]
        /\ addr = {} /\ polls = 0 /\ out = << >> /\ ret = -1
        /\ cntl0 = {} /\ cntl1 = [n |-> 0, count |-> 0] /\ begun = FALSE /\ stale \in BOOLEAN
    BY DEF Init
  <1>2. Last(call) \in Nat /\ call.len \in Nat
    BY <1>1, AllSettled
  <1>3. LocalsTyped
    <2>1. 0 \in 0..Last(call) /\ 0 \in 0..(Loops - 1) /\ [n |-> 0, count |-> 0] \in Counts
      BY <1>2, ChunkAssumption DEF Counts
    <2> QED
      BY <1>1, <2>1 DEF LocalsTyped
  <1>4. RegistersTyped
    BY <1>1 DEF RegistersTyped, Counts
  <1>5. WaitsForGo
    BY <1>1 DEF WaitsForGo
  <1>6. Stored
    <2>1. << >> \in Seq({}) /\ Len(<< >>) = 0
      OBVIOUS
    <2> QED
      BY <1>1, <1>2, <2>1 DEF Stored, Running
  <1> QED
    BY <1>3, <1>4, <1>5, <1>6 DEF TInv

LEMMA TypesNext ==
    ASSUME TInv, [Next]_vars
    PROVE  TInv'
  <1>1. CASE UNCHANGED vars
    <2>1. UNCHANGED <<cntl0, cntl1, begun, call, pc, ctrl0, ctrl1, addr, polls, out, ret, stale>>
      BY <1>1 DEF vars, controller, driver
    <2>2. Busy' <=> Busy
      BY <2>1 DEF Busy
    <2>3. polls' \in 0..(Loops - 1)
      BY <2>1 DEF TInv, LocalsTyped
    <2>4. LocalsTyped' /\ Stored' /\ (~stale => WaitsForGo')
      BY <2>1, <2>2, <2>3, DriverStays DEF TInv, WaitsForGo
    <2> QED
      BY <2>1, <2>2, <2>4 DEF TInv, RegistersTyped
  <1> QED
    BY <1>1, Calling, WriteZero, ReadZero, WriteOne, ReadOne, DataWritten, DataRead, WaitEnds,
       Polls, Fails, ControllerWorks DEF Next

\* What the controller is asked for and what it holds.
Bounded(m) == cntl1.count <= m /\ Len(fifo) <= m + 1

\* A part is no longer than what the controller takes at once.
LEMMA Halves ==
    ASSUME NEW cl \in Calls, NEW m, m = IF cl.dir = "read" THEN ReadChunk ELSE WriteChunk
    PROVE  /\ m \in Nat /\ FirstLen(cl) <= m
           /\ Long(cl) => FirstLen(cl) = m /\ cl.len - m <= m /\ cl.len - m \in Nat
  <1>1. \/ cl.dir = "read" /\ cl.len \in ReadLens
        \/ cl.dir = "write" /\ cl.len \in WriteLens
    BY DEF Calls
  <1>2. cl.len \in 1..(2 * m) /\ m \in 1..255
    BY <1>1, ChunkAssumption
  <1>3. FirstLen(cl) = Min2(cl.len, m) /\ (Long(cl) <=> cl.len > m)
    BY DEF FirstLen, Long
  <1>4. m \in Nat /\ cl.len \in Nat /\ cl.len <= 2 * m
    BY <1>2
  <1> QED
    BY <1>3, <1>4 DEF Min2

\* Lengths of what the controller holds.
LEMMA LenBytes ==
    ASSUME NEW a \in Int, NEW b \in Int, NEW m \in Nat, b - a + 1 <= m
    PROVE  Len(Bytes(a, b)) \in 0..m
  <1>1. CASE a <= b
    BY <1>1 DEF Bytes
  <1>2. CASE ~(a <= b)
    <2>1. 1..(b - a + 1) = {}
      BY <1>2
    <2>2. Bytes(a, b) = << >>
      BY <2>1 DEF Bytes
    <2> QED
      BY <2>2
  <1> QED
    BY <1>1, <1>2

LEMMA LenFilled ==
    ASSUME NEW cl, NEW k \in Nat, NEW m \in Nat, k <= m
    PROVE  Len(Filled(cl, k)) \in 0..(m + 1)
  BY DEF Filled

LEMMA LenEmpty ==
    ASSUME NEW m \in Nat
    PROVE  Len(<< >>) \in 0..m
  OBVIOUS

\* The controller at rest, and in a part.
LEMMA BoundedRange ==
    ASSUME NEW m \in Nat, cntl1.count \in 0..m, Len(fifo) \in 0..(m + 1)
    PROVE  Bounded(m)
  BY DEF Bounded

LEMMA RestBounded ==
    ASSUME NEW c0, NEW n, NEW count, NEW f, NEW w, Rest(c0, n, count, f, w),
           NEW m \in Nat, count \in 0..m, Len(f) \in 0..(m + 1)
    PROVE  Bounded(m)
  BY DEF Rest, Bounded

LEMMA PartBounded ==
    ASSUME NEW cl \in Calls, NEW c0, NEW a \in Nat \ {0}, NEW b \in Nat, NEW m \in Nat,
           a <= b + 1, b - a + 1 <= m, "START" \in c0 => a = 1,
           Part(cl, c0, a, b) \/ PartDone(cl, c0, a, b)
    PROVE  Bounded(m)
  <1>1. CASE PartStarts(cl, c0, b)
    <2>1. b \in 0..m /\ b <= m /\ 0 <= m
      BY <1>1 DEF PartStarts
    <2>2. cntl1.count = b /\ (fifo = Filled(cl, 0) \/ fifo = Filled(cl, b))
      BY <1>1 DEF PartStarts
    <2>3. Len(Filled(cl, 0)) \in 0..(m + 1) /\ Len(Filled(cl, b)) \in 0..(m + 1)
      BY <2>1, LenFilled
    <2>4. cntl1.count \in 0..m /\ Len(fifo) \in 0..(m + 1)
      BY <2>1, <2>2, <2>3
    <2> QED
      BY <2>4, BoundedRange
  <1>2. ASSUME NEW k \in (a - 1)..b, PartBehind(cl, a, k, b)
        PROVE  Bounded(m)
    <2>1. cntl1.count = b - k /\ fifo = Load(cl, a, k, b) /\ k \in Int
      BY <1>2 DEF PartBehind
    <2>2. k - a + 1 <= m /\ b - (k + 1) + 1 <= m /\ k + 1 \in Int /\ b - k \in 0..m
      BY <2>1
    <2>3. Len(Bytes(a, k)) \in 0..m /\ Len(Bytes(k + 1, b)) \in 0..m
      <3> DEFINE x == k + 1
      <3>1. x \in Int /\ b - x + 1 <= m
        BY <2>2
      <3> HIDE DEF x
      <3>2. Len(Bytes(x, b)) \in 0..m
        BY <3>1, LenBytes
      <3>3. Len(Bytes(a, k)) \in 0..m
        <4>1. a \in Int /\ k \in Int /\ k - a + 1 <= m
          BY <2>1, <2>2
        <4> QED
          BY <4>1, LenBytes
      <3> QED
        BY <3>2, <3>3 DEF x
    <2>4. Len(fifo) \in 0..(m + 1)
      <3>1. Len(fifo) \in 0..m
        BY <2>1, <2>3 DEF Load
      <3> QED
        BY <3>1
    <2>5. cntl1.count \in 0..m
      BY <2>1, <2>2
    <2> QED
      BY <2>4, <2>5, BoundedRange
  <1>3. CASE PartDone(cl, c0, a, b)
    <2>1. b - (b + 1) + 1 <= m /\ b + 1 \in Int /\ 0 \in 0..m
      OBVIOUS
    <2>2. Len(Bytes(a, b)) \in 0..m /\ Len(Bytes(b + 1, b)) \in 0..m
      <3> DEFINE x == b + 1
      <3>1. x \in Int /\ b - x + 1 <= m /\ b \in Int /\ a \in Int
        BY <2>1
      <3> HIDE DEF x
      <3>2. Len(Bytes(x, b)) \in 0..m
        BY <3>1, LenBytes
      <3>3. Len(Bytes(a, b)) \in 0..m
        BY <3>1, LenBytes
      <3> QED
        BY <3>2, <3>3 DEF x
    <2>3. Len(Load(cl, a, b, b)) \in 0..(m + 1)
      <3>1. Len(Load(cl, a, b, b)) \in 0..m
        BY <2>2 DEF Load
      <3> QED
        BY <3>1
    <2> QED
      BY <1>3, <2>1, <2>3, RestBounded DEF PartDone
  <1>4. a - 1 \in (a - 1)..b
    OBVIOUS
  <1> QED
    BY <1>1, <1>2, <1>3, <1>4 DEF Part

\* At every access of a call behind the second.
LEMMA ReadBounded ==
    ASSUME NEW cl \in Calls, cl.dir = "read", NEW p \in Nat, p > 2, ReadAt(cl, p)
    PROVE  Bounded(ReadChunk)
  <1> DEFINE n == FirstLen(cl)
             m == ReadChunk
  <1>1. m \in Nat \ {0} /\ n \in Nat \ {0} /\ n <= m /\ cl.len \in Nat
        /\ (Long(cl) => n = m /\ cl.len - n <= m /\ n <= cl.len)
    BY Halves, Numbers, ChunkAssumption
  <1> HIDE DEF n, m
  <1>2. CASE ReadSetup(cl, p)
    <2>1. cntl1.count = 0 \/ cntl1.count = n
      BY <1>2 DEF ReadSetup, n
    <2>2. fifo = << >> \/ fifo = Filled(cl, 0)
      BY <1>2 DEF ReadSetup
    <2>3. Len(<< >>) \in 0..(m + 1) /\ Len(Filled(cl, 0)) \in 0..(m + 1)
      <3>1. 0 <= m /\ m + 1 \in Nat /\ m \in Nat
        BY <1>1
      <3> QED
        BY <3>1, LenEmpty, LenFilled
    <2>4. cntl1.count \in 0..m /\ Len(fifo) \in 0..(m + 1)
      BY <1>1, <2>1, <2>2, <2>3
    <2> QED
      BY <1>1, <2>4, BoundedRange DEF m
  <1>3. CASE ReadRun(cl, p)
    <2>1. CASE Part(cl, ReadFirst, 1, n) \/ PartDone(cl, ReadFirst, 1, n)
      <3>1. 1 \in Nat \ {0} /\ 1 <= n + 1 /\ n - 1 + 1 <= m
        BY <1>1
      <3> QED
        BY <1>1, <2>1, <3>1, PartBounded DEF m
    <2>2. CASE Long(cl) /\ (Part(cl, ReadSecond, n + 1, cl.len) \/ PartDone(cl, ReadSecond, n + 1, cl.len))
      <3>1. n + 1 \in Nat \ {0} /\ n + 1 <= cl.len + 1 /\ cl.len - (n + 1) + 1 <= m
        BY <1>1, <2>2
      <3>2. "START" \notin ReadSecond
        BY DEF ReadSecond
      <3> QED
        BY <1>1, <2>2, <3>1, <3>2, PartBounded DEF m
    <2> QED
      BY <1>3, <2>1, <2>2 DEF ReadRun, n
  <1>4. CASE ReadFetch(cl, p)
    <2>1. ASSUME p \in 10..(n + 10),
                 Rest(ReadFirst \cup {"DONE"}, 0, 0, Bytes(p - 9, n), OnWire(cl, n))
          PROVE  Bounded(m)
      <3>1. n - (p - 9) + 1 <= m + 1 /\ p - 9 \in Int /\ m + 1 \in Nat /\ 0 \in 0..m /\ m \in Nat
        BY <1>1, <2>1
      <3>2. Len(Bytes(p - 9, n)) \in 0..(m + 1)
        <4> DEFINE x == p - 9
                   y == m + 1
        <4>1. x \in Int /\ y \in Nat /\ n - x + 1 <= y /\ n \in Int
          BY <1>1, <3>1
        <4> HIDE DEF x, y
        <4>2. Len(Bytes(x, n)) \in 0..y
          BY <4>1, LenBytes
        <4> QED
          BY <4>2 DEF x, y
      <3> QED
        BY <2>1, <3>1, <3>2, RestBounded
    <2>2. ASSUME p \in (n + 21)..(cl.len + 21), Long(cl),
                 Rest(ReadSecond \cup {"DONE"}, 0, 0, Bytes(p - 20, cl.len),
                      Append(OnWire(cl, cl.len), <<"stop">>))
          PROVE  Bounded(m)
      <3>1. cl.len - (p - 20) + 1 <= m + 1 /\ p - 20 \in Int /\ m + 1 \in Nat /\ 0 \in 0..m /\ m \in Nat
        BY <1>1, <2>2
      <3>2. Len(Bytes(p - 20, cl.len)) \in 0..(m + 1)
        <4> DEFINE x == p - 20
                   y == m + 1
        <4>1. x \in Int /\ y \in Nat /\ cl.len - x + 1 <= y /\ cl.len \in Int
          BY <1>1, <3>1
        <4> HIDE DEF x, y
        <4>2. Len(Bytes(x, cl.len)) \in 0..y
          BY <4>1, LenBytes
        <4> QED
          BY <4>2 DEF x, y
      <3> QED
        BY <2>2, <3>1, <3>2, RestBounded
    <2> QED
      BY <1>4, <2>1, <2>2 DEF ReadFetch, n, m
  <1>5. CASE ReadBetween(cl, p - n)
    <2>1. fifo = << >> /\ Long(cl) /\ (cntl1.count = 0 \/ cntl1.count = cl.len - n)
      BY <1>5 DEF ReadBetween, n
    <2>2. cntl1.count \in 0..m
      BY <1>1, <2>1
    <2>3. Len(fifo) \in 0..(m + 1)
      <3>1. m + 1 \in Nat
        BY <1>1
      <3> QED
        BY <2>1, <3>1, LenEmpty
    <2> QED
      BY <1>1, <2>2, <2>3, BoundedRange DEF m
  <1> QED
    BY <1>2, <1>3, <1>4, <1>5 DEF ReadAt, n, m

LEMMA WriteBounded ==
    ASSUME NEW cl \in Calls, cl.dir = "write", NEW p \in Nat, p > 2, WriteAt(cl, p)
    PROVE  Bounded(WriteChunk)
  <1> DEFINE n == FirstLen(cl)
             m == WriteChunk
  <1>1. m \in Nat \ {0} /\ n \in Nat \ {0} /\ n <= m /\ cl.len \in Nat
        /\ (Long(cl) => n = m /\ cl.len - n <= m /\ n <= cl.len)
    BY Halves, Numbers, ChunkAssumption
  <1> HIDE DEF n, m
  <1>2. CASE WriteSetup(cl, p)
    <2>1. cntl1.count = 0 \/ cntl1.count = n
      BY <1>2 DEF WriteSetup, n
    <2>2. fifo = << >> /\ m + 1 \in Nat
      BY <1>1, <1>2 DEF WriteSetup
    <2>3. cntl1.count \in 0..m /\ Len(fifo) \in 0..(m + 1)
      BY <1>1, <2>1, <2>2, LenEmpty
    <2> QED
      BY <1>1, <2>3, BoundedRange DEF m
  <1>3. ASSUME Part(cl, WriteFirst(cl), 1, n) \/ PartDone(cl, WriteFirst(cl), 1, n)
        PROVE  Bounded(m)
    <2>1. 1 \in Nat \ {0} /\ 1 <= n + 1 /\ n - 1 + 1 <= m
      BY <1>1
    <2> QED
      BY <1>1, <1>3, <2>1, PartBounded
  <1>4. ASSUME Long(cl), Part(cl, {"STOP"}, n + 1, cl.len) \/ PartDone(cl, {"STOP"}, n + 1, cl.len)
        PROVE  Bounded(m)
    <2>1. n + 1 \in Nat \ {0} /\ n + 1 <= cl.len + 1 /\ cl.len - (n + 1) + 1 <= m
      BY <1>1, <1>4
    <2>2. "START" \notin {"STOP"}
      OBVIOUS
    <2> QED
      BY <1>1, <1>4, <2>1, <2>2, PartBounded
  <1>5. CASE WriteSend(cl, p)
    <2>1. ASSUME p \in 11..(n + 11), Rest(WriteFirst(cl), 1, n, Filled(cl, p - 11), << >>)
          PROVE  Bounded(m)
      <3>1. p - 11 \in Nat /\ p - 11 <= m /\ n \in 0..m /\ m \in Nat
        BY <1>1, <2>1
      <3>2. Len(Filled(cl, p - 11)) \in 0..(m + 1)
        BY <3>1, LenFilled
      <3> QED
        BY <2>1, <3>1, <3>2, RestBounded
    <2>2. ASSUME p \in (n + 21)..(cl.len + 21), Long(cl),
                 Rest({"STOP"}, 0, cl.len - n, Bytes(n + 1, p - 21), OnWire(cl, n))
          PROVE  Bounded(m)
      <3>1. /\ p - 21 - (n + 1) + 1 <= m + 1 /\ p - 21 \in Int /\ n + 1 \in Int /\ m + 1 \in Nat
            /\ cl.len - n \in 0..m /\ m \in Nat
        BY <1>1, <2>2
      <3>2. Len(Bytes(n + 1, p - 21)) \in 0..(m + 1)
        BY <3>1, LenBytes
      <3> QED
        BY <2>2, <3>1, <3>2, RestBounded
    <2> QED
      BY <1>5, <2>1, <2>2 DEF WriteSend, n, m
  <1>6. CASE WriteRun(cl, p)
    <2>1. ASSUME Rest(WriteFirst(cl), 1, n, Filled(cl, n), << >>)
          PROVE  Bounded(m)
      <3>1. n \in 0..m /\ m \in Nat /\ n <= m
        BY <1>1
      <3>2. Len(Filled(cl, n)) \in 0..(m + 1)
        BY <1>1, <3>1, LenFilled
      <3> QED
        BY <2>1, <3>1, <3>2, RestBounded
    <2>2. ASSUME Long(cl), Rest({"STOP"}, 0, cl.len - n, Bytes(n + 1, cl.len), OnWire(cl, n))
          PROVE  Bounded(m)
      <3>1. /\ cl.len - (n + 1) + 1 <= m + 1 /\ cl.len \in Int /\ n + 1 \in Int /\ m + 1 \in Nat
            /\ cl.len - n \in 0..m /\ m \in Nat
        BY <1>1, <2>2
      <3>2. Len(Bytes(n + 1, cl.len)) \in 0..(m + 1)
        BY <3>1, LenBytes
      <3> QED
        BY <2>2, <3>1, <3>2, RestBounded
    <2> QED
      BY <1>3, <1>4, <1>6, <2>1, <2>2 DEF WriteRun, n, m
  <1>7. CASE WriteBetween(cl, p - n)
    <2>1. cntl1.count = 0 /\ fifo = << >>
      BY <1>7 DEF WriteBetween, Rest
    <2>2. cntl1.count \in 0..m /\ m + 1 \in Nat
      BY <1>1, <2>1
    <2>3. Len(fifo) \in 0..(m + 1)
      BY <2>1, <2>2, LenEmpty
    <2> QED
      BY <1>1, <2>2, <2>3, BoundedRange DEF m
  <1> QED
    BY <1>2, <1>5, <1>6, <1>7 DEF WriteAt, n, m

\* The type invariant: the registers and locals of tvw_read_i2c and
\* tvw_write_i2c, whatever was refused or given up before; no read stores more
\* than was asked for; and, as long as reads bring their own answers, the
\* controller runs only with GO set and, until the chip refuses, is asked for one
\* part and holds no more.
THEOREM TypeCorrect == Spec => []TypeOK
  <1>1. TInv /\ [Next]_vars => TInv'
    BY TypesNext
  <1>2. IInv /\ TInv => TypeOK
    <2> SUFFICES ASSUME IInv, TInv PROVE TypeOK
      OBVIOUS
    <2>1. ASSUME pc > 2, ~nacked, ~stale
          PROVE  cntl1.count <= Chunk /\ Len(fifo) <= Chunk + 1
      <3>1. PICK cl \in Calls : \E p \in 0..(Last(cl) + 1) : InvAt(cl, p)
        BY <2>1, InvIs DEF IInv
      <3>2. PICK p \in 0..(Last(cl) + 1) : InvAt(cl, p)
        BY <3>1
      <3>3. p = pc /\ call = cl
        BY <2>1, <3>2 DEF InvAt, Reached
      <3>4. Last(cl) \in Nat
        BY Numbers DEF Last
      <3>5. p \in Nat /\ p > 2 /\ p > 1
        BY <2>1, <3>2, <3>3, <3>4
      <3>6. At(cl, p)
        BY <2>1, <3>2, <3>5 DEF InvAt
      <3>7. CASE cl.dir = "read"
        <4>1. Bounded(ReadChunk)
          BY <3>5, <3>6, <3>7, ReadBounded DEF At
        <4> QED
          BY <3>3, <3>7, <4>1 DEF Bounded, Chunk
      <3>8. CASE cl.dir = "write"
        <4>1. Bounded(WriteChunk)
          BY <3>5, <3>6, <3>8, WriteBounded DEF At
        <4> QED
          BY <3>3, <3>8, <4>1 DEF Bounded, Chunk
      <3> QED
        BY <3>7, <3>8, Numbers
    <2>2. Len(Program) = Last(call)
      BY AllSettled DEF TInv, LocalsTyped
    <2>3. Len(out) <= call.len
      <3>1. CASE Running
        <4>1. Len(out) \in Nat /\ Len(out) <= Fetched(call, pc)
          BY <3>1 DEF TInv, Stored
        <4> QED
          BY <3>1, <4>1, Made
      <3>2. CASE ~Running
        BY <3>2 DEF TInv, Stored
      <3> QED
        BY <3>1, <3>2
    <2>4. cntl1 \in [n : {0, 1}, count : Nat]
      BY DEF TInv, RegistersTyped, Counts
    <2> QED
      BY <2>1, <2>2, <2>3, <2>4 DEF TypeOK, TInv, RegistersTyped, LocalsTyped, WaitsForGo
  <1> QED
    BY Invariant, TypesInit, <1>1, <1>2, PTL DEF Spec

=============================================================================
