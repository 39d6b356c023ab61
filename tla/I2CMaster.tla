------------------------------ MODULE I2CMaster ------------------------------
(***************************************************************************)
(* tvw_read_i2c and tvw_write_i2c (util.c): I2C transactions with the      *)
(* tuner through the registers I2C_CNTL_0, I2C_CNTL_1 and I2C_DATA of a    *)
(* controller in the device.  A transaction longer than what the           *)
(* controller takes at once is cut in two: the first part starts it, the   *)
(* second must neither start it again nor send the address, and only the   *)
(* last may stop it.  Any register access may fail, a wait may give up     *)
(* while the controller still works, and the next call starts from what is *)
(* left.  That may be the answer to a read that was given up behind its    *)
(* header: it stays on endpoint 0x82, nothing drains it, and from then on  *)
(* (stale) a read, a poll of a wait included, may bring the answer to an   *)
(* earlier one, of this or of another register.                            *)
(*                                                                         *)
(* CNTL_0 is given by its flags; its low byte also holds the chip's        *)
(* address (DRIVE_EN and DRIVE_SEL are 0xC0), so a flag of that byte that  *)
(* is set when the code reads the address is part of the address.  CNTL_1  *)
(* is given by the number of address bytes (0x0100) and of data bytes.     *)
(*                                                                         *)
(* External, as the code uses it: GO runs a part and is cleared at its     *)
(* end; DONE, NACK and HALT are cleared by writing them; SOFT_RST empties  *)
(* the controller, ends what it does and clears itself; the byte counts    *)
(* run down to zero as bytes pass.                                         *)
(***************************************************************************)
EXTENDS Integers, Sequences, FiniteSets

CONSTANTS
    ReadChunk,     \* 30 in the code
    WriteChunk,    \* 29
    Loops,         \* polls of tvw_wait_bits, 100
    ReadLens,      \* lengths the tuner code uses: 16 and 39
    WriteLens,     \* and 2 to 40
    Foreign0,      \* what a read of CNTL_0 may bring that is not its answer,
    Foreign1,      \* and one of CNTL_1: bound, in the code any value
    MaxCalls       \* bound: calls made

ASSUME ChunkAssumption ==
    /\ ReadChunk \in 1..255 /\ WriteChunk \in 1..255 /\ Loops \in Nat \ {0}
    /\ ReadLens \subseteq 1..(2 * ReadChunk)
    /\ WriteLens \subseteq 1..(2 * WriteChunk)

Status == {"DONE", "NACK", "HALT"}
Flags == Status \cup {"SOFT_RST", "START", "STOP", "RECEIVE", "GO"}
LowByte == Status \cup {"SOFT_RST"}

ASSUME ForeignAssumption ==
    /\ Foreign0 \subseteq SUBSET Flags
    /\ Foreign1 \subseteq [n : {0, 1}, count : 0..255]

VARIABLES
    cntl0, cntl1,  \* registers of the controller
    fifo,          \* bytes in the controller
    begun,         \* it has started the part that GO asked for
    wire,          \* events on the bus since the controller was reset
    nacked,        \* the chip refused a byte since then
    call,          \* [dir, len] of the running or last call
    pc,            \* index into Program, 0 when no call runs
    ctrl0, ctrl1,  \* the local variable ctrl: a value of CNTL_0, of CNTL_1
    addr,          \* the local variable addr: its flags
    polls,         \* polls of the running wait
    out,           \* outbuf: what a read has stored
    ret,           \* result of the last call
    calls,         \* number of calls
    stale          \* an answer that nobody has read may be left on the endpoint

controller == <<cntl0, cntl1, fifo, begun, wire, nacked>>
driver == <<call, pc, ctrl0, ctrl1, addr, polls, out, ret, calls, stale>>
vars == <<controller, driver>>

Running == pc # 0

-----------------------------------------------------------------------------
\* Accesses of the driver.
Op(op, out_, in_, n, count) == [op |-> op, out |-> out_, in |-> in_, n |-> n, count |-> count]
Access(op) == Op(op, {}, {}, 0, 0)

\* ctrl & ~out | in, written to CNTL_0; ctrl = in, written to CNTL_0.
Put0(out_, in_) == Op("put0", out_, in_, 0, 0)
Set0(in_) == Put0(Flags, in_)
\* The same for CNTL_1, with n address bytes and count ORed in.
Put1(op, n, count) == Op(op, {}, {}, n, count)
WaitClear(flag) == Op("wait", {}, {flag}, 0, 0)

Get0 == Access("get0")
Get1 == Access("get1")
Go == <<Get0, Put0({}, {"GO"}), WaitClear("GO")>>

Min2(a, b) == IF a < b THEN a ELSE b

Begin(receive) ==
    <<Set0({"DONE", "NACK", "HALT", "SOFT_RST", "START"} \cup receive), Put1("set1", 0, 0)>>

\* Between the parts of a read.
NextRead(rest) ==
    <<Get0, Put0({"START"}, {}), WaitClear("DONE"), Put0({}, {"STOP"}),
      Get1, Put1("drop1", 0, 0), Access("wait1"), Put1("or1", 0, rest)>> \o Go

Fetch(n) == [i \in 1..n |-> Access("fetch")]

tvw_read_i2c(len) ==
    Begin({"RECEIVE"})
    \o <<Access("addr"), Put0({}, {}), Put1("set1", 1, Min2(len, ReadChunk)), Access("chip")>>
    \o Go \o Fetch(Min2(len, ReadChunk))
    \o (IF len > ReadChunk THEN NextRead(len - ReadChunk) \o Fetch(len - ReadChunk) ELSE << >>)

\* Between the parts of a write; the mask 0xff00 holds all the flags but those
\* of the low byte.
NextWrite(rest) ==
    Go \o <<Put0(Flags \ LowByte, Status), Get0, Put0({}, {"STOP"}),
            Get1, Put1("drop1", 0, 0), Access("wait1"), Put1("or1", 0, rest)>>

Send(n) == [i \in 1..n |-> Access("send")]

\* Mutant of StopsAtOnce: STOP on a longer write, too.
StopsAtOnceLate(len) == len <= WriteChunk + 1

StopsAtOnce(len) == len <= WriteChunk

tvw_write_i2c(len) ==
    Begin({})
    \o <<Put1("set1", 0, 0), Access("addr"),
         Put0({}, IF StopsAtOnce(len) THEN {"STOP"} ELSE {}),
         Get1, Put1("one1", 0, 0), Get1, Put1("or1", 0, Min2(len, WriteChunk)), Access("chip")>>
    \o Send(Min2(len, WriteChunk))
    \o (IF len > WriteChunk THEN NextWrite(len - WriteChunk) \o Send(len - WriteChunk) ELSE << >>)
    \o Go

Program == IF call.dir = "read" THEN tvw_read_i2c(call.len) ELSE tvw_write_i2c(call.len)

Now == Program[pc]

-----------------------------------------------------------------------------
Calls == [dir : {"read"}, len : ReadLens] \cup [dir : {"write"}, len : WriteLens]

Init ==
    /\ cntl0 = {} /\ cntl1 = [n |-> 0, count |-> 0]
    /\ fifo = << >>
    /\ begun = FALSE
    /\ wire = << >>
    /\ nacked = FALSE
    /\ call \in Calls
    /\ pc = 0
    /\ ctrl0 = {} /\ ctrl1 = cntl1
    /\ addr = {}
    /\ polls = 0
    /\ out = << >>
    /\ ret = -1
    /\ calls = 0
    /\ stale \in BOOLEAN

\* A read, by this code or by what runs between the calls, is given up behind
\* its header.
MayLeaveAnswer == stale' \in {stale, TRUE}

Call ==
    /\ ~Running
    /\ calls < MaxCalls
    /\ calls' = calls + 1
    /\ call' \in Calls
    /\ pc' = 1
    /\ ctrl0' = {} /\ ctrl1' = [n |-> 0, count |-> 0]
    /\ addr' = {}
    /\ polls' = 0
    /\ out' = << >>
    /\ ret' = -1
    /\ MayLeaveAnswer
    /\ UNCHANGED controller

\* Control goes on; after the last access the function returns 0.
Advance ==
    /\ IF pc < Len(Program) THEN pc' = pc + 1 /\ UNCHANGED ret ELSE pc' = 0 /\ ret' = 0
    /\ polls' = 0
    /\ UNCHANGED <<call, calls, stale>>

\* What a write to CNTL_0 does.
Controller0(value) ==
    /\ cntl0' = ((IF "SOFT_RST" \in value THEN {} ELSE cntl0 \cap Status) \ value)
                    \cup (value \ LowByte)
    /\ IF "SOFT_RST" \in value
       THEN fifo' = << >> /\ begun' = FALSE /\ wire' = << >> /\ nacked' = FALSE
       ELSE UNCHANGED <<fifo, begun, wire, nacked>>
    /\ UNCHANGED cntl1

Write0 ==
    /\ Running /\ Now.op = "put0"
    /\ ctrl0' = (ctrl0 \ Now.out) \cup Now.in
    /\ Controller0(ctrl0')
    /\ UNCHANGED <<ctrl1, addr, out>>
    /\ Advance

\* What a read brings.
Seen0 == {cntl0} \cup IF stale THEN Foreign0 ELSE {}
Seen1 == {cntl1} \cup IF stale THEN Foreign1 ELSE {}

Read0 ==
    /\ Running /\ Now.op \in {"get0", "addr"}
    /\ ctrl0' \in Seen0
    /\ addr' = IF Now.op = "addr" THEN ctrl0' \cap LowByte ELSE addr
    /\ UNCHANGED <<controller, ctrl1, out>>
    /\ Advance

\* Bitwise OR of numbers below 256.
Bit(x, i) == (x \div 2^i) % 2
OrBit(a, b, i) == IF Bit(a, i) + Bit(b, i) = 0 THEN 0 ELSE 2^i
Or(a, b) == OrBit(a, b, 0) + OrBit(a, b, 1) + OrBit(a, b, 2) + OrBit(a, b, 3)
              + OrBit(a, b, 4) + OrBit(a, b, 5) + OrBit(a, b, 6) + OrBit(a, b, 7)

Value1 ==
    CASE Now.op = "set1" -> [n |-> Now.n, count |-> Now.count]
      [] Now.op = "one1" -> [ctrl1 EXCEPT !.n = 1]
      [] Now.op = "drop1" -> [ctrl1 EXCEPT !.n = 0]
      [] Now.op = "or1" -> [ctrl1 EXCEPT !.count = Or(@, Now.count)]

Write1 ==
    /\ Running /\ Now.op \in {"set1", "one1", "drop1", "or1"}
    /\ ctrl1' = Value1
    /\ cntl1' = ctrl1'
    /\ UNCHANGED <<cntl0, fifo, begun, wire, nacked, ctrl0, addr, out>>
    /\ Advance

Read1 ==
    /\ Running /\ Now.op = "get1"
    /\ ctrl1' \in Seen1
    /\ UNCHANGED <<controller, ctrl0, addr, out>>
    /\ Advance

\* I2C_DATA: the chip's address, with the flags that were taken for part of it,
\* or the next byte of wrbuf.
ByteNo(op) == Cardinality({i \in 1..pc : Program[i].op = op})

Loaded == Append(fifo, IF Now.op = "chip" THEN <<"address", call.dir, addr>>
                                          ELSE <<"byte", ByteNo("send")>>)

WriteData ==
    /\ Running /\ Now.op \in {"chip", "send"}
    /\ fifo' = Loaded
    /\ UNCHANGED <<cntl0, cntl1, begun, wire, nacked, ctrl0, ctrl1, addr, out>>
    /\ Advance

Junk == <<"junk">>

Front == IF fifo = << >> THEN Junk ELSE Head(fifo)
Emptier == IF fifo = << >> THEN fifo ELSE Tail(fifo)

ReadData ==
    /\ Running /\ Now.op = "fetch"
    /\ \E byte \in {Front} \cup IF stale THEN {Junk} ELSE {} : out' = Append(out, byte)
    /\ fifo' = Emptier
    /\ UNCHANGED <<cntl0, cntl1, begun, wire, nacked, ctrl0, ctrl1, addr>>
    /\ Advance

\* tvw_wait_bits: the flag is clear in what the poll brings, and the wait is
\* over,
Waits == Running /\ Now.op \in {"wait", "wait1"}
Awaited(value0, value1) == IF Now.op = "wait" THEN Now.in \cap value0 = {} ELSE value1.n = 0

WaitOver ==
    /\ Waits
    /\ \E value0 \in Seen0, value1 \in Seen1 : Awaited(value0, value1)
    /\ UNCHANGED <<controller, ctrl0, ctrl1, addr, out>>
    /\ Advance

GiveUp ==
    /\ pc' = 0
    /\ ret' = -1
    /\ polls' = 0
    /\ UNCHANGED <<call, ctrl0, ctrl1, addr, out, calls>>

\* Mutant of Poll: what is not there after the last poll is taken for granted.
PollHopeful ==
    /\ Waits
    /\ \E value0 \in Seen0, value1 \in Seen1 : ~Awaited(value0, value1)
    /\ IF polls + 1 < Loops
       THEN polls' = polls + 1 /\ UNCHANGED <<call, pc, ctrl0, ctrl1, addr, out, ret, calls, stale>>
       ELSE Advance /\ UNCHANGED <<ctrl0, ctrl1, addr, out>>
    /\ UNCHANGED controller

\* or it is not, and the code sleeps and polls again, up to Loops times.
Poll ==
    /\ Waits
    /\ \E value0 \in Seen0, value1 \in Seen1 : ~Awaited(value0, value1)
    /\ IF polls + 1 < Loops
       THEN polls' = polls + 1 /\ UNCHANGED <<call, pc, ctrl0, ctrl1, addr, out, ret, calls, stale>>
       ELSE GiveUp /\ UNCHANGED stale
    /\ UNCHANGED controller

\* A register access fails: it had its effect on the controller or not, and a
\* read may leave its answer.
IsRead == Now.op \in {"get0", "addr", "get1", "fetch", "wait", "wait1"}

AccessFails ==
    /\ Running
    /\ \/ UNCHANGED controller
       \/ Now.op = "put0" /\ Controller0((ctrl0 \ Now.out) \cup Now.in)
       \/ /\ Now.op \in {"set1", "one1", "drop1", "or1"}
          /\ cntl1' = Value1
          /\ UNCHANGED <<cntl0, fifo, begun, wire, nacked>>
       \/ /\ Now.op \in {"chip", "send", "fetch"}
          /\ fifo' = IF Now.op = "fetch" THEN Emptier ELSE Loaded
          /\ UNCHANGED <<cntl0, cntl1, begun, wire, nacked>>
    /\ GiveUp
    /\ IF IsRead THEN MayLeaveAnswer ELSE UNCHANGED stale

-----------------------------------------------------------------------------
\* The controller runs a part: START, the address, the bytes, STOP.
Busy == "GO" \in cntl0

Begins ==
    /\ Busy
    /\ ~begun
    /\ begun' = TRUE
    /\ wire' = IF "START" \in cntl0 THEN Append(wire, <<"start">>) ELSE wire
    /\ UNCHANGED <<cntl0, cntl1, fifo, nacked, driver>>

\* A byte from the controller's memory: an address byte, or one to be written.
SendsByte ==
    /\ Busy
    /\ begun
    /\ \/ cntl1.n > 0 /\ cntl1' = [cntl1 EXCEPT !.n = 0]
       \/ /\ cntl1.n = 0 /\ cntl1.count > 0 /\ "RECEIVE" \notin cntl0
          /\ cntl1' = [cntl1 EXCEPT !.count = @ - 1]
    /\ wire' = Append(wire, Front)
    /\ fifo' = Emptier
    /\ UNCHANGED <<cntl0, begun, nacked, driver>>

\* How many data bytes are on the wire.
Received == Cardinality({k \in 1..Len(wire) : wire[k][1] = "byte"})

TakesByte ==
    /\ Busy
    /\ begun
    /\ cntl1.n = 0 /\ cntl1.count > 0 /\ "RECEIVE" \in cntl0
    /\ cntl1' = [cntl1 EXCEPT !.count = @ - 1]
    /\ LET byte == <<"byte", Received + 1>>
       IN wire' = Append(wire, byte) /\ fifo' = Append(fifo, byte)
    /\ UNCHANGED <<cntl0, begun, nacked, driver>>

Finishes ==
    /\ Busy
    /\ begun
    /\ cntl1.n = 0 /\ cntl1.count = 0
    /\ cntl0' = (cntl0 \ {"GO"}) \cup {"DONE"}
    /\ begun' = FALSE
    /\ wire' = IF "STOP" \in cntl0 THEN Append(wire, <<"stop">>) ELSE wire
    /\ UNCHANGED <<cntl1, fifo, nacked, driver>>

\* The chip refuses; the driver never looks at the flag.
Refused ==
    /\ Busy
    /\ begun
    /\ cntl0' = (cntl0 \ {"GO"}) \cup {"DONE", "NACK"}
    /\ begun' = FALSE
    /\ nacked' = TRUE
    /\ UNCHANGED <<cntl1, fifo, wire, driver>>

Controller == Begins \/ SendsByte \/ TakesByte \/ Finishes \/ Refused

Next ==
    \/ Call
    \/ Write0 \/ Read0 \/ Write1 \/ Read1 \/ WriteData \/ ReadData
    \/ WaitOver \/ Poll \/ AccessFails
    \/ Controller

Spec == Init /\ [][Next]_vars

-----------------------------------------------------------------------------
Chunk == IF call.dir = "read" THEN ReadChunk ELSE WriteChunk

\* Type invariant.  As long as reads bring their own answers the controller
\* works only with GO set; and once a call has set it up, and until the chip
\* refuses a byte, it is asked for one part at a time and holds no more.
TypeOK ==
    /\ cntl0 \subseteq Flags \ {"SOFT_RST"}
    /\ cntl1 \in [n : {0, 1}, count : Nat]
    /\ pc > 2 /\ ~nacked /\ ~stale =>
          /\ cntl1.count <= Chunk
          /\ Len(fifo) <= Chunk + 1
    /\ begun /\ ~stale => Busy
    /\ call \in Calls
    /\ pc \in 0..Len(Program)
    /\ ctrl0 \subseteq Flags
    /\ addr \subseteq LowByte
    /\ polls \in 0..(Loops - 1)
    /\ Len(out) <= call.len
    /\ ret \in {0, -1}
    /\ stale \in BOOLEAN

\* What a call is to put on the bus.  (A read of a single part is not told to stop,
\* and is not.)
Transaction ==
    <<<<"start">>, <<"address", call.dir, {}>>>>
    \o [i \in 1..call.len |-> <<"byte", i>>]
    \o (IF call.dir = "write" \/ call.len > ReadChunk THEN <<<<"stop">>>> ELSE << >>)

\* A call that returned 0, and whose bytes the chip did not refuse, put on the bus
\* one transaction: one START, the chip's address with the right direction, each
\* byte once and in order, and a STOP at the end; nothing of an earlier call that
\* was given up or failed is part of it, and a read stored the bytes of the bus.
\* That holds as long as no read was given up behind its header: the answer that
\* one leaves would be taken for another's.
WireIsTransaction ==
    ~Running /\ ret = 0 /\ ~nacked /\ ~stale =>
        /\ wire = Transaction
        /\ call.dir = "read" => out = [i \in 1..call.len |-> <<"byte", i>>]

=============================================================================
