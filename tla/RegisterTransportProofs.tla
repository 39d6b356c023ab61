----------------------- MODULE RegisterTransportProofs -----------------------
(***************************************************************************)
(* For any registers, bits, number of calls and number of failed           *)
(* transfers: the types of the transport, and that it implements the       *)
(* register accesses that Registers promises.                              *)
(***************************************************************************)
EXTENDS RegisterTransport, TLAPS

\* What an access of a call is, by what follows from it.
FetchesValue ==
    /\ call.reg # "e000" /\ call.op \in {"read", "rmw"}
    /\ \/ Access = R(call.reg) /\ call.reg \in PlainRegs
       \/ Access = R("0x4400")
    /\ call.op = "read" => pc = Len(Accesses)
    /\ call.op = "rmw" => /\ pc < Len(Accesses)
                          /\ Accesses[pc + 1].dir = "W" /\ Accesses[pc + 1].what = "mod"
    /\ pc < 3

AsksWindow ==
    /\ call.reg # "e000" /\ call.op \in {"read", "rmw"}
    /\ Access = W("0x4400", "get", "none")
    /\ pc = 1 /\ pc < Len(Accesses)
    /\ Accesses[2] = R("0x4400")

Stores ==
    /\ call.reg # "e000" /\ pc = Len(Accesses)
    /\ \E what \in {"set", "mod"} :
          /\ what = "set" => call.op = "write" /\ call.keep = {}
          /\ what = "mod" => call.op = "rmw"
          /\ \/ Access = W(call.reg, "none", what) /\ call.reg \in PlainRegs
             \/ Access = W("0x4400", "put", what)

Commands ==
    /\ call.reg = "e000" /\ call.op = "write" /\ call.keep = {}
    /\ Access = W("e000", "none", "set")
    /\ pc = 2 /\ pc < Len(Accesses)
    /\ Accesses[3] = R("e010")

Looks ==
    /\ call.reg = "e000" /\ call.op = "write"
    /\ Access.dir = "R" /\ Access.reg \in {"e000", "e010"} /\ Access.what = "none"
    /\ pc \in {1, 3} /\ pc < Len(Accesses)
    /\ Accesses[pc + 1].dir = "W" /\ Accesses[pc + 1].what \in {"set", "none"}

Clears ==
    /\ call.reg = "e000" /\ call.op = "write"
    /\ Access = W("e010", "none", "none")
    /\ pc = 4 /\ pc = Len(Accesses)

\* TypeOK, and: the last answer is the own one and right, the window answers for
\* the register of the call, a modification has the register's value unless an
\* answer nobody read is under way, and only tvw_e0_magic runs on after its effect.
IInv ==
    /\ TypeOK
    /\ answers \in Seq(Values) /\ failures \in Nat
    /\ call # Idle =>
          /\ phase = "data" /\ Access.dir = "R" =>
                answers[Len(answers)] = ValueOf(Access.reg)
          /\ Access = R("0x4400") => window = mem[call.reg]
          /\ Access.what = "mod" => tmp = mem[call.reg] \/ Len(answers) > 0
          /\ done <=> call.reg = "e000" /\ pc > 2

-----------------------------------------------------------------------------
LEMMA OpsTyped ==
  ASSUME NEW c \in Ops
  PROVE  /\ c \in [op : {"read", "write", "rmw"}, reg : Regs, keep : Values, set : Values]
         /\ c.op \in {"read", "write"} => c.keep = {}
         /\ c.op = "read" => c.set = {}
         /\ c.reg = "e000" => c.op = "write"
         /\ c # Idle
<1>1. {} \in Values
  BY DEF Values
<1>2. CASE c \in {Op("read", r, {}, {}) : r \in Regs \ {"e000"}}
  BY <1>1, <1>2 DEF Op, Idle
<1>3. CASE c \in {Op("write", r, {}, v) : r \in Regs, v \in Values}
  BY <1>1, <1>3 DEF Op, Idle
<1>4. CASE c \in {Op("rmw", r, k, v) : r \in Regs \ {"e000"}, k \in Values, v \in Values}
  BY <1>4 DEF Op, Idle
<1> QED
  BY <1>2, <1>3, <1>4 DEF Ops

\* Every access of every call is one of the six kinds.
LEMMA Kinds ==
  ASSUME call \in Ops, pc \in 1..Len(Accesses)
  PROVE  FetchesValue \/ AsksWindow \/ Stores \/ Commands \/ Looks \/ Clears
<1>1. /\ call.op \in {"read", "write", "rmw"} /\ call.reg \in Regs
      /\ call.op \in {"read", "write"} => call.keep = {}
      /\ call.reg = "e000" => call.op = "write"
  BY OpsTyped
<1>2. CASE call.reg = "e000"
  <2>1. Accesses = <<R("e000"), W("e000", "none", "set"), R("e010"), W("e010", "none", "none")>>
    BY <1>2 DEF Accesses, tvw_e0_magic
  <2>2. pc \in {1, 2, 3, 4} /\ Len(Accesses) = 4
    BY <2>1
  <2>3. Access = Accesses[pc]
    BY DEF Access
  <2> QED
    BY <1>1, <1>2, <2>1, <2>2, <2>3 DEF Commands, Looks, Clears, R, W
<1>3. CASE call.reg \in PlainRegs
  <2>1. call.reg # "e000"
    BY <1>3, RegAssumption
  <2>2. CASE call.op = "read"
    <3>1. Accesses = <<R(call.reg)>>
      BY <1>3, <2>1, <2>2 DEF Accesses, tvw_read_reg
    <3> QED
      BY <1>3, <2>1, <2>2, <3>1 DEF FetchesValue, Access
  <2>3. CASE call.op = "write"
    <3>1. Accesses = <<W(call.reg, "none", "set")>>
      BY <1>3, <2>1, <2>3 DEF Accesses, tvw_write_reg
    <3> QED
      BY <1>1, <1>3, <2>1, <2>3, <3>1 DEF Stores, Access
  <2>4. CASE call.op = "rmw"
    <3>1. Accesses = <<R(call.reg), W(call.reg, "none", "mod")>>
      BY <1>3, <2>1, <2>4 DEF Accesses, tvw_rmw_reg
    <3>2. Len(Accesses) = 2 /\ Accesses[1] = R(call.reg) /\ Accesses[2] = W(call.reg, "none", "mod")
      BY <3>1
    <3>3. CASE pc = 1
      BY <1>3, <2>1, <2>4, <3>2, <3>3 DEF FetchesValue, Access, W
    <3>4. CASE pc = 2
      BY <1>3, <2>1, <2>4, <3>2, <3>4 DEF Stores, Access
    <3> QED
      BY <3>2, <3>3, <3>4
  <2> QED
    BY <1>1, <2>2, <2>3, <2>4
<1>4. CASE call.reg \in UcRegs
  <2>1. call.reg # "e000" /\ call.reg \notin PlainRegs
    BY <1>4, RegAssumption
  <2>2. CASE call.op = "read"
    <3>1. Accesses = <<W("0x4400", "get", "none"), R("0x4400")>>
      BY <1>4, <2>1, <2>2 DEF Accesses, tvw_uc_read_reg
    <3>2. Len(Accesses) = 2 /\ Accesses[1] = W("0x4400", "get", "none") /\ Accesses[2] = R("0x4400")
      BY <3>1
    <3>3. CASE pc = 1
      BY <2>1, <2>2, <3>2, <3>3 DEF AsksWindow, Access
    <3>4. CASE pc = 2
      BY <2>1, <2>2, <3>2, <3>4 DEF FetchesValue, Access
    <3> QED
      BY <3>2, <3>3, <3>4
  <2>3. CASE call.op = "write"
    <3>1. Accesses = <<W("0x4400", "put", "set")>>
      BY <1>4, <2>1, <2>3 DEF Accesses, tvw_uc_write_reg
    <3> QED
      BY <1>1, <2>1, <2>3, <3>1 DEF Stores, Access
  <2>4. CASE call.op = "rmw"
    <3>1. Accesses = <<W("0x4400", "get", "none"), R("0x4400"), W("0x4400", "put", "mod")>>
      BY <1>4, <2>1, <2>4 DEF Accesses, tvw_uc_rmw_reg
    <3>2. /\ Len(Accesses) = 3
          /\ Accesses[1] = W("0x4400", "get", "none")
          /\ Accesses[2] = R("0x4400")
          /\ Accesses[3] = W("0x4400", "put", "mod")
      BY <3>1
    <3>3. CASE pc = 1
      BY <2>1, <2>4, <3>2, <3>3 DEF AsksWindow, Access
    <3>4. CASE pc = 2
      BY <2>1, <2>4, <3>2, <3>4 DEF FetchesValue, Access, W
    <3>5. CASE pc = 3
      BY <2>1, <2>4, <3>2, <3>5 DEF Stores, Access
    <3> QED
      BY <3>2, <3>3, <3>4, <3>5
  <2> QED
    BY <1>1, <2>2, <2>3, <2>4
<1> QED
  BY <1>1, <1>2, <1>3, <1>4 DEF Regs

-----------------------------------------------------------------------------
\* What a call starts with.
LEMMA FirstAccess ==
  call \in Ops => /\ Len(Accesses) \in Nat \ {0}
                  /\ Accesses[1].what # "mod"
                  /\ Accesses[1] # R("0x4400")
<1> SUFFICES ASSUME call \in Ops
             PROVE  /\ Len(Accesses) \in Nat \ {0}
                    /\ Accesses[1].what # "mod"
                    /\ Accesses[1] # R("0x4400")
  OBVIOUS
<1>1. call.op \in {"read", "write", "rmw"} /\ call.reg \in Regs
  BY OpsTyped
<1>2. /\ R("0x4400") # R("e000")
      /\ call.reg \in PlainRegs => R("0x4400") # R(call.reg)
      /\ \A r, q, w : W(r, q, w) # R("0x4400")
  BY RegAssumption DEF R, W
<1>3. CASE call.reg = "e000"
  BY <1>2, <1>3 DEF Accesses, tvw_e0_magic, R
<1>4. CASE call.reg # "e000" /\ call.reg \in PlainRegs
  BY <1>1, <1>2, <1>4 DEF Accesses, tvw_read_reg, tvw_write_reg, tvw_rmw_reg, R, W
<1>5. CASE call.reg # "e000" /\ call.reg \notin PlainRegs
  BY <1>1, <1>2, <1>5 DEF Accesses, tvw_uc_read_reg, tvw_uc_write_reg, tvw_uc_rmw_reg, R, W
<1> QED
  BY <1>3, <1>4, <1>5

LEMMA SameCall ==
  ASSUME call' = call
  PROVE  Accesses' = Accesses
  BY DEF Accesses, tvw_read_reg, tvw_write_reg, tvw_rmw_reg, tvw_uc_read_reg, tvw_uc_write_reg,
         tvw_uc_rmw_reg, tvw_e0_magic, R, W

LEMMA DataTyped ==
  ASSUME TypeOK, call \in Ops
  PROVE  Data \in Values
<1>1. call.set \in Values /\ call.keep \in Values /\ tmp \in Values
  BY OpsTyped DEF TypeOK
<1> QED
  BY <1>1 DEF Data, Values

\* An access and the value read through it.
LEMMA AccessTyped ==
  ASSUME TypeOK, call # Idle
  PROVE  /\ call \in Ops /\ call.reg \in Regs /\ pc \in 1..Len(Accesses)
         /\ Access.reg \in Regs \cup {"0x4400", "e010"}
         /\ \/ Access.dir = "R" /\ (FetchesValue \/ Looks)
            \/ Access.dir = "W" /\ (AsksWindow \/ Stores \/ Commands \/ Clears)
         /\ ValueOf(Access.reg) \in Values
<1>1. call \in Ops /\ call.reg \in Regs /\ pc \in 1..Len(Accesses)
  BY OpsTyped DEF TypeOK
<1>2. FetchesValue \/ AsksWindow \/ Stores \/ Commands \/ Looks \/ Clears
  BY <1>1, Kinds
<1>3. Access.reg \in Regs \cup {"0x4400", "e010"}
  BY <1>1, <1>2 DEF FetchesValue, AsksWindow, Stores, Commands, Looks, Clears, R, W, Regs
<1>4. \/ Access.dir = "R" /\ (FetchesValue \/ Looks)
      \/ Access.dir = "W" /\ (AsksWindow \/ Stores \/ Commands \/ Clears)
  BY <1>2 DEF FetchesValue, AsksWindow, Stores, Commands, Looks, Clears, R, W
<1>5. ValueOf(Access.reg) \in Values
  BY <1>3 DEF TypeOK, ValueOf, Values
<1> QED
  BY <1>1, <1>3, <1>4, <1>5

\* The device takes a header.
LEMMA HeaderTaken ==
  ASSUME IInv, call # Idle, DeviceTakesHeader
  PROVE  /\ mem' = mem /\ window' = window /\ done' = done
         /\ answers' \in Seq(Values)
         /\ want' \in Regs \cup {"none", "0x4400", "e010"}
         /\ Access.dir = "R" => /\ Len(answers') = Len(answers) + 1
                                /\ answers'[Len(answers')] = ValueOf(Access.reg)
         /\ Access.dir = "W" => answers' = answers /\ want' = Access.reg
  BY AccessTyped DEF IInv, DeviceTakesHeader

\* The device takes the data of a write.
LEMMA DataTaken ==
  ASSUME IInv, call # Idle, Access.dir = "W", DeviceTakesData
  PROVE  /\ answers' = answers /\ want' = "none"
         /\ mem' \in [Regs -> Values] /\ window' \in Values
         /\ AsksWindow => mem' = mem /\ done' = done /\ window' = mem[call.reg]
         /\ Stores \/ Commands => /\ mem' = [mem EXCEPT ![call.reg] = Data]
                                  /\ done' = TRUE
         /\ Clears => mem' = mem /\ done' = done
<1>1. /\ call \in Ops /\ call.reg \in Regs
      /\ AsksWindow \/ Stores \/ Commands \/ Clears
      /\ Data \in Values
  BY AccessTyped, DataTyped DEF IInv
<1>2. {"0x4400", "e010"} \cap Regs = {}
  BY RegAssumption DEF Regs
<1>3. mem \in [Regs -> Values] /\ window \in Values
  BY DEF IInv, TypeOK
<1>4. answers' = answers /\ want' = "none"
  BY DEF DeviceTakesData
<1>5. CASE AsksWindow
  <2>1. Access.reg = "0x4400" /\ Access.req = "get" /\ Access # W("e010", "none", "none")
    BY <1>5 DEF AsksWindow, W
  <2>2. mem' = mem /\ done' = done /\ window' = mem[call.reg]
    BY <1>2, <2>1 DEF DeviceTakesData
  <2>3. ~Stores /\ ~Commands /\ ~Clears
    BY <1>5 DEF AsksWindow, Stores, Commands, Clears
  <2> QED
    BY <1>1, <1>3, <1>4, <2>2, <2>3
<1>6. CASE Stores
  <2>1. /\ Access.reg = call.reg \/ (Access.reg = "0x4400" /\ Access.req = "put")
        /\ Access.req # "get"
    BY <1>6 DEF Stores, W
  <2>2. mem' = [mem EXCEPT ![call.reg] = Data] /\ done' = TRUE /\ window' \in {window, Data}
    BY <1>1, <1>2, <2>1 DEF DeviceTakesData
  <2>3. ~AsksWindow /\ ~Clears
    BY <1>6 DEF AsksWindow, Stores, Clears
  <2> QED
    BY <1>1, <1>3, <1>4, <2>2, <2>3
<1>7. CASE Commands
  <2>1. Access.reg = "e000" /\ call.reg = "e000"
    BY <1>7 DEF Commands, W
  <2>2. mem' = [mem EXCEPT ![call.reg] = Data] /\ done' = TRUE /\ window' = window
    BY <1>1, <1>2, <2>1 DEF DeviceTakesData
  <2>3. ~AsksWindow /\ ~Clears
    BY <1>7 DEF AsksWindow, Commands, Clears
  <2> QED
    BY <1>1, <1>3, <1>4, <2>2, <2>3
<1>8. CASE Clears
  <2>1. Access.reg = "e010"
    BY <1>8 DEF Clears, W
  <2>2. mem' = mem /\ done' = done /\ window' = window
    BY <1>2, <2>1 DEF DeviceTakesData
  <2>3. ~AsksWindow /\ ~Stores /\ ~Commands
    BY <1>8 DEF AsksWindow, Stores, Commands, Clears
  <2> QED
    BY <1>1, <1>3, <1>4, <2>2, <2>3
<1> QED
  BY <1>1, <1>5, <1>6, <1>7, <1>8

\* The driver takes the oldest answer; nobody reads before his own is there.
LEMMA AnswerTaken ==
  ASSUME IInv, call # Idle, phase = "data", Access.dir = "R", answers' = Tail(answers)
  PROVE  /\ answers # << >>
         /\ Head(answers) \in Values
         /\ answers' \in Seq(Values)
         /\ Len(answers') = Len(answers) - 1
         /\ Len(answers) = 1 => Head(answers) = ValueOf(Access.reg)
<1>1. answers \in Seq(Values) /\ Len(answers) >= 1
  BY DEF IInv, TypeOK, OwnAnswers
<1>2. answers[Len(answers)] = ValueOf(Access.reg)
  BY DEF IInv
<1> QED
  BY <1>1, <1>2

-----------------------------------------------------------------------------
LEMMA EmptyIsValue == {} \in Values
  BY DEF Values

LEMMA InitIInv == Init => IInv
  BY EmptyIsValue DEF Init, IInv, TypeOK, OwnAnswers

\* A call returns, whatever the device did.
LEMMA ReturnIInv ==
  ASSUME IInv, NEW ok \in BOOLEAN, NEW val \in Values, Return(ok, val),
         mem' \in [Regs -> Values], window' \in Values,
         want' \in Regs \cup {"none", "0x4400", "e010"},
         answers' \in Seq(Values), failures' \in Nat, Len(answers') <= failures'
  PROVE  IInv'
<1>1. /\ call' = Idle /\ pc' = 1 /\ phase' = "header" /\ tmp' = {}
      /\ ret' = [ok |-> ok, val |-> val]
  BY DEF Return
<1>2. OwnAnswers' = 0
  BY <1>1 DEF OwnAnswers
<1>3. Len(answers') \in 0..failures'
  OBVIOUS
<1>4. \A i \in 1..Len(answers') : answers'[i] \in Values
  OBVIOUS
<1>5. TypeOK'
  BY <1>1, <1>2, <1>3, <1>4, EmptyIsValue DEF TypeOK
<1> QED
  BY <1>1, <1>5 DEF IInv

\* A call goes on to its next access.
LEMMA NextIsInv ==
  ASSUME IInv, call # Idle, pc < Len(Accesses), pc' = pc + 1, phase' = "header",
         call' = call, ret' = ret, failures' = failures, tmp' \in Values,
         mem' \in [Regs -> Values], window' \in Values,
         want' \in Regs \cup {"none", "0x4400", "e010"},
         answers' \in Seq(Values), Len(answers') <= failures,
         Accesses[pc + 1] = R("0x4400") => window' = mem'[call.reg],
         Accesses[pc + 1].what = "mod" => tmp' = mem'[call.reg] \/ Len(answers') > 0,
         done' <=> call.reg = "e000" /\ pc + 1 > 2
  PROVE  IInv'
<1>1. Accesses' = Accesses /\ Access' = Accesses[pc + 1]
  BY SameCall DEF Access
<1>2. OwnAnswers' = 0
  BY DEF OwnAnswers
<1>3. pc' \in 1..Len(Accesses')
  BY <1>1, AccessTyped DEF IInv
<1>4. Len(answers') \in 0..failures' /\ \A i \in 1..Len(answers') : answers'[i] \in Values
  BY DEF IInv
<1>5. TypeOK'
  BY <1>2, <1>3, <1>4 DEF IInv, TypeOK
<1> QED
  BY <1>1, <1>5 DEF IInv

LEMMA CallIInv == IInv /\ Call => IInv'
<1> SUFFICES ASSUME IInv, Call
             PROVE  IInv'
  OBVIOUS
<1>1. (call \in Ops => /\ Len(Accesses) \in Nat \ {0}
                       /\ Accesses[1].what # "mod"
                       /\ Accesses[1] # R("0x4400"))'
  BY FirstAccess, PTL
<1>2. /\ call = Idle /\ call' \in Ops /\ pc' = 1 /\ phase' = "header" /\ done' = FALSE
      /\ UNCHANGED <<mem, window, want, answers, tmp, ret, failures>>
  BY DEF Call
<1>3. /\ Len(Accesses') \in Nat \ {0}
      /\ Access' = Accesses'[1] /\ Access'.what # "mod" /\ Access' # R("0x4400")
  BY <1>1, <1>2 DEF Access
<1>4. OwnAnswers = 0 /\ OwnAnswers' = 0
  BY <1>2 DEF OwnAnswers
<1>5. TypeOK'
  BY <1>2, <1>3, <1>4 DEF IInv, TypeOK
<1> QED
  BY <1>2, <1>3, <1>5 DEF IInv

LEMMA SendHeaderIInv == IInv /\ SendHeader => IInv'
<1> SUFFICES ASSUME IInv, SendHeader
             PROVE  IInv'
  OBVIOUS
<1>1. /\ call # Idle /\ phase = "header" /\ DeviceTakesHeader /\ phase' = "data"
      /\ UNCHANGED <<call, pc, tmp, ret, calls, failures>>
  BY DEF SendHeader
<1>2. Accesses' = Accesses /\ Access' = Access
  BY <1>1, SameCall DEF Access
<1>3. /\ mem' = mem /\ window' = window /\ done' = done
      /\ answers' \in Seq(Values)
      /\ want' \in Regs \cup {"none", "0x4400", "e010"}
      /\ Access.dir = "R" => /\ Len(answers') = Len(answers) + 1
                             /\ answers'[Len(answers')] = ValueOf(Access.reg)
      /\ Access.dir = "W" => answers' = answers /\ want' = Access.reg
  BY <1>1, HeaderTaken
<1>4. Access.dir \in {"R", "W"} /\ (Access.what = "mod" => Access.dir = "W")
  BY <1>1, AccessTyped DEF IInv, FetchesValue, Looks, R
<1>5. OwnAnswers = 0 /\ OwnAnswers' = IF Access.dir = "R" THEN 1 ELSE 0
  BY <1>1, <1>2 DEF OwnAnswers
<1>6. Len(answers') \in OwnAnswers'..(OwnAnswers' + failures')
  BY <1>1, <1>3, <1>4, <1>5 DEF IInv, TypeOK
<1>7. \A i \in 1..Len(answers') : answers'[i] \in Values
  BY <1>3
<1>8. TypeOK'
  BY <1>1, <1>2, <1>3, <1>6, <1>7 DEF IInv, TypeOK
<1>9. ValueOf(Access.reg)' = ValueOf(Access.reg)
  BY <1>2, <1>3 DEF ValueOf
<1> QED
  BY <1>1, <1>2, <1>3, <1>4, <1>8, <1>9 DEF IInv

\* What an access whose transfers are both done leaves for the next one.
LEMMA OwnAnswer ==
  ASSUME IInv, call # Idle, FetchesValue, Head(answers) = ValueOf(Access.reg)
  PROVE  Head(answers) = mem[call.reg]
<1>1. CASE Access = R(call.reg) /\ call.reg \in PlainRegs
  BY <1>1, RegAssumption DEF R, ValueOf
<1>2. CASE Access = R("0x4400")
  BY <1>2 DEF R, ValueOf, IInv
<1> QED
  BY <1>1, <1>2 DEF FetchesValue

LEMMA SendDataIInv == IInv /\ SendData => IInv'
<1> SUFFICES ASSUME IInv, SendData
             PROVE  IInv'
  OBVIOUS
<1>1. /\ call # Idle /\ phase = "data" /\ Access.dir = "W" /\ DeviceTakesData
      /\ NextAccess(tmp) /\ failures' = failures
  BY DEF SendData
<1>2. /\ answers' = answers /\ want' = "none"
      /\ mem' \in [Regs -> Values] /\ window' \in Values
      /\ AsksWindow => mem' = mem /\ done' = done /\ window' = mem[call.reg]
      /\ Stores \/ Commands => done' = TRUE
  BY <1>1, DataTaken
<1>3. tmp \in Values /\ failures \in Nat /\ answers \in Seq(Values) /\ Len(answers) <= failures
  BY <1>1 DEF IInv, TypeOK, OwnAnswers
<1>4. CASE pc < Len(Accesses)
  <2>1. AsksWindow \/ Commands
    BY <1>1, <1>4, AccessTyped DEF IInv, Stores, Clears
  <2>2. /\ pc' = pc + 1 /\ phase' = "header" /\ tmp' = tmp
        /\ UNCHANGED <<call, ret, calls>>
    BY <1>1, <1>4 DEF NextAccess
  <2>3. done <=> call.reg = "e000" /\ pc > 2
    BY <1>1 DEF IInv
  <2>4. CASE AsksWindow
    <3>1. /\ Accesses[pc + 1].what # "mod" /\ window' = mem'[call.reg]
          /\ done' <=> call.reg = "e000" /\ pc + 1 > 2
      BY <1>2, <2>3, <2>4 DEF AsksWindow, R
    <3> QED
      BY <1>1, <1>2, <1>3, <1>4, <2>2, <3>1, NextIsInv
  <2>5. CASE Commands
    <3>1. /\ Accesses[pc + 1].what # "mod" /\ Accesses[pc + 1] # R("0x4400")
          /\ done' <=> call.reg = "e000" /\ pc + 1 > 2
      BY <1>2, <2>5 DEF Commands, R
    <3> QED
      BY <1>1, <1>2, <1>3, <1>4, <2>2, <3>1, NextIsInv
  <2> QED
    BY <2>1, <2>4, <2>5
<1>5. CASE ~(pc < Len(Accesses))
  <2>1. Return(TRUE, IF call.op = "read" THEN tmp ELSE {})
    BY <1>1, <1>5 DEF NextAccess
  <2>2. (IF call.op = "read" THEN tmp ELSE {}) \in Values
    BY <1>3, EmptyIsValue
  <2> QED
    BY <1>1, <1>2, <1>3, <2>1, <2>2, ReturnIInv
<1> QED
  BY <1>4, <1>5

LEMMA FetchDataIInv == IInv /\ FetchData => IInv'
<1> SUFFICES ASSUME IInv, FetchData
             PROVE  IInv'
  OBVIOUS
<1>1. /\ call # Idle /\ phase = "data" /\ Access.dir = "R"
      /\ answers' = Tail(answers) /\ NextAccess(Head(answers))
      /\ UNCHANGED <<mem, window, want, done, failures>>
  BY DEF FetchData
<1>2. /\ Head(answers) \in Values /\ answers' \in Seq(Values)
      /\ Len(answers') = Len(answers) - 1
      /\ Len(answers) = 1 => Head(answers) = ValueOf(Access.reg)
  BY <1>1, AnswerTaken
<1>3. /\ mem \in [Regs -> Values] /\ window \in Values /\ failures \in Nat
      /\ want \in Regs \cup {"none", "0x4400", "e010"}
      /\ Len(answers) \in 1..(1 + failures)
      /\ done <=> call.reg = "e000" /\ pc > 2
  BY <1>1 DEF IInv, TypeOK, OwnAnswers
<1>4. Len(answers') <= failures /\ (Len(answers) # 1 => Len(answers') > 0)
  BY <1>2, <1>3
<1>5. FetchesValue \/ Looks
  BY <1>1, AccessTyped DEF IInv
<1>6. CASE pc < Len(Accesses)
  <2>1. /\ pc' = pc + 1 /\ phase' = "header" /\ tmp' = Head(answers)
        /\ UNCHANGED <<call, ret, calls>>
    BY <1>1, <1>6 DEF NextAccess
  <2>2. Accesses[pc + 1].dir = "W"
    BY <1>5, <1>6 DEF FetchesValue, Looks
  <2>3. Accesses[pc + 1] # R("0x4400")
    BY <2>2 DEF R
  <2>4. Accesses[pc + 1].what = "mod" => tmp' = mem'[call.reg] \/ Len(answers') > 0
    <3>1. CASE FetchesValue
      BY <1>1, <1>2, <1>4, <2>1, <3>1, OwnAnswer
    <3>2. CASE Looks
      BY <3>2 DEF Looks
    <3> QED
      BY <1>5, <3>1, <3>2
  <2>5. done' <=> call.reg = "e000" /\ pc + 1 > 2
    BY <1>1, <1>3, <1>5 DEF FetchesValue, Looks
  <2> QED
    BY <1>1, <1>2, <1>3, <1>4, <1>6, <2>1, <2>3, <2>4, <2>5, NextIsInv
<1>7. CASE ~(pc < Len(Accesses))
  <2>1. Return(TRUE, IF call.op = "read" THEN Head(answers) ELSE {})
    BY <1>1, <1>7 DEF NextAccess
  <2>2. (IF call.op = "read" THEN Head(answers) ELSE {}) \in Values
    BY <1>2, EmptyIsValue
  <2> QED
    BY <1>1, <1>2, <1>3, <1>4, <2>1, <2>2, ReturnIInv
<1> QED
  BY <1>6, <1>7

LEMMA TransferFailsIInv == IInv /\ TransferFails => IInv'
<1> SUFFICES ASSUME IInv, TransferFails
             PROVE  IInv'
  OBVIOUS
<1>1. call # Idle /\ failures' = failures + 1 /\ Return(FALSE, {})
  BY DEF TransferFails
<1>2. /\ mem \in [Regs -> Values] /\ window \in Values /\ failures \in Nat
      /\ want \in Regs \cup {"none", "0x4400", "e010"}
      /\ answers \in Seq(Values) /\ Len(answers) <= 1 + failures
      /\ phase = "header" \/ Access.dir = "W" => Len(answers) <= failures
  BY DEF IInv, TypeOK, OwnAnswers
<1>3. ASSUME mem' \in [Regs -> Values], window' \in Values,
             want' \in Regs \cup {"none", "0x4400", "e010"},
             answers' \in Seq(Values), Len(answers') <= failures + 1
      PROVE  IInv'
  <2>1. failures' \in Nat /\ Len(answers') <= failures'
    BY <1>1, <1>2, <1>3
  <2> QED
    BY <1>1, <1>3, <2>1, EmptyIsValue, ReturnIInv
<1>4. CASE UNCHANGED deviceVars
  BY <1>2, <1>3, <1>4 DEF deviceVars
<1>5. CASE phase = "header" /\ DeviceTakesHeader
  <2>1. Len(answers') <= failures + 1
    BY <1>1, <1>2, <1>5, HeaderTaken, AccessTyped DEF IInv
  <2> QED
    BY <1>1, <1>2, <1>3, <1>5, <2>1, HeaderTaken
<1>6. CASE phase = "data" /\ Access.dir = "W" /\ DeviceTakesData
  BY <1>1, <1>2, <1>3, <1>6, DataTaken
<1>7. CASE phase = "data" /\ Access.dir = "R" /\ answers' = Tail(answers)
             /\ UNCHANGED <<mem, window, want, done>>
  BY <1>1, <1>2, <1>3, <1>7, AnswerTaken
<1> QED
  BY <1>4, <1>5, <1>6, <1>7 DEF TransferFails

LEMMA NextIInv == IInv /\ [Next]_vars => IInv'
<1>1. IInv /\ UNCHANGED vars => IInv'
  BY DEF vars, IInv, TypeOK, OwnAnswers, Access, Accesses, ValueOf, tvw_read_reg, tvw_write_reg,
         tvw_rmw_reg, tvw_uc_read_reg, tvw_uc_write_reg, tvw_uc_rmw_reg, tvw_e0_magic, R, W
<1> QED
  BY <1>1, CallIInv, SendHeaderIInv, SendDataIInv, FetchDataIInv, TransferFailsIInv DEF Next

LEMMA Inductive == Spec => []IInv
  BY InitIInv, NextIInv, PTL DEF Spec

\* For any registers, calls and failures: the device waits for data only of the
\* write that is between its transfers or was given up there, and at most one
\* answer waits for each read that was given up.
THEOREM TypeCorrect == Spec => []TypeOK
<1>1. IInv => TypeOK
  BY DEF IInv
<1> QED
  BY <1>1, Inductive, PTL

-----------------------------------------------------------------------------
\* stale of Registers is Len(answers) > OwnAnswers.
\* The data of an access with an effect is what Registers computes.
LEMMA EffectTaken ==
  ASSUME IInv, call # Idle, phase = "data", Stores \/ Commands,
         mem' = [mem EXCEPT ![call.reg] = Data]
  PROVE  Abstract!TakeEffect
<1>1. /\ call \in Ops /\ tmp \in Values /\ mem[call.reg] \in Values /\ answers \in Seq(Values)
      /\ done <=> call.reg = "e000" /\ pc > 2
  BY AccessTyped DEF IInv, TypeOK
<1>2. ~done /\ call.op \in {"write", "rmw"} /\ Access.dir = "W"
  BY <1>1 DEF Stores, Commands, W
<1>3. OwnAnswers = 0
  BY <1>2 DEF OwnAnswers
<1>4. CASE Access.what = "set" /\ call.keep = {}
  <2>1. Data = (mem[call.reg] \cap call.keep) \cup call.set
    BY <1>4 DEF Data
  <2>2. Abstract!Seen(mem[call.reg])
    BY DEF Abstract!Seen
  <2> QED
    BY <1>1, <1>2, <2>1, <2>2 DEF Abstract!TakeEffect, Abstract!Values, Values
<1>5. CASE Access.what = "mod"
  <2>1. Data = (tmp \cap call.keep) \cup call.set
    BY <1>5 DEF Data
  <2>2. Abstract!Seen(tmp)
    BY <1>1, <1>3, <1>5 DEF IInv, Abstract!Seen
  <2> QED
    BY <1>1, <1>2, <2>1, <2>2 DEF Abstract!TakeEffect, Abstract!Values, Values
<1> QED
  BY <1>4, <1>5 DEF Stores, Commands, W

LEMMA InitMapped == Init => Abstract!Init
  BY DEF Init, OwnAnswers, Idle, Values, Abstract!Init, Abstract!Idle, Abstract!Values

LEMMA CallMapped ==
  ASSUME IInv, Call
  PROVE  Abstract!Next
<1>1. /\ call = Idle /\ call' \in Ops /\ call' # Idle /\ phase' = "header" /\ done' = FALSE
      /\ UNCHANGED <<mem, answers, ret>>
  BY OpsTyped DEF Call
<1>2. call' \in Abstract!Ops
  BY <1>1, EmptyIsValue
  DEF Ops, Op, Abstract!Ops, Values, Abstract!Values
<1>3. OwnAnswers = 0 /\ OwnAnswers' = 0
  BY <1>1 DEF OwnAnswers
<1>4. Abstract!Call(call')
  BY <1>1, <1>3 DEF Abstract!Call, Idle, Abstract!Idle
<1> QED
  BY <1>2, <1>4 DEF Abstract!Next

LEMMA SendHeaderMapped ==
  ASSUME IInv, SendHeader
  PROVE  UNCHANGED Abstract!vars
<1>1. /\ call # Idle /\ phase = "header" /\ DeviceTakesHeader /\ phase' = "data"
      /\ UNCHANGED <<call, pc, ret>>
  BY DEF SendHeader
<1>2. Access' = Access
  BY <1>1, SameCall DEF Access
<1>3. /\ mem' = mem /\ done' = done /\ answers' \in Seq(Values)
      /\ Access.dir = "R" => Len(answers') = Len(answers) + 1
      /\ Access.dir = "W" => answers' = answers
  BY <1>1, HeaderTaken
<1>4. Access.dir \in {"R", "W"}
  BY <1>1, AccessTyped DEF IInv
<1>5. OwnAnswers = 0 /\ OwnAnswers' = IF Access.dir = "R" THEN 1 ELSE 0
  BY <1>1, <1>2 DEF OwnAnswers
<1>6. (Len(answers) > OwnAnswers)' = (Len(answers) > OwnAnswers)
  BY <1>3, <1>4, <1>5 DEF IInv
<1> QED
  BY <1>1, <1>3, <1>6 DEF Abstract!vars

\* The driver's side of the end of an access: stale stays what it was.
LEMMA AccessEnds ==
  ASSUME IInv, call # Idle, phase = "data", NEW val, NextAccess(val),
         \/ Access.dir = "W" /\ answers' = answers
         \/ Access.dir = "R" /\ answers' = Tail(answers)
  PROVE  /\ (Len(answers) > OwnAnswers)' = (Len(answers) > OwnAnswers)
         /\ pc < Len(Accesses) => call' = call /\ ret' = ret
         /\ ~(pc < Len(Accesses)) =>
                /\ call' = Idle
                /\ ret' = [ok |-> TRUE, val |-> IF call.op = "read" THEN val ELSE {}]
<1>1. phase' = "header"
  BY DEF NextAccess, Return
<1>2. OwnAnswers' = 0
  BY <1>1 DEF OwnAnswers
<1>3. OwnAnswers = IF Access.dir = "R" THEN 1 ELSE 0
  BY DEF OwnAnswers
<1>4. (Len(answers) > OwnAnswers)' = (Len(answers) > OwnAnswers)
  <2>1. CASE Access.dir = "W" /\ answers' = answers
    BY <1>2, <1>3, <2>1
  <2>2. CASE Access.dir = "R" /\ answers' = Tail(answers)
    <3>1. Len(answers') = Len(answers) - 1 /\ Len(answers) \in Nat
      BY <2>2, AnswerTaken DEF IInv
    <3> QED
      BY <1>2, <1>3, <2>2, <3>1
  <2> QED
    BY <2>1, <2>2
<1> QED
  BY <1>4 DEF NextAccess, Return

LEMMA SendDataMapped ==
  ASSUME IInv, SendData
  PROVE  Abstract!Next \/ UNCHANGED Abstract!vars
<1>1. /\ call # Idle /\ phase = "data" /\ Access.dir = "W" /\ DeviceTakesData
      /\ NextAccess(tmp)
  BY DEF SendData
<1>2. /\ answers' = answers
      /\ AsksWindow => mem' = mem /\ done' = done
      /\ Stores \/ Commands => /\ mem' = [mem EXCEPT ![call.reg] = Data]
                               /\ done' = TRUE
      /\ Clears => mem' = mem /\ done' = done
  BY <1>1, DataTaken
<1>3. /\ (Len(answers) > OwnAnswers)' = (Len(answers) > OwnAnswers)
      /\ pc < Len(Accesses) => call' = call /\ ret' = ret
      /\ ~(pc < Len(Accesses)) =>
             /\ call' = Idle
             /\ ret' = [ok |-> TRUE, val |-> IF call.op = "read" THEN tmp ELSE {}]
  BY <1>1, <1>2, AccessEnds
<1>4. /\ call \in Ops /\ pc \in 1..Len(Accesses)
      /\ AsksWindow \/ Stores \/ Commands \/ Clears
  BY <1>1, AccessTyped DEF IInv
<1>5. Abstract!Idle = Idle
  BY DEF Idle, Abstract!Idle
<1>6. CASE AsksWindow
  BY <1>2, <1>3, <1>6 DEF AsksWindow, Abstract!vars
<1>7. CASE Stores
  <2>1. Abstract!TakeEffect
    BY <1>1, <1>2, <1>7, EffectTaken
  <2>2. call' = Idle /\ ret' = [ok |-> TRUE, val |-> {}]
    BY <1>3, <1>4, <1>7 DEF Stores
  <2>3. Abstract!Return(TRUE, {})
    BY <1>5, <2>2 DEF Abstract!Return
  <2>4. Abstract!ReturnTrue
    BY <1>1, <1>3, <1>5, <2>1, <2>3 DEF Abstract!ReturnTrue
  <2> QED
    BY <2>4 DEF Abstract!Next
<1>8. CASE Commands
  <2>1. Abstract!TakeEffect
    BY <1>1, <1>2, <1>8, EffectTaken
  <2>2. call' = call /\ ret' = ret
    BY <1>3, <1>8 DEF Commands
  <2>3. Abstract!Effect
    BY <1>1, <1>2, <1>3, <1>5, <1>8, <2>1, <2>2 DEF Abstract!Effect
  <2> QED
    BY <2>3 DEF Abstract!Next
<1>9. CASE Clears
  <2>1. call' = Idle /\ ret' = [ok |-> TRUE, val |-> {}] /\ call.op = "write"
    <3>1. pc = 4 /\ Len(Accesses) = 4 /\ call.op = "write"
      BY <1>9 DEF Clears
    <3>2. ~(pc < Len(Accesses))
      BY <3>1
    <3> QED
      BY <1>3, <3>1, <3>2
  <2>2. done /\ mem' = mem
    BY <1>1, <1>2, <1>9 DEF IInv, Clears
  <2>3. Abstract!Return(TRUE, {})
    BY <1>5, <2>1 DEF Abstract!Return
  <2>4. Abstract!ReturnTrue
    BY <1>1, <1>3, <1>5, <2>1, <2>2, <2>3 DEF Abstract!ReturnTrue
  <2> QED
    BY <2>4 DEF Abstract!Next
<1> QED
  BY <1>4, <1>6, <1>7, <1>8, <1>9

LEMMA FetchDataMapped ==
  ASSUME IInv, FetchData
  PROVE  Abstract!Next \/ UNCHANGED Abstract!vars
<1>1. /\ call # Idle /\ phase = "data" /\ Access.dir = "R"
      /\ answers' = Tail(answers) /\ NextAccess(Head(answers))
      /\ mem' = mem /\ done' = done
  BY DEF FetchData
<1>2. /\ Head(answers) \in Values
      /\ Len(answers) = 1 => Head(answers) = ValueOf(Access.reg)
      /\ Len(answers) \in Nat /\ Len(answers) >= 1 /\ OwnAnswers = 1
  BY <1>1, AnswerTaken DEF IInv, TypeOK, OwnAnswers
<1>3. /\ (Len(answers) > OwnAnswers)' = (Len(answers) > OwnAnswers)
      /\ pc < Len(Accesses) => call' = call /\ ret' = ret
      /\ ~(pc < Len(Accesses)) =>
             /\ call' = Idle
             /\ ret' = [ok |-> TRUE, val |-> IF call.op = "read" THEN Head(answers) ELSE {}]
  BY <1>1, AccessEnds
<1>4. pc \in 1..Len(Accesses) /\ (FetchesValue \/ Looks)
  BY <1>1, AccessTyped DEF IInv
<1>5. CASE pc < Len(Accesses)
  BY <1>1, <1>3, <1>5 DEF Abstract!vars
<1>6. CASE ~(pc < Len(Accesses))
  <2>1. FetchesValue /\ call.op = "read"
    BY <1>4, <1>6 DEF FetchesValue, Looks
  <2>2. Abstract!Seen(Head(answers))
    <3>1. CASE Len(answers) = 1
      BY <1>1, <1>2, <2>1, <3>1, OwnAnswer DEF Abstract!Seen
    <3>2. CASE Len(answers) # 1
      <4>1. Len(answers) > OwnAnswers
        BY <1>2, <3>2
      <4> QED
        BY <4>1 DEF Abstract!Seen
    <3> QED
      BY <3>1, <3>2
  <2>3. Abstract!Return(TRUE, Head(answers))
    BY <1>3, <1>6, <2>1 DEF Abstract!Return, Idle, Abstract!Idle
  <2>4. Abstract!ReturnTrue
    BY <1>1, <1>2, <1>3, <2>1, <2>2, <2>3
    DEF Abstract!ReturnTrue, Idle, Abstract!Idle, Values, Abstract!Values
  <2> QED
    BY <2>4 DEF Abstract!Next
<1> QED
  BY <1>5, <1>6

LEMMA TransferFailsMapped ==
  ASSUME IInv, TransferFails
  PROVE  Abstract!Next
<1>1. call # Idle /\ Return(FALSE, {})
  BY DEF TransferFails
<1>2. call' = Idle /\ ret' = [ok |-> FALSE, val |-> {}] /\ OwnAnswers' = 0
  BY <1>1 DEF Return, OwnAnswers
<1>3. mem' = mem \/ Abstract!TakeEffect
  <2>1. CASE UNCHANGED deviceVars
    BY <2>1 DEF deviceVars
  <2>2. CASE phase = "header" /\ DeviceTakesHeader
    BY <1>1, <2>2, HeaderTaken
  <2>3. CASE phase = "data" /\ Access.dir = "W" /\ DeviceTakesData
    BY <1>1, <2>3, DataTaken, EffectTaken, AccessTyped DEF IInv
  <2>4. CASE phase = "data" /\ UNCHANGED <<mem, window, want, done>>
    BY <2>4
  <2> QED
    BY <2>1, <2>2, <2>3, <2>4 DEF TransferFails
<1>4. Len(answers) > OwnAnswers => Len(answers') > OwnAnswers'
  <2>1. Len(answers) \in Nat /\ OwnAnswers \in {0, 1}
    BY DEF IInv, OwnAnswers
  <2>2. CASE UNCHANGED deviceVars
    BY <1>2, <2>1, <2>2 DEF deviceVars
  <2>3. CASE phase = "header" /\ DeviceTakesHeader
    <3>1. Len(answers') \in Nat /\ Len(answers') >= Len(answers)
      BY <1>1, <2>1, <2>3, HeaderTaken, AccessTyped DEF IInv
    <3> QED
      BY <1>2, <2>1, <3>1
  <2>4. CASE phase = "data" /\ Access.dir = "W" /\ DeviceTakesData
    <3>1. answers' = answers
      BY <2>4 DEF DeviceTakesData
    <3> QED
      BY <1>2, <2>1, <3>1
  <2>5. CASE phase = "data" /\ Access.dir = "R" /\ answers' = Tail(answers)
    <3>1. Len(answers') = Len(answers) - 1 /\ OwnAnswers = 1
      BY <1>1, <2>5, AnswerTaken DEF OwnAnswers
    <3> QED
      BY <1>2, <2>1, <3>1
  <2> QED
    BY <2>2, <2>3, <2>4, <2>5 DEF TransferFails
<1>5. Abstract!Return(FALSE, {})
  BY <1>2 DEF Abstract!Return, Idle, Abstract!Idle
<1>6. (Len(answers) > OwnAnswers)' \in BOOLEAN
  OBVIOUS
<1>7. Abstract!Idle = Idle
  BY DEF Idle, Abstract!Idle
<1>8. Abstract!ReturnFalse
  BY <1>1, <1>3, <1>4, <1>5, <1>6, <1>7 DEF Abstract!ReturnFalse
<1> QED
  BY <1>8 DEF Abstract!Next

\* For any registers, calls and failures of transfers: the functions of util.c on
\* registers, with their two to eight transfers, are single accesses that return
\* true only after their effect and with the register's value, unless the answer
\* to a read that was given up is still under way.
THEOREM Implements == Spec => ImplementsRegisters
<1>1. IInv /\ [Next]_vars => [Abstract!Next]_(Abstract!vars)
  <2> SUFFICES ASSUME IInv, [Next]_vars
               PROVE  Abstract!Next \/ UNCHANGED Abstract!vars
    OBVIOUS
  <2>1. CASE Call
    BY <2>1, CallMapped
  <2>2. CASE SendHeader
    BY <2>2, SendHeaderMapped
  <2>3. CASE SendData
    BY <2>3, SendDataMapped
  <2>4. CASE FetchData
    BY <2>4, FetchDataMapped
  <2>5. CASE TransferFails
    BY <2>5, TransferFailsMapped
  <2>6. CASE UNCHANGED vars
    BY <2>6, SameCall DEF vars, Abstract!vars, OwnAnswers, Access
  <2> QED
    BY <2>1, <2>2, <2>3, <2>4, <2>5, <2>6 DEF Next
<1> QED
  BY <1>1, InitMapped, Inductive, PTL DEF Spec, ImplementsRegisters, Abstract!Spec

=============================================================================
