-------------------------- MODULE RegisterTransport --------------------------
(***************************************************************************)
(* Register accesses (util.c): internal_read_reg and internal_write_reg    *)
(* are two bulk transfers each, a header and the data, on the endpoints    *)
(* 0x03 and 0x82; the functions above them are sequences of such accesses: *)
(* tvw_rmw_reg reads and writes, tvw_uc_read_reg and tvw_uc_write_reg      *)
(* reach the registers of the 8051 through the window register 0x4400, and *)
(* tvw_e0_magic leaves a command in E000.                                  *)
(*                                                                         *)
(* Any transfer may fail, and then it may have reached the device or not.  *)
(* The device keeps the answers to reads on endpoint 0x82 until they are   *)
(* fetched: whoever reads next gets the oldest.  Nothing in an answer says *)
(* which register it is of.                                                *)
(*                                                                         *)
(* External, as the code uses it: the device tells a header from data by   *)
(* the complement of register and page at its end, so a header is never    *)
(* taken for the data of a write that was given up.                        *)
(***************************************************************************)
EXTENDS Integers, Sequences

CONSTANTS
    PlainRegs,     \* registers of page 0x2000
    UcRegs,        \* registers of the 8051, reached through 0x4400
    Bits,          \* bits of a register
    MaxCalls,      \* bound: register functions called
    MaxFailures    \* bound: transfers that fail

ASSUME RegAssumption ==
    /\ PlainRegs \cap UcRegs = {}
    /\ {"e000", "e010", "0x4400", "none"} \cap (PlainRegs \cup UcRegs) = {}

ASSUME BoundAssumption == MaxCalls \in Nat /\ MaxFailures \in Nat

Regs == PlainRegs \cup UcRegs \cup {"e000"}
Values == SUBSET Bits

VARIABLES
    mem,       \* mem[r]: value of register r
    window,    \* value in 0x4400, as read back: the register byte
    want,      \* register whose data the device waits for after a write header
    answers,   \* answers on endpoint 0x82, oldest first
    call,      \* running register function, Idle if none
    pc,        \* index of its access
    phase,     \* transfer of the access: "header" or "data"
    tmp,       \* what its last read returned
    done,      \* history: its effect has reached the device
    ret,       \* result of the last call
    calls,     \* number of calls made
    failures   \* number of transfers failed

vars == <<mem, window, want, answers, call, pc, phase, tmp, done, ret, calls, failures>>
driver == <<call, pc, phase, tmp, ret, calls>>
deviceVars == <<mem, window, want, answers, done>>

-----------------------------------------------------------------------------
\* The register functions.  tvw_reg_has_bits_set is a read for this purpose.
Op(op, r, keep, set) == [op |-> op, reg |-> r, keep |-> keep, set |-> set]

Ops ==
    {Op("read", r, {}, {}) : r \in Regs \ {"e000"}}
    \cup {Op("write", r, {}, v) : r \in Regs, v \in Values}
    \cup {Op("rmw", r, k, v) : r \in Regs \ {"e000"}, k \in Values, v \in Values}

Idle == [op |-> "idle"]

\* An access: of which register, and what is written, "tmp" for what a
\* read-modify-write makes of the value read.
R(r) == [dir |-> "R", reg |-> r, req |-> "none", what |-> "none"]
W(r, req, what) == [dir |-> "W", reg |-> r, req |-> req, what |-> what]

tvw_read_reg == <<R(call.reg)>>
tvw_write_reg == <<W(call.reg, "none", "set")>>

\* Mutant of tvw_rmw_reg: the register is read after it was written.
RmwLateRead == <<W(call.reg, "none", "mod"), R(call.reg)>>

tvw_rmw_reg == <<R(call.reg), W(call.reg, "none", "mod")>>

tvw_uc_read_reg == <<W("0x4400", "get", "none"), R("0x4400")>>
tvw_uc_write_reg == <<W("0x4400", "put", "set")>>
tvw_uc_rmw_reg == <<W("0x4400", "get", "none"), R("0x4400"), W("0x4400", "put", "mod")>>

\* The command is written to E000, between reads of E000 and E010 whose answers
\* are not looked at, and E010 is cleared.
tvw_e0_magic == <<R("e000"), W("e000", "none", "set"), R("e010"), W("e010", "none", "none")>>

Accesses ==
    LET Via(plain, window_) == IF call.reg \in PlainRegs THEN plain ELSE window_
    IN  IF call.reg = "e000" THEN tvw_e0_magic
        ELSE IF call.op = "read" THEN Via(tvw_read_reg, tvw_uc_read_reg)
        ELSE IF call.op = "write" THEN Via(tvw_write_reg, tvw_uc_write_reg)
        ELSE Via(tvw_rmw_reg, tvw_uc_rmw_reg)

Access == Accesses[pc]

Data ==
    IF Access.what = "set" THEN call.set
    ELSE IF Access.what = "mod" THEN (tmp \cap call.keep) \cup call.set
    ELSE {}

-----------------------------------------------------------------------------
Init ==
    /\ mem \in [Regs -> Values]
    /\ window = {}
    /\ want = "none"
    /\ answers = << >>
    /\ call = Idle
    /\ pc = 1
    /\ phase = "header"
    /\ tmp = {}
    /\ done = FALSE
    /\ ret = [ok |-> TRUE, val |-> {}]
    /\ calls = 0
    /\ failures = 0

Call ==
    /\ call = Idle
    /\ calls < MaxCalls
    /\ call' \in Ops
    /\ calls' = calls + 1
    /\ pc' = 1
    /\ phase' = "header"
    /\ done' = FALSE
    /\ UNCHANGED <<mem, window, want, answers, tmp, ret, failures>>

\* The device's side of a header and of written data.
ValueOf(r) == IF r = "0x4400" THEN window ELSE IF r = "e010" THEN {} ELSE mem[r]

DeviceTakesHeader ==
    /\ IF Access.dir = "R"
       THEN /\ answers' = Append(answers, ValueOf(Access.reg))
            /\ want' = "none"
       ELSE /\ want' = Access.reg
            /\ UNCHANGED answers
    /\ UNCHANGED <<mem, window, done>>

DeviceTakesData ==
    /\ want' = "none"
    /\ \/ /\ Access.reg = "0x4400" /\ Access.req = "get"
          /\ window' = mem[call.reg]
          /\ UNCHANGED <<mem, done>>
       \/ /\ Access.reg = "0x4400" /\ Access.req = "put"
          /\ mem' = [mem EXCEPT ![call.reg] = Data]
          /\ window' = Data
          /\ done' = TRUE
       \/ Access.reg = "e010" /\ UNCHANGED <<mem, window, done>>
       \/ /\ Access.reg \in Regs
          /\ mem' = [mem EXCEPT ![Access.reg] = Data]
          /\ done' = TRUE
          /\ UNCHANGED window
    /\ UNCHANGED answers

\* The end of the call; a read's value is what its last access brought.
Return(ok, val) ==
    /\ ret' = [ok |-> ok, val |-> val]
    /\ call' = Idle
    /\ pc' = 1
    /\ phase' = "header"
    /\ tmp' = {}
    /\ UNCHANGED calls

\* After the data of an access: the next access, or true.
NextAccess(val) ==
    IF pc < Len(Accesses)
    THEN /\ pc' = pc + 1
         /\ phase' = "header"
         /\ tmp' = val
         /\ UNCHANGED <<call, ret, calls>>
    ELSE Return(TRUE, IF call.op = "read" THEN val ELSE {})

\* libusb_bulk_transfer of the header.
SendHeader ==
    /\ call # Idle
    /\ phase = "header"
    /\ DeviceTakesHeader
    /\ phase' = "data"
    /\ UNCHANGED <<call, pc, tmp, ret, calls, failures>>

\* libusb_bulk_transfer of the data of a write.
SendData ==
    /\ call # Idle
    /\ phase = "data"
    /\ Access.dir = "W"
    /\ DeviceTakesData
    /\ NextAccess(tmp)
    /\ UNCHANGED failures

\* Mutant of FetchData: the read asks for no bytes, as the odd read of the code
\* would without its rlen, and the answer stays.
FetchDataNoBytes ==
    /\ call # Idle
    /\ phase = "data"
    /\ Access.dir = "R"
    /\ answers # << >>
    /\ NextAccess(Head(answers))
    /\ UNCHANGED <<mem, window, want, answers, done, failures>>

\* libusb_bulk_transfer of the data of a read: the oldest answer, whatever it is
\* the answer to.
FetchData ==
    /\ call # Idle
    /\ phase = "data"
    /\ Access.dir = "R"
    /\ answers # << >>
    /\ answers' = Tail(answers)
    /\ NextAccess(Head(answers))
    /\ UNCHANGED <<mem, window, want, done, failures>>

\* A transfer fails, after it reached the device or before, and the function
\* returns false; an answer that was not fetched stays.
TransferFails ==
    /\ call # Idle
    /\ failures < MaxFailures
    /\ failures' = failures + 1
    /\ Return(FALSE, {})
    /\ \/ UNCHANGED deviceVars
       \/ phase = "header" /\ DeviceTakesHeader
       \/ phase = "data" /\ Access.dir = "W" /\ DeviceTakesData
       \/ phase = "data" /\ Access.dir = "R" /\ answers # << >>
             /\ answers' = Tail(answers) /\ UNCHANGED <<mem, window, want, done>>

Next == Call \/ SendHeader \/ SendData \/ FetchData \/ TransferFails

Spec == Init /\ [][Next]_vars

-----------------------------------------------------------------------------
\* The running call's own answer is the last one, from its header on.
OwnAnswers == IF call # Idle /\ phase = "data" /\ Access.dir = "R" THEN 1 ELSE 0

\* Type invariant: the device waits for data exactly while a write is between
\* its two transfers or was given up there, and no more answers wait than reads
\* were given up.
TypeOK ==
    /\ mem \in [Regs -> Values]
    /\ window \in Values
    /\ want \in Regs \cup {"none", "0x4400", "e010"}
    /\ Len(answers) \in OwnAnswers..(OwnAnswers + failures)
    /\ \A i \in 1..Len(answers) : answers[i] \in Values
    /\ call \in Ops \cup {Idle}
    /\ call # Idle => pc \in 1..Len(Accesses)
    /\ call # Idle /\ phase = "data" /\ Access.dir = "W" => want = Access.reg
    /\ phase \in {"header", "data"}
    /\ tmp \in Values
    /\ ret \in [ok : BOOLEAN, val : Values]

\* Every register function, with its two to eight transfers, is one access of
\* one register to its caller (Registers): it returns true only after its effect
\* and with the register's value, it has its effect once, a read that failed is
\* never the ground of a write, and only after a read that was given up can a
\* later call see a value that is not its register's.
Abstract == INSTANCE Registers WITH
    done <- done /\ call # Idle,
    stale <- Len(answers) > OwnAnswers

ImplementsRegisters == Abstract!Spec

=============================================================================
