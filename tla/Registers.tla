------------------------------ MODULE Registers ------------------------------
(***************************************************************************)
(* What the register functions of util.c promise: one call at a time, each *)
(* with one effect on one register of the device, which happens while the  *)
(* call runs.  A call that returns true had its effect and, unless the     *)
(* answer to an abandoned read may still be under way (stale), returns the *)
(* register's value.  A call that returns false may have had its effect.   *)
(*                                                                         *)
(* A read-modify-write computes from a value it has read, so only when     *)
(* nothing is stale does it keep the bits it should keep.  Modules         *)
(* OpenClose and I2CMaster take register accesses in this form; in         *)
(* ServiceCall the answers that are left stand in a queue, as they do in   *)
(* RegisterTransport.                                                      *)
(***************************************************************************)
EXTENDS Integers

CONSTANTS
    Regs,      \* registers of the device, those behind the window 0x4400 included
    Bits       \* bits of a register

Values == SUBSET Bits

Ops ==
    [op : {"read"}, reg : Regs, keep : {{}}, set : {{}}]
    \cup [op : {"write"}, reg : Regs, keep : {{}}, set : Values]
    \cup [op : {"rmw"}, reg : Regs, keep : Values, set : Values]

Idle == [op |-> "idle"]

VARIABLES
    mem,       \* mem[r]: value of register r
    call,      \* the running call, Idle if none
    done,      \* the running call has had its effect
    ret,       \* result of the last call
    stale      \* an answer that nobody has read may still come

vars == <<mem, call, done, ret, stale>>

Init ==
    /\ mem \in [Regs -> Values]
    /\ call = Idle
    /\ done = FALSE
    /\ ret = [ok |-> TRUE, val |-> {}]
    /\ stale = FALSE

Call(op) ==
    /\ call = Idle
    /\ call' = op
    /\ done' = FALSE
    /\ UNCHANGED <<mem, ret, stale>>

\* The value a modification starts from.
Seen(v) == stale \/ v = mem[call.reg]

TakeEffect ==
    /\ call.op \in {"write", "rmw"}
    /\ ~done
    /\ \E v \in Values :
           /\ Seen(v)
           /\ mem' = [mem EXCEPT ![call.reg] = (v \cap call.keep) \cup call.set]

Effect ==
    /\ call # Idle
    /\ TakeEffect
    /\ done' = TRUE
    /\ UNCHANGED <<call, ret, stale>>

Return(ok, v) ==
    /\ ret' = [ok |-> ok, val |-> v]
    /\ call' = Idle
    /\ done' = FALSE

ReturnTrue ==
    /\ call # Idle
    /\ \/ call.op = "read" /\ UNCHANGED mem /\ \E v \in Values : Seen(v) /\ Return(TRUE, v)
       \/ call.op # "read" /\ done /\ UNCHANGED mem /\ Return(TRUE, {})
       \/ TakeEffect /\ Return(TRUE, {})
    /\ UNCHANGED stale

ReturnFalse ==
    /\ call # Idle
    /\ UNCHANGED mem \/ TakeEffect
    /\ Return(FALSE, {})
    /\ stale' \in BOOLEAN
    /\ stale => stale'

Next ==
    \/ \E op \in Ops : Call(op)
    \/ Effect
    \/ ReturnTrue
    \/ ReturnFalse

Spec == Init /\ [][Next]_vars

=============================================================================
