----------------------------- MODULE ServiceCall -----------------------------
(***************************************************************************)
(* The service-call mailbox between the driver and the device's 8051:      *)
(* tvw_uc_service_call (util.c), the reset and clearing of the mailbox in  *)
(* tvw_init_8051 and the start of the 8051 in tvw_finish_init_8051         *)
(* (libtvwsdr.c), and the firmware on the other side (external).           *)
(*                                                                         *)
(* A session is one tvwsdr_open: hold the 8051 in reset, clear the         *)
(* mailbox, make the boot call (service 0x3c, call 0 here), then the       *)
(* service calls 1..NumCalls of the && chains, which stop at the first     *)
(* one that returns false.  A failed session may be followed by another    *)
(* while the firmware still works on a call that timed out.                *)
(*                                                                         *)
(* Every register access is a step.  It may fail; a failed write may have  *)
(* reached the device or not.  The code ignores the result of the writes   *)
(* of the arguments and of the service id.  A read that is given up        *)
(* between its two transfers leaves its answer on endpoint 0x82, where     *)
(* nobody drains it: from then on every read gets the oldest answer and    *)
(* leaves its own (RegisterTransport).                                     *)
(*                                                                         *)
(* A call is named <<session, n>>.  The mailbox holds names where the      *)
(* device holds bytes: f09f and args the name of the call they were        *)
(* written for, f09c (the completed flag) the call the firmware finished.  *)
(***************************************************************************)
EXTENDS Integers, Sequences

CONSTANTS NumCalls,     \* service calls of a session after the boot call
          Polls,        \* turns of the polling loop, 10
          MaxSessions,  \* bound: calls of tvwsdr_open
          MaxErrors,    \* bound: failed register accesses
          None          \* no call: the flag or register is clear

ASSUME CallAssumption ==
    /\ NumCalls \in Nat /\ Polls \in Nat \ {0}
    /\ MaxSessions \in Nat /\ MaxErrors \in Nat
    /\ None \notin (Nat \X Nat)

VARIABLES
    pc,        \* the next register access of the driver
    session,   \* calls of tvwsdr_open so far
    n,         \* the call being made
    polls,     \* turns of the polling loop left
    reported,  \* history: calls that returned true
    reset,     \* f089 bit 7: the 8051 is held in reset
    f09f,      \* service id register: None, or the call whose bit 7 is set
    f09c,      \* completed flag: None, or the call it was set for
    args,      \* argument registers: the call whose arguments they hold
    mcu,       \* what the firmware does
    job,       \* the call it does it for
    ran,       \* history: pairs <<call executed, call whose arguments it got>>
    argsLost,  \* history: calls with a failed argument write
    late,      \* bit 7 of the answers nobody has read, oldest first
    silent,    \* the device has stopped taking and answering transfers
    errors

host == <<pc, session, n, polls, reported>>
mail == <<f09f, f09c, args>>
firm == <<mcu, job, ran>>
vars == <<host, mail, firm, reset, argsLost, late, silent, errors>>

Calls == (1..MaxSessions) \X (0..NumCalls)
Call == <<session, n>>

Init ==
    /\ pc = "closed" /\ session = 0 /\ n = 0 /\ polls = 0 /\ reported = {}
    /\ reset = TRUE /\ f09f = None /\ f09c = None /\ args = None
    /\ mcu = "idle" /\ job = None /\ ran = {} /\ argsLost = {} /\ errors = 0
    /\ late = << >> /\ silent = FALSE

-----------------------------------------------------------------------------
\* Register accesses.

MayFail == errors < MaxErrors /\ errors' = errors + 1
Works == UNCHANGED errors

\* A write whose result is checked: it works and the driver goes on to next,
\* or it fails, with or without effect, and the session ends.
Checked(effect, noEffect, next) ==
    \/ Works /\ effect /\ pc' = next
    \/ MayFail /\ (effect \/ noEffect) /\ pc' = "closed"

\* A read of a register with this bit 7: the oldest answer is taken, which is
\* the register's own if nothing was left before.
Taken(bit) == late' = Tail(Append(late, bit))
Reads(bit, seen) == seen = Head(Append(late, bit)) /\ Taken(bit)

\* A read that fails before its header got out, before its data came, or after.
GivenUp(bit) == late' \in {late, Append(late, bit), Tail(Append(late, bit))}

\* Reads of other registers: as many answers stay, of other registers.
Answers(k) == [1..k -> BOOLEAN]
OtherReads ==
    \/ Works /\ late' \in Answers(Len(late))
    \/ MayFail /\ late' \in Answers(Len(late)) \cup Answers(Len(late) + 1)

\* A read-modify-write whose result is checked.  It gives bit 7 its value
\* whatever it has read.
Modified(bit, effect, noEffect, next) ==
    \/ Works /\ Taken(bit) /\ effect /\ pc' = next
    \/ /\ MayFail
       /\ pc' = "closed"
       /\ \/ GivenUp(bit) /\ noEffect
          \/ Taken(bit) /\ effect

\* A write whose result is ignored.
Ignored(effect, noEffect) ==
    \/ Works /\ effect
    \/ MayFail /\ (effect \/ noEffect)

\* A read that must find bit 7 clear for the chain to go on.
RequiresClear(bit, next) ==
    \/ Works /\ Reads(bit, FALSE) /\ pc' = next
    \/ Works /\ Reads(bit, TRUE) /\ pc' = "closed"
    \/ MayFail /\ GivenUp(bit) /\ pc' = "closed"

-----------------------------------------------------------------------------
\* The driver.

\* tvwsdr_open is called; the steps before tvw_init_8051 leave the 8051 alone,
\* and the first of them that fails ends the session.
Open ==
    /\ pc = "closed"
    /\ ~silent
    /\ OtherReads
    /\ session < MaxSessions
    /\ session' = session + 1
    /\ n' = 0
    /\ pc' = IF errors' = errors THEN "hold" ELSE "closed"
    /\ UNCHANGED <<polls, reported, mail, firm, reset, argsLost, silent>>

\* "ensure 8051 is held in reset": what the firmware was doing is gone.
HoldReset ==
    /\ pc = "hold"
    /\ Modified(reset, reset' = TRUE /\ mcu' = "idle" /\ job' = None,
                UNCHANGED <<reset, mcu, job>>, "clear")
    /\ UNCHANGED <<session, n, polls, reported, mail, ran, argsLost>>

\* Mutant of ClearMailbox: the completed flag is forgotten.
ClearIdOnly ==
    /\ pc = "clear"
    /\ Checked(f09f' = None /\ f09c' = f09c, UNCHANGED <<f09f, f09c>>, "between")
    /\ UNCHANGED <<session, n, polls, reported, args, firm, reset, argsLost, late>>

\* "clear out service call registers": nothing reads them between the writes.
ClearMailbox ==
    /\ pc = "clear"
    /\ Checked(f09f' = None /\ f09c' = None,
               UNCHANGED f09c /\ f09f' \in {f09f, None}, "between")
    /\ UNCHANGED <<session, n, polls, reported, args, firm, reset, argsLost, late>>

\* The accesses between the mailbox and the boot call, and between two calls
\* (none between some): they stop at the first that fails or, as the look at
\* the version, finds something else.
Between ==
    /\ pc = "between"
    /\ OtherReads
    /\ pc' \in (IF errors' = errors THEN {"check", "closed"} ELSE {"closed"})
    /\ UNCHANGED <<session, n, polls, reported, mail, firm, reset, argsLost>>

\* Mutant of CheckIdle: the call is made whatever the firmware is doing.
CheckNothing ==
    /\ pc = "check"
    /\ Works /\ Taken(f09f # None) /\ pc' = "args"
    /\ UNCHANGED <<session, n, polls, reported, mail, firm, reset, argsLost>>

\* "ensure there isn't a service call already running".
CheckIdle ==
    /\ pc = "check"
    /\ RequiresClear(f09f # None, "args")
    /\ UNCHANGED <<session, n, polls, reported, mail, firm, reset, argsLost>>

\* "write arguments": the firmware looks at none of them before the id.  A
\* failed write leaves the registers with bytes of another call in them.  The
\* boot call checks its writes, a service call does not.
WriteArgs ==
    /\ pc = "args"
    /\ IF n = 0
       THEN /\ Checked(args' = Call, args' = None, "issue")
            /\ UNCHANGED argsLost
       ELSE /\ pc' = "issue"
            /\ \/ Works /\ args' = Call /\ UNCHANGED argsLost
               \/ MayFail /\ args' \in {Call, None} /\ argsLost' = argsLost \cup {Call}
    /\ UNCHANGED <<session, n, polls, reported, f09f, f09c, firm, reset, late>>

\* Mutant of WriteId: a service call's id is written before its arguments, too.
WriteIdFirst ==
    /\ pc \in (IF n = 0 THEN {"issue"} ELSE {"args", "issue"})
    /\ IF n = 0
       THEN Checked(f09f' = Call, UNCHANGED f09f, "start")
       ELSE /\ Ignored(f09f' = Call, UNCHANGED f09f)
            /\ pc' = IF pc = "args" THEN "args" ELSE "poll"
    /\ polls' = IF n = 0 THEN 1 ELSE Polls
    /\ UNCHANGED <<session, n, reported, f09c, args, firm, reset, argsLost, late>>

\* "write service id"; for the boot call the write is checked and the 8051
\* then leaves reset.
WriteId ==
    /\ pc = "issue"
    /\ IF n = 0
       THEN Checked(f09f' = Call, UNCHANGED f09f, "start")
       ELSE Ignored(f09f' = Call, UNCHANGED f09f) /\ pc' = "poll"
    /\ polls' = IF n = 0 THEN 1 ELSE Polls
    /\ UNCHANGED <<session, n, reported, f09c, args, firm, reset, argsLost, late>>

\* "clear 8051 reset", then MSLEEP(1000) and a single look at the flag.
Start ==
    /\ pc = "start"
    /\ Modified(reset, reset' = FALSE, UNCHANGED reset, "poll")
    /\ UNCHANGED <<session, n, polls, reported, mail, firm, argsLost>>

\* Mutants of Poll: a call that timed out is waited for again, or skipped.
PollForever ==
    /\ pc = "poll"
    /\ \/ Works /\ Reads(f09c # None, TRUE) /\ pc' = "ack"
       \/ /\ \/ Works /\ Reads(f09c # None, FALSE)
             \/ MayFail /\ GivenUp(f09c # None)
          /\ pc' = "poll"
    /\ UNCHANGED <<session, n, polls, reported, mail, firm, reset, argsLost>>
PollGoesOn ==
    /\ pc = "poll"
    /\ polls' = polls - 1
    /\ \/ Works /\ Reads(f09c # None, TRUE) /\ pc' = "ack" /\ n' = n
       \/ /\ \/ Works /\ Reads(f09c # None, FALSE)
             \/ MayFail /\ GivenUp(f09c # None)
          /\ pc' = IF polls > 1 THEN "poll" ELSE IF n < NumCalls THEN "between" ELSE "ready"
          /\ n' = IF polls > 1 \/ n = NumCalls THEN n ELSE n + 1
    /\ UNCHANGED <<session, reported, mail, firm, reset, argsLost>>

\* One turn of "wait for service call to finish".  A failed read counts as a
\* flag that is not set, and the loop goes on.
Poll ==
    /\ pc = "poll"
    /\ polls' = polls - 1
    /\ \/ Works /\ Reads(f09c # None, TRUE) /\ pc' = "ack"
       \/ /\ \/ Works /\ Reads(f09c # None, FALSE)
             \/ MayFail /\ GivenUp(f09c # None)
          /\ pc' = IF polls > 1 THEN "poll" ELSE "closed"
    /\ UNCHANGED <<session, n, reported, mail, firm, reset, argsLost>>

\* Mutants of Ack: the chain has one call too many, or the flag is left set.
AckOneTooMany ==
    /\ pc = "ack"
    /\ Works
    /\ f09c' = None
    /\ reported' = reported \cup {Call}
    /\ pc' = "between"
    /\ n' = n + 1
    /\ UNCHANGED <<session, polls, f09f, args, firm, reset, argsLost, late>>
AckForgotten ==
    /\ pc = "ack"
    /\ Works
    /\ reported' = reported \cup {Call}
    /\ pc' = IF n < NumCalls THEN "between" ELSE "ready"
    /\ n' = IF n < NumCalls THEN n + 1 ELSE n
    /\ UNCHANGED <<session, polls, mail, firm, reset, argsLost, late>>

\* "acknowledge observation to 8051": the call returns what this write
\* returns, and the chain goes on to the next call or stops.
Ack ==
    /\ pc = "ack"
    /\ \/ /\ Works
          /\ f09c' = None
          /\ reported' = reported \cup {Call}
          /\ pc' = IF n < NumCalls THEN "between" ELSE "ready"
          /\ n' = IF n < NumCalls THEN n + 1 ELSE n
       \/ /\ MayFail
          /\ f09c' \in {f09c, None}
          /\ pc' = "closed"
          /\ UNCHANGED <<n, reported>>
    /\ UNCHANGED <<session, polls, f09f, args, firm, reset, argsLost, late>>

\* The rest of tvwsdr_open, where the tuner's reads may fail without ending it,
\* the use of the device, and tvwsdr_close or the end of the program.
Close ==
    /\ pc = "ready"
    /\ ~silent
    /\ OtherReads
    /\ pc' = "closed"
    /\ UNCHANGED <<session, n, polls, reported, mail, firm, reset, argsLost, silent>>

-----------------------------------------------------------------------------
\* The firmware (external), while it is not held in reset.

Accept ==
    /\ ~reset /\ mcu = "idle" /\ f09f # None
    /\ mcu' = "working"
    /\ job' = f09f
    /\ ran' = ran \cup {<<f09f, args>>}
    /\ UNCHANGED <<host, mail, reset, argsLost, late, silent, errors>>

\* It finishes with two writes, in either order: the completed flag is set
\* and bit 7 of the service id is cleared.
SetFlag ==
    /\ ~reset /\ mcu \in {"working", "cleared"}
    /\ f09c' = job
    /\ mcu' = IF mcu = "working" THEN "flagged" ELSE "idle"
    /\ UNCHANGED <<host, f09f, args, job, ran, reset, argsLost, late, silent, errors>>

ClearId ==
    /\ ~reset /\ mcu \in {"working", "flagged"}
    /\ f09f' = None
    /\ mcu' = IF mcu = "working" THEN "cleared" ELSE "idle"
    /\ UNCHANGED <<host, f09c, args, job, ran, reset, argsLost, late, silent, errors>>

\* The device (external) stops taking or answering transfers for good.
FallSilent ==
    /\ ~silent
    /\ silent' = TRUE
    /\ UNCHANGED <<host, mail, firm, reset, argsLost, late, errors>>

\* BULK_TIMEOUT is 0: a transfer that the device neither takes nor refuses is
\* waited for without end.
Session ==
    /\ ~silent
    /\ UNCHANGED silent
    /\ \/ HoldReset \/ ClearMailbox \/ Between \/ CheckIdle \/ WriteArgs
       \/ WriteId \/ Start \/ Poll \/ Ack

Firmware == Accept \/ SetFlag \/ ClearId

Next == Open \/ Session \/ Close \/ Firmware \/ FallSilent

Spec == Init /\ [][Next]_vars

\* The driver is sequential code that waits for two things: for a bounded time
\* in msleep, and in a transfer for as long as the device leaves it open.  So
\* its steps are taken while the device is not silent.  The firmware need not
\* answer.
FairSpec == Spec /\ WF_vars(Session)

-----------------------------------------------------------------------------
\* No answer is left on the endpoint.  An answer that was left stays (nobody
\* drains the endpoint), so that none was left by any read before, either: every
\* read so far has returned the value of its own register.
NothingLate == late = << >>

\* Every variable has its type, and no more answers are left than reads failed.
TypeOK ==
    /\ pc \in {"closed", "hold", "clear", "between", "check", "args", "issue",
               "start", "poll", "ack", "ready"}
    /\ session \in 0..MaxSessions /\ n \in 0..NumCalls /\ polls \in 0..Polls
    /\ reported \subseteq Calls /\ reset \in BOOLEAN
    /\ {f09f, f09c, args, job} \subseteq Calls \cup {None}
    /\ mcu \in {"idle", "working", "flagged", "cleared"}
    /\ ran \subseteq Calls \X (Calls \cup {None})
    /\ argsLost \subseteq Calls /\ errors \in 0..MaxErrors
    /\ late \in Seq(BOOLEAN) /\ Len(late) <= errors
    /\ silent \in BOOLEAN

\* As long as no answer was left behind: the completed flag the driver acts on
\* was set for the call it waits for, never the late answer to a call that timed
\* out, in this session or in one before it.
AnswerIsOwn == NothingLate => (pc = "ack" => f09c = Call)

\* As long as no answer was left behind: a call returns true only if the firmware
\* executed it.
ReportedRan ==
    NothingLate => \A c \in reported : \E a \in Calls \cup {None} : <<c, a>> \in ran

\* As long as no answer was left behind: a call that the firmware executes gets
\* the arguments of that call, unless one of its argument writes failed (a result
\* tvw_uc_service_call ignores).
OwnArguments == NothingLate => \A r \in ran : r[2] = r[1] \/ r[1] \in argsLost

\* The driver writes the service id only when the firmware has no call in hand:
\* a request is never overwritten, nor wiped out by the end of the one before
\* it.  This is what the comment "ensure there isn't a service call already
\* running" says of tvw_uc_service_call.
WritesOnlyWhenIdle == (f09f' # f09f /\ f09f' # None) => (mcu = "idle" /\ f09f = None)

\* It is so as long as no answer was left behind.
NeverOverrun == [][NothingLate => WritesOnlyWhenIdle]_vars

\* It is not always so: when a poll was given up after its request was out, the
\* check of a later call reads the answer to another read.
NotAlreadyRunning == [][WritesOnlyWhenIdle]_vars

\* The calls of a session are executed in order with no gap, whatever the reads
\* returned: no call runs unless every call before it was reported complete.
NoGap == \A r \in ran : \A k \in 0..(r[1][2] - 1) : <<r[1][1], k>> \in reported

\* tvwsdr_open does not hang on a firmware that never answers: it ends, unless
\* the device itself leaves a transfer open.
SessionEnds == (pc \notin {"closed", "ready"}) ~> (pc \in {"closed", "ready"} \/ silent)

=============================================================================
