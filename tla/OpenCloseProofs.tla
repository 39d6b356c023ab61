-------------------------- MODULE OpenCloseProofs --------------------------
(***************************************************************************)
(* For every number of sessions: a tvwsdr_open finds its interface busy    *)
(* only after one that failed in the same process; one that returned 0     *)
(* leaves a device that can stream, whatever it held before; firmware goes *)
(* only to a processor that is ready for it.  What they say of the two     *)
(* registers that are written bit by bit from a value read holds while no  *)
(* answer of an abandoned read is left on the endpoint (stale).            *)
(*                                                                         *)
(* The last two are about what some ninety accesses in eleven stages leave *)
(* of each other's work.  Of a register, an access makes some bits a value *)
(* or keeps them at it; a chain settles bits when one of its accesses      *)
(* makes them their value and all behind it keep them there.  What each    *)
(* chain makes and keeps is found once, and composed along the stages.     *)
(* The inductive invariant says that bits which the accesses passed so far *)
(* have settled have their value: it speaks of accesses that were passed,  *)
(* not of where control is, so that each step is one case.                 *)
(***************************************************************************)
EXTENDS OpenClose, SequenceTheorems, TLAPS

\* The part of the types that the proof needs.
Typing ==
    /\ session \in 0..MaxSessions
    /\ stage \in 0..11
    /\ ended \in [Sessions -> Ends]
    /\ held \in [Sessions -> SUBSET Resources]

\* The running call is the last session, and has not ended; a call that is not
\* running has.
RunningIsLast ==
    /\ stage # 0 => session # 0 /\ ended[session] = "no"
    /\ stage = 0 /\ session # 0 => ended[session] # "no"

\* What comes after it holds nothing yet, nor does the last one before its malloc.
NothingAhead ==
    /\ \A s \in Sessions : s > session => ended[s] = "no" /\ held[s] = {}
    /\ stage = 1 => next = 1 /\ "claim" \notin held[session]

\* BusyOnlyAfterFailure with the claim of the last session.
ClaimsExplained ==
    \A s \in Sessions : "claim" \in held[s] =>
        \/ ended[s] \in {"err", "return"}
        \/ s = session /\ ended[s] \in {"no", "opened"}

IInv == Typing /\ RunningIsLast /\ NothingAhead /\ ClaimsExplained

-----------------------------------------------------------------------------
LEMMA StageCount == Len(Stages) = 11
  BY DEF Stages

\* Only malloc leaves the function with -ENOMEM, and the first stage is malloc alone.
LEMMA MallocIsFirst ==
    /\ \A i \in 1..11 : Stages[i].fail = "enomem" => i = 1
    /\ Stages[1].fail = "enomem"
    /\ Len(Stages[1].steps) = 1
    /\ Stages[1].steps[1].op = "malloc"
<1>1. Stages[1] = [steps |-> <<Step("malloc")>>, fail |-> "enomem"]
  BY DEF Stages, Allocate, Stage
<1>2. Stages[2].fail # "enomem" /\ Stages[3].fail # "enomem" /\ Stages[4].fail # "enomem"
  BY DEF Stages, Stage, Context, Claim, FirstFirmware
<1>3. Stages[5].fail # "enomem" /\ Stages[6].fail # "enomem" /\ Stages[7].fail # "enomem"
  BY DEF Stages, Stage, AfterUpload, SecondFirmware, AttachTuner
<1>4. Stages[8].fail # "enomem" /\ Stages[9].fail # "enomem"
  BY DEF Stages, Stage, Decoder
<1>5. Stages[10].fail # "enomem" /\ Stages[11].fail # "enomem"
  BY DEF Stages, Stage
<1>6. \A i \in 1..11 : \/ i = 1 \/ i = 2 \/ i = 3 \/ i = 4 \/ i = 5 \/ i = 6 \/ i = 7
                       \/ i = 8 \/ i = 9 \/ i = 10 \/ i = 11
  OBVIOUS
<1>7. Step("malloc").op = "malloc"
  BY DEF Step
<1> QED
  BY <1>1, <1>2, <1>3, <1>4, <1>5, <1>6, <1>7

-----------------------------------------------------------------------------
\* Control stays in the function or leaves it with the device open.
Proceeds ==
    /\ session' = session
    /\ stage' \in (0..11) \ {1}
    /\ ended' = IF stage' = 0 THEN [ended EXCEPT ![session] = "opened"] ELSE ended

\* What the running call does to what is held leaves the other sessions alone.
OwnOnly ==
    /\ held' \in [Sessions -> SUBSET Resources]
    /\ \A s \in Sessions : s # session => held'[s] = held[s]

LEMMA SessionIsOne ==
  ASSUME Typing, RunningIsLast, Running
  PROVE  session \in Sessions /\ stage \in 1..11
  BY MaxSessionsAssumption DEF Typing, RunningIsLast, Running, Sessions

LEMMA AdvanceProceeds ==
  ASSUME Typing, NothingAhead, Running, Advance
  PROVE  Proceeds
<1>1. stage \in 1..11
  BY DEF Typing, Running
<1>2. stage = 1 => ~(next < Len(Stages[stage].steps))
  <2> SUFFICES ASSUME stage = 1
               PROVE  ~(next < Len(Stages[1].steps))
    OBVIOUS
  <2>1. next = 1
    BY DEF NothingAhead
  <2> QED
    BY <2>1, MallocIsFirst
<1>3. stage' \in {stage, stage + 1, 0} /\ (stage' = stage => stage # 1)
  BY <1>1, <1>2, StageCount DEF Advance
<1>4. stage' = stage + 1 => stage < 11
  BY <1>1, <1>2, StageCount DEF Advance
<1> QED
  BY <1>1, <1>3, <1>4 DEF Advance, Proceeds

LEMMA SkipProceeds ==
  ASSUME Typing, FailSkip
  PROVE  Proceeds
<1>1. stage \in 1..11
  BY DEF Typing, FailSkip, Running
<1> QED
  BY <1>1, StageCount DEF FailSkip, Proceeds

LEMMA HoldIsOwn ==
  ASSUME Typing, session \in Sessions, NEW r \in Resources, Hold(r)
  PROVE  OwnOnly
  BY DEF Typing, Hold, OwnOnly

LEMMA ProceedsIInv ==
  ASSUME IInv, Running, Proceeds, OwnOnly
  PROVE  IInv'
<1>1. session \in Sessions /\ ended[session] = "no"
  BY SessionIsOne DEF IInv, RunningIsLast, Running
<1>2. Typing'
  <2>1. ended' \in [Sessions -> Ends]
    BY <1>1 DEF IInv, Typing, Proceeds, Ends
  <2> QED
    BY <2>1 DEF IInv, Typing, Proceeds, OwnOnly
<1>3. \A s \in Sessions : s # session => ended'[s] = ended[s] /\ held'[s] = held[s]
  BY DEF IInv, Typing, Proceeds, OwnOnly
<1>4. ended'[session] = IF stage' = 0 THEN "opened" ELSE "no"
  BY <1>1 DEF IInv, Typing, Proceeds
<1>5. RunningIsLast'
  BY <1>1, <1>4, MaxSessionsAssumption DEF RunningIsLast, Proceeds, Sessions
<1>6. NothingAhead'
  BY <1>1, <1>3 DEF IInv, NothingAhead, Proceeds, Sessions
<1>7. ClaimsExplained'
  BY <1>1, <1>3, <1>4 DEF IInv, ClaimsExplained, Proceeds
<1> QED
  BY <1>2, <1>5, <1>6, <1>7 DEF IInv

\* The ends of a call that failed: -ENOMEM comes before the claim.
LEMMA LeaveIInv ==
  ASSUME IInv, Running, NEW how \in {"enomem", "err", "return"}, Leave(how),
         how = "enomem" => stage = 1,
         held' = held \/ held' = [held EXCEPT ![session] = @ \ {"ctx", "dev"}]
  PROVE  IInv'
<1>1. session \in Sessions /\ ended[session] = "no"
  BY SessionIsOne DEF IInv, RunningIsLast, Running
<1>2. Typing'
  <2>1. ended' \in [Sessions -> Ends]
    BY <1>1 DEF IInv, Typing, Leave, Ends
  <2>2. held' \in [Sessions -> SUBSET Resources]
    BY <1>1 DEF IInv, Typing
  <2> QED
    BY <2>1, <2>2 DEF IInv, Typing, Leave
<1>3. \A s \in Sessions : s # session => ended'[s] = ended[s] /\ held'[s] = held[s]
  BY DEF IInv, Typing, Leave
<1>4. ended'[session] = how /\ held'[session] \subseteq held[session]
  BY <1>1 DEF IInv, Typing, Leave
<1>5. RunningIsLast'
  BY <1>4 DEF RunningIsLast, Leave
<1>6. NothingAhead'
  BY <1>1, <1>3 DEF IInv, NothingAhead, Leave, Sessions
<1>7. how = "enomem" => "claim" \notin held[session]
  BY DEF IInv, NothingAhead
<1>8. ClaimsExplained'
  BY <1>1, <1>3, <1>4, <1>7 DEF IInv, ClaimsExplained, Leave
<1> QED
  BY <1>2, <1>5, <1>6, <1>8 DEF IInv

\* The end of the process.
LEMMA ExitIInv ==
  ASSUME IInv, session # 0, Exit
  PROVE  IInv'
<1>1. session \in Sessions /\ session' = session /\ stage' = 0
  BY MaxSessionsAssumption DEF IInv, Typing, Sessions, Exit
<1>2. ended' \in [Sessions -> Ends] /\ held' = [s \in Sessions |-> {}]
  BY <1>1 DEF IInv, Typing, Ends, Exit
<1>3. ended'[session] # "no"
  BY <1>1 DEF IInv, Typing, Exit
<1>4. \A s \in Sessions : s # session => ended'[s] = ended[s]
  BY DEF IInv, Typing, Exit
<1>5. Typing'
  BY <1>1, <1>2 DEF IInv, Typing
<1>6. RunningIsLast' /\ ClaimsExplained'
  BY <1>1, <1>2, <1>3 DEF RunningIsLast, ClaimsExplained
<1>7. NothingAhead'
  BY <1>1, <1>2, <1>4 DEF IInv, NothingAhead, Sessions
<1> QED
  BY <1>5, <1>6, <1>7 DEF IInv

-----------------------------------------------------------------------------
LEMMA InitIInv == Init => IInv
  BY MaxSessionsAssumption
  DEF Init, IInv, Typing, RunningIsLast, NothingAhead, ClaimsExplained, Sessions, Ends, Resources

\* A new call: the one before it ended with an error, was closed or was killed.
LEMMA OpenIInv == IInv /\ Open => IInv'
<1> SUFFICES ASSUME IInv, Open
             PROVE  IInv'
  OBVIOUS
<1>1. /\ session \in 0..MaxSessions /\ session' = session + 1 /\ session' \in 1..MaxSessions
      /\ stage = 0 /\ stage' = 1 /\ next' = 1 /\ ended' = ended /\ held' = held
  BY MaxSessionsAssumption DEF IInv, Typing, Open, Running
<1>2. ended[session'] = "no" /\ held[session'] = {}
  BY <1>1 DEF IInv, NothingAhead, Sessions
<1>3. session # 0 => ended[session] \notin {"no", "opened"}
  BY <1>1 DEF IInv, RunningIsLast, Open
<1>4. Typing'
  BY <1>1 DEF IInv, Typing
<1>5. RunningIsLast' /\ NothingAhead'
  BY <1>1, <1>2 DEF IInv, RunningIsLast, NothingAhead, Sessions
<1>6. ClaimsExplained'
  BY <1>1, <1>3, MaxSessionsAssumption DEF IInv, ClaimsExplained, Sessions
<1> QED
  BY <1>4, <1>5, <1>6 DEF IInv

\* tvwsdr_close releases the interface.
LEMMA CloseIInv == IInv /\ Close => IInv'
<1> SUFFICES ASSUME IInv, Close
             PROVE  IInv'
  OBVIOUS
<1>1. session \in Sessions /\ session' = session /\ stage' = stage /\ next' = next /\ stage = 0
  BY MaxSessionsAssumption DEF IInv, Typing, Sessions, Close, Running
<1>2. ended' = [ended EXCEPT ![session] = "closed"]
  BY DEF Close
<1>3. held' = [held EXCEPT ![session] = @ \ Released]
  BY DEF Close
<1>4. Typing'
  BY <1>1, <1>2, <1>3 DEF IInv, Typing, Ends
<1>5. ended'[session] = "closed" /\ "claim" \notin held'[session]
  BY <1>1, <1>2, <1>3 DEF IInv, Typing, Released
<1>6. \A s \in Sessions : s # session => ended'[s] = ended[s] /\ held'[s] = held[s]
  BY <1>2, <1>3 DEF IInv, Typing
<1>7. RunningIsLast' /\ ClaimsExplained'
  BY <1>1, <1>5, <1>6 DEF IInv, RunningIsLast, ClaimsExplained
<1>8. NothingAhead'
  BY <1>1, <1>6 DEF IInv, NothingAhead, Sessions
<1> QED
  BY <1>4, <1>7, <1>8 DEF IInv

LEMMA NextIInv == IInv /\ [Next]_vars => IInv'
<1> SUFFICES ASSUME IInv, [Next]_vars
             PROVE  IInv'
  OBVIOUS
<1> USE DEF IInv
<1>1. ASSUME Running, Advance, OwnOnly PROVE IInv'
  BY <1>1, AdvanceProceeds, ProceedsIInv
<1>2. ASSUME held' = held PROVE OwnOnly
  BY <1>2 DEF OwnOnly, Typing
<1>3. ASSUME Running, NEW r \in Resources, Hold(r) PROVE OwnOnly
  BY <1>3, SessionIsOne, HoldIsOwn
<1>4. CASE Open
  BY <1>4, OpenIInv
<1>5. CASE Modify \/ HasBits \/ OtherAccess \/ LoadFw
  BY <1>5, <1>1, <1>2 DEF Modify, HasBits, OtherAccess, LoadFw
<1>6. CASE AllocateDev \/ OpenHandle \/ ClaimInterface \/ Attach
  BY <1>6, <1>1, <1>3 DEF AllocateDev, OpenHandle, ClaimInterface, Attach, Resources
<1>7. CASE SetAltSetting \/ Tune
  BY <1>7, <1>1, <1>2 DEF SetAltSetting, Tune
<1>8. CASE FailErr
  BY <1>8, LeaveIInv DEF FailErr
<1>9. CASE FailReturn
  <2>1. Stages[stage].fail = "enomem" => stage = 1
    BY <1>9, SessionIsOne, MallocIsFirst DEF FailReturn
  <2> QED
    BY <1>9, <2>1, LeaveIInv DEF FailReturn
<1>10. CASE FailIgnored
  BY <1>10, <1>1, <1>2 DEF FailIgnored
<1>11. CASE FailSkip
  BY <1>11, <1>2, SkipProceeds, ProceedsIInv DEF FailSkip
<1>12. CASE Kill \/ Dereference
  BY <1>12, ExitIInv DEF Kill, Dereference, Running, RunningIsLast
<1>13. CASE Close
  BY <1>13, CloseIInv
<1>14. CASE CloseAfterFailure
  BY <1>14, ExitIInv DEF CloseAfterFailure
<1>15. CASE UNCHANGED vars
  BY <1>15 DEF vars, Typing, RunningIsLast, NothingAhead, ClaimsExplained
<1> QED
  BY <1>4, <1>5, <1>6, <1>7, <1>8, <1>9, <1>10, <1>11, <1>12, <1>13, <1>14, <1>15 DEF Next

\* For any number of sessions: an interface stays claimed over the end of its call
\* only when that call left tvwsdr_open by err or by one of its early returns.
THEOREM BusyFollowsFailure == Spec => []BusyOnlyAfterFailure
<1>1. IInv => BusyOnlyAfterFailure
  BY DEF IInv, ClaimsExplained, BusyOnlyAfterFailure
<1> QED
  BY <1>1, InitIInv, NextIInv, PTL DEF Spec

-----------------------------------------------------------------------------
\* The accesses of the chains.  Those that make the bits B of a register r be V,
\* and those that leave them V if they are.  Of the registers in Shared the chains
\* switch some bits and keep the others as they were read; the others get their
\* value from every access, whatever was read.
AllBits == UNION {Bits[r] : r \in Regs}
OpNames ==
    {"modify", "compare", "other", "load", "malloc", "libusb_init", "libusb_open", "libusb_claim",
     "alt_setting", "attach", "tune"}
Accesses ==
    {a \in [op : OpNames, reg : Regs \cup Images, keep : SUBSET AllBits, set : SUBSET AllBits] :
        /\ a.op = "modify" => a.reg \in Regs /\ a.set \subseteq Bits[a.reg]
        /\ a.op = "load" => a.reg \in Images}

Shared == {"RESET_CONTROL", "USC_CTL"}
Switched == Shared \cup {"FIRMWARE"}

Makes(r, B, V) ==
    {a \in Accesses : /\ a.op = "modify" /\ a.reg = r
                      /\ a.set \cap B = V /\ a.keep \cap B \subseteq V}
Keeps(r, B, V) ==
    {a \in Accesses : a.op = "modify" /\ a.reg = r =>
                          /\ a.set \cap B \subseteq V /\ V \subseteq a.keep \cup a.set
                          /\ r \notin Switched => a \in Makes(r, B, V)}
Ops(o) == {a \in Accesses : a.op = o}
Loads(f) == {a \in Accesses : a.op = "load" /\ a.reg = f}
Unloading == {a \in Accesses : a.op # "load"}
Plain == {a \in Accesses : a.op \in {"other", "modify"}}

\* Some access of the sequence s is in X, and all behind it in K.
Settles(s, X, K) ==
    /\ s \in Seq(Accesses) /\ K \subseteq Accesses
    /\ \E k \in 1..Len(s) : s[k] \in X /\ \A m \in (k + 1)..Len(s) : s[m] \in K

LEMMA Join == \A S : \A s, t \in Seq(S) : s \o t \in Seq(S)
  BY ConcatProperties

LEMMA SettlesKept ==
    \A X, K, s, t : Settles(s, X, K) /\ t \in Seq(K) => Settles(s \o t, X, K)
  <1> SUFFICES ASSUME NEW X, NEW K, NEW s, NEW t, Settles(s, X, K), t \in Seq(K)
               PROVE  Settles(s \o t, X, K)
    OBVIOUS
  <1>1. s \in Seq(Accesses) /\ K \subseteq Accesses
    BY DEF Settles
  <1>2. t \in Seq(Accesses) /\ \A i \in 1..Len(t) : t[i] \in K
    BY <1>1
  <1>3. Len(s \o t) = Len(s) + Len(t)
    BY <1>1, <1>2, ConcatProperties
  <1>4. \A i \in 1..(Len(s) + Len(t)) : (s \o t)[i] = IF i <= Len(s) THEN s[i] ELSE t[i - Len(s)]
    BY <1>1, <1>2, ConcatProperties
  <1>5. PICK k \in 1..Len(s) : s[k] \in X /\ \A m \in (k + 1)..Len(s) : s[m] \in K
    BY DEF Settles
  <1>6. Len(s) \in Nat /\ Len(t) \in Nat
    BY <1>1
  <1>7. k \in 1..Len(s \o t) /\ (s \o t)[k] \in X
    BY <1>3, <1>4, <1>5, <1>6
  <1>8. ASSUME NEW m \in (k + 1)..Len(s \o t)
        PROVE  (s \o t)[m] \in K
    <2>1. CASE m <= Len(s)
      BY <1>3, <1>4, <1>5, <1>6, <2>1
    <2>2. CASE m > Len(s)
      <3>1. m - Len(s) \in 1..Len(t) /\ (s \o t)[m] = t[m - Len(s)]
        BY <1>3, <1>4, <1>6, <2>2
      <3> QED
        BY <1>2, <3>1
    <2> QED
      BY <1>6, <2>1, <2>2
  <1>9. s \o t \in Seq(Accesses)
    BY <1>1, <1>2, Join
  <1> QED
    BY <1>1, <1>7, <1>8, <1>9 DEF Settles

LEMMA SettlesLate ==
    \A X, K, s, t : s \in Seq(Accesses) /\ Settles(t, X, K) => Settles(s \o t, X, K)
  <1> SUFFICES ASSUME NEW X, NEW K, NEW s \in Seq(Accesses), NEW t, Settles(t, X, K)
               PROVE  Settles(s \o t, X, K)
    OBVIOUS
  <1>1. t \in Seq(Accesses) /\ K \subseteq Accesses
    BY DEF Settles
  <1>2. Len(s \o t) = Len(s) + Len(t)
    BY <1>1, ConcatProperties
  <1>3. \A i \in 1..(Len(s) + Len(t)) : (s \o t)[i] = IF i <= Len(s) THEN s[i] ELSE t[i - Len(s)]
    BY <1>1, ConcatProperties
  <1>4. PICK k \in 1..Len(t) : t[k] \in X /\ \A m \in (k + 1)..Len(t) : t[m] \in K
    BY DEF Settles
  <1>5. Len(s) \in Nat /\ Len(t) \in Nat
    BY <1>1
  <1> DEFINE n == Len(s) + k
  <1>6. n \in 1..Len(s \o t) /\ (s \o t)[n] \in X
    BY <1>2, <1>3, <1>4, <1>5
  <1>7. ASSUME NEW m \in (n + 1)..Len(s \o t)
        PROVE  (s \o t)[m] \in K
    <2>1. m - Len(s) \in (k + 1)..Len(t) /\ (s \o t)[m] = t[m - Len(s)]
      BY <1>2, <1>3, <1>5
    <2> QED
      BY <1>4, <2>1
  <1>8. s \o t \in Seq(Accesses)
    BY <1>1, Join
  <1> QED
    BY <1>1, <1>6, <1>7, <1>8 DEF Settles

LEMMA SettlesAt ==
    ASSUME NEW s \in Seq(Accesses), NEW X, NEW K \in SUBSET Accesses, NEW k \in 1..Len(s),
           s[k] \in X, \A m \in (k + 1)..Len(s) : s[m] \in K
    PROVE  Settles(s, X, K)
  BY DEF Settles

-----------------------------------------------------------------------------
\* What the accesses are.
LEMMA BitsOf ==
    /\ Regs = {"RESET_CONTROL", "SMGR_SOFT_RESETS", "USC_CTL", "FEAW_COMMAND", "uc_f089",
               "uc_f02a", "FIRMWARE"}
    /\ Bits["RESET_CONTROL"] = {16, 128, 256, 512, 2048}
    /\ Bits["SMGR_SOFT_RESETS"] = {47} /\ Bits["USC_CTL"] = {512, 1024}
    /\ Bits["FEAW_COMMAND"] = {50331648}
    /\ Bits["uc_f089"] = {128} /\ Bits["uc_f02a"] = {64}
    /\ Bits["FIRMWARE"] = {"isoch", "adec", "something"}
    /\ \A r \in Regs : Bits[r] \subseteq AllBits
    /\ {} \subseteq AllBits
  BY DEF Regs, Bits, AllBits, ResetBits, AudioReset

LEMMA Stepping ==
    ASSUME NEW o \in OpNames, o # "modify", o # "load"
    PROVE  /\ Step(o) \in Accesses /\ Step(o).op = o /\ Step(o) \in Ops(o) /\ Step(o) \in Unloading
           /\ \A r, B, V : Step(o) \in Keeps(r, B, V)
           /\ o = "other" => Step(o) \in Plain
  <1>1. Step(o) \in Accesses
    BY BitsOf DEF Step, Accesses, OpNames
  <1> QED
    BY <1>1 DEF Keeps, Step, Ops, Unloading, Plain

LEMMA Loading ==
    ASSUME NEW f \in Images
    PROVE  /\ Load(f) \in Accesses /\ Load(f) \in Loads(f) /\ Load(f).op = "load" /\ Load(f).reg = f
           /\ \A r, B, V : Load(f) \in Keeps(r, B, V)
  <1>1. Load(f) \in Accesses
    BY BitsOf DEF Load, Accesses, Images, OpNames
  <1> QED
    BY <1>1 DEF Keeps, Load, Loads

LEMMA Comparing ==
    ASSUME NEW r \in Regs, NEW v \in SUBSET Bits[r]
    PROVE  /\ Compare(r, v) \in Accesses /\ Compare(r, v) \in Unloading
           /\ \A q, B, V : Compare(r, v) \in Keeps(q, B, V)
  <1>1. Compare(r, v) \in Accesses
    BY BitsOf DEF Compare, Accesses, OpNames
  <1> QED
    BY <1>1 DEF Keeps, Compare, Unloading

LEMMA IsOther ==
    /\ Other \in Accesses /\ Other.op = "other" /\ Other \in Plain /\ Other \in Unloading
    /\ \A r, B, V : Other \in Keeps(r, B, V)
  BY Stepping DEF Other, OpNames

LEMMA Within == \A r, B, V : Keeps(r, B, V) \subseteq Accesses /\ Makes(r, B, V) \subseteq Accesses
  BY DEF Keeps, Makes

LEMMA Writes ==
    ASSUME NEW r \in Regs, NEW v \in SUBSET Bits[r]
    PROVE  /\ Write(r, v) \in Accesses /\ Write(r, v) \in Unloading /\ Write(r, v) \in Plain
           /\ \A q \in Regs : \A B, V : (q = r => r \in Switched /\ v \cap B \subseteq V /\ V \subseteq v)
                  => Write(r, v) \in Keeps(q, B, V)
           /\ \A B, V : v \cap B = V => Write(r, v) \in Makes(r, B, V)
  <1>1. r \in Regs /\ Bits[r] \subseteq AllBits /\ v \subseteq AllBits /\ {} \subseteq AllBits
        /\ Bits[r] \ v \subseteq AllBits
    BY BitsOf
  <1>2. Write(r, v) \in Accesses
    BY <1>1 DEF Accesses, OpNames, Write
  <1> QED
    BY <1>2 DEF Keeps, Makes, Unloading, Plain, Write

LEMMA Sets ==
    ASSUME NEW r \in Regs, NEW v \in SUBSET Bits[r]
    PROVE  /\ Set(r, v) \in Accesses /\ Set(r, v) \in Unloading /\ Set(r, v) \in Plain
           /\ \A q \in Regs : \A B, V : (q = r => r \in Switched /\ v \cap B \subseteq V /\ V \subseteq Bits[r])
                  => Set(r, v) \in Keeps(q, B, V)
           /\ \A B, V : v \cap B = V /\ B \subseteq V => Set(r, v) \in Makes(r, B, V)
  <1>1. r \in Regs /\ Bits[r] \subseteq AllBits /\ v \subseteq AllBits /\ {} \subseteq AllBits
        /\ Bits[r] \ v \subseteq AllBits
    BY BitsOf
  <1>2. Set(r, v) \in Accesses
    BY <1>1 DEF Accesses, OpNames, Set
  <1> QED
    BY <1>2 DEF Keeps, Makes, Unloading, Plain, Set

LEMMA Clears ==
    ASSUME NEW r \in Regs, NEW v \in SUBSET Bits[r]
    PROVE  /\ Clear(r, v) \in Accesses /\ Clear(r, v) \in Unloading /\ Clear(r, v) \in Plain
           /\ \A q \in Regs : \A B, V : (q = r => r \in Switched /\ V \subseteq Bits[r] \ v)
                  => Clear(r, v) \in Keeps(q, B, V)
           /\ \A B : B \subseteq v => Clear(r, v) \in Makes(r, B, {})
  <1>1. r \in Regs /\ Bits[r] \subseteq AllBits /\ v \subseteq AllBits /\ {} \subseteq AllBits
        /\ Bits[r] \ v \subseteq AllBits
    BY BitsOf
  <1>2. Clear(r, v) \in Accesses
    BY <1>1 DEF Accesses, OpNames, Clear, Replace
  <1> QED
    BY <1>2 DEF Keeps, Makes, Unloading, Plain, Clear, Replace

-----------------------------------------------------------------------------
\* The chains: which bits each of them leaves alone, and what it makes of others.
RC == "RESET_CONTROL"

LEMMA AreSwitched == RC \in Switched /\ "USC_CTL" \in Switched /\ "FIRMWARE" \in Switched
  BY DEF Switched, Shared, RC

LEMMA RcBits == RC \in Regs /\ Bits[RC] = {16, 128, 256, 512, 2048} /\ AudioReset = {128, 256}
  BY BitsOf DEF RC, AudioReset

LEMMA Widen == \A S, T : S \subseteq T => Seq(S) \subseteq Seq(T)
  OBVIOUS

LEMMA Subsets == Unloading \subseteq Accesses /\ Plain \subseteq Unloading
  BY DEF Unloading, Plain

LEMMA init_tvw_1_Does ==
    /\ tvw_init_tvw_1 \in Seq(Unloading)
    /\ \A B \in SUBSET Bits[RC] : Settles(tvw_init_tvw_1, Makes(RC, B, {}), Keeps(RC, B, {}))
  <1> DEFINE c == tvw_init_tvw_1
             all == {Other, Write(RC, {512}), Compare(RC, {512}), Write("USC_CTL", {}), Write(RC, {}),
                     Write(RC, AudioReset), Set(RC, {16}), Clear(RC, {16}), Clear(RC, {128}),
                     Set(RC, {128})}
  <1>1. c \in Seq(all) /\ Len(c) = 15 /\ c[14] = Write(RC, {}) /\ c[15] = Other
    BY DEF tvw_init_tvw_1, RC
  <1>2. \A a \in all : a \in Unloading
    <2>1. Other \in Unloading
      BY IsOther
    <2>2. Compare(RC, {512}) \in Unloading
      BY RcBits, Comparing
    <2>3. Write("USC_CTL", {}) \in Unloading
      BY BitsOf, Writes, AreSwitched
    <2>4. Write(RC, {512}) \in Unloading /\ Write(RC, {}) \in Unloading
          /\ Write(RC, AudioReset) \in Unloading
      BY RcBits, Writes, AreSwitched
    <2>5. Set(RC, {16}) \in Unloading /\ Set(RC, {128}) \in Unloading
      BY RcBits, Sets, AreSwitched
    <2>6. Clear(RC, {16}) \in Unloading /\ Clear(RC, {128}) \in Unloading
      BY RcBits, Clears, AreSwitched
    <2> QED
      BY <2>1, <2>2, <2>3, <2>4, <2>5, <2>6
  <1>3. c \in Seq(Unloading) /\ c \in Seq(Accesses)
    <2> HIDE DEF c, all
    <2> QED
      BY <1>1, <1>2, Subsets
  <1>4. ASSUME NEW B \in SUBSET Bits[RC]
        PROVE  Settles(c, Makes(RC, B, {}), Keeps(RC, B, {}))
    <2> HIDE DEF c, all
    <2>1. c[14] \in Makes(RC, B, {})
      BY <1>1, RcBits, Writes, AreSwitched
    <2>2. c[15] \in Keeps(RC, B, {})
      BY <1>1, IsOther
    <2>3. 14 \in 1..Len(c) /\ \A m \in (14 + 1)..Len(c) : m = 15
      BY <1>1
    <2>4. Keeps(RC, B, {}) \in SUBSET Accesses
      BY Within
    <2> QED
      BY <1>3, <2>1, <2>2, <2>3, <2>4, SettlesAt
  <1> HIDE DEF c, all
  <1> QED
    BY <1>3, <1>4 DEF c

LEMMA init_tvw_2_Does ==
    ASSUME NEW n
    PROVE  /\ tvw_init_tvw_2(n) \in Seq(Unloading)
           /\ \A q \in Regs : \A B, V \in SUBSET Bits[q] :
                 (q = RC => V = {}) /\ (q = "FIRMWARE" => "something" \notin V)
                    => tvw_init_tvw_2(n) \in Seq(Keeps(q, B, V))
           /\ Settles(tvw_init_tvw_2(n), Makes(RC, {512}, {}), Keeps(RC, {512}, {}))
           /\ n = 2 => Settles(tvw_init_tvw_2(n), Makes("FIRMWARE", {"something"}, {}),
                               Keeps("FIRMWARE", {"something"}, {}))
  <1> DEFINE a == <<Other, Clear(RC, {512}), Other>>
             d == IF n = 2 THEN <<Disable("something")>> ELSE << >>
             o == <<Other>>
  <1>1. tvw_init_tvw_2(n) = (a \o d) \o o
    BY DEF tvw_init_tvw_2, RC
  <1>2. /\ Disable("something") = Clear("FIRMWARE", {"something"}) /\ "FIRMWARE" \in Regs
        /\ {"something"} \in SUBSET Bits["FIRMWARE"] /\ {512} \in SUBSET Bits[RC] /\ RC # "FIRMWARE"
    BY BitsOf, RcBits DEF Disable, RC
  <1>3. \A K : Other \in K /\ Clear(RC, {512}) \in K => a \in Seq(K) /\ o \in Seq(K)
    OBVIOUS
  <1>4. \A K : Disable("something") \in K => d \in Seq(K)
    OBVIOUS
  <1>5. n = 2 => d \in Seq({Disable("something")}) /\ Len(d) = 1 /\ d[1] = Disable("something")
    OBVIOUS
  <1>6. Len(a) = 3 /\ a[2] = Clear(RC, {512}) /\ a[3] = Other
    OBVIOUS
  <1> HIDE DEF a, d, o
  <1>7. Clear(RC, {512}) \in Unloading /\ Disable("something") \in Unloading
    BY <1>2, RcBits, Clears, AreSwitched
  <1>8. a \in Seq(Unloading) /\ d \in Seq(Unloading) /\ o \in Seq(Unloading)
    BY <1>3, <1>4, <1>7, IsOther
  <1>9. a \in Seq(Accesses) /\ d \in Seq(Accesses) /\ o \in Seq(Accesses)
        /\ a \o d \in Seq(Accesses) /\ tvw_init_tvw_2(n) \in Seq(Unloading)
    BY <1>1, <1>8, Subsets, Widen, Join
  <1>10. ASSUME NEW q \in Regs, NEW B \in SUBSET Bits[q], NEW V \in SUBSET Bits[q],
                q = RC => V = {}, q = "FIRMWARE" => "something" \notin V
         PROVE  /\ tvw_init_tvw_2(n) \in Seq(Keeps(q, B, V)) /\ d \in Seq(Keeps(q, B, V))
                /\ o \in Seq(Keeps(q, B, V))
    <2>1. Other \in Keeps(q, B, V)
      BY IsOther
    <2>2. Clear(RC, {512}) \in Keeps(q, B, V)
      BY <1>2, <1>10, RcBits, Clears, AreSwitched
    <2>3. Disable("something") \in Keeps(q, B, V)
      BY <1>2, <1>10, Clears, AreSwitched
    <2>4. a \in Seq(Keeps(q, B, V)) /\ d \in Seq(Keeps(q, B, V)) /\ o \in Seq(Keeps(q, B, V))
      BY <1>3, <1>4, <2>1, <2>2, <2>3
    <2> QED
      BY <1>1, <2>4, Join
  <1>11. Settles(tvw_init_tvw_2(n), Makes(RC, {512}, {}), Keeps(RC, {512}, {}))
    <2>1. a[2] \in Makes(RC, {512}, {}) /\ a[3] \in Keeps(RC, {512}, {})
      BY <1>2, <1>6, RcBits, Clears, AreSwitched, IsOther
    <2>2. 2 \in 1..Len(a) /\ \A m \in (2 + 1)..Len(a) : m = 3
      BY <1>6
    <2>3. Keeps(RC, {512}, {}) \in SUBSET Accesses /\ {} \in SUBSET Bits[RC] /\ RC \in Regs
      BY RcBits, Within
    <2>4. Settles(a, Makes(RC, {512}, {}), Keeps(RC, {512}, {}))
      BY <1>9, <2>1, <2>2, <2>3, SettlesAt
    <2>5. d \in Seq(Keeps(RC, {512}, {})) /\ o \in Seq(Keeps(RC, {512}, {}))
      BY <1>2, <1>10, <2>3
    <2> QED
      BY <1>1, <2>4, <2>5, SettlesKept
  <1>12. ASSUME n = 2
         PROVE  Settles(tvw_init_tvw_2(n), Makes("FIRMWARE", {"something"}, {}),
                        Keeps("FIRMWARE", {"something"}, {}))
    <2>1. d[1] \in Makes("FIRMWARE", {"something"}, {})
      BY <1>2, <1>5, <1>12, Clears, AreSwitched
    <2>2. 1 \in 1..Len(d) /\ \A m \in (1 + 1)..Len(d) : FALSE
      <3>1. Len(d) = 1
        BY <1>5, <1>12
      <3> QED
        BY <3>1
    <2>3. Keeps("FIRMWARE", {"something"}, {}) \in SUBSET Accesses
      BY Within
    <2>4. Settles(d, Makes("FIRMWARE", {"something"}, {}), Keeps("FIRMWARE", {"something"}, {}))
      BY <1>9, <2>1, <2>2, <2>3, SettlesAt
    <2>5. o \in Seq(Keeps("FIRMWARE", {"something"}, {}))
      <3>1. {} \in SUBSET Bits["FIRMWARE"] /\ "something" \notin {}
        OBVIOUS
      <3> QED
        BY <1>2, <1>10, <3>1
    <2> QED
      BY <1>1, <1>9, <2>4, <2>5, SettlesKept, SettlesLate
  <1> QED
    BY <1>9, <1>10, <1>11, <1>12

LEMMA Others ==
    /\ tvw_init_tvw_3 \in Seq(Plain) /\ tvw_finish_init_tvw \in Seq(Plain)
    /\ tvw_tune_tvw \in Seq(Plain)
    /\ \A q, B, V : /\ tvw_init_tvw_3 \in Seq(Keeps(q, B, V))
                    /\ tvw_finish_init_tvw \in Seq(Keeps(q, B, V))
                    /\ tvw_tune_tvw \in Seq(Keeps(q, B, V))
  BY IsOther DEF tvw_init_tvw_3, tvw_finish_init_tvw, tvw_tune_tvw

LEMMA AdecIn ==
    ASSUME NEW K, Other \in K, Set(RC, AudioReset) \in K, Clear(RC, AudioReset) \in K
    PROVE  tvw_init_adec \in Seq(K) /\ Pulse(RC, AudioReset) \in Seq(K) /\ <<Other>> \in Seq(K)
  <1> DEFINE o == <<Other>>
             p == Pulse(RC, AudioReset)
  <1>1. o \in Seq(K) /\ p \in Seq(K)
    BY DEF Pulse
  <1>2. tvw_init_adec = (((((o \o p) \o o) \o p) \o o) \o p) \o o
    BY DEF tvw_init_adec, RC
  <1> HIDE DEF o, p
  <1>3. o \o p \in Seq(K)
    BY <1>1, Join
  <1>4. ((o \o p) \o o) \o p \in Seq(K)
    BY <1>1, <1>3, Join
  <1>5. ((((o \o p) \o o) \o p) \o o) \o p \in Seq(K)
    BY <1>1, <1>4, Join
  <1>6. tvw_init_adec \in Seq(K)
    BY <1>1, <1>2, <1>5, Join
  <1> QED
    BY <1>1, <1>6 DEF o, p

LEMMA init_adec_Does ==
    /\ tvw_init_adec \in Seq(Unloading)
    /\ \A q \in Regs : \A B, V \in SUBSET Bits[q] :
          (q = RC => V = {} /\ B \cap AudioReset = {}) => tvw_init_adec \in Seq(Keeps(q, B, V))
    /\ Settles(tvw_init_adec, Makes(RC, AudioReset, {}), Keeps(RC, AudioReset, {}))
  <1>1. RC \in Regs /\ AudioReset \in SUBSET Bits[RC] /\ {} \in SUBSET Bits[RC]
    BY RcBits
  <1>2. Set(RC, AudioReset) \in Unloading /\ Clear(RC, AudioReset) \in Unloading
        /\ Other \in Unloading
    BY <1>1, Sets, Clears, AreSwitched, IsOther
  <1>3. tvw_init_adec \in Seq(Unloading) /\ Pulse(RC, AudioReset) \in Seq(Unloading)
        /\ <<Other>> \in Seq(Unloading)
    BY <1>2, AdecIn
  <1>4. ASSUME NEW q \in Regs, NEW B \in SUBSET Bits[q], NEW V \in SUBSET Bits[q],
               q = RC => V = {} /\ B \cap AudioReset = {}
        PROVE  tvw_init_adec \in Seq(Keeps(q, B, V))
    <2>1. Set(RC, AudioReset) \in Keeps(q, B, V)
      BY <1>1, <1>4, Sets, AreSwitched
    <2>2. Clear(RC, AudioReset) \in Keeps(q, B, V)
      BY <1>1, <1>4, Clears, AreSwitched
    <2> QED
      BY <2>1, <2>2, IsOther, AdecIn
  <1>5. Settles(tvw_init_adec, Makes(RC, AudioReset, {}), Keeps(RC, AudioReset, {}))
    <2> DEFINE o == <<Other>>
               p == Pulse(RC, AudioReset)
               X == Makes(RC, AudioReset, {})
               K == Keeps(RC, AudioReset, {})
    <2>1. o \in Seq(Accesses) /\ p \in Seq(Accesses)
      BY <1>3, Subsets, Widen
    <2>2. Len(p) = 2 /\ p[2] = Clear(RC, AudioReset)
      BY DEF Pulse
    <2>3. Clear(RC, AudioReset) \in X /\ K \in SUBSET Accesses
      BY <1>1, Clears, AreSwitched, Within
    <2>4. o \in Seq(K)
      BY IsOther
    <2>5. tvw_init_adec = (((((o \o p) \o o) \o p) \o o) \o p) \o o
      BY DEF tvw_init_adec, RC
    <2> HIDE DEF o, p, X, K
    <2>6. Settles(p, X, K)
      <3>1. 2 \in 1..Len(p) /\ \A m \in (2 + 1)..Len(p) : FALSE
        BY <2>2
      <3> QED
        BY <2>1, <2>2, <2>3, <3>1, SettlesAt
    <2>7. (((o \o p) \o o) \o p) \o o \in Seq(Accesses)
      <3>1. (o \o p) \o o \in Seq(Accesses)
        BY <2>1, Join
      <3> QED
        BY <2>1, <3>1, Join
    <2>8. Settles(((((o \o p) \o o) \o p) \o o) \o p, X, K)
      BY <2>6, <2>7, SettlesLate
    <2>9. Settles((((((o \o p) \o o) \o p) \o o) \o p) \o o, X, K)
      BY <2>4, <2>8, SettlesKept
    <2> QED
      BY <2>5, <2>9 DEF X, K
  <1> QED
    BY <1>3, <1>4, <1>5

LEMMA Scaling ==
    LET a == Replace("USC_CTL", {1024}, {512})
    IN  /\ a \in Unloading /\ a \in Makes("USC_CTL", {512}, {512})
        /\ \A q \in Regs : \A B, V : q # "USC_CTL" => a \in Keeps(q, B, V)
  <1> DEFINE a == Replace("USC_CTL", {1024}, {512})
  <1>1. a = [op |-> "modify", reg |-> "USC_CTL", keep |-> {512}, set |-> {512}]
    BY BitsOf DEF Replace
  <1>2. {512} \subseteq Bits["USC_CTL"] /\ {512} \subseteq AllBits /\ "USC_CTL" \in Regs
    BY BitsOf
  <1>3. a \in Accesses
    BY <1>1, <1>2 DEF Accesses, OpNames
  <1>4. a.op = "modify" /\ a.reg = "USC_CTL" /\ a.keep = {512} /\ a.set = {512}
    BY <1>1
  <1> HIDE DEF a
  <1>5. a \in Unloading /\ a \in Makes("USC_CTL", {512}, {512})
    BY <1>3, <1>4 DEF Unloading, Makes
  <1>6. \A q \in Regs : \A B, V : q # "USC_CTL" => a \in Keeps(q, B, V)
    BY <1>3, <1>4 DEF Keeps
  <1> QED
    BY <1>5, <1>6 DEF a

LEMMA Init56In ==
    ASSUME NEW K, Other \in K, Enable("something") \in K, Set("USC_CTL", {1024}) \in K,
           Replace("USC_CTL", {1024}, {512}) \in K,
           Set(RC, AudioReset) \in K, Clear(RC, AudioReset) \in K, Clear(RC, {128}) \in K
    PROVE  tvw_init56_tvw \in Seq(K)
  <1> DEFINE a == <<Other, Enable("something"), Other, Set("USC_CTL", {1024}),
                    Replace("USC_CTL", {1024}, {512}), Other>>
             b == <<Other, Enable("something"), Other>>
             c == <<Other, Set(RC, AudioReset), Other, Clear(RC, {128}), Other>>
             p == Pulse(RC, AudioReset)
  <1>1. a \in Seq(K) /\ b \in Seq(K) /\ c \in Seq(K) /\ p \in Seq(K)
    BY DEF Pulse
  <1>2. tvw_init56_tvw = (((a \o p) \o b) \o p) \o c
    BY DEF tvw_init56_tvw, RC
  <1> HIDE DEF a, b, c, p
  <1>3. (a \o p) \o b \in Seq(K)
    BY <1>1, Join
  <1> QED
    BY <1>1, <1>2, <1>3, Join

LEMMA init56_tvw_Does ==
    /\ tvw_init56_tvw \in Seq(Unloading)
    /\ \A q \in Regs : \A B, V \in SUBSET Bits[q] :
          (q \notin {"USC_CTL", "FIRMWARE"} /\ (q = RC => V = {} /\ B \cap AudioReset = {}))
             => tvw_init56_tvw \in Seq(Keeps(q, B, V))
    /\ Settles(tvw_init56_tvw, Makes("USC_CTL", {512}, {512}), Keeps("USC_CTL", {512}, {512}))
  <1>1. /\ RC \in Regs /\ AudioReset \in SUBSET Bits[RC] /\ {128} \in SUBSET Bits[RC]
        /\ {} \in SUBSET Bits[RC]
        /\ "USC_CTL" \in Regs /\ {1024} \in SUBSET Bits["USC_CTL"]
        /\ {512} \in SUBSET Bits["USC_CTL"]
        /\ "FIRMWARE" \in Regs /\ {"something"} \in SUBSET Bits["FIRMWARE"]
        /\ RC # "USC_CTL" /\ RC # "FIRMWARE"
    BY BitsOf, RcBits DEF RC
  <1>2. Enable("something") = Set("FIRMWARE", {"something"})
    BY DEF Enable
  <1>3. /\ Set(RC, AudioReset) \in Unloading /\ Clear(RC, AudioReset) \in Unloading
        /\ Other \in Unloading
        /\ Clear(RC, {128}) \in Unloading /\ Set("USC_CTL", {1024}) \in Unloading
        /\ Enable("something") \in Unloading
    BY <1>1, <1>2, Sets, Clears, AreSwitched, IsOther
  <1>4. tvw_init56_tvw \in Seq(Unloading)
    BY <1>3, Init56In, Scaling
  <1>5. ASSUME NEW q \in Regs, NEW B \in SUBSET Bits[q], NEW V \in SUBSET Bits[q],
               q \notin {"USC_CTL", "FIRMWARE"}, q = RC => V = {} /\ B \cap AudioReset = {}
        PROVE  tvw_init56_tvw \in Seq(Keeps(q, B, V))
    <2>1. Set(RC, AudioReset) \in Keeps(q, B, V)
      BY <1>1, <1>5, Sets, AreSwitched
    <2>2. Clear(RC, AudioReset) \in Keeps(q, B, V) /\ Clear(RC, {128}) \in Keeps(q, B, V)
      BY <1>1, <1>5, Clears, AreSwitched
    <2>3. Set("USC_CTL", {1024}) \in Keeps(q, B, V)
      BY <1>1, <1>5, Sets, AreSwitched
    <2>4. Enable("something") \in Keeps(q, B, V)
      BY <1>1, <1>2, <1>5, Sets, AreSwitched
    <2>5. Replace("USC_CTL", {1024}, {512}) \in Keeps(q, B, V)
      BY <1>5, Scaling
    <2> QED
      BY <2>1, <2>2, <2>3, <2>4, <2>5, IsOther, Init56In
  <1>6. Settles(tvw_init56_tvw, Makes("USC_CTL", {512}, {512}), Keeps("USC_CTL", {512}, {512}))
    <2> DEFINE a == <<Other, Enable("something"), Other, Set("USC_CTL", {1024}),
                      Replace("USC_CTL", {1024}, {512}), Other>>
               b == <<Other, Enable("something"), Other>>
               c == <<Other, Set(RC, AudioReset), Other, Clear(RC, {128}), Other>>
               p == Pulse(RC, AudioReset)
               X == Makes("USC_CTL", {512}, {512})
               K == Keeps("USC_CTL", {512}, {512})
    <2>1. /\ Set(RC, AudioReset) \in K /\ Clear(RC, AudioReset) \in K /\ Clear(RC, {128}) \in K
          /\ Enable("something") \in K /\ Other \in K
      <3>1. Set(RC, AudioReset) \in K /\ Enable("something") \in K
        BY <1>1, <1>2, Sets, AreSwitched
      <3>2. Clear(RC, AudioReset) \in K /\ Clear(RC, {128}) \in K
        BY <1>1, Clears, AreSwitched
      <3> QED
        BY <3>1, <3>2, IsOther
    <2>2. Replace("USC_CTL", {1024}, {512}) \in X /\ Replace("USC_CTL", {1024}, {512}) \in Accesses
      BY Scaling, Subsets
    <2>3. a \in Seq(Accesses) /\ Len(a) = 6 /\ a[5] = Replace("USC_CTL", {1024}, {512})
          /\ a[6] = Other
      <3>1. Other \in Accesses /\ Enable("something") \in Accesses
            /\ Set("USC_CTL", {1024}) \in Accesses
        BY <1>3, Subsets
      <3> QED
        BY <2>2, <3>1
    <2> HIDE DEF X, K
    <2>4. b \in Seq(K) /\ c \in Seq(K) /\ p \in Seq(K)
      BY <2>1 DEF Pulse
    <2>5. tvw_init56_tvw = (((a \o p) \o b) \o p) \o c
      BY DEF tvw_init56_tvw, RC
    <2>6. K \in SUBSET Accesses
      BY Within DEF K
    <2> HIDE DEF a, b, c, p
    <2>7. Settles(a, X, K)
      <3>1. 5 \in 1..Len(a) /\ \A m \in (5 + 1)..Len(a) : m = 6
        BY <2>3
      <3> QED
        BY <2>1, <2>2, <2>3, <2>6, <3>1, SettlesAt
    <2>8. Settles((a \o p) \o b, X, K)
      BY <2>4, <2>7, SettlesKept
    <2>9. Settles((((a \o p) \o b) \o p) \o c, X, K)
      BY <2>4, <2>8, SettlesKept
    <2> QED
      BY <2>5, <2>9 DEF X, K
  <1> QED
    BY <1>4, <1>5, <1>6

LEMMA init_unknown_1_Does ==
    /\ tvw_init_unknown_1 \in Seq(Unloading)
    /\ \A q \in Regs : \A B, V \in SUBSET Bits[q] :
          (q # "FIRMWARE" /\ (q = RC => V = {} /\ B \cap AudioReset = {} /\ 512 \notin B)
               /\ (q = "USC_CTL" => 1024 \notin B))
          => tvw_init_unknown_1 \in Seq(Keeps(q, B, V))
  <1> DEFINE c == tvw_init_unknown_1
             all == {Set("FIRMWARE", {"adec"}), Other, Set(RC, AudioReset),
                     Set("FIRMWARE", {"something"}), Set("USC_CTL", {1024}), Set(RC, {512})}
  <1>1. RC \in Regs /\ AudioReset \in SUBSET Bits[RC] /\ {512} \in SUBSET Bits[RC]
        /\ {2048} \in SUBSET Bits[RC] /\ "USC_CTL" \in Regs /\ {1024} \in SUBSET Bits["USC_CTL"]
        /\ "FIRMWARE" \in Regs /\ {"adec"} \in SUBSET Bits["FIRMWARE"]
        /\ {"something"} \in SUBSET Bits["FIRMWARE"] /\ {"isoch"} \in SUBSET Bits["FIRMWARE"]
        /\ RC # "USC_CTL" /\ RC # "FIRMWARE"
    BY BitsOf, RcBits DEF RC
  <1>2. /\ c \in Seq(all) /\ Len(c) = 7
        /\ c[1] = Set("FIRMWARE", {"adec"})
        /\ c[2] = Other
        /\ c[3] = Set(RC, AudioReset)
        /\ c[4] = Other
        /\ c[5] = Set("FIRMWARE", {"something"})
        /\ c[6] = Set("USC_CTL", {1024})
        /\ c[7] = Set(RC, {512})
    BY DEF tvw_init_unknown_1, Enable, RC
  <1>3. \A K : all \subseteq K => c \in Seq(K)
    <2> HIDE DEF c, all
    <2> QED
      BY <1>2
  <1>4. c \in Seq(Unloading)
    <2>1. Set("FIRMWARE", {"adec"}) \in Unloading
      BY <1>1, Sets, AreSwitched
    <2>2. Other \in Unloading
      BY <1>1, IsOther
    <2>3. Set(RC, AudioReset) \in Unloading
      BY <1>1, Sets, AreSwitched
    <2>4. Set("FIRMWARE", {"something"}) \in Unloading
      BY <1>1, Sets, AreSwitched
    <2>5. Set("USC_CTL", {1024}) \in Unloading
      BY <1>1, Sets, AreSwitched
    <2>6. Set(RC, {512}) \in Unloading
      BY <1>1, Sets, AreSwitched
    <2>7. all \subseteq Unloading
      BY <2>1, <2>2, <2>3, <2>4, <2>5, <2>6
    <2> HIDE DEF c, all
    <2> QED
      BY <1>3, <2>7
  <1>5. c \in Seq(Accesses)
    <2> HIDE DEF c
    <2> QED
      BY <1>4, Subsets, Widen
  <1>6. ASSUME NEW q \in Regs, NEW B \in SUBSET Bits[q], NEW V \in SUBSET Bits[q],
               q # "FIRMWARE" /\ (q = RC => V = {} /\ B \cap AudioReset = {} /\ 512 \notin B)
                   /\ (q = "USC_CTL" => 1024 \notin B)
        PROVE  c \in Seq(Keeps(q, B, V))
    <2>1. Set("FIRMWARE", {"adec"}) \in Keeps(q, B, V)
      BY <1>1, <1>6, Sets, AreSwitched
    <2>2. Other \in Keeps(q, B, V)
      BY <1>1, <1>6, IsOther
    <2>3. Set(RC, AudioReset) \in Keeps(q, B, V)
      BY <1>1, <1>6, Sets, AreSwitched
    <2>4. Set("FIRMWARE", {"something"}) \in Keeps(q, B, V)
      BY <1>1, <1>6, Sets, AreSwitched
    <2>5. Set("USC_CTL", {1024}) \in Keeps(q, B, V)
      BY <1>1, <1>6, Sets, AreSwitched
    <2>6. Set(RC, {512}) \in Keeps(q, B, V)
      BY <1>1, <1>6, Sets, AreSwitched
    <2>7. all \subseteq Keeps(q, B, V)
      BY <2>1, <2>2, <2>3, <2>4, <2>5, <2>6
    <2> HIDE DEF c, all
    <2> QED
      BY <1>3, <2>7
  <1> HIDE DEF c, all
  <1> QED
    BY <1>4, <1>6 DEF c

LEMMA init_unknown_2_Keeps ==
    ASSUME NEW q \in Regs, NEW B \in SUBSET Bits[q], NEW V \in SUBSET Bits[q],
           q = RC => V = {}, q = "USC_CTL" => 1024 \notin V, q = "FIRMWARE" => "isoch" \notin B
    PROVE  tvw_init_unknown_2 \in Seq(Keeps(q, B, V))
  <1> DEFINE c == tvw_init_unknown_2
             all == {Clear("USC_CTL", {1024}), Other, Set("FIRMWARE", {"isoch"}), Clear(RC, {2048})}
  <1>1. /\ RC \in Regs /\ {2048} \in SUBSET Bits[RC]
        /\ "USC_CTL" \in Regs /\ {1024} \in SUBSET Bits["USC_CTL"]
        /\ "FIRMWARE" \in Regs /\ {"isoch"} \in SUBSET Bits["FIRMWARE"]
        /\ RC # "USC_CTL" /\ RC # "FIRMWARE"
    BY BitsOf, RcBits DEF RC
  <1>2. c \in Seq(all)
    BY DEF tvw_init_unknown_2, Enable, RC
  <1>3. Clear("USC_CTL", {1024}) \in Keeps(q, B, V)
    BY <1>1, Clears, AreSwitched
  <1>4. Set("FIRMWARE", {"isoch"}) \in Keeps(q, B, V)
    BY <1>1, Sets, AreSwitched
  <1>5. Clear(RC, {2048}) \in Keeps(q, B, V)
    BY <1>1, Clears, AreSwitched
  <1>6. all \subseteq Keeps(q, B, V)
    BY <1>3, <1>4, <1>5, IsOther
  <1> HIDE DEF c, all
  <1>7. c \in Seq(Keeps(q, B, V))
    BY <1>2, <1>6, Widen
  <1> QED
    BY <1>7 DEF c

LEMMA init_unknown_2_Does ==
    /\ tvw_init_unknown_2 \in Seq(Unloading)
    /\ \A q \in Regs : \A B, V \in SUBSET Bits[q] :
          ((q = RC => V = {}) /\ (q = "USC_CTL" => 1024 \notin V)
               /\ (q = "FIRMWARE" => "isoch" \notin B))
          => tvw_init_unknown_2 \in Seq(Keeps(q, B, V))
    /\ Settles(tvw_init_unknown_2, Makes("USC_CTL", {1024}, {}), Keeps("USC_CTL", {1024}, {}))
    /\ Settles(tvw_init_unknown_2, Makes("FIRMWARE", {"isoch"}, {"isoch"}),
               Keeps("FIRMWARE", {"isoch"}, {"isoch"}))
  <1> DEFINE c == tvw_init_unknown_2
             all == {Clear("USC_CTL", {1024}), Other, Set("FIRMWARE", {"isoch"}), Clear(RC, {2048})}
  <1>1. RC \in Regs /\ AudioReset \in SUBSET Bits[RC] /\ {512} \in SUBSET Bits[RC]
        /\ {2048} \in SUBSET Bits[RC] /\ "USC_CTL" \in Regs /\ {1024} \in SUBSET Bits["USC_CTL"]
        /\ "FIRMWARE" \in Regs /\ {"adec"} \in SUBSET Bits["FIRMWARE"]
        /\ {"something"} \in SUBSET Bits["FIRMWARE"] /\ {"isoch"} \in SUBSET Bits["FIRMWARE"]
        /\ RC # "USC_CTL" /\ RC # "FIRMWARE"
    BY BitsOf, RcBits DEF RC
  <1>2. /\ c \in Seq(all) /\ Len(c) = 5
        /\ c[1] = Clear("USC_CTL", {1024})
        /\ c[2] = Other
        /\ c[3] = Set("FIRMWARE", {"isoch"})
        /\ c[4] = Clear(RC, {2048})
        /\ c[5] = Other
    BY DEF tvw_init_unknown_2, Enable, RC
  <1>3. \A K : all \subseteq K => c \in Seq(K)
    <2> HIDE DEF c, all
    <2> QED
      BY <1>2
  <1>4. c \in Seq(Unloading)
    <2>1. Clear("USC_CTL", {1024}) \in Unloading
      BY <1>1, Clears, AreSwitched
    <2>2. Other \in Unloading
      BY <1>1, IsOther
    <2>3. Set("FIRMWARE", {"isoch"}) \in Unloading
      BY <1>1, Sets, AreSwitched
    <2>4. Clear(RC, {2048}) \in Unloading
      BY <1>1, Clears, AreSwitched
    <2>5. all \subseteq Unloading
      BY <2>1, <2>2, <2>3, <2>4
    <2> HIDE DEF c, all
    <2> QED
      BY <1>3, <2>5
  <1>5. c \in Seq(Accesses)
    <2> HIDE DEF c
    <2> QED
      BY <1>4, Subsets, Widen
  <1>6. ASSUME NEW q \in Regs, NEW B \in SUBSET Bits[q], NEW V \in SUBSET Bits[q],
               (q = RC => V = {}) /\ (q = "USC_CTL" => 1024 \notin V)
                   /\ (q = "FIRMWARE" => "isoch" \notin B)
        PROVE  c \in Seq(Keeps(q, B, V))
    BY <1>6, init_unknown_2_Keeps
  <1>7. Settles(c, Makes("USC_CTL", {1024}, {}), Keeps("USC_CTL", {1024}, {}))
    <2> HIDE DEF c
    <2>1. c[1] \in Makes("USC_CTL", {1024}, {})
      BY <1>1, <1>2, Clears, AreSwitched
    <2>2. c[2] \in Keeps("USC_CTL", {1024}, {}) /\ c[3] \in Keeps("USC_CTL", {1024}, {})
          /\ c[4] \in Keeps("USC_CTL", {1024}, {}) /\ c[5] \in Keeps("USC_CTL", {1024}, {})
      BY <1>1, <1>2, IsOther, Sets, Clears, AreSwitched
    <2>3. 1 \in 1..Len(c) /\ \A m \in (1 + 1)..Len(c) : m = 2 \/ m = 3 \/ m = 4 \/ m = 5
      BY <1>2
    <2>4. Keeps("USC_CTL", {1024}, {}) \in SUBSET Accesses
      BY Within
    <2> QED
      BY <1>5, <2>1, <2>2, <2>3, <2>4, SettlesAt
  <1>8. Settles(c, Makes("FIRMWARE", {"isoch"}, {"isoch"}), Keeps("FIRMWARE", {"isoch"}, {"isoch"}))
    <2> HIDE DEF c
    <2>1. c[3] \in Makes("FIRMWARE", {"isoch"}, {"isoch"})
      BY <1>1, <1>2, Sets, AreSwitched
    <2>2. c[4] \in Keeps("FIRMWARE", {"isoch"}, {"isoch"})
          /\ c[5] \in Keeps("FIRMWARE", {"isoch"}, {"isoch"})
      BY <1>1, <1>2, IsOther, Clears, AreSwitched
    <2>3. 3 \in 1..Len(c) /\ \A m \in (3 + 1)..Len(c) : m = 4 \/ m = 5
      BY <1>2
    <2>4. Keeps("FIRMWARE", {"isoch"}, {"isoch"}) \in SUBSET Accesses
      BY Within
    <2> QED
      BY <1>5, <2>1, <2>2, <2>3, <2>4, SettlesAt
  <1> HIDE DEF c, all
  <1> QED
    BY <1>4, <1>6, <1>7, <1>8 DEF c

LEMMA init_8051_Does ==
    /\ tvw_init_8051 \in Seq(Unloading)
    /\ \A q \in Regs : \A B, V \in SUBSET Bits[q] :
          (q \notin {"uc_f089", "uc_f02a"}) => tvw_init_8051 \in Seq(Keeps(q, B, V))
    /\ Settles(tvw_init_8051, Makes("uc_f089", {128}, {128}), Keeps("uc_f089", {128}, {128}))
    /\ Settles(tvw_init_8051, Makes("uc_f02a", {64}, {64}), Keeps("uc_f02a", {64}, {64}))
  <1> DEFINE c == tvw_init_8051
             all == {Other, Set("uc_f089", {128}), Write("uc_f02a", {64})}
  <1>1. "uc_f089" \in Regs /\ {128} \in SUBSET Bits["uc_f089"] /\ "uc_f02a" \in Regs
        /\ {64} \in SUBSET Bits["uc_f02a"]
    BY BitsOf, RcBits DEF RC
  <1>2. /\ c \in Seq(all) /\ Len(c) = 5
        /\ c[1] = Other
        /\ c[2] = Set("uc_f089", {128})
        /\ c[3] = Other
        /\ c[4] = Write("uc_f02a", {64})
        /\ c[5] = Other
    BY DEF tvw_init_8051, Enable, RC
  <1>3. \A K : all \subseteq K => c \in Seq(K)
    <2> HIDE DEF c, all
    <2> QED
      BY <1>2
  <1>4. c \in Seq(Unloading)
    <2>1. Other \in Unloading
      BY <1>1, IsOther
    <2>2. Set("uc_f089", {128}) \in Unloading
      BY <1>1, Sets, AreSwitched
    <2>3. Write("uc_f02a", {64}) \in Unloading
      BY <1>1, Writes, AreSwitched
    <2>4. all \subseteq Unloading
      BY <2>1, <2>2, <2>3
    <2> HIDE DEF c, all
    <2> QED
      BY <1>3, <2>4
  <1>5. c \in Seq(Accesses)
    <2> HIDE DEF c
    <2> QED
      BY <1>4, Subsets, Widen
  <1>6. ASSUME NEW q \in Regs, NEW B \in SUBSET Bits[q], NEW V \in SUBSET Bits[q],
               q \notin {"uc_f089", "uc_f02a"}
        PROVE  c \in Seq(Keeps(q, B, V))
    <2>1. Other \in Keeps(q, B, V)
      BY <1>1, <1>6, IsOther
    <2>2. Set("uc_f089", {128}) \in Keeps(q, B, V)
      BY <1>1, <1>6, Sets, AreSwitched
    <2>3. Write("uc_f02a", {64}) \in Keeps(q, B, V)
      BY <1>1, <1>6, Writes, AreSwitched
    <2>4. all \subseteq Keeps(q, B, V)
      BY <2>1, <2>2, <2>3
    <2> HIDE DEF c, all
    <2> QED
      BY <1>3, <2>4
  <1>7. Settles(c, Makes("uc_f089", {128}, {128}), Keeps("uc_f089", {128}, {128}))
    <2> HIDE DEF c
    <2>1. c[2] \in Makes("uc_f089", {128}, {128})
      BY <1>1, <1>2, Sets, AreSwitched
    <2>2. c[3] \in Keeps("uc_f089", {128}, {128}) /\ c[4] \in Keeps("uc_f089", {128}, {128})
          /\ c[5] \in Keeps("uc_f089", {128}, {128})
      BY <1>1, <1>2, IsOther, Writes, AreSwitched
    <2>3. 2 \in 1..Len(c) /\ \A m \in (2 + 1)..Len(c) : m = 3 \/ m = 4 \/ m = 5
      BY <1>2
    <2>4. Keeps("uc_f089", {128}, {128}) \in SUBSET Accesses
      BY Within
    <2> QED
      BY <1>5, <2>1, <2>2, <2>3, <2>4, SettlesAt
  <1>8. Settles(c, Makes("uc_f02a", {64}, {64}), Keeps("uc_f02a", {64}, {64}))
    <2> HIDE DEF c
    <2>1. c[4] \in Makes("uc_f02a", {64}, {64})
      BY <1>1, <1>2, Writes, AreSwitched
    <2>2. c[5] \in Keeps("uc_f02a", {64}, {64})
      BY <1>1, <1>2, IsOther
    <2>3. 4 \in 1..Len(c) /\ \A m \in (4 + 1)..Len(c) : m = 5
      BY <1>2
    <2>4. Keeps("uc_f02a", {64}, {64}) \in SUBSET Accesses
      BY Within
    <2> QED
      BY <1>5, <2>1, <2>2, <2>3, <2>4, SettlesAt
  <1> HIDE DEF c, all
  <1> QED
    BY <1>4, <1>6, <1>7, <1>8 DEF c

LEMMA finish_init_8051_Does ==
    /\ tvw_finish_init_8051 \in Seq(Unloading)
    /\ \A q \in Regs : \A B, V \in SUBSET Bits[q] :
          (q \notin {"uc_f089", "uc_f02a"}) => tvw_finish_init_8051 \in Seq(Keeps(q, B, V))
    /\ Settles(tvw_finish_init_8051, Makes("uc_f089", {128}, {}), Keeps("uc_f089", {128}, {}))
    /\ Settles(tvw_finish_init_8051, Makes("uc_f02a", {64}, {}), Keeps("uc_f02a", {64}, {}))
  <1> DEFINE c == tvw_finish_init_8051
             all == {Clear("uc_f02a", {64}), Other, Clear("uc_f089", {128})}
  <1>1. "uc_f089" \in Regs /\ {128} \in SUBSET Bits["uc_f089"] /\ "uc_f02a" \in Regs
        /\ {64} \in SUBSET Bits["uc_f02a"]
    BY BitsOf, RcBits DEF RC
  <1>2. /\ c \in Seq(all) /\ Len(c) = 4
        /\ c[1] = Clear("uc_f02a", {64})
        /\ c[2] = Other
        /\ c[3] = Clear("uc_f089", {128})
        /\ c[4] = Other
    BY DEF tvw_finish_init_8051, Enable, RC
  <1>3. \A K : all \subseteq K => c \in Seq(K)
    <2> HIDE DEF c, all
    <2> QED
      BY <1>2
  <1>4. c \in Seq(Unloading)
    <2>1. Clear("uc_f02a", {64}) \in Unloading
      BY <1>1, Clears, AreSwitched
    <2>2. Other \in Unloading
      BY <1>1, IsOther
    <2>3. Clear("uc_f089", {128}) \in Unloading
      BY <1>1, Clears, AreSwitched
    <2>4. all \subseteq Unloading
      BY <2>1, <2>2, <2>3
    <2> HIDE DEF c, all
    <2> QED
      BY <1>3, <2>4
  <1>5. c \in Seq(Accesses)
    <2> HIDE DEF c
    <2> QED
      BY <1>4, Subsets, Widen
  <1>6. ASSUME NEW q \in Regs, NEW B \in SUBSET Bits[q], NEW V \in SUBSET Bits[q],
               q \notin {"uc_f089", "uc_f02a"}
        PROVE  c \in Seq(Keeps(q, B, V))
    <2>1. Clear("uc_f02a", {64}) \in Keeps(q, B, V)
      BY <1>1, <1>6, Clears, AreSwitched
    <2>2. Other \in Keeps(q, B, V)
      BY <1>1, <1>6, IsOther
    <2>3. Clear("uc_f089", {128}) \in Keeps(q, B, V)
      BY <1>1, <1>6, Clears, AreSwitched
    <2>4. all \subseteq Keeps(q, B, V)
      BY <2>1, <2>2, <2>3
    <2> HIDE DEF c, all
    <2> QED
      BY <1>3, <2>4
  <1>7. Settles(c, Makes("uc_f089", {128}, {}), Keeps("uc_f089", {128}, {}))
    <2> HIDE DEF c
    <2>1. c[3] \in Makes("uc_f089", {128}, {})
      BY <1>1, <1>2, Clears, AreSwitched
    <2>2. c[4] \in Keeps("uc_f089", {128}, {})
      BY <1>1, <1>2, IsOther
    <2>3. 3 \in 1..Len(c) /\ \A m \in (3 + 1)..Len(c) : m = 4
      BY <1>2
    <2>4. Keeps("uc_f089", {128}, {}) \in SUBSET Accesses
      BY Within
    <2> QED
      BY <1>5, <2>1, <2>2, <2>3, <2>4, SettlesAt
  <1>8. Settles(c, Makes("uc_f02a", {64}, {}), Keeps("uc_f02a", {64}, {}))
    <2> HIDE DEF c
    <2>1. c[1] \in Makes("uc_f02a", {64}, {})
      BY <1>1, <1>2, Clears, AreSwitched
    <2>2. c[2] \in Keeps("uc_f02a", {64}, {}) /\ c[3] \in Keeps("uc_f02a", {64}, {})
          /\ c[4] \in Keeps("uc_f02a", {64}, {})
      BY <1>1, <1>2, IsOther, Clears, AreSwitched
    <2>3. 1 \in 1..Len(c) /\ \A m \in (1 + 1)..Len(c) : m = 2 \/ m = 3 \/ m = 4
      BY <1>2
    <2>4. Keeps("uc_f02a", {64}, {}) \in SUBSET Accesses
      BY Within
    <2> QED
      BY <1>5, <2>1, <2>2, <2>3, <2>4, SettlesAt
  <1> HIDE DEF c, all
  <1> QED
    BY <1>4, <1>6, <1>7, <1>8 DEF c

LEMMA VideoWindow_Does ==
    /\ VideoWindow \in Seq(Plain)
    /\ \A q \in Regs : \A B, V \in SUBSET Bits[q] :
          (q # "SMGR_SOFT_RESETS") => VideoWindow \in Seq(Keeps(q, B, V))
    /\ Settles(VideoWindow, Makes("SMGR_SOFT_RESETS", {47}, {}), Keeps("SMGR_SOFT_RESETS", {47}, {}))
  <1> DEFINE c == VideoWindow
             all == {Other, Write("SMGR_SOFT_RESETS", {47}), Write("SMGR_SOFT_RESETS", {})}
  <1>1. "SMGR_SOFT_RESETS" \in Regs /\ {47} \in SUBSET Bits["SMGR_SOFT_RESETS"]
        /\ {} \in SUBSET Bits["SMGR_SOFT_RESETS"]
    BY BitsOf, RcBits DEF RC
  <1>2. /\ c \in Seq(all) /\ Len(c) = 4
        /\ c[1] = Other
        /\ c[2] = Write("SMGR_SOFT_RESETS", {47})
        /\ c[3] = Write("SMGR_SOFT_RESETS", {})
        /\ c[4] = Other
    BY DEF VideoWindow, Enable, RC
  <1>3. \A K : all \subseteq K => c \in Seq(K)
    <2> HIDE DEF c, all
    <2> QED
      BY <1>2
  <1>4. c \in Seq(Plain)
    <2>1. Other \in Plain
      BY <1>1, IsOther
    <2>2. Write("SMGR_SOFT_RESETS", {47}) \in Plain
      BY <1>1, Writes, AreSwitched
    <2>3. Write("SMGR_SOFT_RESETS", {}) \in Plain
      BY <1>1, Writes, AreSwitched
    <2>4. all \subseteq Plain
      BY <2>1, <2>2, <2>3
    <2> HIDE DEF c, all
    <2> QED
      BY <1>3, <2>4
  <1>5. c \in Seq(Accesses)
    <2> HIDE DEF c
    <2> QED
      BY <1>4, Subsets, Widen
  <1>6. ASSUME NEW q \in Regs, NEW B \in SUBSET Bits[q], NEW V \in SUBSET Bits[q],
               q # "SMGR_SOFT_RESETS"
        PROVE  c \in Seq(Keeps(q, B, V))
    <2>1. Other \in Keeps(q, B, V)
      BY <1>1, <1>6, IsOther
    <2>2. Write("SMGR_SOFT_RESETS", {47}) \in Keeps(q, B, V)
      BY <1>1, <1>6, Writes, AreSwitched
    <2>3. Write("SMGR_SOFT_RESETS", {}) \in Keeps(q, B, V)
      BY <1>1, <1>6, Writes, AreSwitched
    <2>4. all \subseteq Keeps(q, B, V)
      BY <2>1, <2>2, <2>3
    <2> HIDE DEF c, all
    <2> QED
      BY <1>3, <2>4
  <1>7. Settles(c, Makes("SMGR_SOFT_RESETS", {47}, {}), Keeps("SMGR_SOFT_RESETS", {47}, {}))
    <2> HIDE DEF c
    <2>1. c[3] \in Makes("SMGR_SOFT_RESETS", {47}, {})
      BY <1>1, <1>2, Writes, AreSwitched
    <2>2. c[4] \in Keeps("SMGR_SOFT_RESETS", {47}, {})
      BY <1>1, <1>2, IsOther
    <2>3. 3 \in 1..Len(c) /\ \A m \in (3 + 1)..Len(c) : m = 4
      BY <1>2
    <2>4. Keeps("SMGR_SOFT_RESETS", {47}, {}) \in SUBSET Accesses
      BY Within
    <2> QED
      BY <1>5, <2>1, <2>2, <2>3, <2>4, SettlesAt
  <1> HIDE DEF c, all
  <1> QED
    BY <1>4, <1>6, <1>7 DEF c

LEMMA StartAudio_Does ==
    /\ StartAudio \in Seq(Plain)
    /\ \A q \in Regs : \A B, V \in SUBSET Bits[q] :
          (q # "FEAW_COMMAND") => StartAudio \in Seq(Keeps(q, B, V))
    /\ Settles(StartAudio, Makes("FEAW_COMMAND", {50331648}, {}), Keeps("FEAW_COMMAND", {50331648}, {}))
  <1> DEFINE c == StartAudio
             all == {Other, Write("FEAW_COMMAND", {50331648}), Write("FEAW_COMMAND", {})}
  <1>1. "FEAW_COMMAND" \in Regs /\ {50331648} \in SUBSET Bits["FEAW_COMMAND"]
        /\ {} \in SUBSET Bits["FEAW_COMMAND"]
    BY BitsOf, RcBits DEF RC
  <1>2. /\ c \in Seq(all) /\ Len(c) = 4
        /\ c[1] = Other
        /\ c[2] = Write("FEAW_COMMAND", {50331648})
        /\ c[3] = Other
        /\ c[4] = Write("FEAW_COMMAND", {})
    BY DEF StartAudio, Enable, RC
  <1>3. \A K : all \subseteq K => c \in Seq(K)
    <2> HIDE DEF c, all
    <2> QED
      BY <1>2
  <1>4. c \in Seq(Plain)
    <2>1. Other \in Plain
      BY <1>1, IsOther
    <2>2. Write("FEAW_COMMAND", {50331648}) \in Plain
      BY <1>1, Writes, AreSwitched
    <2>3. Write("FEAW_COMMAND", {}) \in Plain
      BY <1>1, Writes, AreSwitched
    <2>4. all \subseteq Plain
      BY <2>1, <2>2, <2>3
    <2> HIDE DEF c, all
    <2> QED
      BY <1>3, <2>4
  <1>5. c \in Seq(Accesses)
    <2> HIDE DEF c
    <2> QED
      BY <1>4, Subsets, Widen
  <1>6. ASSUME NEW q \in Regs, NEW B \in SUBSET Bits[q], NEW V \in SUBSET Bits[q],
               q # "FEAW_COMMAND"
        PROVE  c \in Seq(Keeps(q, B, V))
    <2>1. Other \in Keeps(q, B, V)
      BY <1>1, <1>6, IsOther
    <2>2. Write("FEAW_COMMAND", {50331648}) \in Keeps(q, B, V)
      BY <1>1, <1>6, Writes, AreSwitched
    <2>3. Write("FEAW_COMMAND", {}) \in Keeps(q, B, V)
      BY <1>1, <1>6, Writes, AreSwitched
    <2>4. all \subseteq Keeps(q, B, V)
      BY <2>1, <2>2, <2>3
    <2> HIDE DEF c, all
    <2> QED
      BY <1>3, <2>4
  <1>7. Settles(c, Makes("FEAW_COMMAND", {50331648}, {}), Keeps("FEAW_COMMAND", {50331648}, {}))
    <2> HIDE DEF c
    <2>1. c[4] \in Makes("FEAW_COMMAND", {50331648}, {})
      BY <1>1, <1>2, Writes, AreSwitched
    <2>2. 4 \in 1..Len(c) /\ \A m \in (4 + 1)..Len(c) : FALSE
      BY <1>2
    <2>3. Keeps("FEAW_COMMAND", {50331648}, {}) \in SUBSET Accesses
      BY Within
    <2> QED
      BY <1>5, <2>1, <2>2, <2>3, SettlesAt
  <1> HIDE DEF c, all
  <1> QED
    BY <1>4, <1>6, <1>7 DEF c

-----------------------------------------------------------------------------
\* The stages.
St(i) == Stages[i].steps
TuneTuner == <<Enable("adec"), Step("tune")>>

\* The accesses of the stages four and six before their uploads.
BeforeFirst == tvw_init_tvw_1 \o tvw_init_tvw_2(1) \o tvw_init_tvw_3
BeforeSecond == <<Other>> \o tvw_finish_init_tvw \o <<Step("alt_setting")>> \o tvw_init_8051

LEMMA StageIs ==
    /\ St(1) = <<Step("malloc")>> /\ Stages[1].fail = "enomem"
    /\ St(2) = <<Step("libusb_init")>> /\ Stages[2].fail = "ignore"
    /\ St(3) = <<Step("libusb_open"), Step("libusb_claim")>> /\ Stages[3].fail = "err"
    /\ St(4) = BeforeFirst \o <<Load("CTRLT507")>> /\ Stages[4].fail = "err"
    /\ St(5) = <<Other, Other, Other>> /\ Stages[5].fail = "return"
    /\ St(6) = BeforeSecond \o <<Load("T507"), Other>> \o tvw_finish_init_8051
    /\ Stages[6].fail = "err"
    /\ St(7) = <<Step("attach")>> /\ Stages[7].fail = "ignore"
    /\ St(8) = tvw_init56_tvw \o tvw_init_adec \o tvw_init_adec
                   \o tvw_init_unknown_1 \o tvw_init_tvw_2(2) \o tvw_init_unknown_2
                   \o tvw_init_adec \o tvw_init_adec \o TuneTuner \o tvw_tune_tvw \o tvw_tune_tvw
    /\ Stages[8].fail = "err"
    /\ St(9) = VideoWindow /\ Stages[9].fail = "skip"
    /\ St(10) = tvw_tune_tvw /\ Stages[10].fail = "err"
    /\ St(11) = StartAudio /\ Stages[11].fail = "skip"
  <1>1. St(1) = <<Step("malloc")>> /\ Stages[1].fail = "enomem"
    BY DEF St, Stages, Allocate, Stage
  <1>2. St(2) = <<Step("libusb_init")>> /\ Stages[2].fail = "ignore"
    BY DEF St, Stages, Context, Stage
  <1>3. St(3) = <<Step("libusb_open"), Step("libusb_claim")>> /\ Stages[3].fail = "err"
    BY DEF St, Stages, Claim, Stage
  <1>4. St(4) = BeforeFirst \o <<Load("CTRLT507")>> /\ Stages[4].fail = "err"
    BY DEF St, Stages, FirstFirmware, Stage, BeforeFirst
  <1>5. St(5) = <<Other, Other, Other>> /\ Stages[5].fail = "return"
    BY DEF St, Stages, AfterUpload, Stage
  <1>6. St(6) = BeforeSecond \o <<Load("T507"), Other>> \o tvw_finish_init_8051
        /\ Stages[6].fail = "err"
    BY DEF St, Stages, SecondFirmware, Stage, BeforeSecond
  <1>7. St(7) = <<Step("attach")>> /\ Stages[7].fail = "ignore"
    BY DEF St, Stages, AttachTuner, Stage
  <1>8. St(8) = tvw_init56_tvw \o tvw_init_adec \o tvw_init_adec
                   \o tvw_init_unknown_1 \o tvw_init_tvw_2(2) \o tvw_init_unknown_2
                   \o tvw_init_adec \o tvw_init_adec \o TuneTuner \o tvw_tune_tvw \o tvw_tune_tvw
        /\ Stages[8].fail = "err"
    BY DEF St, Stages, Decoder, Stage, TuneTuner
  <1>9. /\ St(9) = VideoWindow /\ Stages[9].fail = "skip"
        /\ St(10) = tvw_tune_tvw /\ Stages[10].fail = "err"
        /\ St(11) = StartAudio /\ Stages[11].fail = "skip"
    BY DEF St, Stages, Stage
  <1> QED
    BY <1>1, <1>2, <1>3, <1>4, <1>5, <1>6, <1>7, <1>8, <1>9

\* All of tvw_init_56 to the end of the decoder's stage, seen from one of its chains on.
LEMMA DecoderParts ==
    ASSUME NEW X, NEW K, K \subseteq Accesses, TuneTuner \in Seq(Accesses)
    PROVE  /\ /\ tvw_init56_tvw \in Seq(K) /\ tvw_init_adec \in Seq(K)
              /\ tvw_init_unknown_1 \in Seq(K)
              /\ tvw_init_tvw_2(2) \in Seq(K) /\ tvw_init_unknown_2 \in Seq(K)
              /\ TuneTuner \in Seq(K) /\ tvw_tune_tvw \in Seq(K)
              => St(8) \in Seq(K)
           /\ /\ Settles(tvw_init56_tvw, X, K) /\ tvw_init_adec \in Seq(K)
              /\ tvw_init_unknown_1 \in Seq(K)
              /\ tvw_init_tvw_2(2) \in Seq(K) /\ tvw_init_unknown_2 \in Seq(K)
              /\ TuneTuner \in Seq(K) /\ tvw_tune_tvw \in Seq(K)
              => Settles(St(8), X, K)
           /\ /\ Settles(tvw_init_tvw_2(2), X, K)
              /\ tvw_init_unknown_2 \in Seq(K) /\ tvw_init_adec \in Seq(K)
              /\ TuneTuner \in Seq(K) /\ tvw_tune_tvw \in Seq(K)
              => Settles(St(8), X, K)
           /\ /\ Settles(tvw_init_unknown_2, X, K) /\ tvw_init_adec \in Seq(K)
              /\ TuneTuner \in Seq(K) /\ tvw_tune_tvw \in Seq(K)
              => Settles(St(8), X, K)
           /\ /\ Settles(tvw_init_adec, X, K) /\ TuneTuner \in Seq(K) /\ tvw_tune_tvw \in Seq(K)
              => Settles(St(8), X, K)
           /\ Settles(TuneTuner, X, K) /\ tvw_tune_tvw \in Seq(K) => Settles(St(8), X, K)
  <1> DEFINE a == tvw_init56_tvw
             b == tvw_init_adec
             c == tvw_init_unknown_1
             d == tvw_init_tvw_2(2)
             e == tvw_init_unknown_2
             f == TuneTuner
             g == tvw_tune_tvw
             p3 == (a \o b) \o b
             p4 == p3 \o c
             p5 == p4 \o d
             p6 == p5 \o e
             p7 == p6 \o b
             p8 == p7 \o b
             p9 == p8 \o f
             p11 == (p9 \o g) \o g
  <1>1. St(8) = p11
    BY StageIs
  <1>2. /\ a \in Seq(Accesses) /\ b \in Seq(Accesses) /\ c \in Seq(Accesses) /\ d \in Seq(Accesses)
        /\ e \in Seq(Accesses) /\ g \in Seq(Accesses)
    BY init56_tvw_Does, init_adec_Does, init_unknown_1_Does, init_tvw_2_Does, init_unknown_2_Does,
       Others, Subsets, Widen
  <1> HIDE DEF a, b, c, d, e, f, g
  <1>3. p3 \in Seq(Accesses)
    BY <1>2, Join
  <1> HIDE DEF p3
  <1>4. p4 \in Seq(Accesses)
    BY <1>2, <1>3, Join
  <1> HIDE DEF p4
  <1>5. p5 \in Seq(Accesses)
    BY <1>2, <1>4, Join
  <1> HIDE DEF p5
  <1>6. p6 \in Seq(Accesses)
    BY <1>2, <1>5, Join
  <1> HIDE DEF p6
  <1>7. p7 \in Seq(Accesses)
    BY <1>2, <1>6, Join
  <1> HIDE DEF p7
  <1>8. p8 \in Seq(Accesses)
    BY <1>2, <1>7, Join
  <1> HIDE DEF p8, p9, p11
  <1>9. ASSUME g \in Seq(K), Settles(p9, X, K) PROVE Settles(p11, X, K)
    BY <1>9, SettlesKept DEF p11
  <1>10. ASSUME f \in Seq(K), g \in Seq(K), Settles(p8, X, K) PROVE Settles(p11, X, K)
    BY <1>9, <1>10, SettlesKept DEF p9
  <1>11. ASSUME b \in Seq(K), f \in Seq(K), g \in Seq(K), Settles(p6, X, K) PROVE Settles(p11, X, K)
    <2>1. Settles(p7, X, K)
      BY <1>11, SettlesKept DEF p7
    <2> QED
      BY <1>10, <1>11, <2>1, SettlesKept DEF p8
  <1>12. ASSUME e \in Seq(K), b \in Seq(K), f \in Seq(K), g \in Seq(K), Settles(p5, X, K)
         PROVE  Settles(p11, X, K)
    BY <1>11, <1>12, SettlesKept DEF p6
  <1>13. f \in Seq(K) /\ g \in Seq(K) /\ Settles(b, X, K) => Settles(p11, X, K)
    BY <1>7, <1>10, SettlesLate DEF p8
  <1>14. g \in Seq(K) /\ Settles(f, X, K) => Settles(p11, X, K)
    BY <1>8, <1>9, SettlesLate DEF p9
  <1>15. b \in Seq(K) /\ f \in Seq(K) /\ g \in Seq(K) /\ Settles(e, X, K) => Settles(p11, X, K)
    BY <1>5, <1>11, SettlesLate DEF p6
  <1>16. e \in Seq(K) /\ b \in Seq(K) /\ f \in Seq(K) /\ g \in Seq(K) /\ Settles(d, X, K)
            => Settles(p11, X, K)
    BY <1>4, <1>12, SettlesLate DEF p5
  <1>17. ASSUME c \in Seq(K), d \in Seq(K), e \in Seq(K), b \in Seq(K), f \in Seq(K), g \in Seq(K),
                Settles(a, X, K)
         PROVE  Settles(p11, X, K)
    <2>1. Settles(p3, X, K)
      BY <1>17, SettlesKept DEF p3
    <2>2. Settles(p4, X, K)
      BY <1>17, <2>1, SettlesKept DEF p4
    <2>3. Settles(p5, X, K)
      BY <1>17, <2>2, SettlesKept DEF p5
    <2> QED
      BY <1>12, <1>17, <2>3
  <1>18. ASSUME a \in Seq(K), c \in Seq(K), d \in Seq(K), e \in Seq(K), b \in Seq(K), f \in Seq(K),
                g \in Seq(K)
         PROVE  p11 \in Seq(K)
    <2>1. p3 \in Seq(K)
      BY <1>18, Join DEF p3
    <2>2. p5 \in Seq(K)
      BY <1>18, <2>1, Join DEF p4, p5
    <2>3. p7 \in Seq(K)
      BY <1>18, <2>2, Join DEF p6, p7
    <2>4. p9 \in Seq(K)
      BY <1>18, <2>3, Join DEF p8, p9
    <2> QED
      BY <1>18, <2>4, Join DEF p11
  <1> QED
    BY <1>1, <1>13, <1>14, <1>15, <1>16, <1>17, <1>18 DEF a, b, c, d, e, f, g

LEMMA TuneTuner_Does ==
    /\ TuneTuner \in Seq(Unloading) /\ TuneTuner \in Seq(Accesses)
    /\ \A q \in Regs : \A B, V \in SUBSET Bits[q] :
          (q = "FIRMWARE" => "adec" \notin B) => TuneTuner \in Seq(Keeps(q, B, V))
    /\ Settles(TuneTuner, Makes("FIRMWARE", {"adec"}, {"adec"}), Keeps("FIRMWARE", {"adec"}, {"adec"}))
    /\ Settles(TuneTuner, Ops("tune"), Accesses)
  <1>1. "FIRMWARE" \in Regs /\ {"adec"} \in SUBSET Bits["FIRMWARE"]
    BY BitsOf
  <1>2. /\ TuneTuner \in Seq({Set("FIRMWARE", {"adec"}), Step("tune")})
        /\ Len(TuneTuner) = 2 /\ TuneTuner[1] = Set("FIRMWARE", {"adec"})
        /\ TuneTuner[2] = Step("tune")
    BY DEF TuneTuner, Enable
  <1>3. /\ Step("tune") \in Accesses /\ Step("tune") \in Unloading /\ Step("tune") \in Ops("tune")
        /\ \A r, B, V : Step("tune") \in Keeps(r, B, V)
    BY Stepping DEF OpNames
  <1>4. Set("FIRMWARE", {"adec"}) \in Unloading
    BY <1>1, Sets, AreSwitched
  <1>5. TuneTuner \in Seq(Unloading) /\ TuneTuner \in Seq(Accesses)
    BY <1>2, <1>3, <1>4, Subsets, Widen
  <1>6. ASSUME NEW q \in Regs, NEW B \in SUBSET Bits[q], NEW V \in SUBSET Bits[q],
               q = "FIRMWARE" => "adec" \notin B
        PROVE  TuneTuner \in Seq(Keeps(q, B, V))
    <2>1. Set("FIRMWARE", {"adec"}) \in Keeps(q, B, V)
      BY <1>1, <1>6, Sets, AreSwitched
    <2> QED
      BY <1>2, <1>3, <2>1, Widen
  <1>7. 1 \in 1..Len(TuneTuner) /\ 2 \in 1..Len(TuneTuner)
        /\ (\A m \in (1 + 1)..Len(TuneTuner) : m = 2) /\ \A m \in (2 + 1)..Len(TuneTuner) : FALSE
    BY <1>2
  <1>8. Settles(TuneTuner, Makes("FIRMWARE", {"adec"}, {"adec"}), Keeps("FIRMWARE", {"adec"}, {"adec"}))
    <2>1. TuneTuner[1] \in Makes("FIRMWARE", {"adec"}, {"adec"})
      BY <1>1, <1>2, Sets, AreSwitched
    <2>2. Keeps("FIRMWARE", {"adec"}, {"adec"}) \in SUBSET Accesses
      BY Within
    <2> QED
      BY <1>2, <1>3, <1>5, <1>7, <2>1, <2>2, SettlesAt
  <1>9. Settles(TuneTuner, Ops("tune"), Accesses)
    BY <1>2, <1>3, <1>5, <1>7, SettlesAt
  <1> QED
    BY <1>5, <1>6, <1>8, <1>9

LEMMA BeforeFirst_Does ==
    /\ BeforeFirst \in Seq(Unloading)
    /\ \A B \in SUBSET Bits[RC] : Settles(BeforeFirst, Makes(RC, B, {}), Keeps(RC, B, {}))
  <1> DEFINE a == tvw_init_tvw_1
             b == tvw_init_tvw_2(1)
             c == tvw_init_tvw_3
  <1>1. BeforeFirst = (a \o b) \o c
    BY DEF BeforeFirst
  <1>2. a \in Seq(Unloading) /\ b \in Seq(Unloading) /\ c \in Seq(Unloading)
    BY init_tvw_1_Does, init_tvw_2_Does, Others, Subsets, Widen
  <1>3. ASSUME NEW B \in SUBSET Bits[RC]
        PROVE  Settles(BeforeFirst, Makes(RC, B, {}), Keeps(RC, B, {}))
    <2>1. Settles(a, Makes(RC, B, {}), Keeps(RC, B, {}))
      BY <1>3, init_tvw_1_Does
    <2>2. b \in Seq(Keeps(RC, B, {}))
      <3>1. RC \in Regs /\ {} \in SUBSET Bits[RC] /\ RC # "FIRMWARE"
        BY RcBits DEF RC
      <3> QED
        BY <3>1, init_tvw_2_Does
    <2>3. c \in Seq(Keeps(RC, B, {}))
      BY Others
    <2> HIDE DEF a, b, c
    <2> QED
      BY <1>1, <2>1, <2>2, <2>3, SettlesKept
  <1> HIDE DEF a, b, c
  <1>4. BeforeFirst \in Seq(Unloading)
    BY <1>1, <1>2, Join
  <1> QED
    BY <1>3, <1>4

LEMMA BeforeSecond_Does ==
    /\ BeforeSecond \in Seq(Unloading)
    /\ \A q \in Regs : \A B, V \in SUBSET Bits[q] :
          q \notin {"uc_f089", "uc_f02a"} => BeforeSecond \in Seq(Keeps(q, B, V))
    /\ Settles(BeforeSecond, Makes("uc_f089", {128}, {128}), Keeps("uc_f089", {128}, {128}))
    /\ Settles(BeforeSecond, Makes("uc_f02a", {64}, {64}), Keeps("uc_f02a", {64}, {64}))
    /\ Settles(BeforeSecond, Ops("alt_setting"), Accesses)
  <1> DEFINE a == <<Other>>
             b == tvw_finish_init_tvw
             c == <<Step("alt_setting")>>
             d == tvw_init_8051
  <1>1. BeforeSecond = ((a \o b) \o c) \o d
    BY DEF BeforeSecond
  <1>2. /\ Step("alt_setting") \in Accesses /\ Step("alt_setting") \in Unloading
        /\ Step("alt_setting") \in Ops("alt_setting")
        /\ \A r, B, V : Step("alt_setting") \in Keeps(r, B, V)
    BY Stepping DEF OpNames
  <1>3. a \in Seq(Unloading) /\ b \in Seq(Unloading) /\ c \in Seq(Unloading) /\ d \in Seq(Unloading)
    BY <1>2, IsOther, init_8051_Does, Others, Subsets, Widen
  <1>4. \A q, B, V : a \in Seq(Keeps(q, B, V)) /\ b \in Seq(Keeps(q, B, V))
            /\ c \in Seq(Keeps(q, B, V))
    BY <1>2, IsOther, Others
  <1>5. Settles(c, Ops("alt_setting"), Accesses)
    <2>1. c \in Seq(Accesses) /\ Len(c) = 1 /\ c[1] \in Ops("alt_setting")
      BY <1>2
    <2> HIDE DEF c
    <2>2. 1 \in 1..Len(c) /\ \A m \in (1 + 1)..Len(c) : FALSE
      BY <2>1
    <2> QED
      BY <2>1, <2>2, SettlesAt
  <1>6. d \in Seq(Unloading)
        /\ \A q \in Regs : \A B, V \in SUBSET Bits[q] :
              q \notin {"uc_f089", "uc_f02a"} => d \in Seq(Keeps(q, B, V))
    BY init_8051_Does
  <1>7. /\ Settles(d, Makes("uc_f089", {128}, {128}), Keeps("uc_f089", {128}, {128}))
        /\ Settles(d, Makes("uc_f02a", {64}, {64}), Keeps("uc_f02a", {64}, {64}))
    BY init_8051_Does
  <1> HIDE DEF a, b, c, d
  <1>8. (a \o b) \o c \in Seq(Unloading) /\ BeforeSecond \in Seq(Unloading)
    BY <1>1, <1>3, Join
  <1>9. /\ (a \o b) \o c \in Seq(Accesses) /\ a \o b \in Seq(Accesses)
        /\ d \in Seq(Accesses)
    BY <1>3, <1>8, Subsets, Widen, Join
  <1>10. \A q \in Regs : \A B, V \in SUBSET Bits[q] :
            q \notin {"uc_f089", "uc_f02a"} => BeforeSecond \in Seq(Keeps(q, B, V))
    BY <1>1, <1>4, <1>6, Join
  <1>11. /\ Settles(BeforeSecond, Makes("uc_f089", {128}, {128}), Keeps("uc_f089", {128}, {128}))
         /\ Settles(BeforeSecond, Makes("uc_f02a", {64}, {64}), Keeps("uc_f02a", {64}, {64}))
    BY <1>1, <1>7, <1>9, SettlesLate
  <1>12. Settles(BeforeSecond, Ops("alt_setting"), Accesses)
    BY <1>1, <1>5, <1>9, SettlesKept, SettlesLate
  <1> QED
    BY <1>8, <1>10, <1>11, <1>12

\* Where the firmware is loaded.
LEMMA FirstUpload ==
    /\ St(4) \in Seq(Accesses)
    /\ Len(BeforeFirst) \in Nat /\ Len(St(4)) = Len(BeforeFirst) + 1
    /\ \A n \in 1..Len(BeforeFirst) : St(4)[n] = BeforeFirst[n] /\ BeforeFirst[n] \in Unloading
    /\ St(4)[Len(BeforeFirst) + 1] = Load("CTRLT507")
  <1> DEFINE s == BeforeFirst
             t == <<Load("CTRLT507")>>
  <1>1. s \in Seq(Accesses) /\ s \in Seq(Unloading) /\ Len(s) \in Nat
    BY BeforeFirst_Does, Subsets, Widen
  <1>2. t \in Seq(Accesses) /\ Len(t) = 1 /\ t[1] = Load("CTRLT507")
    BY Loading DEF Images
  <1>3. St(4) = s \o t
    BY StageIs
  <1> HIDE DEF s, t
  <1>4. s \o t \in Seq(Accesses) /\ Len(s \o t) = Len(s) + 1
    <2>1. s \o t \in Seq(Accesses) /\ Len(s \o t) = Len(s) + Len(t)
      BY <1>1, <1>2, ConcatProperties
    <2> QED
      BY <1>2, <2>1
  <1>5. \A i \in 1..(Len(s) + 1) : (s \o t)[i] = IF i <= Len(s) THEN s[i] ELSE t[i - Len(s)]
    <2>1. \A i \in 1..(Len(s) + Len(t)) : (s \o t)[i] = IF i <= Len(s) THEN s[i] ELSE t[i - Len(s)]
      BY <1>1, <1>2, ConcatProperties
    <2> QED
      BY <1>2, <2>1
  <1>6. Len(s) + 1 \in 1..(Len(s) + 1) /\ ~(Len(s) + 1 <= Len(s)) /\ (Len(s) + 1) - Len(s) = 1
        /\ \A n \in 1..Len(s) : n \in 1..(Len(s) + 1) /\ n <= Len(s)
    BY <1>1
  <1>7. \A n \in 1..Len(s) : s[n] \in Unloading
    BY <1>1
  <1>8. (s \o t)[Len(s) + 1] = Load("CTRLT507")
    BY <1>2, <1>5, <1>6
  <1>9. \A n \in 1..Len(s) : (s \o t)[n] = s[n]
    BY <1>5, <1>6
  <1> QED
    BY <1>1, <1>3, <1>4, <1>7, <1>8, <1>9 DEF s

LEMMA SecondUpload ==
    /\ St(6) \in Seq(Accesses)
    /\ Len(BeforeSecond) \in Nat
    /\ \A n \in 1..Len(St(6)) : n # Len(BeforeSecond) + 1 => St(6)[n] \in Unloading
    /\ \A n \in 1..Len(BeforeSecond) : n \in 1..Len(St(6)) /\ St(6)[n] = BeforeSecond[n]
    /\ Len(BeforeSecond) + 1 \in 1..Len(St(6))
    /\ St(6)[Len(BeforeSecond) + 1] = Load("T507")
    /\ Settles(St(6), Makes("uc_f089", {128}, {}), Keeps("uc_f089", {128}, {}))
    /\ Settles(St(6), Makes("uc_f02a", {64}, {}), Keeps("uc_f02a", {64}, {}))
    /\ Settles(St(6), Ops("alt_setting"), Accesses)
    /\ Settles(St(6), Loads("T507"), Accesses)
    /\ \A q \in Regs : \A B, V \in SUBSET Bits[q] :
          q \notin {"uc_f089", "uc_f02a"} => St(6) \in Seq(Keeps(q, B, V))
  <1> DEFINE s == BeforeSecond
             t == <<Load("T507"), Other>>
             u == tvw_finish_init_8051
  <1>1. s \in Seq(Accesses) /\ s \in Seq(Unloading) /\ Len(s) \in Nat
    BY BeforeSecond_Does, Subsets, Widen
  <1>2. t \in Seq(Accesses) /\ Len(t) = 2 /\ t[1] = Load("T507") /\ t[2] = Other
        /\ \A q, B, V : t \in Seq(Keeps(q, B, V))
    BY Loading, IsOther DEF Images
  <1>3. u \in Seq(Accesses) /\ u \in Seq(Unloading)
    BY finish_init_8051_Does, Subsets, Widen
  <1>4. St(6) = (s \o t) \o u
    BY StageIs
  <1>5. /\ Settles(u, Makes("uc_f089", {128}, {}), Keeps("uc_f089", {128}, {}))
        /\ Settles(u, Makes("uc_f02a", {64}, {}), Keeps("uc_f02a", {64}, {}))
        /\ Settles(s, Ops("alt_setting"), Accesses)
    BY finish_init_8051_Does, BeforeSecond_Does
  <1>6. \A q \in Regs : \A B, V \in SUBSET Bits[q] :
           q \notin {"uc_f089", "uc_f02a"} => s \in Seq(Keeps(q, B, V)) /\ u \in Seq(Keeps(q, B, V))
    BY finish_init_8051_Does, BeforeSecond_Does
  <1>7. Load("T507") \in Loads("T507") /\ Other \in Unloading /\ Other \in Accesses
    BY Loading, IsOther DEF Images
  <1> HIDE DEF s, t, u
  <1>8. s \o t \in Seq(Accesses) /\ Len(s \o t) = Len(s) + 2
        /\ \A i \in 1..(Len(s) + 2) : (s \o t)[i] = IF i <= Len(s) THEN s[i] ELSE t[i - Len(s)]
    <2>1. Len(s \o t) = Len(s) + Len(t)
          /\ \A i \in 1..(Len(s) + Len(t)) :
                 (s \o t)[i] = IF i <= Len(s) THEN s[i] ELSE t[i - Len(s)]
      BY <1>1, <1>2, ConcatProperties
    <2> QED
      BY <1>1, <1>2, <2>1, Join
  <1>9. /\ St(6) \in Seq(Accesses) /\ Len(St(6)) = Len(s) + 2 + Len(u) /\ Len(u) \in Nat
        /\ \A i \in 1..(Len(s) + 2 + Len(u)) :
              St(6)[i] = IF i <= Len(s) + 2 THEN (s \o t)[i] ELSE u[i - (Len(s) + 2)]
    <2>1. /\ Len((s \o t) \o u) = Len(s \o t) + Len(u)
          /\ \A i \in 1..(Len(s \o t) + Len(u)) :
                ((s \o t) \o u)[i] = IF i <= Len(s \o t) THEN (s \o t)[i] ELSE u[i - Len(s \o t)]
      <3> DEFINE v == s \o t
      <3>1. v \in Seq(Accesses) /\ u \in Seq(Accesses)
        BY <1>3, <1>8
      <3> HIDE DEF v
      <3>2. Len(v \o u) = Len(v) + Len(u)
        BY <3>1, ConcatProperties
      <3>3. \A i \in 1..(Len(v) + Len(u)) :
                (v \o u)[i] = IF i <= Len(v) THEN v[i] ELSE u[i - Len(v)]
        BY <3>1, ConcatProperties
      <3> QED
        BY <3>2, <3>3 DEF v
    <2>2. (s \o t) \o u \in Seq(Accesses) /\ Len(u) \in Nat
      BY <1>3, <1>8, Join
    <2> QED
      BY <1>4, <1>8, <2>1, <2>2
  <1>10. \A n \in 1..Len(St(6)) : n # Len(s) + 1 => St(6)[n] \in Unloading
    <2> SUFFICES ASSUME NEW n \in 1..Len(St(6)), n # Len(s) + 1
                 PROVE  St(6)[n] \in Unloading
      OBVIOUS
    <2>1. CASE n <= Len(s)
      <3>1. /\ n \in 1..Len(s) /\ n \in 1..(Len(s) + 2) /\ n <= Len(s) + 2
            /\ n \in 1..(Len(s) + 2 + Len(u))
        BY <1>1, <1>9, <2>1
      <3>2. St(6)[n] = s[n]
        BY <1>8, <1>9, <2>1, <3>1
      <3> QED
        BY <1>1, <3>1, <3>2
    <2>2. CASE n = Len(s) + 2
      <3>1. n \in 1..(Len(s) + 2) /\ ~(n <= Len(s)) /\ n - Len(s) = 2
        BY <1>1, <2>2
      <3>2. St(6)[n] = t[2]
        BY <1>1, <1>8, <1>9, <2>2, <3>1
      <3> QED
        BY <1>2, <1>7, <3>2
    <2>3. CASE n > Len(s) + 2
      <3>1. St(6)[n] = u[n - (Len(s) + 2)] /\ n - (Len(s) + 2) \in 1..Len(u)
        BY <1>1, <1>9, <2>3
      <3> QED
        BY <1>3, <3>1
    <2> QED
      BY <1>1, <1>9, <2>1, <2>2, <2>3
  <1>11. \A n \in 1..Len(s) : n \in 1..Len(St(6)) /\ St(6)[n] = s[n]
    BY <1>1, <1>8, <1>9
  <1>12. Len(s) + 1 \in 1..Len(St(6)) /\ St(6)[Len(s) + 1] = Load("T507")
    <2>1. Len(s) + 1 \in 1..(Len(s) + 2) /\ ~(Len(s) + 1 <= Len(s)) /\ (Len(s) + 1) - Len(s) = 1
          /\ Len(s) + 1 <= Len(s) + 2 /\ Len(s) + 1 \in 1..(Len(s) + 2 + Len(u))
      BY <1>1, <1>9
    <2> QED
      BY <1>2, <1>8, <1>9, <2>1
  <1>13. /\ Settles(St(6), Makes("uc_f089", {128}, {}), Keeps("uc_f089", {128}, {}))
         /\ Settles(St(6), Makes("uc_f02a", {64}, {}), Keeps("uc_f02a", {64}, {}))
    BY <1>4, <1>5, <1>8, SettlesLate
  <1>14. Settles(St(6), Ops("alt_setting"), Accesses)
    BY <1>2, <1>3, <1>4, <1>5, SettlesKept
  <1>15. Settles(St(6), Loads("T507"), Accesses)
    <2>1. Accesses \in SUBSET Accesses
          /\ \A m \in (Len(s) + 1 + 1)..Len(St(6)) : St(6)[m] \in Accesses
      BY <1>1, <1>9
    <2>2. St(6)[Len(s) + 1] \in Loads("T507")
      BY <1>7, <1>12
    <2> QED
      BY <1>9, <1>12, <2>1, <2>2, SettlesAt
  <1>16. \A q \in Regs : \A B, V \in SUBSET Bits[q] :
            q \notin {"uc_f089", "uc_f02a"} => St(6) \in Seq(Keeps(q, B, V))
    BY <1>2, <1>4, <1>6, Join
  <1> QED
    BY <1>1, <1>9, <1>10, <1>11, <1>12, <1>13, <1>14, <1>15, <1>16 DEF s

ElevenCases == \A i \in 1..11 : \/ i = 1 \/ i = 2 \/ i = 3 \/ i = 4 \/ i = 5 \/ i = 6 \/ i = 7
                              \/ i = 8 \/ i = 9 \/ i = 10 \/ i = 11

LEMMA OneToEleven == ElevenCases
  BY DEF ElevenCases

Single(a) == <<a>>

LEMMA One == \A S : \A a \in S : Single(a) \in Seq(S) /\ Len(Single(a)) = 1 /\ Single(a)[1] = a
  BY DEF Single

Pair(a, b) == <<a, b>>

LEMMA Two == \A S : \A a, b \in S : Pair(a, b) \in Seq(S) /\ Len(Pair(a, b)) = 2
  BY DEF Pair

LEMMA Three ==
    \A S : \A a, b, c \in S : \A s : s = <<a, b, c>> => s \in Seq(S) /\ Len(s) = 3
  <1> SUFFICES ASSUME NEW S, NEW a \in S, NEW b \in S, NEW c \in S
               PROVE  <<a, b, c>> \in Seq(S) /\ Len(<<a, b, c>>) = 3
    BY Zenon
  <1> QED
    OBVIOUS

\* What the other stages leave alone.
LEMMA StageKeeps ==
    ASSUME NEW q \in Regs, NEW B \in SUBSET Bits[q], NEW V \in SUBSET Bits[q]
    PROVE  /\ St(5) \in Seq(Keeps(q, B, V)) /\ St(7) \in Seq(Keeps(q, B, V))
           /\ St(10) \in Seq(Keeps(q, B, V))
           /\ q # "SMGR_SOFT_RESETS" => St(9) \in Seq(Keeps(q, B, V))
           /\ q # "FEAW_COMMAND" => St(11) \in Seq(Keeps(q, B, V))
           /\ q \notin {"uc_f089", "uc_f02a"} => St(6) \in Seq(Keeps(q, B, V))
  <1>1. St(5) \in Seq(Keeps(q, B, V))
    <2>1. St(5) = <<Other, Other, Other>>
      BY StageIs
    <2>2. Other \in Keeps(q, B, V)
      BY IsOther
    <2> QED
      BY <2>1, <2>2, Three, Zenon
  <1>2. St(7) \in Seq(Keeps(q, B, V))
    <2>1. Step("attach") \in Keeps(q, B, V)
      BY Stepping DEF OpNames
    <2>2. St(7) = Single(Step("attach"))
      BY StageIs DEF Single
    <2> QED
      BY <2>1, <2>2, One
  <1>3. St(10) \in Seq(Keeps(q, B, V))
    BY StageIs, Others
  <1>4. q # "SMGR_SOFT_RESETS" => St(9) \in Seq(Keeps(q, B, V))
    BY StageIs, VideoWindow_Does
  <1>5. q # "FEAW_COMMAND" => St(11) \in Seq(Keeps(q, B, V))
    <2>1. St(11) = StartAudio
      BY StageIs
    <2>2. q # "FEAW_COMMAND" => StartAudio \in Seq(Keeps(q, B, V))
      BY StartAudio_Does
    <2> QED
      BY <2>1, <2>2
  <1>6. q \notin {"uc_f089", "uc_f02a"} => St(6) \in Seq(Keeps(q, B, V))
    BY SecondUpload
  <1> QED
    BY <1>1, <1>2, <1>3, <1>4, <1>5, <1>6

\* The accesses of the stages; what a failure does in those that go on after it.
LEMMA StageTypes ==
    /\ \A i \in 1..11 : St(i) \in Seq(Accesses) /\ Len(St(i)) \in Nat \ {0}
    /\ \A i \in (1..11) \ {4, 6} : St(i) \in Seq(Unloading)
    /\ \A i \in 1..11 : Stages[i].fail = "ignore" =>
                           \A n \in 1..Len(St(i)) : St(i)[n].op \in {"libusb_init", "attach"}
    /\ \A i \in 1..11 : Stages[i].fail = "skip" =>
                           i \in {9, 11} /\ \A n \in 1..Len(St(i)) : St(i)[n] \in Plain
  <1>1. /\ Step("malloc") \in Unloading /\ Step("libusb_init") \in Unloading
        /\ Step("libusb_open") \in Unloading /\ Step("libusb_claim") \in Unloading
        /\ Step("attach") \in Unloading
        /\ Step("libusb_init").op = "libusb_init" /\ Step("attach").op = "attach"
    BY Stepping DEF OpNames
  <1>2. /\ St(1) \in Seq(Unloading) /\ Len(St(1)) = 1
        /\ St(2) \in Seq(Unloading) /\ Len(St(2)) = 1 /\ St(2)[1].op = "libusb_init"
        /\ St(3) \in Seq(Unloading) /\ Len(St(3)) = 2
        /\ St(5) \in Seq(Unloading) /\ Len(St(5)) = 3
        /\ St(7) \in Seq(Unloading) /\ Len(St(7)) = 1 /\ St(7)[1].op = "attach"
    <2>1. St(1) = Single(Step("malloc")) /\ St(2) = Single(Step("libusb_init"))
          /\ St(7) = Single(Step("attach"))
      BY StageIs DEF Single
    <2>2. St(3) = Pair(Step("libusb_open"), Step("libusb_claim"))
      BY StageIs DEF Pair
    <2>3. St(5) = <<Other, Other, Other>>
      BY StageIs
    <2>4. Other \in Unloading
      BY IsOther
    <2>5. /\ Step("malloc") \in Unloading /\ Step("libusb_init") \in Unloading
           /\ Step("libusb_open") \in Unloading /\ Step("libusb_claim") \in Unloading
           /\ Step("attach") \in Unloading
      BY <1>1
    <2>6. Step("libusb_init").op = "libusb_init" /\ Step("attach").op = "attach"
      BY <1>1
    <2>7. St(1) \in Seq(Unloading) /\ Len(St(1)) = 1
      BY <2>5, <2>1, One
    <2>8. St(2) \in Seq(Unloading) /\ Len(St(2)) = 1 /\ St(2)[1].op = "libusb_init"
      <3>1. St(2) \in Seq(Unloading) /\ Len(St(2)) = 1 /\ St(2)[1] = Step("libusb_init")
        BY <2>1, <2>5, One
      <3> QED
        BY <2>6, <3>1
    <2>9. St(3) \in Seq(Unloading) /\ Len(St(3)) = 2
      <3>1. Step("libusb_open") \in Unloading /\ Step("libusb_claim") \in Unloading
        BY <1>1
      <3> QED
        BY <2>2, <3>1, Two
    <2>10. St(5) \in Seq(Unloading) /\ Len(St(5)) = 3
      BY <2>3, <2>4, Three, Zenon
    <2>11. St(7) \in Seq(Unloading) /\ Len(St(7)) = 1 /\ St(7)[1].op = "attach"
      <3>1. St(7) \in Seq(Unloading) /\ Len(St(7)) = 1 /\ St(7)[1] = Step("attach")
        BY <2>1, <2>5, One
      <3> QED
        BY <2>6, <3>1
    <2> QED
      BY <2>7, <2>8, <2>9, <2>10, <2>11
  <1>3. St(8) \in Seq(Unloading) /\ Len(St(8)) \in Nat \ {0}
    <2>1. TuneTuner \in Seq(Accesses) /\ TuneTuner \in Seq(Unloading)
          /\ Unloading \subseteq Accesses
          /\ Settles(TuneTuner, Ops("tune"), Accesses)
      BY TuneTuner_Does, Subsets
    <2>2. /\ tvw_init56_tvw \in Seq(Unloading) /\ tvw_init_adec \in Seq(Unloading)
          /\ tvw_init_unknown_1 \in Seq(Unloading) /\ tvw_init_tvw_2(2) \in Seq(Unloading)
          /\ tvw_init_unknown_2 \in Seq(Unloading) /\ tvw_tune_tvw \in Seq(Unloading)
      BY init56_tvw_Does, init_adec_Does, init_unknown_1_Does, init_tvw_2_Does, init_unknown_2_Does,
         Others, Subsets, Widen
    <2>3. St(8) \in Seq(Unloading)
      BY <2>1, <2>2, DecoderParts
    <2>4. Settles(St(8), Ops("tune"), Accesses)
      <3>1. tvw_tune_tvw \in Seq(Accesses)
        BY <2>1, <2>2, Widen
      <3> QED
        BY <2>1, <3>1, DecoderParts
    <2>5. Len(St(8)) \in Nat /\ \E k \in 1..Len(St(8)) : TRUE
      BY <2>3, <2>4 DEF Settles
    <2> QED
      BY <2>3, <2>5
  <1>4. /\ St(9) \in Seq(Plain) /\ St(10) \in Seq(Plain) /\ St(11) \in Seq(Plain)
        /\ Len(St(9)) = 4 /\ Len(St(10)) = 1 /\ Len(St(11)) = 4
    <2>1. Len(VideoWindow) = 4 /\ Len(StartAudio) = 4 /\ Len(tvw_tune_tvw) = 1
      BY DEF VideoWindow, StartAudio, tvw_tune_tvw
    <2> QED
      BY <2>1, StageIs, VideoWindow_Does, StartAudio_Does, Others
  <1>5. St(9) \in Seq(Unloading) /\ St(10) \in Seq(Unloading) /\ St(11) \in Seq(Unloading)
    BY <1>4, Subsets, Widen
  <1>6. St(4) \in Seq(Accesses) /\ Len(St(4)) \in Nat \ {0} /\ St(6) \in Seq(Accesses)
        /\ Len(St(6)) \in Nat \ {0}
    <2>1. Len(St(4)) \in Nat \ {0}
      BY FirstUpload
    <2>2. Len(St(6)) \in Nat \ {0}
      <3>1. Len(BeforeSecond) + 1 \in 1..Len(St(6)) /\ St(6) \in Seq(Accesses)
        BY SecondUpload
      <3> QED
        BY <3>1
    <2> QED
      BY <2>1, <2>2, FirstUpload, SecondUpload
  <1>7. \A i \in (1..11) \ {4, 6} : St(i) \in Seq(Unloading)
    BY <1>2, <1>3, <1>5, OneToEleven DEF ElevenCases
  <1>8. \A i \in 1..11 : St(i) \in Seq(Accesses)
    <2>1. \A i \in (1..11) \ {4, 6} : St(i) \in Seq(Accesses)
      BY <1>7, Subsets, Widen
    <2> QED
      BY <1>6, <2>1
  <1>9. \A i \in 1..11 : Len(St(i)) \in Nat \ {0}
    <2>1. /\ Len(St(1)) = 1 /\ Len(St(2)) = 1 /\ Len(St(3)) = 2 /\ Len(St(4)) \in Nat \ {0}
          /\ Len(St(5)) = 3
          /\ Len(St(6)) \in Nat \ {0} /\ Len(St(7)) = 1 /\ Len(St(8)) \in Nat \ {0}
          /\ Len(St(9)) = 4
          /\ Len(St(10)) = 1 /\ Len(St(11)) = 4
      BY <1>2, <1>3, <1>4, <1>6
    <2>2. 1 \in Nat \ {0} /\ 2 \in Nat \ {0} /\ 3 \in Nat \ {0} /\ 4 \in Nat \ {0}
      OBVIOUS
    <2>3. /\ Len(St(1)) \in Nat \ {0} /\ Len(St(2)) \in Nat \ {0} /\ Len(St(3)) \in Nat \ {0}
          /\ Len(St(4)) \in Nat \ {0} /\ Len(St(5)) \in Nat \ {0} /\ Len(St(6)) \in Nat \ {0}
          /\ Len(St(7)) \in Nat \ {0} /\ Len(St(8)) \in Nat \ {0} /\ Len(St(9)) \in Nat \ {0}
          /\ Len(St(10)) \in Nat \ {0} /\ Len(St(11)) \in Nat \ {0}
      BY <2>1, <2>2
    <2> QED
      BY <2>3, OneToEleven, Zenon DEF ElevenCases
  <1>10. \A i \in 1..11 : Stages[i].fail = "ignore" => i \in {2, 7}
    BY StageIs, OneToEleven DEF ElevenCases
  <1>11. \A i \in 1..11 : Stages[i].fail = "skip" => i \in {9, 11}
    BY StageIs, OneToEleven DEF ElevenCases
  <1>12. \A i \in {2, 7} : \A n \in 1..Len(St(i)) : St(i)[n].op \in {"libusb_init", "attach"}
    <2>1. \A n \in 1..1 : n = 1
      OBVIOUS
    <2> QED
      BY <1>2, <2>1
  <1>13. \A i \in {9, 11} : \A n \in 1..Len(St(i)) : St(i)[n] \in Plain
    BY <1>4
  <1>14. \A i \in 1..11 : Stages[i].fail = "ignore" =>
                           \A n \in 1..Len(St(i)) : St(i)[n].op \in {"libusb_init", "attach"}
    BY <1>10, <1>12
  <1>15. \A i \in 1..11 : Stages[i].fail = "skip" =>
                           i \in {9, 11} /\ \A n \in 1..Len(St(i)) : St(i)[n] \in Plain
    BY <1>11, <1>13
  <1> QED
    BY <1>7, <1>8, <1>9, <1>14, <1>15

-----------------------------------------------------------------------------
\* What lasts to the end of tvwsdr_open.
Lasting(s, X, K) == Settles(St(s), X, K) /\ \A t \in (s + 1)..11 : St(t) \in Seq(K)

LEMMA AfterDecoder ==
    ASSUME NEW q \in Regs, NEW B \in SUBSET Bits[q], NEW V \in SUBSET Bits[q], NEW X,
           q \notin {"SMGR_SOFT_RESETS", "FEAW_COMMAND"}, Settles(St(8), X, Keeps(q, B, V))
    PROVE  Lasting(8, X, Keeps(q, B, V))
  <1>1. St(9) \in Seq(Keeps(q, B, V)) /\ St(10) \in Seq(Keeps(q, B, V))
        /\ St(11) \in Seq(Keeps(q, B, V))
    BY StageKeeps
  <1>2. \A t \in (8 + 1)..11 : t = 9 \/ t = 10 \/ t = 11
    OBVIOUS
  <1> QED
    BY <1>1, <1>2 DEF Lasting

USC == "USC_CTL"

\* Bits of TVW_USC_CTL other than 1024.
LEMMA ScalingKept ==
    /\ USC \in Regs /\ USC # RC /\ USC # "FIRMWARE"
    /\ \A B, V \in SUBSET Bits[USC] :
        /\ TuneTuner \in Seq(Keeps(USC, B, V)) /\ tvw_init_adec \in Seq(Keeps(USC, B, V))
        /\ tvw_init_tvw_2(2) \in Seq(Keeps(USC, B, V))
        /\ 1024 \notin V => tvw_init_unknown_2 \in Seq(Keeps(USC, B, V))
        /\ 1024 \notin B => tvw_init_unknown_1 \in Seq(Keeps(USC, B, V))
  <1>1. USC \in Regs /\ USC # RC /\ USC # "FIRMWARE"
    BY BitsOf DEF USC, RC
  <1>2. ASSUME NEW q \in Regs, q # RC, q # "FIRMWARE", NEW B \in SUBSET Bits[q],
               NEW V \in SUBSET Bits[q]
        PROVE  /\ TuneTuner \in Seq(Keeps(q, B, V)) /\ tvw_init_adec \in Seq(Keeps(q, B, V))
               /\ tvw_init_tvw_2(2) \in Seq(Keeps(q, B, V))
               /\ 1024 \notin V => tvw_init_unknown_2 \in Seq(Keeps(q, B, V))
               /\ 1024 \notin B => tvw_init_unknown_1 \in Seq(Keeps(q, B, V))
    <2>1. TuneTuner \in Seq(Keeps(q, B, V))
      BY <1>2, TuneTuner_Does
    <2>2. tvw_init_adec \in Seq(Keeps(q, B, V)) /\ tvw_init_tvw_2(2) \in Seq(Keeps(q, B, V))
      BY <1>2, init_adec_Does, init_tvw_2_Does
    <2>3. 1024 \notin V => tvw_init_unknown_2 \in Seq(Keeps(q, B, V))
      BY <1>2, init_unknown_2_Keeps
    <2>4. 1024 \notin B => tvw_init_unknown_1 \in Seq(Keeps(q, B, V))
      BY <1>2, init_unknown_1_Does
    <2> QED
      BY <2>1, <2>2, <2>3, <2>4
  <1> QED
    BY <1>1, <1>2, Zenon

LEMMA DecoderMakes ==
    /\ Lasting(8, Makes(RC, {512}, {}), Keeps(RC, {512}, {}))
    /\ Lasting(8, Makes(RC, AudioReset, {}), Keeps(RC, AudioReset, {}))
    /\ Lasting(8, Makes(USC, {512}, {512}), Keeps(USC, {512}, {512}))
    /\ Lasting(8, Makes(USC, {1024}, {}), Keeps(USC, {1024}, {}))
    /\ Lasting(8, Makes("FIRMWARE", {"adec"}, {"adec"}), Keeps("FIRMWARE", {"adec"}, {"adec"}))
    /\ Lasting(8, Makes("FIRMWARE", {"isoch"}, {"isoch"}), Keeps("FIRMWARE", {"isoch"}, {"isoch"}))
    /\ Lasting(8, Makes("FIRMWARE", {"something"}, {}), Keeps("FIRMWARE", {"something"}, {}))
  <1>1. /\ RC \in Regs /\ {512} \in SUBSET Bits[RC] /\ AudioReset \in SUBSET Bits[RC]
        /\ {} \in SUBSET Bits[RC]
        /\ RC \notin {"SMGR_SOFT_RESETS", "FEAW_COMMAND"} /\ RC # USC /\ RC # "FIRMWARE"
        /\ {512} \cap AudioReset = {}
    BY RcBits DEF RC, USC
  <1>2. /\ USC \in Regs /\ {512} \in SUBSET Bits[USC] /\ {1024} \in SUBSET Bits[USC]
        /\ {} \in SUBSET Bits[USC] /\ USC \notin {"SMGR_SOFT_RESETS", "FEAW_COMMAND"}
        /\ USC # "FIRMWARE" /\ USC # RC /\ 1024 \notin {512}
    BY BitsOf DEF RC, USC
  <1>3. /\ "FIRMWARE" \in Regs /\ {"adec"} \in SUBSET Bits["FIRMWARE"]
        /\ {"isoch"} \in SUBSET Bits["FIRMWARE"]
        /\ {"something"} \in SUBSET Bits["FIRMWARE"] /\ {} \in SUBSET Bits["FIRMWARE"]
        /\ "FIRMWARE" \notin {"SMGR_SOFT_RESETS", "FEAW_COMMAND"} /\ "FIRMWARE" # RC
        /\ "FIRMWARE" # USC /\ "isoch" \notin {"something"} /\ "adec" \notin {"something"}
        /\ "adec" \notin {"isoch"}
    BY BitsOf DEF RC, USC
  <1>4. TuneTuner \in Seq(Accesses) /\ \A q, B, V : Keeps(q, B, V) \subseteq Accesses
    BY TuneTuner_Does, Within
  <1>5. \A q, B, V : tvw_tune_tvw \in Seq(Keeps(q, B, V))
    BY Others
  <1>6. \A q \in Regs : \A B, V \in SUBSET Bits[q] :
           ((q = RC => V = {}) /\ (q = USC => 1024 \notin V) /\ (q = "FIRMWARE" => "isoch" \notin B))
              => tvw_init_unknown_2 \in Seq(Keeps(q, B, V))
    BY init_unknown_2_Does, ZenonT(60) DEF USC
  <1>7. \A q \in Regs : \A B, V \in SUBSET Bits[q] :
           (q = "FIRMWARE" => "adec" \notin B) => TuneTuner \in Seq(Keeps(q, B, V))
    BY TuneTuner_Does
  <1>8. Settles(St(8), Makes(RC, {512}, {}), Keeps(RC, {512}, {}))
    <2> DEFINE S == {512}
               N == {}
    <2>1. Settles(tvw_init_tvw_2(2), Makes(RC, S, N), Keeps(RC, S, N))
      BY init_tvw_2_Does
    <2>2. /\ RC \in Regs /\ S \in SUBSET Bits[RC] /\ N \in SUBSET Bits[RC] /\ N = {}
          /\ 1024 \notin N /\ RC # "FIRMWARE" /\ S \cap AudioReset = {}
      BY <1>1
    <2>3. Settles(St(8), Makes(RC, S, N), Keeps(RC, S, N))
      <3> HIDE DEF S, N
      <3>1. tvw_init_unknown_2 \in Seq(Keeps(RC, S, N))
        BY <1>6, <2>2, ZenonT(30)
      <3>2. tvw_init_adec \in Seq(Keeps(RC, S, N))
        BY <2>2, init_adec_Does
      <3>3. TuneTuner \in Seq(Keeps(RC, S, N))
        BY <1>7, <2>2, ZenonT(30)
      <3> QED
        BY <1>4, <1>5, <2>1, <3>1, <3>2, <3>3, DecoderParts
    <2> QED
      BY <2>3
  <1>9. Settles(St(8), Makes(RC, AudioReset, {}), Keeps(RC, AudioReset, {}))
    <2> DEFINE K == Keeps(RC, AudioReset, {})
    <2>1. Settles(tvw_init_adec, Makes(RC, AudioReset, {}), K)
      BY init_adec_Does
    <2>2. TuneTuner \in Seq(K)
      BY <1>1, <1>7, Zenon
    <2> QED
      BY <1>4, <1>5, <2>1, <2>2, DecoderParts
  <1>10. Settles(St(8), Makes(USC, {512}, {512}), Keeps(USC, {512}, {512}))
    <2> DEFINE S == {512}
    <2>1. Settles(tvw_init56_tvw, Makes(USC, S, S), Keeps(USC, S, S))
      BY init56_tvw_Does DEF USC
    <2>2. S \in SUBSET Bits[USC] /\ 1024 \notin S
      BY <1>2
    <2> HIDE DEF S
    <2>3. /\ TuneTuner \in Seq(Keeps(USC, S, S)) /\ tvw_init_adec \in Seq(Keeps(USC, S, S))
          /\ tvw_init_tvw_2(2) \in Seq(Keeps(USC, S, S))
          /\ tvw_init_unknown_2 \in Seq(Keeps(USC, S, S))
          /\ tvw_init_unknown_1 \in Seq(Keeps(USC, S, S))
      BY <2>2, ScalingKept
    <2>4. Settles(St(8), Makes(USC, S, S), Keeps(USC, S, S))
      BY <1>4, <1>5, <2>1, <2>3, DecoderParts
    <2> QED
      BY <2>4 DEF S
  <1>11. Settles(St(8), Makes(USC, {1024}, {}), Keeps(USC, {1024}, {}))
    <2> DEFINE S == {1024}
               N == {}
    <2>1. Settles(tvw_init_unknown_2, Makes(USC, S, N), Keeps(USC, S, N))
      BY init_unknown_2_Does DEF USC
    <2>2. S \in SUBSET Bits[USC] /\ N \in SUBSET Bits[USC]
      BY <1>2
    <2> HIDE DEF S, N
    <2>3. TuneTuner \in Seq(Keeps(USC, S, N)) /\ tvw_init_adec \in Seq(Keeps(USC, S, N))
      BY <2>2, ScalingKept
    <2>4. Settles(St(8), Makes(USC, S, N), Keeps(USC, S, N))
      BY <1>4, <1>5, <2>1, <2>3, DecoderParts
    <2> QED
      BY <2>4 DEF S, N
  <1>12. Settles(St(8), Makes("FIRMWARE", {"adec"}, {"adec"}), Keeps("FIRMWARE", {"adec"}, {"adec"}))
    BY <1>4, <1>5, TuneTuner_Does, DecoderParts
  <1>13. Settles(St(8), Makes("FIRMWARE", {"isoch"}, {"isoch"}), Keeps("FIRMWARE", {"isoch"}, {"isoch"}))
    <2> DEFINE K == Keeps("FIRMWARE", {"isoch"}, {"isoch"})
    <2>1. Settles(tvw_init_unknown_2, Makes("FIRMWARE", {"isoch"}, {"isoch"}), K)
      BY init_unknown_2_Does
    <2>2. tvw_init_adec \in Seq(K)
      BY <1>1, <1>3, init_adec_Does
    <2>3. TuneTuner \in Seq(K)
      BY <1>3, <1>7, Zenon
    <2> QED
      BY <1>4, <1>5, <2>1, <2>2, <2>3, DecoderParts
  <1>14. Settles(St(8), Makes("FIRMWARE", {"something"}, {}), Keeps("FIRMWARE", {"something"}, {}))
    <2> DEFINE K == Keeps("FIRMWARE", {"something"}, {})
    <2>1. Settles(tvw_init_tvw_2(2), Makes("FIRMWARE", {"something"}, {}), K)
      BY init_tvw_2_Does
    <2>2. tvw_init_unknown_2 \in Seq(K)
      BY <1>1, <1>3, <1>6, Zenon
    <2>3. tvw_init_adec \in Seq(K)
      BY <1>1, <1>3, init_adec_Does
    <2>4. TuneTuner \in Seq(K)
      BY <1>3, <1>7, Zenon
    <2> QED
      BY <1>4, <1>5, <2>1, <2>2, <2>3, <2>4, DecoderParts
  <1>15. /\ Lasting(8, Makes(RC, {512}, {}), Keeps(RC, {512}, {}))
         /\ Lasting(8, Makes(RC, AudioReset, {}), Keeps(RC, AudioReset, {}))
    BY <1>1, <1>8, <1>9, AfterDecoder
  <1>16. /\ Lasting(8, Makes(USC, {512}, {512}), Keeps(USC, {512}, {512}))
         /\ Lasting(8, Makes(USC, {1024}, {}), Keeps(USC, {1024}, {}))
    BY <1>2, <1>10, <1>11, AfterDecoder
  <1>17. /\ Lasting(8, Makes("FIRMWARE", {"adec"}, {"adec"}), Keeps("FIRMWARE", {"adec"}, {"adec"}))
         /\ Lasting(8, Makes("FIRMWARE", {"isoch"}, {"isoch"}), Keeps("FIRMWARE", {"isoch"}, {"isoch"}))
         /\ Lasting(8, Makes("FIRMWARE", {"something"}, {}), Keeps("FIRMWARE", {"something"}, {}))
    BY <1>3, <1>12, <1>13, <1>14, AfterDecoder
  <1> QED
    BY <1>15, <1>16, <1>17

\* The decoder's stage leaves all other bits alone.
LEMMA DecoderKeeps ==
    ASSUME NEW q \in Regs, NEW B \in SUBSET Bits[q], NEW V \in SUBSET Bits[q], q # USC,
           q # "FIRMWARE",
           q = RC => V = {} /\ B \cap AudioReset = {} /\ 512 \notin B
    PROVE  St(8) \in Seq(Keeps(q, B, V))
  <1>1. TuneTuner \in Seq(Accesses) /\ Keeps(q, B, V) \subseteq Accesses
    BY TuneTuner_Does, Within
  <1>2. tvw_init56_tvw \in Seq(Keeps(q, B, V))
    BY init56_tvw_Does DEF USC
  <1>3. tvw_init_adec \in Seq(Keeps(q, B, V)) /\ tvw_init_tvw_2(2) \in Seq(Keeps(q, B, V))
    BY init_adec_Does, init_tvw_2_Does
  <1>4. tvw_init_unknown_1 \in Seq(Keeps(q, B, V))
    BY init_unknown_1_Does DEF USC
  <1>5. tvw_init_unknown_2 \in Seq(Keeps(q, B, V))
    BY init_unknown_2_Keeps DEF USC
  <1>6. TuneTuner \in Seq(Keeps(q, B, V)) /\ tvw_tune_tvw \in Seq(Keeps(q, B, V))
    BY TuneTuner_Does, Others
  <1> QED
    BY <1>1, <1>2, <1>3, <1>4, <1>5, <1>6, DecoderParts

LEMMA ResetsMade == Lasting(4, Makes(RC, {16, 2048}, {}), Keeps(RC, {16, 2048}, {}))
  <1> DEFINE B == {16, 2048}
             V == {}
             K == Keeps(RC, B, V)
  <1>1. /\ RC \in Regs /\ B \in SUBSET Bits[RC] /\ V \in SUBSET Bits[RC] /\ B \cap AudioReset = {}
        /\ 512 \notin B /\ V = {} /\ RC # USC /\ RC # "FIRMWARE" /\ RC # "SMGR_SOFT_RESETS"
        /\ RC # "FEAW_COMMAND" /\ RC \notin {"uc_f089", "uc_f02a"}
    BY RcBits DEF RC, USC
  <1> HIDE DEF B, V, K
  <1>2. Settles(St(4), Makes(RC, B, V), K)
    <2>1. Settles(BeforeFirst, Makes(RC, B, V), K)
      BY <1>1, BeforeFirst_Does DEF K
    <2>2. Load("CTRLT507") \in K
      BY Loading DEF Images, K
    <2>3. <<Load("CTRLT507")>> \in Seq(K)
      BY <2>2
    <2>4. St(4) = BeforeFirst \o <<Load("CTRLT507")>>
      BY StageIs
    <2> QED
      BY <2>1, <2>3, <2>4, SettlesKept, Zenon
  <1>3. /\ St(5) \in Seq(K) /\ St(6) \in Seq(K) /\ St(7) \in Seq(K) /\ St(9) \in Seq(K)
        /\ St(10) \in Seq(K) /\ St(11) \in Seq(K)
    BY <1>1, StageKeeps DEF K
  <1>4. St(8) \in Seq(K)
    BY <1>1, DecoderKeeps DEF K
  <1>5. \A t \in (4 + 1)..11 : t = 5 \/ t = 6 \/ t = 7 \/ t = 8 \/ t = 9 \/ t = 10 \/ t = 11
    OBVIOUS
  <1>6. \A t \in (4 + 1)..11 : St(t) \in Seq(K)
    BY <1>3, <1>4, <1>5, Zenon
  <1>7. Lasting(4, Makes(RC, B, V), K)
    BY <1>2, <1>6, Zenon DEF Lasting
  <1> QED
    BY <1>7 DEF K, B, V

LEMMA UploadWindowMade ==
    /\ Lasting(6, Makes("uc_f089", {128}, {}), Keeps("uc_f089", {128}, {}))
    /\ Lasting(6, Makes("uc_f02a", {64}, {}), Keeps("uc_f02a", {64}, {}))
  <1>1. ASSUME NEW q \in {"uc_f089", "uc_f02a"}, NEW B \in SUBSET Bits[q], NEW V \in SUBSET Bits[q],
               Settles(St(6), Makes(q, B, V), Keeps(q, B, V))
        PROVE  Lasting(6, Makes(q, B, V), Keeps(q, B, V))
    <2>1. q \in Regs /\ q # RC /\ q # USC /\ q # "FIRMWARE" /\ q # "SMGR_SOFT_RESETS"
          /\ q # "FEAW_COMMAND"
      BY <1>1, BitsOf DEF RC, USC
    <2> DEFINE K == Keeps(q, B, V)
    <2>2. St(7) \in Seq(K) /\ St(9) \in Seq(K) /\ St(10) \in Seq(K) /\ St(11) \in Seq(K)
      BY <2>1, StageKeeps
    <2>3. St(8) \in Seq(K)
      BY <2>1, DecoderKeeps
    <2> HIDE DEF K
    <2>4. \A t \in (6 + 1)..11 : t = 7 \/ t = 8 \/ t = 9 \/ t = 10 \/ t = 11
      OBVIOUS
    <2>5. \A t \in (6 + 1)..11 : St(t) \in Seq(K)
      BY <2>2, <2>3, <2>4, Zenon
    <2> QED
      BY <1>1, <2>5, Zenon DEF Lasting, K
  <1> DEFINE A == {128}
             C == {64}
             N == {}
  <1>2. /\ A \in SUBSET Bits["uc_f089"] /\ N \in SUBSET Bits["uc_f089"]
        /\ C \in SUBSET Bits["uc_f02a"] /\ N \in SUBSET Bits["uc_f02a"]
    BY BitsOf
  <1>3. /\ Settles(St(6), Makes("uc_f089", A, N), Keeps("uc_f089", A, N))
        /\ Settles(St(6), Makes("uc_f02a", C, N), Keeps("uc_f02a", C, N))
    BY SecondUpload
  <1> HIDE DEF A, C, N
  <1>4. /\ Lasting(6, Makes("uc_f089", A, N), Keeps("uc_f089", A, N))
        /\ Lasting(6, Makes("uc_f02a", C, N), Keeps("uc_f02a", C, N))
    BY <1>1, <1>2, <1>3
  <1> QED
    BY <1>4 DEF A, C, N

\* The two chains that may be cut short.
LEMMA SkippedMake ==
    /\ Lasting(9, Makes("SMGR_SOFT_RESETS", {47}, {}), Keeps("SMGR_SOFT_RESETS", {47}, {}))
    /\ Lasting(11, Makes("FEAW_COMMAND", {50331648}, {}), Keeps("FEAW_COMMAND", {50331648}, {}))
  <1> DEFINE A == {47}
             C == {50331648}
             N == {}
  <1>1. /\ A \in SUBSET Bits["SMGR_SOFT_RESETS"] /\ N \in SUBSET Bits["SMGR_SOFT_RESETS"]
        /\ "SMGR_SOFT_RESETS" \in Regs /\ "SMGR_SOFT_RESETS" # "FEAW_COMMAND"
    BY BitsOf
  <1>2. /\ Settles(VideoWindow, Makes("SMGR_SOFT_RESETS", A, N), Keeps("SMGR_SOFT_RESETS", A, N))
        /\ Settles(StartAudio, Makes("FEAW_COMMAND", C, N), Keeps("FEAW_COMMAND", C, N))
    BY VideoWindow_Does, StartAudio_Does
  <1>3. St(9) = VideoWindow /\ St(11) = StartAudio
    BY StageIs
  <1> HIDE DEF A, C, N
  <1>4. St(10) \in Seq(Keeps("SMGR_SOFT_RESETS", A, N))
        /\ St(11) \in Seq(Keeps("SMGR_SOFT_RESETS", A, N))
    BY <1>1, StageKeeps
  <1>5. (\A t \in (9 + 1)..11 : t = 10 \/ t = 11) /\ \A t \in (11 + 1)..11 : FALSE
    OBVIOUS
  <1>6. /\ Lasting(9, Makes("SMGR_SOFT_RESETS", A, N), Keeps("SMGR_SOFT_RESETS", A, N))
        /\ Lasting(11, Makes("FEAW_COMMAND", C, N), Keeps("FEAW_COMMAND", C, N))
    BY <1>2, <1>3, <1>4, <1>5, Zenon DEF Lasting
  <1> QED
    BY <1>6 DEF A, C, N

\* What nothing takes back.
LEMMA Taken ==
    /\ Lasting(1, Ops("malloc"), Accesses)
    /\ Lasting(3, Ops("libusb_open"), Accesses) /\ Lasting(3, Ops("libusb_claim"), Accesses)
    /\ Lasting(4, Loads("CTRLT507"), Accesses) /\ Lasting(6, Loads("T507"), Accesses)
    /\ Lasting(6, Ops("alt_setting"), Accesses) /\ Lasting(8, Ops("tune"), Accesses)
  <1>1. \A t \in 1..11 : St(t) \in Seq(Accesses) /\ Len(St(t)) \in Nat \ {0}
    BY StageTypes
  <1>2. ASSUME NEW s \in 1..11, NEW X, NEW k \in 1..Len(St(s)), St(s)[k] \in X
        PROVE  Lasting(s, X, Accesses)
    <2>1. \A t \in (s + 1)..11 : t \in 1..11
      OBVIOUS
    <2>2. Accesses \in SUBSET Accesses /\ \A m \in (k + 1)..Len(St(s)) : St(s)[m] \in Accesses
      <3>1. St(s) \in Seq(Accesses) /\ Len(St(s)) \in Nat
        BY <1>1
      <3>2. \A m \in (k + 1)..Len(St(s)) : m \in 1..Len(St(s))
        BY <3>1
      <3>3. \A m \in 1..Len(St(s)) : St(s)[m] \in Accesses
        BY <3>1
      <3> QED
        BY <3>2, <3>3
    <2>3. Settles(St(s), X, Accesses)
      BY <1>1, <1>2, <2>2, SettlesAt
    <2> QED
      BY <1>1, <2>1, <2>3 DEF Lasting
  <1>3. /\ Step("malloc") \in Ops("malloc") /\ Step("libusb_open") \in Ops("libusb_open")
        /\ Step("libusb_claim") \in Ops("libusb_claim")
    BY Stepping DEF OpNames
  <1>4. /\ St(1)[1] = Step("malloc") /\ St(3)[1] = Step("libusb_open")
        /\ St(3)[2] = Step("libusb_claim")
        /\ 1 \in 1..Len(St(1)) /\ 1 \in 1..Len(St(3)) /\ 2 \in 1..Len(St(3))
    <2>1. St(1) = <<Step("malloc")>>
      BY StageIs
    <2>2. St(3) = <<Step("libusb_open"), Step("libusb_claim")>>
      BY StageIs
    <2>3. Len(St(3)) = 2 /\ Len(St(1)) = 1
      BY <2>1, <2>2
    <2> QED
      BY <2>1, <2>2, <2>3
  <1>5. Lasting(1, Ops("malloc"), Accesses)
    BY <1>2, <1>3, <1>4
  <1>6. Lasting(3, Ops("libusb_open"), Accesses) /\ Lasting(3, Ops("libusb_claim"), Accesses)
    BY <1>2, <1>3, <1>4
  <1>7. Lasting(4, Loads("CTRLT507"), Accesses)
    <2>1. Load("CTRLT507") \in Loads("CTRLT507")
      BY Loading DEF Images
    <2>2. Len(BeforeFirst) + 1 \in 1..Len(St(4)) /\ St(4)[Len(BeforeFirst) + 1] = Load("CTRLT507")
      BY FirstUpload
    <2> QED
      BY <1>2, <2>1, <2>2
  <1>8. \A X : Settles(St(6), X, Accesses) => Lasting(6, X, Accesses)
    <2>1. \A t \in (6 + 1)..11 : t \in 1..11
      OBVIOUS
    <2> QED
      BY <1>1, <2>1 DEF Lasting
  <1>9. Lasting(6, Loads("T507"), Accesses) /\ Lasting(6, Ops("alt_setting"), Accesses)
    BY <1>8, SecondUpload
  <1>10. Lasting(8, Ops("tune"), Accesses)
    <2>1. Settles(TuneTuner, Ops("tune"), Accesses) /\ TuneTuner \in Seq(Accesses)
      BY TuneTuner_Does
    <2>2. tvw_tune_tvw \in Seq(Accesses)
      BY Others, Subsets, Widen
    <2>3. Settles(St(8), Ops("tune"), Accesses)
      BY <2>1, <2>2, DecoderParts
    <2>4. \A t \in (8 + 1)..11 : t \in 1..11
      OBVIOUS
    <2> QED
      BY <1>1, <2>3, <2>4 DEF Lasting
  <1> QED
    BY <1>5, <1>6, <1>7, <1>9, <1>10

-----------------------------------------------------------------------------
\* The state in terms of the accesses that the running call, or the one that
\* opened the device, has passed.
Opened == session # 0 /\ ended[session] = "opened"

\* The k-th access of the stage s, also when its chain was cut short before it.
Passed(s, k) == IF Running THEN s < stage \/ (s = stage /\ k < next) ELSE Opened

Later(t, m, s, k) == t > s \/ (t = s /\ m > k)

\* An access in X has been passed in a stage not cut short, and since then only
\* accesses in K.
SettledBy(X, K, s, k) ==
    /\ Passed(s, k) /\ Name[s] \notin cut /\ St(s)[k] \in X
    /\ \A t \in 1..11 : \A m \in 1..Len(St(t)) :
          Passed(t, m) /\ Later(t, m, s, k) => St(t)[m] \in K

Settled(X, K) == \E s \in 1..11 : \E k \in 1..Len(St(s)) : SettledBy(X, K, s, k)

\* Bits that were made V and kept since are V: in the registers in Shared when no
\* read has brought another register's value.
RegsAsMade ==
    \A r \in Regs : ~(r \in Shared /\ stale) => \A B \in SUBSET Bits[r] : \A V \in SUBSET B :
        Settled(Makes(r, B, V), Keeps(r, B, V)) => regs[r] \cap B = V

\* Nothing that the call does on its way takes these back.
ImagesAsLoaded == \A f \in Images : Settled(Loads(f), Accesses) => images[f] = session
AltAsSet == Settled(Ops("alt_setting"), Accesses) => alt = 1
HeldAsTaken ==
    /\ Settled(Ops("malloc"), Accesses) => "dev" \in held[session]
    /\ Settled(Ops("libusb_open"), Accesses) => {"ctx", "handle"} \subseteq held[session]
    /\ Settled(Ops("libusb_claim"), Accesses) => "claim" \in held[session]
    /\ Settled(Ops("tune"), Accesses) => "priv" \in held[session]

\* The inductive invariant.
DInv == IInv /\ TypeOK /\ RegsAsMade /\ ImagesAsLoaded /\ AltAsSet /\ HeldAsTaken

-----------------------------------------------------------------------------
LEMMA AccessIs ==
    ASSUME TypeOK, Running
    PROVE  /\ stage \in 1..11 /\ next \in 1..Len(St(stage)) /\ Len(St(stage)) \in Nat \ {0}
           /\ Len(Stages[stage].steps) = Len(St(stage)) /\ Len(Stages) = 11
           /\ Access = St(stage)[next] /\ Access \in Accesses
  <1>1. stage \in 1..11
    BY StageCount DEF TypeOK, Running
  <1>2. St(stage) \in Seq(Accesses) /\ Len(St(stage)) \in Nat \ {0}
    BY <1>1, StageTypes
  <1>3. next \in 1..Len(St(stage))
    BY DEF TypeOK, St
  <1>4. Access = St(stage)[next] /\ Len(Stages[stage].steps) = Len(St(stage))
    BY DEF Access, St
  <1>5. St(stage)[next] \in Accesses
    BY <1>2, <1>3
  <1> QED
    BY <1>1, <1>2, <1>3, <1>4, <1>5, StageCount

\* One access more has been passed.
LEMMA AdvancePassed ==
    ASSUME IInv, TypeOK, Running, Advance, NEW s \in 1..11, NEW k \in 1..Len(St(s))
    PROVE  Passed(s, k)' <=> Passed(s, k) \/ (s = stage /\ k = next)
  <1>1. /\ stage \in 1..11 /\ next \in 1..Len(St(stage)) /\ Len(St(stage)) \in Nat \ {0}
        /\ Len(Stages[stage].steps) = Len(St(stage)) /\ Len(Stages) = 11
    BY AccessIs
  <1>2. Passed(s, k) <=> s < stage \/ (s = stage /\ k < next)
    BY DEF Passed
  <1>3. k \in Nat \ {0} /\ (s = stage => k \in 1..Len(St(stage)))
    <2>1. Len(St(s)) \in Nat
      BY StageTypes
    <2> QED
      BY <2>1
  <1>4. CASE next < Len(St(stage))
    <2>1. stage' = stage /\ next' = next + 1 /\ Running'
      BY <1>1, <1>4 DEF Advance, Running
    <2> QED
      BY <1>1, <1>2, <1>3, <2>1 DEF Passed
  <1>5. CASE ~(next < Len(St(stage))) /\ stage < 11
    <2>1. stage' = stage + 1 /\ next' = 1 /\ Running' /\ next = Len(St(stage))
      BY <1>1, <1>5 DEF Advance, Running
    <2> QED
      BY <1>1, <1>2, <1>3, <2>1 DEF Passed
  <1>6. CASE ~(next < Len(St(stage))) /\ stage = 11
    <2>1. stage' = 0 /\ next = Len(St(stage)) /\ session' = session
          /\ ended' = [ended EXCEPT ![session] = "opened"]
      BY <1>1, <1>6 DEF Advance
    <2>2. session \in Sessions /\ ended \in [Sessions -> Ends] /\ session # 0
      BY SessionIsOne DEF IInv, Typing, RunningIsLast, Running
    <2>3. Passed(s, k)'
      BY <2>1, <2>2 DEF Passed, Running, Opened
    <2> QED
      BY <1>1, <1>2, <1>3, <1>6, <2>1, <2>3
  <1> QED
    BY <1>1, <1>4, <1>5, <1>6

\* The rest of a stage counts as passed.
LEMMA SkipPassed ==
    ASSUME IInv, TypeOK, FailSkip, NEW s \in 1..11, NEW k \in 1..Len(St(s))
    PROVE  Passed(s, k)' <=> Passed(s, k) \/ s = stage
  <1>1. Running /\ stage \in 1..11 /\ Len(Stages) = 11
    BY AccessIs DEF FailSkip
  <1>2. Passed(s, k) <=> s < stage \/ (s = stage /\ k < next)
    BY <1>1 DEF Passed
  <1>3. k \in Nat \ {0}
    BY StageTypes
  <1>4. CASE stage < 11
    <2>1. stage' = stage + 1 /\ next' = 1 /\ Running'
      BY <1>1, <1>4 DEF FailSkip, Running
    <2> QED
      BY <1>1, <1>2, <1>3, <2>1 DEF Passed
  <1>5. CASE stage = 11
    <2>1. stage' = 0 /\ session' = session /\ ended' = [ended EXCEPT ![session] = "opened"]
      BY <1>1, <1>5 DEF FailSkip
    <2>2. session \in Sessions /\ ended \in [Sessions -> Ends] /\ session # 0
      BY <1>1, SessionIsOne DEF IInv, Typing, RunningIsLast, Running
    <2>3. Passed(s, k)'
      BY <2>1, <2>2 DEF Passed, Running, Opened
    <2> QED
      BY <1>1, <1>2, <1>3, <1>5, <2>3
  <1> QED
    BY <1>1, <1>4, <1>5

LEMMA SettledAdvance ==
    ASSUME IInv, TypeOK, Running, Advance, cut' = cut, NEW X, NEW K, Settled(X, K)'
    PROVE  Access \in X \/ (Access \in K /\ Settled(X, K))
  <1>1. stage \in 1..11 /\ next \in 1..Len(St(stage)) /\ Access = St(stage)[next]
    BY AccessIs
  <1>2. PICK s \in 1..11 : \E k \in 1..Len(St(s)) : SettledBy(X, K, s, k)'
    BY DEF Settled
  <1>3. PICK k \in 1..Len(St(s)) : SettledBy(X, K, s, k)'
    BY <1>2
  <1>4. /\ Passed(s, k)' /\ Name[s] \notin cut /\ St(s)[k] \in X
        /\ \A t \in 1..11 : \A m \in 1..Len(St(t)) :
              Passed(t, m)' /\ Later(t, m, s, k) => St(t)[m] \in K
    BY <1>3 DEF SettledBy
  <1>5. \A t \in 1..11 : \A m \in 1..Len(St(t)) :
           Passed(t, m)' <=> Passed(t, m) \/ (t = stage /\ m = next)
    BY AdvancePassed
  <1>6. CASE s = stage /\ k = next
    BY <1>1, <1>4, <1>6
  <1>7. CASE ~(s = stage /\ k = next)
    <2>1. Passed(s, k)
      BY <1>4, <1>5, <1>7
    <2>2. Later(stage, next, s, k)
      <3>1. s < stage \/ (s = stage /\ k < next)
        BY <2>1 DEF Passed
      <3> QED
        BY <1>1, <3>1 DEF Later
    <2>3. Access \in K
      BY <1>1, <1>4, <1>5, <2>2
    <2>4. SettledBy(X, K, s, k)
      BY <1>4, <1>5, <2>1 DEF SettledBy
    <2> QED
      BY <2>3, <2>4 DEF Settled
  <1> QED
    BY <1>6, <1>7

LEMMA SettledSkip ==
    ASSUME IInv, TypeOK, FailSkip, NEW X, NEW K, Settled(X, K)'
    PROVE  Access \in K /\ Settled(X, K)
  <1>1. Running /\ stage \in 1..11 /\ next \in 1..Len(St(stage)) /\ Access = St(stage)[next]
    BY AccessIs DEF FailSkip
  <1>2. PICK s \in 1..11 : \E k \in 1..Len(St(s)) : SettledBy(X, K, s, k)'
    BY DEF Settled
  <1>3. PICK k \in 1..Len(St(s)) : SettledBy(X, K, s, k)'
    BY <1>2
  <1>4. /\ Passed(s, k)' /\ Name[s] \notin cut' /\ St(s)[k] \in X
        /\ \A t \in 1..11 : \A m \in 1..Len(St(t)) :
              Passed(t, m)' /\ Later(t, m, s, k) => St(t)[m] \in K
    BY <1>3 DEF SettledBy
  <1>5. \A t \in 1..11 : \A m \in 1..Len(St(t)) : Passed(t, m)' <=> Passed(t, m) \/ t = stage
    BY SkipPassed
  <1>6. cut' = cut \cup {Name[stage]}
    BY DEF FailSkip
  <1>7. s # stage /\ Name[s] \notin cut
    BY <1>4, <1>6
  <1>8. Passed(s, k)
    BY <1>4, <1>5, <1>7
  <1>9. Later(stage, next, s, k)
    <2>1. s < stage
      BY <1>1, <1>7, <1>8 DEF Passed
    <2> QED
      BY <1>1, <2>1 DEF Later
  <1>10. Access \in K
    BY <1>1, <1>4, <1>5, <1>9
  <1>11. SettledBy(X, K, s, k)
    BY <1>4, <1>5, <1>7, <1>8 DEF SettledBy
  <1> QED
    BY <1>10, <1>11 DEF Settled

\* A call that begins, and one that ends without the device, has passed nothing.
LEMMA NothingSettled ==
    ASSUME NEW X, NEW K, (stage' = 1 /\ next' = 1) \/ (stage' = 0 /\ ~Opened')
    PROVE  ~Settled(X, K)'
  <1>1. \A s \in 1..11 : \A k \in 1..Len(St(s)) : k \in Nat \ {0}
    BY StageTypes
  <1>2. \A s \in 1..11 : \A k \in 1..Len(St(s)) : ~Passed(s, k)'
    BY <1>1 DEF Passed, Running
  <1> QED
    BY <1>2 DEF Settled, SettledBy

-----------------------------------------------------------------------------
\* What an access that modifies a register does to bits it makes or keeps.
LEMMA ModifiedBits ==
    ASSUME TypeOK, NEW a \in Accesses, a.op = "modify", NEW v \in Seen(a), NEW r \in Regs
    PROVE  /\ DOMAIN Modified(regs, a, v) = Regs /\ Modified(regs, a, v)[r] \subseteq Bits[r]
           /\ ~(r \in Shared /\ stale) =>
                 \A B \in SUBSET Bits[r] : \A V \in SUBSET B :
                    a \in Makes(r, B, V) \/ (a \in Keeps(r, B, V) /\ regs[r] \cap B = V)
                       => Modified(regs, a, v)[r] \cap B = V
  <1>1. DOMAIN regs = Regs /\ regs[r] \subseteq Bits[r] /\ a.reg \in Regs
        /\ a.set \subseteq Bits[a.reg] /\ regs[a.reg] \subseteq Bits[a.reg]
    BY DEF TypeOK, Accesses
  <1>2. Modified(regs, a, v)[r] = IF r = a.reg THEN (v \cap a.keep) \cup a.set ELSE regs[r]
    BY <1>1 DEF Modified
  <1>3. DOMAIN Modified(regs, a, v) = Regs
    BY <1>1 DEF Modified
  <1>4. Modified(regs, a, v)[r] \subseteq Bits[r]
    <2>1. v \subseteq Bits[a.reg]
      BY <1>1 DEF Seen
    <2> QED
      BY <1>1, <1>2, <2>1
  <1>5. ASSUME NEW B \in SUBSET Bits[r], NEW V \in SUBSET B, a \in Makes(r, B, V)
        PROVE  Modified(regs, a, v)[r] \cap B = V
    <2>1. r = a.reg /\ a.set \cap B = V /\ a.keep \cap B \subseteq V
      BY <1>5 DEF Makes
    <2> QED
      BY <1>2, <2>1
  <1>6. ASSUME ~(r \in Shared /\ stale), NEW B \in SUBSET Bits[r], NEW V \in SUBSET B,
               a \in Keeps(r, B, V), regs[r] \cap B = V
        PROVE  Modified(regs, a, v)[r] \cap B = V
    <2>1. CASE r # a.reg
      BY <1>2, <1>6, <2>1
    <2>2. CASE r = a.reg /\ v = regs[r]
      <3>1. a.set \cap B \subseteq V /\ V \subseteq a.keep \cup a.set
        BY <1>6, <2>2 DEF Keeps
      <3> QED
        BY <1>2, <1>6, <2>2, <3>1
    <2>3. CASE r = a.reg /\ v # regs[r]
      <3>1. stale /\ r # "FIRMWARE"
        BY <2>3 DEF Seen
      <3>2. a \in Makes(r, B, V)
        BY <1>6, <2>3, <3>1 DEF Keeps, Switched
      <3> QED
        BY <1>5, <3>2
    <2> QED
      BY <2>1, <2>2, <2>3
  <1> QED
    BY <1>3, <1>4, <1>5, <1>6

\* What the steps within the function do to the device.
DeviceMoves ==
    /\ regs' = regs \/ (Access.op = "modify" /\ Modifies(Access))
    /\ \/ images' = images
       \/ Access.op = "load" /\ \E v \in {0, session} : images' = [images EXCEPT ![Access.reg] = v]
    /\ alt' \in {alt, 0, 1}

DeviceTyped ==
    /\ DOMAIN regs = Regs /\ \A r \in Regs : regs[r] \subseteq Bits[r]
    /\ images \in [Images -> 0..MaxSessions]
    /\ alt \in {0, 1}

ControlTyped ==
    /\ IF Running THEN next \in 1..Len(Stages[stage].steps) ELSE next = 1
    /\ cut \subseteq {"video", "audio"}
    /\ stale \in BOOLEAN

LEMMA Parts ==
    /\ TypeOK <=> Typing /\ DeviceTyped /\ ControlTyped
    /\ TypeOK' <=> Typing' /\ DeviceTyped' /\ ControlTyped'
  BY StageCount DEF TypeOK, Typing, DeviceTyped, ControlTyped

LEMMA DeviceStep ==
    ASSUME TypeOK, Running, DeviceMoves
    PROVE  DeviceTyped'
  <1>1. Access \in Accesses
    BY AccessIs
  <1>2. DOMAIN regs' = Regs /\ \A r \in Regs : regs'[r] \subseteq Bits[r]
    <2>1. CASE regs' = regs
      BY <2>1 DEF TypeOK
    <2>2. CASE Access.op = "modify" /\ Modifies(Access)
      <3>1. PICK v \in Seen(Access) : regs' = Modified(regs, Access, v)
        BY <2>2 DEF Modifies
      <3>2. \A r \in Regs : DOMAIN Modified(regs, Access, v) = Regs
                /\ Modified(regs, Access, v)[r] \subseteq Bits[r]
        BY <1>1, <2>2, ModifiedBits
      <3>3. "FIRMWARE" \in Regs
        BY BitsOf
      <3> QED
        BY <3>1, <3>2, <3>3
    <2> QED
      BY <2>1, <2>2 DEF DeviceMoves
  <1>3. images' \in [Images -> 0..MaxSessions]
    <2>1. images \in [Images -> 0..MaxSessions] /\ session \in 0..MaxSessions
          /\ 0 \in 0..MaxSessions
      BY MaxSessionsAssumption DEF TypeOK
    <2>2. CASE images' = images
      BY <2>1, <2>2
    <2>3. ASSUME Access.op = "load", NEW v \in {0, session},
                 images' = [images EXCEPT ![Access.reg] = v]
          PROVE  images' \in [Images -> 0..MaxSessions]
      BY <2>1, <2>3
    <2> QED
      BY <2>2, <2>3 DEF DeviceMoves
  <1>4. alt' \in {0, 1}
    BY DEF DeviceMoves, TypeOK
  <1> QED
    BY <1>2, <1>3, <1>4 DEF DeviceTyped

LEMMA AdvanceControl ==
    ASSUME TypeOK, Running, Advance, cut' = cut, stale' \in {stale, TRUE}
    PROVE  ControlTyped'
  <1>1. /\ stage \in 1..11 /\ next \in 1..Len(St(stage)) /\ Len(St(stage)) \in Nat \ {0}
        /\ Len(Stages[stage].steps) = Len(St(stage)) /\ Len(Stages) = 11
    BY AccessIs
  <1>2. \A t \in 1..11 : 1 \in 1..Len(Stages[t].steps)
    <2>1. \A t \in 1..11 : Len(Stages[t].steps) \in Nat \ {0}
      BY StageTypes DEF St
    <2>2. \A n \in Nat \ {0} : 1 \in 1..n
      OBVIOUS
    <2> QED
      BY <2>1, <2>2
  <1>3. IF Running' THEN next' \in 1..Len(Stages[stage'].steps) ELSE next' = 1
    <2>1. CASE next < Len(St(stage))
      <3>1. stage' = stage /\ next' = next + 1
        BY <1>1, <2>1 DEF Advance
      <3> QED
        BY <1>1, <2>1, <3>1 DEF Running
    <2>2. CASE ~(next < Len(St(stage)))
      <3>1. (stage' = 0 \/ stage' \in 1..11) /\ next' = 1
        BY <1>1, <2>2 DEF Advance
      <3>2. stage' \in 1..11 => 1 \in 1..Len(Stages[stage'].steps)
        BY <1>2
      <3> QED
        BY <3>1, <3>2 DEF Running
    <2> QED
      BY <2>1, <2>2
  <1> QED
    BY <1>3 DEF ControlTyped, TypeOK, Advance

LEMMA SkipControl ==
    ASSUME TypeOK, FailSkip
    PROVE  ControlTyped'
  <1>1. Running /\ stage \in 1..11 /\ Len(Stages) = 11 /\ Stages[stage].fail = "skip"
    BY AccessIs DEF FailSkip
  <1>2. stage \in {9, 11}
    BY <1>1, StageTypes
  <1>3. Name[stage] \in {"video", "audio"}
    <2>1. 9 \in 1..Len(Stages) /\ 11 \in 1..Len(Stages)
      BY StageCount
    <2>2. Name[9] = "video" /\ Name[11] = "audio"
      BY <2>1 DEF Name
    <2> QED
      BY <1>2, <2>2
  <1>4. \A t \in 1..11 : 1 \in 1..Len(Stages[t].steps)
    <2>1. \A t \in 1..11 : Len(Stages[t].steps) \in Nat \ {0}
      BY StageTypes DEF St
    <2>2. \A n \in Nat \ {0} : 1 \in 1..n
      OBVIOUS
    <2> QED
      BY <2>1, <2>2
  <1>5. IF Running' THEN next' \in 1..Len(Stages[stage'].steps) ELSE next' = 1
    <2>1. (stage' = 0 \/ stage' \in 1..11) /\ next' = 1
      BY <1>1 DEF FailSkip
    <2>2. stage' \in 1..11 => 1 \in 1..Len(Stages[stage'].steps)
      BY <1>4
    <2> QED
      BY <2>1, <2>2 DEF Running
  <1> QED
    BY <1>3, <1>5 DEF ControlTyped, TypeOK, FailSkip, FailedEffect, MayLeaveAnswer

-----------------------------------------------------------------------------
\* What the call has passed, an access further on.
PassEffect ==
    /\ IF Access.op = "modify" THEN Modifies(Access) ELSE regs' = regs
    /\ MayLeaveAnswer
    /\ IF Access.op = "load" THEN images' = [images EXCEPT ![Access.reg] = session]
       ELSE images' = images
    /\ IF Access.op = "alt_setting" THEN alt' = 1 ELSE alt' = alt
    /\ held[session] \subseteq held'[session]
    /\ Access.op = "malloc" => "dev" \in held'[session]
    /\ Access.op = "libusb_open" => {"ctx", "handle"} \subseteq held'[session]
    /\ Access.op = "libusb_claim" => "claim" \in held'[session]
    /\ Access.op = "tune" => "priv" \in held'[session]

Effects == RegsAsMade /\ ImagesAsLoaded /\ AltAsSet /\ HeldAsTaken

LEMMA PassKeepsEffects ==
    ASSUME DInv, Running, Advance, cut' = cut, PassEffect
    PROVE  Effects' /\ DeviceTyped'
  <1> USE DEF DInv
  <1>1. Access \in Accesses /\ session' = session
    BY AccessIs DEF Advance
  <1>2. DeviceTyped'
    BY DeviceStep DEF PassEffect, DeviceMoves
  <1>3. RegsAsMade'
    <2> SUFFICES ASSUME NEW r \in Regs, ~(r \in Shared /\ stale'),
                        NEW B \in SUBSET Bits[r], NEW V \in SUBSET B,
                        Settled(Makes(r, B, V), Keeps(r, B, V))'
                 PROVE  regs'[r] \cap B = V
      BY DEF RegsAsMade
    <2>0. ~(r \in Shared /\ stale)
      BY DEF PassEffect, MayLeaveAnswer
    <2>1. \/ Access \in Makes(r, B, V)
          \/ Access \in Keeps(r, B, V) /\ Settled(Makes(r, B, V), Keeps(r, B, V))
      BY SettledAdvance
    <2>2. Access \in Makes(r, B, V) \/ (Access \in Keeps(r, B, V) /\ regs[r] \cap B = V)
      BY <2>0, <2>1 DEF RegsAsMade
    <2>3. CASE Access.op = "modify"
      <3>1. PICK v \in Seen(Access) : regs' = Modified(regs, Access, v)
        BY <2>3 DEF PassEffect, Modifies
      <3> QED
        BY <1>1, <2>0, <2>2, <2>3, <3>1, ModifiedBits
    <2>4. CASE Access.op # "modify"
      <3>1. Access \notin Makes(r, B, V)
        BY <2>4 DEF Makes
      <3> QED
        BY <2>2, <2>4, <3>1 DEF PassEffect
    <2> QED
      BY <2>3, <2>4
  <1>4. ImagesAsLoaded'
    <2> SUFFICES ASSUME NEW f \in Images, Settled(Loads(f), Accesses)'
                 PROVE  images'[f] = session
      BY <1>1 DEF ImagesAsLoaded
    <2>1. Access \in Loads(f) \/ Settled(Loads(f), Accesses)
      BY SettledAdvance
    <2>2. images \in [Images -> 0..MaxSessions]
      BY DEF TypeOK
    <2>3. CASE Access \in Loads(f)
      <3>1. Access.op = "load" /\ Access.reg = f
        BY <2>3 DEF Loads
      <3> QED
        BY <2>2, <3>1 DEF PassEffect
    <2>4. CASE Settled(Loads(f), Accesses)
      <3>1. images[f] = session
        BY <2>4 DEF ImagesAsLoaded
      <3> QED
        BY <2>2, <3>1 DEF PassEffect
    <2> QED
      BY <2>1, <2>3, <2>4
  <1>5. AltAsSet'
    <2> SUFFICES ASSUME Settled(Ops("alt_setting"), Accesses)'
                 PROVE  alt' = 1
      BY DEF AltAsSet
    <2>1. Access \in Ops("alt_setting") \/ Settled(Ops("alt_setting"), Accesses)
      BY SettledAdvance
    <2> QED
      BY <2>1 DEF Ops, AltAsSet, PassEffect
  <1>6. HeldAsTaken'
    <2>1. \A o : Settled(Ops(o), Accesses)' => Access.op = o \/ Settled(Ops(o), Accesses)
      <3> SUFFICES ASSUME NEW o, Settled(Ops(o), Accesses)'
                   PROVE  Access.op = o \/ Settled(Ops(o), Accesses)
        OBVIOUS
      <3>1. Access \in Ops(o) \/ Settled(Ops(o), Accesses)
        BY SettledAdvance
      <3> QED
        BY <3>1 DEF Ops
    <2>2. Settled(Ops("malloc"), Accesses)' => "dev" \in held'[session']
      BY <1>1, <2>1 DEF HeldAsTaken, PassEffect
    <2>3. Settled(Ops("libusb_open"), Accesses)' => {"ctx", "handle"} \subseteq held'[session']
      BY <1>1, <2>1 DEF HeldAsTaken, PassEffect
    <2>4. Settled(Ops("libusb_claim"), Accesses)' => "claim" \in held'[session']
      BY <1>1, <2>1 DEF HeldAsTaken, PassEffect
    <2>5. Settled(Ops("tune"), Accesses)' => "priv" \in held'[session']
      BY <1>1, <2>1 DEF HeldAsTaken, PassEffect
    <2> QED
      BY <2>2, <2>3, <2>4, <2>5 DEF HeldAsTaken
  <1> QED
    BY <1>2, <1>3, <1>4, <1>5, <1>6 DEF Effects

\* A chain cut short takes nothing back that was done before it.
LEMMA SkipKeepsEffects ==
    ASSUME DInv, FailSkip
    PROVE  Effects' /\ DeviceTyped'
  <1> USE DEF DInv
  <1>1. Running /\ Stages[stage].fail = "skip" /\ session' = session /\ held' = held
    BY DEF FailSkip
  <1>2. Access \in Plain
    <2>1. stage \in 1..11 /\ next \in 1..Len(St(stage)) /\ Access = St(stage)[next]
      BY <1>1, AccessIs
    <2> QED
      BY <1>1, <2>1, StageTypes
  <1>3. Access \in Accesses /\ Access.op \in {"other", "modify"}
    BY <1>2 DEF Plain
  <1>4. /\ images' = images /\ alt' = alt
        /\ regs' = regs \/ (Access.op = "modify" /\ Modifies(Access))
        /\ MayLeaveAnswer
    BY <1>3 DEF FailSkip, FailedEffect, device
  <1>5. DeviceTyped'
    BY <1>1, <1>4, DeviceStep DEF DeviceMoves
  <1>6. RegsAsMade'
    <2> SUFFICES ASSUME NEW r \in Regs, ~(r \in Shared /\ stale'),
                        NEW B \in SUBSET Bits[r], NEW V \in SUBSET B,
                        Settled(Makes(r, B, V), Keeps(r, B, V))'
                 PROVE  regs'[r] \cap B = V
      BY DEF RegsAsMade
    <2>0. ~(r \in Shared /\ stale)
      BY <1>4 DEF MayLeaveAnswer
    <2>1. Access \in Keeps(r, B, V) /\ Settled(Makes(r, B, V), Keeps(r, B, V))
      BY SettledSkip
    <2>2. regs[r] \cap B = V
      BY <2>0, <2>1 DEF RegsAsMade
    <2>3. ASSUME Access.op = "modify", NEW v \in Seen(Access)
          PROVE  Modified(regs, Access, v)[r] \cap B = V
      <3>1. Access \in Makes(r, B, V) \/ (Access \in Keeps(r, B, V) /\ regs[r] \cap B = V)
                => Modified(regs, Access, v)[r] \cap B = V
        BY <1>3, <2>0, <2>3, ModifiedBits
      <3> QED
        BY <2>1, <2>2, <3>1
    <2> QED
      BY <1>4, <2>2, <2>3 DEF Modifies
  <1>7. \A o : Settled(Ops(o), Accesses)' => Settled(Ops(o), Accesses)
    BY SettledSkip
  <1>8. \A f : Settled(Loads(f), Accesses)' => Settled(Loads(f), Accesses)
    BY SettledSkip
  <1>9. ImagesAsLoaded' /\ AltAsSet' /\ HeldAsTaken'
    BY <1>1, <1>4, <1>7, <1>8 DEF ImagesAsLoaded, AltAsSet, HeldAsTaken
  <1> QED
    BY <1>5, <1>6, <1>9 DEF Effects

LEMMA NothingToKeep ==
    ASSUME (stage' = 1 /\ next' = 1) \/ (stage' = 0 /\ ~Opened')
    PROVE  Effects'
  BY NothingSettled DEF Effects, RegsAsMade, ImagesAsLoaded, AltAsSet, HeldAsTaken

-----------------------------------------------------------------------------
LEMMA InitDInv == Init => DInv
  <1> SUFFICES ASSUME Init
               PROVE  DInv
    OBVIOUS
  <1>1. IInv
    BY InitIInv
  <1>2. DeviceTyped
    <2>1. DOMAIN regs = Regs /\ \A r \in Regs : regs[r] \subseteq Bits[r]
      <3>1. regs \in UsedBefore
        BY DEF Init
      <3>2. \E a \in SUBSET ResetBits, b \in SUBSET {47}, c \in SUBSET {512, 1024},
                d \in SUBSET {50331648},
               e \in SUBSET {128}, f \in SUBSET {64} :
               regs = [RESET_CONTROL |-> a, SMGR_SOFT_RESETS |-> b, USC_CTL |-> c, FEAW_COMMAND |-> d,
                       uc_f089 |-> e, uc_f02a |-> f, FIRMWARE |-> {}]
        BY <3>1 DEF UsedBefore
      <3>3. DOMAIN regs = {"RESET_CONTROL", "SMGR_SOFT_RESETS", "USC_CTL", "FEAW_COMMAND", "uc_f089",
                           "uc_f02a", "FIRMWARE"}
        BY <3>2
      <3>4. /\ regs["RESET_CONTROL"] \subseteq ResetBits /\ regs["SMGR_SOFT_RESETS"] \subseteq {47}
            /\ regs["USC_CTL"] \subseteq {512, 1024} /\ regs["FEAW_COMMAND"] \subseteq {50331648}
            /\ regs["uc_f089"] \subseteq {128} /\ regs["uc_f02a"] \subseteq {64}
            /\ regs["FIRMWARE"] = {}
        BY <3>2
      <3>5. ResetBits = {16, 128, 256, 512, 2048}
        BY DEF ResetBits, AudioReset
      <3>6. \A r \in Regs : regs[r] \subseteq Bits[r]
        BY <3>4, <3>5, BitsOf
      <3> QED
        BY <3>3, <3>6, BitsOf
    <2> QED
      BY <2>1, MaxSessionsAssumption DEF DeviceTyped, Init
  <1>3. ControlTyped
    BY DEF ControlTyped, Init, Running
  <1>4. \A s, k : ~Passed(s, k)
    BY DEF Init, Passed, Running, Opened
  <1>5. \A X, K : ~Settled(X, K)
    BY <1>4 DEF Settled, SettledBy
  <1>6. RegsAsMade /\ ImagesAsLoaded /\ AltAsSet /\ HeldAsTaken
    BY <1>5 DEF RegsAsMade, ImagesAsLoaded, AltAsSet, HeldAsTaken
  <1> QED
    BY <1>1, <1>2, <1>3, <1>6, Parts DEF DInv, IInv

LEMMA UnmovedEffects ==
    ASSUME DInv, UNCHANGED <<regs, images, alt, stage, next, session, ended, held, cut, stale>>
    PROVE  Effects'
  <1>1. \A s, k : Passed(s, k)' <=> Passed(s, k)
    BY DEF Passed, Running, Opened
  <1>2. \A X, K : Settled(X, K)' <=> Settled(X, K)
    BY <1>1 DEF Settled, SettledBy
  <1> QED
    BY <1>2 DEF DInv, Effects, RegsAsMade, ImagesAsLoaded, AltAsSet, HeldAsTaken

\* The steps that succeed.
LEMMA StepPasses ==
    ASSUME DInv, \/ Modify \/ HasBits \/ OtherAccess \/ LoadFw \/ AllocateDev \/ OpenHandle
                 \/ ClaimInterface \/ SetAltSetting \/ Attach \/ Tune \/ FailIgnored
    PROVE  Running /\ Advance /\ cut' = cut /\ PassEffect
  <1>1. Running /\ Advance /\ cut' = cut
    BY DEF Modify, HasBits, OtherAccess, LoadFw, AllocateDev, OpenHandle, ClaimInterface,
           SetAltSetting, Attach, Tune, FailIgnored
  <1>a. MayLeaveAnswer
    BY DEF Modify, HasBits, OtherAccess, LoadFw, AllocateDev, OpenHandle, ClaimInterface,
           SetAltSetting, Attach, Tune, FailIgnored, MayLeaveAnswer
  <1>2. session \in Sessions /\ held \in [Sessions -> SUBSET Resources]
    BY <1>1, SessionIsOne DEF DInv, IInv, Typing
  <1>3. ASSUME NEW r, Hold(r)
        PROVE  held'[session] = held[session] \cup {r}
    BY <1>2, <1>3 DEF Hold
  <1>4. CASE Modify
    BY <1>a, <1>4 DEF Modify, PassEffect
  <1>5. CASE HasBits \/ OtherAccess
    BY <1>a, <1>5 DEF HasBits, OtherAccess, PassEffect, device
  <1>6. CASE LoadFw
    BY <1>a, <1>6 DEF LoadFw, PassEffect
  <1>7. CASE AllocateDev
    <2>1. Access.op \in {"malloc", "libusb_init"} /\ UNCHANGED device
      BY <1>7 DEF AllocateDev
    <2>2. held'[session] = held[session] \cup {IF Access.op = "malloc" THEN "dev" ELSE "ctx"}
      BY <1>3, <1>7 DEF AllocateDev
    <2> QED
      BY <1>1, <1>a, <2>1, <2>2 DEF PassEffect, device
  <1>8. CASE OpenHandle
    <2>1. held'[session] = held[session] \cup {"handle"}
      BY <1>3, <1>8 DEF OpenHandle
    <2> QED
      BY <1>a, <1>8, <2>1 DEF OpenHandle, PassEffect, device
  <1>9. CASE ClaimInterface
    <2>1. held'[session] = held[session] \cup {"claim"}
      BY <1>3, <1>9 DEF ClaimInterface
    <2> QED
      BY <1>a, <1>9, <2>1 DEF ClaimInterface, PassEffect, device
  <1>10. CASE SetAltSetting
    BY <1>a, <1>10 DEF SetAltSetting, PassEffect
  <1>11. CASE Attach
    <2>1. held'[session] = held[session] \cup {"priv"}
      BY <1>3, <1>11 DEF Attach
    <2> QED
      BY <1>a, <1>11, <2>1 DEF Attach, PassEffect, device
  <1>12. CASE Tune
    BY <1>a, <1>12 DEF Tune, PassEffect, device
  <1>13. CASE FailIgnored
    <2>1. stage \in 1..11 /\ next \in 1..Len(St(stage)) /\ Access = St(stage)[next]
      BY <1>1, AccessIs DEF DInv
    <2>2. Access.op \in {"libusb_init", "attach"}
      BY <1>13, <2>1, StageTypes DEF FailIgnored
    <2> QED
      BY <1>a, <1>13, <2>2 DEF FailIgnored, PassEffect, device
  <1> QED
    BY <1>1, <1>4, <1>5, <1>6, <1>7, <1>8, <1>9, <1>10, <1>11, <1>12, <1>13

\* The ends of a call without the device.
LEMMA LeaveKeeps ==
    ASSUME DInv, Running, FailedEffect, NEW how, how # "opened", Leave(how)
    PROVE  DeviceTyped' /\ ControlTyped' /\ Effects'
  <1>1. session \in Sessions /\ ended \in [Sessions -> Ends]
    BY SessionIsOne DEF DInv, IInv, Typing
  <1>2. stage' = 0 /\ ~Opened'
    BY <1>1 DEF Leave, Opened
  <1>3. DeviceMoves
    BY DEF FailedEffect, DeviceMoves, device
  <1>4. DeviceTyped'
    BY <1>3, DeviceStep DEF DInv
  <1>5. ControlTyped'
    BY DEF DInv, TypeOK, ControlTyped, Leave, Running, FailedEffect, MayLeaveAnswer
  <1> QED
    BY <1>2, <1>4, <1>5, NothingToKeep

LEMMA ExitKeeps ==
    ASSUME DInv, session # 0, Exit
    PROVE  DeviceTyped' /\ ControlTyped' /\ Effects'
  <1>1. session \in Sessions /\ ended \in [Sessions -> Ends]
    BY MaxSessionsAssumption DEF DInv, IInv, Typing, Sessions
  <1>2. stage' = 0 /\ ~Opened'
    BY <1>1 DEF Exit, Opened
  <1>3. DeviceTyped'
    BY DEF DInv, TypeOK, DeviceTyped, Exit
  <1>4. ControlTyped'
    BY DEF DInv, TypeOK, ControlTyped, Exit, Running, MayLeaveAnswer
  <1> QED
    BY <1>2, <1>3, <1>4, NothingToKeep

LEMMA NextDInv == DInv /\ [Next]_vars => DInv'
  <1> SUFFICES ASSUME DInv, [Next]_vars
               PROVE  DInv'
    OBVIOUS
  <1>1. IInv'
    BY NextIInv DEF DInv
  <1>2. ASSUME DeviceTyped', ControlTyped', Effects'
        PROVE  DInv'
    <2>1. TypeOK'
      BY <1>1, <1>2, Parts DEF IInv
    <2> QED
      BY <1>1, <1>2, <2>1 DEF DInv, Effects
  <1>3. CASE Open
    <2>1. stage' = 1 /\ next' = 1 /\ cut' = {} /\ UNCHANGED <<regs, images, alt, stale>>
      BY <1>3 DEF Open, device
    <2>2. DeviceTyped'
      BY <2>1 DEF DInv, TypeOK, DeviceTyped
    <2>3. ControlTyped'
      BY <2>1, MallocIsFirst DEF DInv, TypeOK, ControlTyped, Running
    <2> QED
      BY <1>2, <2>1, <2>2, <2>3, NothingToKeep
  <1>4. CASE \/ Modify \/ HasBits \/ OtherAccess \/ LoadFw \/ AllocateDev \/ OpenHandle
             \/ ClaimInterface \/ SetAltSetting \/ Attach \/ Tune \/ FailIgnored
    <2>1. Running /\ Advance /\ cut' = cut /\ PassEffect
      BY <1>4, StepPasses
    <2>2. ControlTyped'
      BY <2>1, AdvanceControl DEF DInv, PassEffect, MayLeaveAnswer
    <2> QED
      BY <1>2, <2>1, <2>2, PassKeepsEffects
  <1>5. CASE FailErr
    BY <1>2, <1>5, LeaveKeeps DEF FailErr
  <1>6. CASE FailReturn
    <2>1. Stages[stage].fail # "opened"
      BY <1>6 DEF FailReturn
    <2> QED
      BY <1>2, <1>6, <2>1, LeaveKeeps DEF FailReturn
  <1>7. CASE FailSkip
    <2>1. ControlTyped'
      BY <1>7, SkipControl DEF DInv
    <2> QED
      BY <1>2, <1>7, <2>1, SkipKeepsEffects
  <1>8. CASE Kill \/ Dereference
    <2>1. session # 0 /\ Exit
      BY <1>8 DEF Kill, Dereference, DInv, IInv, RunningIsLast, Running
    <2> QED
      BY <1>2, <2>1, ExitKeeps
  <1>9. CASE Close
    <2>1. session \in Sessions /\ ended \in [Sessions -> Ends]
      BY <1>9, MaxSessionsAssumption DEF Close, DInv, IInv, Typing, Sessions
    <2>2. stage' = 0 /\ ~Opened'
      BY <1>9, <2>1 DEF Close, Opened, Running
    <2>3. DeviceTyped'
      BY <1>9 DEF Close, DInv, TypeOK, DeviceTyped
    <2>4. ControlTyped'
      BY <1>9 DEF Close, DInv, TypeOK, ControlTyped, Running
    <2> QED
      BY <1>2, <2>2, <2>3, <2>4, NothingToKeep
  <1>10. CASE CloseAfterFailure
    BY <1>2, <1>10, ExitKeeps DEF CloseAfterFailure
  <1>11. CASE UNCHANGED vars
    <2>1. UNCHANGED <<regs, images, alt, stage, next, session, ended, held, cut, stale>>
      BY <1>11 DEF vars
    <2>2. DeviceTyped' /\ ControlTyped'
      BY <2>1 DEF DInv, TypeOK, DeviceTyped, ControlTyped, Running
    <2> QED
      BY <1>2, <2>1, <2>2, UnmovedEffects
  <1> QED
    BY <1>3, <1>4, <1>5, <1>6, <1>7, <1>8, <1>9, <1>10, <1>11 DEF Next

-----------------------------------------------------------------------------
\* A device that was opened: all has been passed, and what lasts to the end holds.
LEMMA SettledAtOpen ==
    ASSUME Opened, stage = 0, NEW s \in 1..11, NEW X, NEW K, Lasting(s, X, K), Name[s] \notin cut
    PROVE  Settled(X, K)
  <1>1. Settles(St(s), X, K) /\ \A t \in (s + 1)..11 : St(t) \in Seq(K)
    BY DEF Lasting
  <1>2. PICK k \in 1..Len(St(s)) : St(s)[k] \in X /\ \A m \in (k + 1)..Len(St(s)) : St(s)[m] \in K
    BY <1>1 DEF Settles
  <1>3. \A t, m : Passed(t, m)
    BY DEF Passed, Running
  <1>4. ASSUME NEW t \in 1..11, NEW m \in 1..Len(St(t)), Later(t, m, s, k)
        PROVE  St(t)[m] \in K
    <2>1. Len(St(t)) \in Nat /\ Len(St(s)) \in Nat
      BY StageTypes
    <2>2. CASE t > s
      <3>1. t \in (s + 1)..11
        BY <2>2
      <3>2. St(t) \in Seq(K)
        BY <1>1, <3>1
      <3> QED
        BY <2>1, <3>2
    <2>3. CASE t = s /\ m > k
      <3>1. m \in (k + 1)..Len(St(s))
        BY <2>1, <2>3
      <3> QED
        BY <1>2, <2>3, <3>1
    <2> QED
      BY <1>4, <2>2, <2>3 DEF Later
  <1>5. SettledBy(X, K, s, k)
    BY <1>2, <1>3, <1>4 DEF SettledBy
  <1> QED
    BY <1>5 DEF Settled

LEMMA Named ==
    /\ Name[9] = "video" /\ Name[11] = "audio"
    /\ \A s \in {1, 3, 4, 6, 8} : Name[s] = "none"
  BY StageCount DEF Name

\* The bits B of the register r that the stage s makes V, to the end.
LastsAs(s, r, B, V) ==
    /\ s \in 1..11 /\ r \in Regs /\ B \in SUBSET Bits[r] /\ V \in SUBSET B
    /\ Lasting(s, Makes(r, B, V), Keeps(r, B, V))

BitsAre(r, B, V) == regs[r] \cap B = V

\* The bits that the stages switch together (Zenon counts numbers up from zero: it
\* is shown the names).
Low == {16, 2048}
Nine == {512}
Ten == {1024}
Upload == {128}
Window == {64}
Video == {47}
Pending == {50331648}

LEMMA AllMade ==
    /\ LastsAs(4, RC, Low, {}) /\ LastsAs(8, RC, Nine, {}) /\ LastsAs(8, RC, AudioReset, {})
    /\ LastsAs(8, USC, Nine, Nine) /\ LastsAs(8, USC, Ten, {})
    /\ LastsAs(6, "uc_f089", Upload, {}) /\ LastsAs(6, "uc_f02a", Window, {})
    /\ LastsAs(8, "FIRMWARE", {"adec"}, {"adec"}) /\ LastsAs(8, "FIRMWARE", {"isoch"}, {"isoch"})
    /\ LastsAs(8, "FIRMWARE", {"something"}, {})
    /\ LastsAs(9, "SMGR_SOFT_RESETS", Video, {}) /\ LastsAs(11, "FEAW_COMMAND", Pending, {})
  <1>1. /\ RC \in Regs /\ {16, 2048} \in SUBSET Bits[RC] /\ AudioReset \in SUBSET Bits[RC]
        /\ {512} \in SUBSET Bits[RC]
    BY RcBits
  <1>2. USC \in Regs /\ {512} \in SUBSET Bits[USC] /\ {1024} \in SUBSET Bits[USC]
    BY BitsOf DEF USC
  <1>3. LastsAs(4, RC, Low, {}) /\ LastsAs(8, RC, Nine, {}) /\ LastsAs(8, RC, AudioReset, {})
    BY <1>1, ResetsMade, DecoderMakes DEF LastsAs, Low, Nine
  <1>4. LastsAs(8, USC, Nine, Nine) /\ LastsAs(8, USC, Ten, {})
    BY <1>2, DecoderMakes DEF LastsAs, Nine, Ten
  <1>5. LastsAs(6, "uc_f089", Upload, {}) /\ LastsAs(6, "uc_f02a", Window, {})
    BY BitsOf, UploadWindowMade DEF LastsAs, Upload, Window
  <1>6. /\ LastsAs(8, "FIRMWARE", {"adec"}, {"adec"})
        /\ LastsAs(8, "FIRMWARE", {"isoch"}, {"isoch"})
        /\ LastsAs(8, "FIRMWARE", {"something"}, {})
    BY BitsOf, DecoderMakes DEF LastsAs
  <1>7. LastsAs(9, "SMGR_SOFT_RESETS", Video, {}) /\ LastsAs(11, "FEAW_COMMAND", Pending, {})
    BY BitsOf, SkippedMake DEF LastsAs, Video, Pending
  <1> QED
    BY <1>3, <1>4, <1>5, <1>6, <1>7

LEMMA ReadyAtOpen == DInv => OpenIsReady
  <1> SUFFICES ASSUME DInv, Opened
               PROVE  /\ \A f \in Images : images[f] = session
                      /\ regs["uc_f089"] = {} /\ regs["uc_f02a"] = {}
                      /\ regs["FIRMWARE"] = {"isoch", "adec"}
                      /\ alt = 1
                      /\ Resources \subseteq held[session]
                      /\ regs["SMGR_SOFT_RESETS"] # {} => "video" \in cut
                      /\ regs["FEAW_COMMAND"] # {} => "audio" \in cut
                      /\ ~stale => regs["RESET_CONTROL"] = {} /\ regs["USC_CTL"] = {512}
    BY DEF OpenIsReady, Opened
  <1>1. stage = 0 /\ "none" \notin cut /\ session # 0
    BY DEF DInv, IInv, RunningIsLast, TypeOK, Opened
  <1>2. ASSUME NEW s \in {1, 3, 4, 6, 8}, NEW X, NEW K, Lasting(s, X, K)
        PROVE  Settled(X, K)
    BY <1>1, <1>2, Named, SettledAtOpen
  <1>3. \A s, r, B, V : /\ LastsAs(s, r, B, V) /\ Name[s] \notin cut
                         /\ ~(r \in Shared /\ stale) => BitsAre(r, B, V)
    <2> SUFFICES ASSUME NEW s, NEW r, NEW B, NEW V, LastsAs(s, r, B, V), Name[s] \notin cut,
                        ~(r \in Shared /\ stale)
                 PROVE  BitsAre(r, B, V)
      OBVIOUS
    <2>1. s \in 1..11 /\ r \in Regs /\ B \in SUBSET Bits[r] /\ V \in SUBSET B
          /\ Lasting(s, Makes(r, B, V), Keeps(r, B, V))
      BY DEF LastsAs
    <2>2. Settled(Makes(r, B, V), Keeps(r, B, V))
      BY <1>1, <2>1, SettledAtOpen
    <2> QED
      BY <2>1, <2>2 DEF DInv, RegsAsMade, BitsAre
  <1>4. Name[4] \notin cut /\ Name[6] \notin cut /\ Name[8] \notin cut
    BY <1>1, Named
  <1>5. \A r \in Regs : regs[r] \subseteq Bits[r]
    BY DEF DInv, TypeOK
  <1>a. \A r \in {"uc_f089", "uc_f02a", "FIRMWARE", "SMGR_SOFT_RESETS", "FEAW_COMMAND"} :
            r \notin Shared
    BY DEF Shared
  <1>6. ASSUME ~stale PROVE regs["RESET_CONTROL"] = {}
    <2>1. RC \in Regs /\ Bits[RC] = Low \cup AudioReset \cup Nine
      BY RcBits DEF Low, Nine
    <2>2. BitsAre(RC, Low, {}) /\ BitsAre(RC, AudioReset, {}) /\ BitsAre(RC, Nine, {})
      BY <1>3, <1>4, <1>6, AllMade, Zenon
    <2>3. regs[RC] \subseteq Low \cup AudioReset \cup Nine
      BY <1>5, <2>1
    <2> QED
      BY <2>2, <2>3 DEF RC, BitsAre
  <1>7. ASSUME ~stale PROVE regs["USC_CTL"] = {512}
    <2>1. USC \in Regs /\ Bits[USC] = Nine \cup Ten
      BY BitsOf DEF USC, Nine, Ten
    <2>2. BitsAre(USC, Nine, Nine) /\ BitsAre(USC, Ten, {})
      BY <1>3, <1>4, <1>7, AllMade, Zenon
    <2>3. regs[USC] \subseteq Nine \cup Ten
      BY <1>5, <2>1
    <2> QED
      BY <2>2, <2>3 DEF USC, BitsAre, Nine, Ten
  <1>8. regs["uc_f089"] = {} /\ regs["uc_f02a"] = {}
    <2>1. BitsAre("uc_f089", Upload, {}) /\ BitsAre("uc_f02a", Window, {})
      BY <1>3, <1>4, <1>a, AllMade, Zenon
    <2>2. regs["uc_f089"] \subseteq Upload /\ regs["uc_f02a"] \subseteq Window
      BY <1>5, BitsOf DEF Upload, Window
    <2> QED
      BY <2>1, <2>2 DEF BitsAre
  <1>9. regs["FIRMWARE"] = {"isoch", "adec"}
    <2>1. /\ BitsAre("FIRMWARE", {"adec"}, {"adec"}) /\ BitsAre("FIRMWARE", {"isoch"}, {"isoch"})
          /\ BitsAre("FIRMWARE", {"something"}, {})
      BY <1>3, <1>4, <1>a, AllMade, Zenon
    <2>2. regs["FIRMWARE"] \subseteq {"isoch", "adec", "something"}
      BY <1>5, BitsOf
    <2> QED
      BY <2>1, <2>2 DEF BitsAre
  <1>10. regs["SMGR_SOFT_RESETS"] # {} => "video" \in cut
    <2>1. Name[9] \notin cut => BitsAre("SMGR_SOFT_RESETS", Video, {})
      BY <1>3, <1>a, AllMade, Zenon
    <2>2. regs["SMGR_SOFT_RESETS"] \subseteq Video
      BY <1>5, BitsOf DEF Video
    <2> QED
      BY <2>1, <2>2, Named DEF BitsAre
  <1>11. regs["FEAW_COMMAND"] # {} => "audio" \in cut
    <2>1. Name[11] \notin cut => BitsAre("FEAW_COMMAND", Pending, {})
      BY <1>3, <1>a, AllMade, Zenon
    <2>2. regs["FEAW_COMMAND"] \subseteq Pending
      BY <1>5, BitsOf DEF Pending
    <2> QED
      BY <2>1, <2>2, Named DEF BitsAre
  <1>12. \A f \in Images : images[f] = session
    <2>1. Settled(Loads("CTRLT507"), Accesses) /\ Settled(Loads("T507"), Accesses)
      BY <1>2, Taken
    <2> QED
      BY <2>1 DEF DInv, ImagesAsLoaded, Images
  <1>13. alt = 1
    <2>1. Settled(Ops("alt_setting"), Accesses)
      BY <1>2, Taken
    <2> QED
      BY <2>1 DEF DInv, AltAsSet
  <1>14. Resources \subseteq held[session]
    <2>1. Settled(Ops("malloc"), Accesses) /\ Settled(Ops("libusb_open"), Accesses)
          /\ Settled(Ops("libusb_claim"), Accesses) /\ Settled(Ops("tune"), Accesses)
      BY <1>2, Taken
    <2> QED
      BY <2>1 DEF DInv, HeldAsTaken, Resources
  <1> QED
    BY <1>6, <1>7, <1>8, <1>9, <1>10, <1>11, <1>12, <1>13, <1>14

-----------------------------------------------------------------------------
\* A running call that has passed a prefix p of its stage, and nothing behind it.
LEMMA SettledWithin ==
    ASSUME TypeOK, Running, NEW p \in Seq(Accesses), NEW X, NEW K, Settles(p, X, K),
           next = Len(p) + 1, Name[stage] \notin cut,
           \A n \in 1..Len(p) : n \in 1..Len(St(stage)) /\ St(stage)[n] = p[n]
    PROVE  Settled(X, K)
  <1>1. stage \in 1..11 /\ Len(p) \in Nat
    BY AccessIs
  <1>2. PICK k \in 1..Len(p) : p[k] \in X /\ \A m \in (k + 1)..Len(p) : p[m] \in K
    BY DEF Settles
  <1>3. k \in 1..Len(St(stage)) /\ St(stage)[k] \in X
    BY <1>2
  <1>4. Passed(stage, k)
    BY <1>1, <1>2 DEF Passed
  <1>5. ASSUME NEW t \in 1..11, NEW m \in 1..Len(St(t)), Passed(t, m), Later(t, m, stage, k)
        PROVE  St(t)[m] \in K
    <2>1. Len(St(t)) \in Nat
      BY StageTypes
    <2>2. t < stage \/ (t = stage /\ m < next)
      BY <1>5 DEF Passed
    <2>3. t = stage /\ m \in (k + 1)..Len(p)
      BY <1>1, <1>2, <1>5, <2>1, <2>2 DEF Later
    <2>4. m \in 1..Len(p)
      BY <1>1, <1>2, <2>3
    <2> QED
      BY <1>2, <2>3, <2>4
  <1>6. SettledBy(X, K, stage, k)
    BY <1>3, <1>4, <1>5 DEF SettledBy
  <1> QED
    BY <1>1, <1>3, <1>6 DEF Settled

\* What a stage behind the one of the call has taken for good.
LEMMA SettledBefore ==
    ASSUME TypeOK, Running, NEW s \in 1..11, s < stage, NEW X, Lasting(s, X, Accesses),
           Name[s] \notin cut
    PROVE  Settled(X, Accesses)
  <1>1. PICK k \in 1..Len(St(s)) : St(s)[k] \in X
    BY DEF Lasting, Settles
  <1>2. Passed(s, k)
    BY DEF Passed
  <1>3. ASSUME NEW t \in 1..11, NEW m \in 1..Len(St(t))
        PROVE  St(t)[m] \in Accesses
    <2>1. St(t) \in Seq(Accesses)
      BY StageTypes
    <2> QED
      BY <2>1
  <1>4. SettledBy(X, Accesses, s, k)
    BY <1>1, <1>2, <1>3 DEF SettledBy
  <1> QED
    BY <1>4 DEF Settled

\* Only an upload, whole or broken off, changes an image, and only its own.
LEMMA OnlyUploads ==
    ASSUME DInv, [Next]_vars, NEW f \in Images, images'[f] # images[f]
    PROVE  Running /\ Access.op = "load" /\ Access.reg = f
  <1>1. images \in [Images -> 0..MaxSessions]
    BY DEF DInv, TypeOK
  <1>2. \A g, v : g # f => [images EXCEPT ![g] = v][f] = images[f]
    BY <1>1
  <1>3. images' # images
    OBVIOUS
  <1>4. CASE LoadFw
    BY <1>2, <1>4 DEF LoadFw
  <1>5. CASE Running /\ FailedEffect
    <2>1. Access.op = "load" /\ images' = [images EXCEPT ![Access.reg] = 0]
      BY <1>3, <1>5 DEF FailedEffect, device
    <2>2. Access.reg = f
      BY <1>2, <2>1
    <2> QED
      BY <1>5, <2>1, <2>2
  <1>6. CASE FailErr \/ FailReturn \/ FailSkip
    BY <1>5, <1>6 DEF FailErr, FailReturn, FailSkip
  <1>7. CASE \/ Open \/ Modify \/ HasBits \/ OtherAccess \/ AllocateDev \/ OpenHandle \/ ClaimInterface
             \/ SetAltSetting \/ Attach \/ Tune \/ FailIgnored \/ Close
    BY <1>3, <1>7 DEF Open, Modify, HasBits, OtherAccess, AllocateDev, OpenHandle, ClaimInterface,
                      SetAltSetting, Attach, Tune, FailIgnored, Close, device
  <1>8. CASE Kill \/ Dereference \/ CloseAfterFailure
    BY <1>3, <1>8 DEF Kill, Dereference, CloseAfterFailure, Exit, device
  <1>9. CASE UNCHANGED vars
    BY <1>3, <1>9 DEF vars
  <1> QED
    BY <1>4, <1>6, <1>7, <1>8, <1>9 DEF Next

\* Where a call is when it uploads, and what it has passed.
LEMMA AtUpload ==
    ASSUME DInv, Running, Access.op = "load"
    PROVE  \/ stage = 4 /\ next = Len(BeforeFirst) + 1 /\ Access.reg = "CTRLT507"
           \/ stage = 6 /\ next = Len(BeforeSecond) + 1 /\ Access.reg = "T507"
  <1>1. stage \in 1..11 /\ next \in 1..Len(St(stage)) /\ Len(St(stage)) \in Nat
        /\ Access = St(stage)[next]
    BY AccessIs DEF DInv
  <1>2. stage \in {4, 6}
    <2>1. ASSUME stage \in (1..11) \ {4, 6}
          PROVE  FALSE
      <3>1. St(stage) \in Seq(Unloading)
        BY <2>1, StageTypes
      <3>2. Access \in Unloading
        BY <1>1, <3>1
      <3> QED
        BY <3>2 DEF Unloading
    <2> QED
      BY <1>1, <2>1
  <1>3. CASE stage = 4
    <2>1. next = Len(BeforeFirst) + 1
      <3>1. ASSUME next \in 1..Len(BeforeFirst)
            PROVE  FALSE
        <4>1. Access \in Unloading
          BY <1>1, <1>3, <3>1, FirstUpload
        <4> QED
          BY <4>1 DEF Unloading
      <3> QED
        BY <1>1, <1>3, <3>1, FirstUpload
    <2>2. Access = Load("CTRLT507")
      BY <1>1, <1>3, <2>1, FirstUpload
    <2> QED
      BY <1>3, <2>1, <2>2 DEF Load
  <1>4. CASE stage = 6
    <2>1. next = Len(BeforeSecond) + 1
      <3>1. ASSUME next # Len(BeforeSecond) + 1
            PROVE  FALSE
        <4>1. Access \in Unloading
          BY <1>1, <1>4, <3>1, SecondUpload
        <4> QED
          BY <4>1 DEF Unloading
      <3> QED
        BY <3>1
    <2>2. Access = Load("T507")
      BY <1>1, <1>4, <2>1, SecondUpload
    <2> QED
      BY <1>4, <2>1, <2>2 DEF Load
  <1> QED
    BY <1>2, <1>3, <1>4

LEMMA FirstPrepared ==
    ASSUME DInv, Running, stage = 4, next = Len(BeforeFirst) + 1, ~stale
    PROVE  regs["RESET_CONTROL"] = {}
  <1> DEFINE B == Bits[RC]
             N == {}
  <1>1. RC \in Regs /\ B \in SUBSET Bits[RC] /\ N \in SUBSET B /\ regs[RC] \subseteq B
    BY RcBits DEF DInv, TypeOK
  <1>2. BeforeFirst \in Seq(Accesses) /\ Settles(BeforeFirst, Makes(RC, B, N), Keeps(RC, B, N))
    BY BeforeFirst_Does, Subsets, Widen
  <1>3. \A n \in 1..Len(BeforeFirst) : n \in 1..Len(St(stage)) /\ St(stage)[n] = BeforeFirst[n]
    BY FirstUpload
  <1>4. Name[stage] \notin cut
    BY Named DEF DInv, TypeOK
  <1> HIDE DEF B
  <1>5. Settled(Makes(RC, B, N), Keeps(RC, B, N))
    BY <1>2, <1>3, <1>4, SettledWithin DEF DInv
  <1>6. regs[RC] \cap B = N
    BY <1>1, <1>5 DEF DInv, RegsAsMade
  <1> QED
    BY <1>1, <1>6 DEF RC

LEMMA SecondPrepared ==
    ASSUME DInv, Running, stage = 6, next = Len(BeforeSecond) + 1
    PROVE  /\ 128 \in regs["uc_f089"] /\ 64 \in regs["uc_f02a"]
           /\ images["CTRLT507"] = session
  <1>1. BeforeSecond \in Seq(Accesses)
    BY BeforeSecond_Does, Subsets, Widen
  <1>2. \A n \in 1..Len(BeforeSecond) : n \in 1..Len(St(stage)) /\ St(stage)[n] = BeforeSecond[n]
    BY SecondUpload
  <1>3. Name[stage] \notin cut /\ Name[4] \notin cut
    BY Named DEF DInv, TypeOK
  <1>4. ASSUME NEW r \in Regs \ Shared, NEW B \in SUBSET Bits[r],
               Settles(BeforeSecond, Makes(r, B, B), Keeps(r, B, B))
        PROVE  B \subseteq regs[r]
    <2>1. Settled(Makes(r, B, B), Keeps(r, B, B))
      BY <1>1, <1>2, <1>3, <1>4, SettledWithin DEF DInv
    <2>2. regs[r] \cap B = B
      BY <2>1 DEF DInv, RegsAsMade
    <2> QED
      BY <2>2
  <1>5. /\ "uc_f089" \in Regs /\ Upload \in SUBSET Bits["uc_f089"]
        /\ "uc_f02a" \in Regs /\ Window \in SUBSET Bits["uc_f02a"]
        /\ "uc_f089" \notin Shared /\ "uc_f02a" \notin Shared
    BY BitsOf DEF Upload, Window, Shared
  <1>6. /\ Settles(BeforeSecond, Makes("uc_f089", Upload, Upload), Keeps("uc_f089", Upload, Upload))
        /\ Settles(BeforeSecond, Makes("uc_f02a", Window, Window), Keeps("uc_f02a", Window, Window))
    BY BeforeSecond_Does DEF Upload, Window
  <1>7. Upload \subseteq regs["uc_f089"] /\ Window \subseteq regs["uc_f02a"]
    BY <1>4, <1>5, <1>6
  <1>8. images["CTRLT507"] = session
    <2>1. Settled(Loads("CTRLT507"), Accesses)
      BY <1>3, Taken, SettledBefore DEF DInv
    <2> QED
      BY <2>1 DEF DInv, ImagesAsLoaded, Images
  <1> QED
    BY <1>7, <1>8 DEF Upload, Window

\* UploadsPrepared of one step.
UploadStep ==
    /\ images'["CTRLT507"] # images["CTRLT507"] => stale \/ regs["RESET_CONTROL"] = {}
    /\ images'["T507"] # images["T507"] =>
          /\ 128 \in regs["uc_f089"] /\ 64 \in regs["uc_f02a"]
          /\ images["CTRLT507"] = session

LEMMA UploadsAtStep == DInv /\ [Next]_vars => UploadStep
  <1> SUFFICES ASSUME DInv, [Next]_vars
               PROVE  UploadStep
    OBVIOUS
  <1>1. "CTRLT507" \in Images /\ "T507" \in Images
    BY DEF Images
  <1>2. ASSUME images'["CTRLT507"] # images["CTRLT507"]
        PROVE  stale \/ regs["RESET_CONTROL"] = {}
    <2>1. Running /\ Access.op = "load" /\ Access.reg = "CTRLT507"
      BY <1>1, <1>2, OnlyUploads
    <2>2. stage = 4 /\ next = Len(BeforeFirst) + 1
      BY <2>1, AtUpload
    <2> QED
      BY <2>1, <2>2, FirstPrepared
  <1>3. ASSUME images'["T507"] # images["T507"]
        PROVE  /\ 128 \in regs["uc_f089"] /\ 64 \in regs["uc_f02a"]
               /\ images["CTRLT507"] = session
    <2>1. Running /\ Access.op = "load" /\ Access.reg = "T507"
      BY <1>1, <1>3, OnlyUploads
    <2>2. stage = 6 /\ next = Len(BeforeSecond) + 1
      BY <2>1, AtUpload
    <2> QED
      BY <2>1, <2>2, SecondPrepared
  <1> QED
    BY <1>2, <1>3 DEF UploadStep

LEMMA AlwaysDInv == Spec => []DInv
  BY InitDInv, NextDInv, PTL DEF Spec

\* Control is at an access of tvwsdr_open or outside of it, every register holds
\* bits of its own, and the rest of the state has its types.
THEOREM TypeCorrect == Spec => []TypeOK
<1>1. DInv => TypeOK
  BY DEF DInv
<1> QED
  BY <1>1, AlwaysDInv, PTL

\* A tvwsdr_open that returned 0 leaves a device that can stream, whatever the
\* registers held before and wherever an earlier session was cut off; only the
\* chains whose results nobody looks at can leave the video window in reset or
\* the audio window's command pending.  Of the reset register and the stream's
\* control it says so when no answer of an abandoned read was left to be taken for
\* their value.
THEOREM OpensReady == Spec => []OpenIsReady
  BY ReadyAtOpen, AlwaysDInv, PTL

\* CTRLT507 is uploaded, or broken off, only when every reset is released, unless an
\* answer of an abandoned read was taken for the value of the resets; T507 only while the 8051 is held, with its upload window open and CTRLT507 of the
\* same session in place.
THEOREM PreparesUploads == Spec => UploadsPrepared
<1>1. Spec => [][UploadStep]_vars
  BY UploadsAtStep, AlwaysDInv, PTL DEF Spec
<1> QED
  BY <1>1 DEF UploadsPrepared, UploadStep

=============================================================================
