------------------------------ MODULE OpenClose ------------------------------
(***************************************************************************)
(* tvwsdr_open and tvwsdr_close (libtvwsdr.c) over several sessions with   *)
(* one device, any access of which may fail, and of which any process may  *)
(* be killed.                                                              *)
(*                                                                         *)
(* tvwsdr_open is a list of stages.  A stage is a sequence of accesses     *)
(* and of what the function does when one of them fails: free the context  *)
(* and the structure (the label err), return at once, leave the rest of    *)
(* the stage out, or go on.  The device keeps its registers when a process *)
(* ends, and libusb keeps an interface claimed until its handle is closed  *)
(* or its process ends.                                                    *)
(*                                                                         *)
(* A register access has the form of module Registers, taken as one step:  *)
(* a read that is given up after its header went out leaves an answer on   *)
(* endpoint 0x82, nothing drains it, and from then on (stale) a read may   *)
(* bring the value of any register.  A failed read ends most chains, but   *)
(* not the polls of a service call, nor the transfers of the tuner, and    *)
(* the device keeps the answer for the next session.                       *)
(*                                                                         *)
(* External, as the code uses it: libusb_exit does not close handles, and  *)
(* a device opened twice can be claimed by one handle only.                *)
(***************************************************************************)
EXTENDS InitChains

CONSTANT MaxSessions      \* bound: calls of tvwsdr_open

ASSUME MaxSessionsAssumption == MaxSessions \in Nat \ {0}

Sessions == 1..MaxSessions
Images == {"CTRLT507", "T507"}
Resources == {"dev", "ctx", "handle", "claim", "priv"}
Ends == {"no", "enomem", "err", "return", "opened", "closed", "killed"}

VARIABLES
    regs,      \* registers of the device, by the bits in Bits
    images,    \* images[f]: the session that loaded firmware f, 0 if none did
    alt,       \* alternate setting of the interface
    stage,     \* index into Stages of the running tvwsdr_open
    next,      \* index of its next access in the stage
    session,   \* number of the session, 0 before the first
    ended,     \* ended[s]: how session s ended, "opened" while it has the device
    held,      \* held[s]: what session s allocated in this process and has not freed
    cut,       \* chains of this session that stopped early without anyone noticing
    stale      \* an answer that nobody has read may be left on the endpoint

device == <<regs, images, alt>>
vars == <<regs, images, alt, stage, next, session, ended, held, cut, stale>>

-----------------------------------------------------------------------------
\* The stages of tvwsdr_open.
Stage(steps, fail) == [steps |-> steps, fail |-> fail]

Load(f) == [op |-> "load", reg |-> f, keep |-> {}, set |-> {}]

Allocate == Stage(<<Step("malloc")>>, "enomem")

Context == Stage(<<Step("libusb_init")>>, "ignore")

Claim == Stage(<<Step("libusb_open"), Step("libusb_claim")>>, "err")

FirstFirmware ==
    Stage(tvw_init_tvw_1 \o tvw_init_tvw_2(1) \o tvw_init_tvw_3 \o <<Load("CTRLT507")>>, "err")

\* TVW_USC_CTL read and written back, and the odd read.
AfterUpload == Stage(<<Other, Other, Other>>, "return")

\* Mutant of SecondFirmware: the upload before tvw_init_8051.
SecondFirmwareEarly ==
    Stage(<<Other>> \o tvw_finish_init_tvw \o <<Step("alt_setting"), Load("T507")>>
              \o tvw_init_8051 \o <<Other>> \o tvw_finish_init_8051, "err")

SecondFirmware ==
    Stage(<<Other>> \o tvw_finish_init_tvw \o <<Step("alt_setting")>> \o tvw_init_8051
              \o <<Load("T507"), Other>> \o tvw_finish_init_8051, "err")

AttachTuner == Stage(<<Step("attach")>>, "ignore")

Decoder ==
    Stage(tvw_init56_tvw \o tvw_init_adec \o tvw_init_adec
              \o tvw_init_unknown_1 \o tvw_init_tvw_2(2) \o tvw_init_unknown_2
              \o tvw_init_adec \o tvw_init_adec
              \o <<Enable("adec"), Step("tune")>> \o tvw_tune_tvw \o tvw_tune_tvw, "err")

Stages ==
    <<Allocate, Context, Claim, FirstFirmware, AfterUpload, SecondFirmware, AttachTuner,
      Decoder, Stage(VideoWindow, "skip"), Stage(tvw_tune_tvw, "err"),
      Stage(StartAudio, "skip")>>

Name == [i \in 1..Len(Stages) |-> CASE i = 9 -> "video" [] i = 11 -> "audio" [] OTHER -> "none"]

-----------------------------------------------------------------------------
Running == stage # 0

Access == Stages[stage].steps[next]

\* Before the first session the device may have been used by anything, but its
\* firmware was not given a command yet.
UsedBefore ==
    [RESET_CONTROL : SUBSET ResetBits, SMGR_SOFT_RESETS : SUBSET {47},
     USC_CTL : SUBSET {512, 1024}, FEAW_COMMAND : SUBSET {50331648},
     uc_f089 : SUBSET {128}, uc_f02a : SUBSET {64}, FIRMWARE : {{}}]

Init ==
    /\ regs \in UsedBefore
    /\ images = [f \in Images |-> 0]
    /\ alt = 0
    /\ stage = 0
    /\ next = 1
    /\ session = 0
    /\ ended = [s \in Sessions |-> "no"]
    /\ held = [s \in Sessions |-> {}]
    /\ cut = {}
    /\ stale \in BOOLEAN

\* A call of tvwsdr_open, also after one that failed: the caller may try again.
Open ==
    /\ ~Running
    /\ session < MaxSessions
    /\ session # 0 => ended[session] # "opened"
    /\ session' = session + 1
    /\ stage' = 1
    /\ next' = 1
    /\ cut' = {}
    /\ UNCHANGED <<device, ended, held, stale>>

\* Mutant of Advance: one access too many in each stage.
AdvancePast ==
    /\ IF next <= Len(Stages[stage].steps)
       THEN stage' = stage /\ next' = next + 1
       ELSE stage' = (IF stage < Len(Stages) THEN stage + 1 ELSE 0) /\ next' = 1
    /\ ended' = IF stage' = 0 THEN [ended EXCEPT ![session] = "opened"] ELSE ended
    /\ UNCHANGED session

\* Control goes to the next access, the next stage, or out of the function.
Advance ==
    /\ IF next < Len(Stages[stage].steps)
       THEN stage' = stage /\ next' = next + 1
       ELSE stage' = (IF stage < Len(Stages) THEN stage + 1 ELSE 0) /\ next' = 1
    /\ ended' = IF stage' = 0 THEN [ended EXCEPT ![session] = "opened"] ELSE ended
    /\ UNCHANGED session

Hold(resource) == held' = [held EXCEPT ![session] = @ \cup {resource}]

\* What a read of the register of a brings.  The commands of tvw_e0_magic
\* (FIRMWARE) do not depend on what is read.
Seen(a) == IF stale /\ a.reg # "FIRMWARE" THEN SUBSET Bits[a.reg] ELSE {regs[a.reg]}

Modified(r, a, v) == [r EXCEPT ![a.reg] = (v \cap a.keep) \cup a.set]

Modifies(a) == \E v \in Seen(a) : regs' = Modified(regs, a, v)

\* A read that fails may have had its header sent.
MayLeaveAnswer == stale' \in {stale, TRUE}

\* tvw_write_reg, tvw_rmw_reg, tvw_uc_write_reg, tvw_uc_rmw_reg, tvw_e0_magic.
Modify ==
    /\ Running
    /\ Access.op = "modify"
    /\ Modifies(Access)
    /\ UNCHANGED <<images, alt, held, cut, stale>>
    /\ Advance

\* tvw_reg_has_bits_set.
HasBits ==
    /\ Running
    /\ Access.op = "compare"
    /\ Access.set \in Seen(Access)
    /\ UNCHANGED <<device, held, cut, stale>>
    /\ Advance

\* Also a service call, which goes on when a poll of it fails.
OtherAccess ==
    /\ Running
    /\ Access.op = "other"
    /\ MayLeaveAnswer
    /\ UNCHANGED <<device, held, cut>>
    /\ Advance

LoadFw ==
    /\ Running
    /\ Access.op = "load"
    /\ images' = [images EXCEPT ![Access.reg] = session]
    /\ UNCHANGED <<regs, alt, held, cut, stale>>
    /\ Advance

\* malloc and libusb_init.
AllocateDev ==
    /\ Running
    /\ Access.op \in {"malloc", "libusb_init"}
    /\ Hold(IF Access.op = "malloc" THEN "dev" ELSE "ctx")
    /\ UNCHANGED <<device, cut, stale>>
    /\ Advance

\* Nothing to open without a context.
OpenHandle ==
    /\ Running
    /\ Access.op = "libusb_open"
    /\ "ctx" \in held[session]
    /\ Hold("handle")
    /\ UNCHANGED <<device, cut, stale>>
    /\ Advance

Claimed == \E s \in Sessions : "claim" \in held[s]

ClaimInterface ==
    /\ Running
    /\ Access.op = "libusb_claim"
    /\ ~Claimed
    /\ Hold("claim")
    /\ UNCHANGED <<device, cut, stale>>
    /\ Advance

SetAltSetting ==
    /\ Running
    /\ Access.op = "alt_setting"
    /\ alt' = 1
    /\ UNCHANGED <<regs, images, held, cut, stale>>
    /\ Advance

\* tda18271_attach, which does not look at the results of its transfers: a failure
\* that it does see releases the tuner's structure again.
Attach ==
    /\ Running
    /\ Access.op = "attach"
    /\ Hold("priv")
    /\ MayLeaveAnswer
    /\ UNCHANGED <<device, cut>>
    /\ Advance

\* Needs the tuner's structure; without it, see Dereference.
Tune ==
    /\ Running
    /\ Access.op = "tune"
    /\ "priv" \in held[session]
    /\ MayLeaveAnswer
    /\ UNCHANGED <<device, held, cut>>
    /\ Advance

-----------------------------------------------------------------------------
\* What a failed access leaves: a write may have reached the device, an upload
\* that breaks off leaves no whole image, a read may have been asked for.
FailedEffect ==
    /\ MayLeaveAnswer
    /\ \/ UNCHANGED device
       \/ Access.op = "modify" /\ Modifies(Access) /\ UNCHANGED <<images, alt>>
       \/ /\ Access.op = "load"
          /\ images' = [images EXCEPT ![Access.reg] = 0] /\ UNCHANGED <<regs, alt>>
       \/ Access.op = "alt_setting" /\ alt' = 1 /\ UNCHANGED <<regs, images>>

Leave(how) ==
    /\ stage' = 0
    /\ next' = 1
    /\ ended' = [ended EXCEPT ![session] = how]
    /\ UNCHANGED <<session, cut>>

\* goto err: libusb_exit if there is a context, free(dev); the handle, the
\* claim and the tuner's structure stay.
FailErr ==
    /\ Running
    /\ Stages[stage].fail = "err"
    /\ FailedEffect
    /\ held' = [held EXCEPT ![session] = @ \ {"ctx", "dev"}]
    /\ Leave("err")

\* return -ENOMEM, or return -1 between the two uploads: nothing is freed.
FailReturn ==
    /\ Running
    /\ Stages[stage].fail \in {"enomem", "return"}
    /\ FailedEffect
    /\ held' = held
    /\ Leave(Stages[stage].fail)

\* The results of libusb_init and tda18271_attach are not looked at.
FailIgnored ==
    /\ Running
    /\ Stages[stage].fail = "ignore"
    /\ MayLeaveAnswer
    /\ UNCHANGED <<device, held, cut>>
    /\ Advance

\* A chain that is evaluated for its effects only stops, and tvwsdr_open goes on.
FailSkip ==
    /\ Running
    /\ Stages[stage].fail = "skip"
    /\ FailedEffect
    /\ cut' = cut \cup {Name[stage]}
    /\ stage' = IF stage < Len(Stages) THEN stage + 1 ELSE 0
    /\ next' = 1
    /\ ended' = IF stage' = 0 THEN [ended EXCEPT ![session] = "opened"] ELSE ended
    /\ UNCHANGED <<session, held>>

-----------------------------------------------------------------------------
\* The end of the process, at any point: the kernel takes back everything.
Exit ==
    /\ held' = [s \in Sessions |-> {}]
    /\ alt' = 0
    /\ stage' = 0
    /\ next' = 1
    /\ ended' = [ended EXCEPT ![session] = IF @ \in {"no", "opened"} THEN "killed" ELSE @]
    /\ MayLeaveAnswer
    /\ UNCHANGED <<regs, images, session, cut>>

Kill == session # 0 /\ Exit

\* fe.tuner_priv is NULL after a failed tda18271_attach, and is used.
Dereference ==
    /\ Running
    /\ Access.op = "tune"
    /\ "priv" \notin held[session]
    /\ Exit

\* Mutant of Released: the interface is not released and the handle not closed.
ReleasedLate == {"dev", "ctx"}

\* libusb_release_interface, libusb_close, libusb_exit, free; not the tuner's structure.
Released == {"claim", "handle", "ctx", "dev"}

\* tvwsdr_close, with what tvwsdr_open stored.
Close ==
    /\ ~Running
    /\ session # 0 /\ ended[session] = "opened"
    /\ held' = [held EXCEPT ![session] = @ \ Released]
    /\ alt' = 0
    /\ ended' = [ended EXCEPT ![session] = "closed"]
    /\ UNCHANGED <<regs, images, stage, next, session, cut, stale>>

\* main of tvw_fm calls tvwsdr_close after a failed tvwsdr_open, with a pointer that
\* was never stored to.  When it is NULL by chance, tvwsdr_close returns -1 and
\* nothing has changed; with anything else the process ends.
CloseAfterFailure ==
    /\ ~Running
    /\ session # 0 /\ ended[session] \in {"enomem", "err", "return"}
    /\ Exit

Next ==
    \/ Open
    \/ Modify \/ HasBits \/ OtherAccess \/ LoadFw
    \/ AllocateDev \/ OpenHandle \/ ClaimInterface \/ SetAltSetting \/ Attach \/ Tune
    \/ FailErr \/ FailReturn \/ FailIgnored \/ FailSkip
    \/ Kill \/ Dereference
    \/ Close \/ CloseAfterFailure

Spec == Init /\ [][Next]_vars

-----------------------------------------------------------------------------
\* Type invariant: control is at an access of tvwsdr_open or outside of it, and
\* every register holds bits of its own.
TypeOK ==
    /\ DOMAIN regs = Regs /\ \A r \in Regs : regs[r] \subseteq Bits[r]
    /\ images \in [Images -> 0..MaxSessions]
    /\ alt \in {0, 1}
    /\ stage \in 0..Len(Stages)
    /\ IF Running THEN next \in 1..Len(Stages[stage].steps) ELSE next = 1
    /\ session \in 0..MaxSessions
    /\ ended \in [Sessions -> Ends]
    /\ held \in [Sessions -> SUBSET Resources]
    /\ cut \subseteq {"video", "audio"}
    /\ stale \in BOOLEAN

\* A tvwsdr_open that returned 0 leaves a device that can stream, whatever state
\* it was in before and wherever an earlier session was cut off: both firmwares
\* are of this session, the 8051 runs with its upload window closed, the firmware
\* was told to stream and to decode, the alternate setting with the isochronous
\* endpoint is chosen, and there is a tuner.  The chains whose results nobody looks
\* at are the only way to return 0 with the video stream manager in reset or the
\* audio window's command pending.  The two registers whose bits are switched one by
\* one are as they should be, nothing held in reset and the stream switched on, when
\* no read was given up that left an answer: after one, open may return 0 without.
OpenIsReady ==
    session # 0 /\ ended[session] = "opened" =>
        /\ \A f \in Images : images[f] = session
        /\ regs["uc_f089"] = {} /\ regs["uc_f02a"] = {}
        /\ regs["FIRMWARE"] = {"isoch", "adec"}
        /\ alt = 1
        /\ Resources \subseteq held[session]
        /\ regs["SMGR_SOFT_RESETS"] # {} => "video" \in cut
        /\ regs["FEAW_COMMAND"] # {} => "audio" \in cut
        /\ ~stale => regs["RESET_CONTROL"] = {} /\ regs["USC_CTL"] = {512}

\* tvwsdr_open fails on its own handle left from before only after a call that
\* failed in the same process: no interface stays claimed over tvwsdr_close or
\* the end of a process.
BusyOnlyAfterFailure ==
    \A s \in Sessions :
        "claim" \in held[s] /\ s # session => ended[s] \in {"err", "return"}

\* Firmware goes to a processor that is ready for it: T507 while the 8051 is held,
\* its upload window is open and the first firmware is of this session, whatever the
\* reads brought; CTRLT507 after tvw_init_tvw_1 has released every reset, when no
\* answer of an abandoned read was taken for the value of the resets.
UploadsPrepared ==
    [][ /\ images'["CTRLT507"] # images["CTRLT507"] =>
              stale \/ regs["RESET_CONTROL"] = {}
        /\ images'["T507"] # images["T507"] =>
              /\ 128 \in regs["uc_f089"] /\ 64 \in regs["uc_f02a"]
              /\ images["CTRLT507"] = session ]_vars

=============================================================================
