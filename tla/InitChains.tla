------------------------------ MODULE InitChains ------------------------------
(***************************************************************************)
(* The initialisation functions of libtvwsdr.c.  Each is one && chain of   *)
(* register accesses that stops at the first access that fails, and is     *)
(* given here as the sequence of its accesses.                             *)
(*                                                                         *)
(* Kept are the accesses of the registers that hold parts of the device in *)
(* reset, that open the 8051 for an upload, that start the data streams,   *)
(* and the commands to the device's firmware (tvw_e0_magic).  Of these     *)
(* registers the bits that the chains switch are kept, by their value in   *)
(* the source.  A run of accesses of other registers and of service calls  *)
(* is one access, Other: it changes nothing here and may fail.             *)
(***************************************************************************)
EXTENDS Integers, Sequences

\* Reset bits 0x10, 0x80, 0x100, 0x200, 0x800 of TVW_RESET_CONTROL.
AudioReset == {128, 256}
ResetBits == {16, 512, 2048} \cup AudioReset

\* The registers with the bits the chains switch.  FIRMWARE stands for what
\* the commands of tvw_e0_magic switch: 0x0120 "enable ISOCH", 0x0130 "enable
\* ADEC", 0x0151 and 0x0150 "enable" and "disable something".
Bits ==
    [RESET_CONTROL |-> ResetBits,
     SMGR_SOFT_RESETS |-> {47},
     USC_CTL |-> {512, 1024},
     FEAW_COMMAND |-> {50331648},
     uc_f089 |-> {128},
     uc_f02a |-> {64},
     FIRMWARE |-> {"isoch", "adec", "something"}]

Regs == DOMAIN Bits

-----------------------------------------------------------------------------
\* Accesses: op is "modify", "compare", "other", or a step of tvwsdr_open.
Step(op) == [op |-> op, reg |-> "RESET_CONTROL", keep |-> {}, set |-> {}]

Other == Step("other")

\* WR, WU: the register becomes the value.
Write(r, v) == [op |-> "modify", reg |-> r, keep |-> {}, set |-> v]

\* MR, MU with the mask ALL: the old bits stay.
Set(r, v) == [op |-> "modify", reg |-> r, keep |-> Bits[r], set |-> v]

\* MR, MU with the mask of all bits but these, and a value to set.
Replace(r, out, v) == [op |-> "modify", reg |-> r, keep |-> Bits[r] \ out, set |-> v]
Clear(r, out) == Replace(r, out, {})

\* XR with the mask ALL.
Compare(r, v) == [op |-> "compare", reg |-> r, keep |-> {}, set |-> v]

\* tvw_e0_magic.
Enable(what) == Set("FIRMWARE", {what})
Disable(what) == Clear("FIRMWARE", {what})

Pulse(r, bits) == <<Set(r, bits), Clear(r, bits)>>

-----------------------------------------------------------------------------
tvw_init_tvw_1 ==
    <<Other, Write("RESET_CONTROL", {512}), Compare("RESET_CONTROL", {512}),
      Write("USC_CTL", {}), Write("RESET_CONTROL", {}),
      Write("RESET_CONTROL", AudioReset), Set("RESET_CONTROL", {16}), Other,
      Clear("RESET_CONTROL", {16}), Other,
      Clear("RESET_CONTROL", {128}), Other, Set("RESET_CONTROL", {128}),
      Write("RESET_CONTROL", {}), Other>>

\* Mutant of tvw_init_tvw_2: the reset that tvw_init_unknown_1 sets is left.
InitTvw2KeepsReset(stage) ==
    <<Other>> \o (IF stage = 2 THEN <<Disable("something")>> ELSE <<>>) \o <<Other>>

tvw_init_tvw_2(stage) ==
    <<Other, Clear("RESET_CONTROL", {512}), Other>>
        \o (IF stage = 2 THEN <<Disable("something")>> ELSE <<>>) \o <<Other>>

tvw_init_tvw_3 == <<Other>>

tvw_finish_init_tvw == <<Other>>

\* The mailbox (Other after the reset) is the subject of module ServiceCall.
tvw_init_8051 == <<Other, Set("uc_f089", {128}), Other, Write("uc_f02a", {64}), Other>>

\* The boot call, the version checks and the service calls are Other.
tvw_finish_init_8051 ==
    <<Clear("uc_f02a", {64}), Other, Clear("uc_f089", {128}), Other>>

tvw_init56_tvw ==
    <<Other, Enable("something"), Other, Set("USC_CTL", {1024}),
      Replace("USC_CTL", {1024}, {512}), Other>>
        \o Pulse("RESET_CONTROL", AudioReset)
        \o <<Other, Enable("something"), Other>>
        \o Pulse("RESET_CONTROL", AudioReset)
        \o <<Other, Set("RESET_CONTROL", AudioReset), Other, Clear("RESET_CONTROL", {128}), Other>>

tvw_init_adec ==
    <<Other>> \o Pulse("RESET_CONTROL", AudioReset)
        \o <<Other>> \o Pulse("RESET_CONTROL", AudioReset)
        \o <<Other>> \o Pulse("RESET_CONTROL", AudioReset) \o <<Other>>

tvw_init_unknown_1 ==
    <<Enable("adec"), Other, Set("RESET_CONTROL", AudioReset), Other, Enable("something"),
      Set("USC_CTL", {1024}), Set("RESET_CONTROL", {512})>>

tvw_init_unknown_2 ==
    <<Clear("USC_CTL", {1024}), Other, Enable("isoch"), Clear("RESET_CONTROL", {2048}), Other>>

tvw_tune_tvw == <<Other>>

\* The two chains of tvwsdr_open itself whose results nobody looks at.
VideoWindow ==
    <<Other, Write("SMGR_SOFT_RESETS", {47}), Write("SMGR_SOFT_RESETS", {}), Other>>

StartAudio == <<Other, Write("FEAW_COMMAND", {50331648}), Other, Write("FEAW_COMMAND", {})>>

=============================================================================
