-------------------------------- MODULE Tuner --------------------------------
(***************************************************************************)
(* The TDA18271 driver (tda18271-fe.c, tda18271-common.c): tda18271_attach *)
(* and tda18271_tune.  The driver changes a copy of the chip's registers,  *)
(* the shadow, and writes ranges of it over I2C; it reads registers back   *)
(* into the shadow.  Most results are ignored, some end the function they  *)
(* occur in, and the results of two of these functions, the calibration    *)
(* and the correction of the tracking filters, are ignored again.          *)
(*                                                                         *)
(* Of the registers the bits are kept that calibration and power-up switch *)
(* and that tuning must find or put right.  "?" is a value that comes from *)
(* uninitialised memory, "old" what the chip held before the first attach, *)
(* "junk" what a transfer delivers that went wrong.  The frequencies that  *)
(* the scan and the calibration try are left out (RfCalibration): a loop   *)
(* runs any number of times.                                               *)
(*                                                                         *)
(* The I2C functions report a transfer as done that was lost: they do not  *)
(* look at the chip's refusal, and after a read that was given up they may *)
(* send and fetch something else (I2CMaster).                              *)
(*                                                                         *)
(* External: the chip keeps what it takes, and sets its calibration flags  *)
(* as it likes.                                                            *)
(***************************************************************************)
EXTENDS Integers, Sequences

CONSTANTS
    ChipId,        \* "C1" or "C2": the revision of the chip
    MaxTunes,      \* bound: calls of tda18271_tune
    MaxFailures    \* bound: I2C transfers that fail or are lost

ASSUME TunerAssumption ==
    /\ ChipId \in {"C1", "C2"}
    /\ MaxTunes \in Nat /\ MaxFailures \in Nat

\* Registers or their bits, in the order of their numbers: the revision, the
\* thermometer, RF_CAL_OK, standby, AGC1 off, calibration mode, main PLL, charge
\* pump sources, power detector 1, AGC1 loop and gain, PLL locks, AGC2 gain, and
\* the 1.5 MHz low pass filter.
Order == <<"ID", "TM", "EP1", "EP3_sm", "EP3_lt", "EP4", "PLL", "EB4", "EB7", "EB12",
           "EB18_loop", "EB18_gain", "EB20", "EB21", "EB23">>

Fields == {Order[i] : i \in 1..Len(Order)}

VARIABLES
    chip,       \* the registers of the chip
    shadow,     \* priv->tda18271_regs
    id,         \* priv->id, "none" without a tuner
    calibrated, \* priv->cal_initialized
    call,       \* the running call: "attach", "tune", or "none"
    freq,       \* the frequency to tune to: within the maps of tda18271-maps.c or not
    stage,      \* index into Stages of the running call
    next,       \* index of its next step in the stage
    ret,        \* result of the last tda18271_tune
    tunes,      \* number of calls of tda18271_tune
    failures,   \* number of transfers that failed or were lost
    quiet,      \* none has failed since the call began
    badReads,   \* number of extended reads that failed
    lost        \* whether a transfer reported as done was lost: "none" since the tuner was
                \* attached, one "now" in the last call, or only "earlier"

vars == <<chip, shadow, id, calibrated, call, freq, stage, next, ret, tunes, failures, quiet,
          badReads, lost>>

-----------------------------------------------------------------------------
\* Steps: changes of the shadow followed by a write of a range, or a read, whose
\* failure ends the stage if it is checked; tests; loops.
Step(op) == [op |-> op, edit |-> << >>, range |-> {}, checked |-> FALSE, n |-> 0]
Write(edit_, range_) == [Step("write") EXCEPT !.edit = edit_, !.range = range_]
Checked(s) == [s EXCEPT !.checked = TRUE]
Jump(op, n_) == [Step(op) EXCEPT !.n = n_]

EP3 == {"EP3_sm", "EP3_lt"}
EB18 == {"EB18_loop", "EB18_gain"}

tda18271_set_standby_mode(sm) ==
    <<Checked(Write([EP3_sm |-> sm, EP3_lt |-> "off"], EP3))>>

tda18271_charge_pump_source(pll, force) == <<Write([f \in {pll} |-> force], {pll})>>

\* The values of tda18271_init_regs.
InitValues ==
    [ID |-> "real", TM |-> "off", EP1 |-> "no", EP3_sm |-> "off", EP3_lt |-> "off",
     EP4 |-> "normal", PLL |-> "init", EB4 |-> "off", EB7 |-> "off",
     EB12 |-> (IF id = "C2" THEN "down" ELSE "up"),
     EB18_loop |-> (IF id = "C2" THEN "off" ELSE "on"), EB18_gain |-> "6dB",
     EB20 |-> "on", EB21 |-> "-6dB", EB23 |-> "off"]

\* A band of the image rejection calibration.
ImageBand == <<Write([PLL |-> "cal"], EP3 \cup {"EP4", "PLL"}), Write(<< >>, EP3 \cup {"EP4"})>>

\* Mutant of tda18271_init_regs: it forgets one of the registers.
InitRegsForgets ==
    <<Write([f \in Fields \ {"EB23"} |-> InitValues[f]], Fields)>>
    \o ImageBand \o <<Write([EP4 |-> "normal"], {"EP4"})>>

tda18271_init_regs ==
    <<Write(InitValues, Fields)>>
    \o (IF id = "C1" THEN <<Write([EB20 |-> "on"], {"EB20"})>> ELSE << >>)
    \o <<Write([EP3_sm |-> "off", EP3_lt |-> "off", EP4 |-> "ircal", PLL |-> "cal"],
               EP3 \cup {"EP4", "PLL"})>>
    \o (IF id = "C2" THEN tda18271_charge_pump_source("EB4", "on")
                          \o tda18271_charge_pump_source("EB4", "off") ELSE << >>)
    \o ImageBand \o ImageBand \o ImageBand
    \o <<Write([EP4 |-> "normal"], {"EP4"})>>

tda18271_get_id == <<Step("read"), Step("id")>>

tda18271_ir_cal_init == <<Checked(Step("read")), Step("ir_test")>> \o tda18271_init_regs

tda18271_powerscan_init ==
    <<Checked(Write([EP4 |-> "normal"], EP3 \cup {"EP4"})),
      Checked(Write([EB18_gain |-> "6dB"], EB18)),
      Checked(Write([EB21 |-> "-15dB", EB23 |-> "on"], {"EB21", "EB23"}))>>

\* Measures at the first frequency, then at others until the level is reached.
tda18271_powerscan ==
    <<Write([PLL |-> "cal"], {"PLL"}), Write([EP4 |-> "detect"], {"EP4"}),
      Checked(Step("read_extended")),
      Jump("skip", 3), Write([PLL |-> "cal"], {"PLL"}), Checked(Step("read_extended")),
      Jump("back", 2)>>

tda18271_calibrate_rf ==
    <<Write([EP4 |-> "normal"], {"EP4"}),
      Write([EP3_lt |-> "on", EB18_gain |-> "15dB"], EB18)>>
    \o tda18271_charge_pump_source("EB4", "on") \o tda18271_charge_pump_source("EB7", "on")
    \o <<Write([EB20 |-> "off"], {"EB20"}), Write([EP4 |-> "rfcal"], {"EP4"}),
         Write([PLL |-> "cal"], {"PLL"})>>
    \o tda18271_charge_pump_source("EB4", "off") \o tda18271_charge_pump_source("EB7", "off")
    \o <<Write([EB20 |-> "on"], {"EB20"}),
         Write([EP4 |-> "normal", EP3_lt |-> "off", EB18_gain |-> "6dB"], EB18),
         Write(<< >>, EP3 \cup {"EP4"}), Step("read_extended")>>

\* A frequency of a band is scanned, and calibrated if the scan found a level.
tda18271_rf_tracking_filters_init ==
    tda18271_powerscan \o <<Jump("skip", Len(tda18271_calibrate_rf) + 1)>>
    \o tda18271_calibrate_rf

tda18271_read_thermometer ==
    <<Write([TM |-> "on"], {"TM"}), Step("read"),
      Jump("skip", 3), Write(<< >>, {"TM"}), Step("read"),
      Write([TM |-> "off"], {"TM"}), Write([EP4 |-> "normal"], {"EP4"})>>

tda18271_calc_rf_filter_curve ==
    tda18271_powerscan_init \o tda18271_rf_tracking_filters_init
    \o <<Jump("back", Len(tda18271_rf_tracking_filters_init))>> \o tda18271_read_thermometer

tda18271_por ==
    <<Checked(Write([EB12 |-> "up"], {"EB12"})),
      Checked(Write([EB18_loop |-> "on", EB18_gain |-> "6dB"], EB18)),
      Checked(Write([EB21 |-> "-6dB", EP3_sm |-> "on", EP3_lt |-> "off"], EP3)),
      Checked(Write([EB23 |-> "off"], {"EB21", "EB23"}))>>

\* Mutant of tda18271c2_rf_cal_init: the driver believes in a calibration whose
\* tda18271_por has not happened yet.
RfCalInitEarly ==
    <<Step("rf_test")>> \o tda18271_calc_rf_filter_curve \o <<Step("calibrated")>> \o tda18271_por

tda18271c2_rf_cal_init ==
    <<Step("rf_test")>> \o tda18271_calc_rf_filter_curve \o tda18271_por \o <<Step("calibrated")>>

tda18271c2_rf_tracking_filters_correction ==
    tda18271_set_standby_mode("off") \o tda18271_read_thermometer

tda18271c1_rf_tracking_filter_calibration ==
    <<Write([EB4 |-> "on"], {"EB4"}), Write([EB7 |-> "on"], {"EB7"}),
      Write([EB20 |-> "off"], {"EB20"}),
      Checked(Write([EP4 |-> "rfcal", PLL |-> "cal"], EP3 \cup {"EP4", "PLL"})),
      Write([EB4 |-> "off"], {"EB4"}), Write([EB7 |-> "off"], {"EB7"}),
      Write([EB20 |-> "on"], {"EB20"}), Write([EP4 |-> "normal"], {"EP4"})>>

\* A frequency outside the maps leaves the divider as it is.
MainPll == IF freq = "inside" THEN [PLL |-> "tuned"] ELSE << >>

tda18271_channel_configuration ==
    <<Checked(Write([EP4 |-> "normal"], {})), Checked(Write([TM |-> "off"], {})),
      Write(MainPll, {"PLL"}),
      Checked(Write(<< >>, EP3 \cup {"TM", "EP4"}))>>
    \o tda18271_charge_pump_source("EB4", "on") \o tda18271_charge_pump_source("EB4", "off")
    \o (IF id = "C2" THEN <<Checked(Write(<< >>, EP3))>> ELSE << >>)

-----------------------------------------------------------------------------
\* What the failure of a checked step does: the call fails, or goes on with the
\* next stage.
Stage(steps, fail) == [steps |-> steps, fail |-> fail]

Stages ==
    IF call = "attach"
    THEN <<Stage(tda18271_get_id, "fail"), Stage(tda18271_init_regs, "fail")>>
    ELSE <<Stage(tda18271_set_standby_mode("off"), "fail"), Stage(tda18271_ir_cal_init, "fail")>>
         \o (IF id = "C2"
             THEN <<Stage(tda18271c2_rf_cal_init, "go on"),
                    Stage(tda18271c2_rf_tracking_filters_correction, "go on")>>
             ELSE <<Stage(tda18271c1_rf_tracking_filter_calibration, "go on")>>)
         \o <<Stage(tda18271_channel_configuration, "fail")>>

Now == Stages[stage].steps[next]

Init ==
    /\ chip = [f \in Fields |-> IF f = "ID" THEN "real" ELSE "old"]
    /\ shadow = [f \in Fields |-> "?"]
    /\ id = "none"
    /\ calibrated = FALSE
    /\ call = "none"
    /\ freq = "inside"
    /\ stage = 1 /\ next = 1
    /\ ret = "none"
    /\ tunes = 0
    /\ failures = 0 /\ quiet = TRUE
    /\ badReads = 0
    /\ lost = "none"

\* Mutant of AttachCalibrated: the flag is not reset.
AttachCalibratedKept == calibrated

AttachCalibrated == FALSE

\* tda18271_attach: the structure comes from malloc; its id is not looked at before
\* tda18271_get_id has set it.
Attach ==
    /\ call = "none"
    /\ call' = "attach"
    /\ shadow' = [f \in Fields |-> "?"]
    /\ id' = "C2"
    /\ calibrated' = AttachCalibrated
    /\ stage' = 1 /\ next' = 1
    /\ quiet' = TRUE
    /\ ret' = "none"
    /\ lost' = "none"
    /\ UNCHANGED <<chip, freq, tunes, failures, badReads>>

Tune ==
    /\ call = "none"
    /\ id # "none"
    /\ tunes < MaxTunes
    /\ tunes' = tunes + 1
    /\ call' = "tune"
    /\ freq' \in {"inside", "outside"}
    /\ stage' = 1 /\ next' = 1
    /\ quiet' = TRUE
    /\ ret' = "none"
    /\ lost' = (IF lost = "none" THEN "none" ELSE "earlier")
    /\ UNCHANGED <<chip, shadow, id, calibrated, failures, badReads>>

Return(result) ==
    /\ call' = "none"
    /\ stage' = 1 /\ next' = 1
    /\ ret' = IF call = "tune" THEN result ELSE ret

GoTo(i) == next' = i /\ UNCHANGED <<call, stage, ret>>

NextStage ==
    IF stage < Len(Stages)
    THEN stage' = stage + 1 /\ next' = 1 /\ UNCHANGED <<call, ret>>
    ELSE Return("ok")

Advance(n) == IF next + n <= Len(Stages[stage].steps) THEN GoTo(next + n) ELSE NextStage

Others == <<freq, tunes, lost>>

\* The shadow behind the changes of a step.
Edited(edit) == [f \in Fields |-> IF f \in DOMAIN edit THEN edit[f] ELSE shadow[f]]

\* tda18271_write_regs.
WriteRegs ==
    /\ call # "none" /\ Now.op = "write"
    /\ shadow' = Edited(Now.edit)
    /\ chip' = [f \in Fields |-> IF f \in Now.range \ {"ID", "EP1"} THEN shadow'[f] ELSE chip[f]]
    /\ Advance(1)
    /\ UNCHANGED <<id, calibrated, failures, quiet, badReads, Others>>

\* What a read of n registers brings, the calibration flag in EP1 being ok or not;
\* the 16 registers of tda18271_read_regs, and those of tda18271_read_extended
\* that the chip lets be read.
First(n) == {Order[i] : i \in 1..n}
Basic == 7

WriteOnly == {"EB20"}

\* A write-only register does not say what it holds.
Brought(f, flag) == IF f = "EP1" THEN flag ELSE IF f = "EB20" THEN "?" ELSE chip[f]

Reads == call # "none" /\ Now.op \in {"read", "read_extended"}
Count == IF Now.op = "read" THEN Basic ELSE Len(Order)

ReadRegs ==
    /\ Reads
    /\ \E flag \in {"ok", "no"} :
           shadow' = [f \in Fields |-> IF f \in First(Count) \ WriteOnly THEN Brought(f, flag)
                                                                      ELSE shadow[f]]
    /\ Advance(1)
    /\ UNCHANGED <<chip, id, calibrated, failures, quiet, badReads, Others>>

\* tda18271_get_id: whatever is in the shadow.
Identify ==
    /\ call # "none" /\ Now.op = "id"
    /\ id' \in IF shadow["ID"] = "real" THEN {ChipId} ELSE {"C1", "C2", "none"}
    /\ IF id' = "none" THEN Return("error") ELSE Advance(1)
    /\ UNCHANGED <<chip, shadow, calibrated, failures, quiet, badReads, Others>>

\* IR_CAL_OK: set, and there is nothing to initialise.
IrTest ==
    /\ call # "none" /\ Now.op = "ir_test"
    /\ Advance(1) \/ NextStage
    /\ UNCHANGED <<chip, shadow, id, calibrated, failures, quiet, badReads, Others>>

\* RF_CAL_OK: clear, and the calibration is forgotten.
RfTest ==
    /\ call # "none" /\ Now.op = "rf_test"
    /\ calibrated' \in {calibrated /\ shadow["EP1"] = "ok",
                        calibrated /\ shadow["EP1"] \in {"ok", "?", "junk"}}
    /\ IF calibrated' THEN NextStage ELSE Advance(1)
    /\ UNCHANGED <<chip, shadow, id, failures, quiet, badReads, Others>>

Calibrated ==
    /\ call # "none" /\ Now.op = "calibrated"
    /\ calibrated' = TRUE
    /\ Advance(1)
    /\ UNCHANGED <<chip, shadow, id, failures, quiet, badReads, Others>>

\* A condition on measured values, or the end of a loop over them.
Branch ==
    /\ call # "none" /\ Now.op \in {"skip", "back"}
    /\ Advance(1) \/ (Now.op = "skip" /\ Advance(Now.n)) \/ (Now.op = "back" /\ GoTo(next - Now.n))
    /\ UNCHANGED <<chip, shadow, id, calibrated, failures, quiet, badReads, Others>>

-----------------------------------------------------------------------------
Fails ==
    /\ call # "none"
    /\ failures < MaxFailures
    /\ failures' = failures + 1
    /\ quiet' = FALSE
    /\ IF ~Now.checked THEN Advance(1)
       ELSE IF Stages[stage].fail = "fail" THEN Return("error") ELSE NextStage
    /\ UNCHANGED <<id, calibrated, Others>>

\* The write fails before or after the chip has it.
WriteFails ==
    /\ Fails
    /\ Now.op = "write"
    /\ shadow' = Edited(Now.edit)
    /\ \/ chip' = chip
       \/ chip' = [f \in Fields |-> IF f \in Now.range \ {"ID", "EP1"} THEN shadow'[f] ELSE chip[f]]
    /\ UNCHANGED badReads

\* The read fails after some registers.  tda18271_read_regs reads into the shadow,
\* tda18271_read_extended into a local array, which it then copies all the same.
ReadFails ==
    /\ Fails
    /\ Reads
    /\ \E n \in {k \in 0..Count : Order[IF k = 0 THEN 1 ELSE k] \notin WriteOnly},
          flag \in {"ok", "no"} :
           shadow' = [f \in Fields |->
                         IF f \in First(n) \ WriteOnly THEN Brought(f, flag)
                         ELSE IF f \in First(Count) \ WriteOnly /\ Now.op = "read_extended" THEN "?"
                         ELSE shadow[f]]
    /\ badReads' = badReads + (IF Now.op = "read_extended" THEN 1 ELSE 0)
    /\ UNCHANGED chip

-----------------------------------------------------------------------------
\* The transfer went wrong, and nobody notices.
Lost ==
    /\ call # "none"
    /\ failures < MaxFailures
    /\ failures' = failures + 1
    /\ lost' = "now"
    /\ Advance(1)
    /\ UNCHANGED <<id, calibrated, freq, tunes, quiet, badReads>>

\* The chip has refused the write or its remainder, or taken some bytes for others.
WriteLost ==
    /\ Lost
    /\ Now.op = "write"
    /\ shadow' = Edited(Now.edit)
    /\ \E n \in 0..Len(Order), garbled \in BOOLEAN :
           chip' = [f \in Fields |->
                       IF f \in {"ID", "EP1"} THEN chip[f]
                       ELSE IF f \in First(n) \cap Now.range THEN shadow'[f]
                       ELSE IF garbled THEN "junk" ELSE chip[f]]

\* What came is not what the chip holds, from some register on.
ReadLost ==
    /\ Lost
    /\ Reads
    /\ \E n \in 0..Count, flag \in {"ok", "no"} :
           shadow' = [f \in Fields |->
                         IF f \in First(n) \ WriteOnly THEN Brought(f, flag)
                         ELSE IF f \in First(Count) \ WriteOnly THEN "junk"
                         ELSE shadow[f]]
    /\ UNCHANGED chip

Next ==
    \/ Attach \/ Tune
    \/ WriteRegs \/ ReadRegs \/ Identify \/ IrTest \/ RfTest \/ Calibrated \/ Branch
    \/ WriteFails \/ ReadFails
    \/ WriteLost \/ ReadLost

Spec == Init /\ [][Next]_vars

-----------------------------------------------------------------------------
Values == {"?", "junk", "old", "real", "on", "off", "ok", "no", "normal", "detect", "rfcal", "ircal",
           "init", "cal", "tuned", "up", "down", "6dB", "15dB", "-6dB", "-15dB"}

\* Type invariant: control is at a step of the running call, and an attached
\* tuner knows which revision it drives.
TypeOK ==
    /\ chip \in [Fields -> Values] /\ shadow \in [Fields -> Values]
    /\ id \in {"none", "C1", "C2"}
    /\ calibrated \in BOOLEAN /\ (calibrated => id = "C2")
    /\ call \in {"none", "attach", "tune"}
    /\ freq \in {"inside", "outside"}
    /\ stage \in 1..Len(Stages)
    /\ next \in 1..Len(Stages[stage].steps)
    /\ ret \in {"none", "ok", "error"}
    /\ lost \in {"none", "earlier", "now"}

\* A tda18271_tune that returned 0, and of whose transfers none was lost, leaves
\* the chip out of standby, of calibration and of temperature measurement, whatever
\* failed before and during it and was lost before.  If the driver holds the chip
\* for calibrated, its filter, gain and detector are also out of the settings of
\* the calibration, if no transfer was lost since the tuner was attached.  If no
\* transfer of the call failed, the main PLL is programmed (for a frequency within
\* the maps) and its charge pump released.
TuneLeavesNormal ==
    call = "none" /\ ret = "ok" /\ lost # "now" =>
        /\ chip["EP3_sm"] = "off" /\ chip["EP3_lt"] = "off"
        /\ chip["EP4"] = "normal" /\ chip["TM"] = "off"
        /\ calibrated /\ lost = "none" =>
              /\ chip["EB12"] = "up" /\ chip["EB18_loop"] = "on" /\ chip["EB18_gain"] = "6dB"
              /\ chip["EB21"] = "-6dB" /\ chip["EB23"] = "off"
        /\ quiet => /\ chip["EB4"] = "off"
                    /\ freq = "inside" => chip["PLL"] = "tuned"

\* Uninitialised memory reaches the chip only over an extended read that failed
\* and was copied nevertheless: malloc's contents are overwritten before the
\* first write, and the write-only registers are not read.
UnknownNeedsBadRead == badReads = 0 => \A f \in Fields : chip[f] # "?"

=============================================================================
