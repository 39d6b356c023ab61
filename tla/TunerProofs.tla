---------------------------- MODULE TunerProofs ----------------------------
(***************************************************************************)
(* What holds of the TDA18271 driver for both revisions: of its transfers  *)
(* (Tuner), for any number of calls and of failures, and of its arithmetic *)
(* (RfCalibration), for any frequency and whatever the chip answers.       *)
(*                                                                         *)
(* tda18271_tune ignores most results, so what it promises cannot rest on  *)
(* each transfer: the invariant says of every stage what the driver may    *)
(* rely on although transfers failed, and where the next stage takes it    *)
(* over, as long as none that was reported as done is lost.  The stages    *)
(* are sequences of steps; the first part establishes which step is where  *)
(* in them, the second what a write and a read do to the registers, the    *)
(* third goes through the stages.                                          *)
(*                                                                         *)
(* The arithmetic rests on facts about the tables, established entry by    *)
(* entry.  A scan ends within 4 kHz of its point and the points of a band  *)
(* are 60 MHz apart, offsets are differences of bytes: every slope of the  *)
(* driver is 0, and its correction one of the offsets that were measured.  *)
(***************************************************************************)
EXTENDS Tuner, RfCalibration, WellFoundedInduction, TLAPS

-----------------------------------------------------------------------------
\* The invariant.  The driver has the chip out of standby.
Off(r) == r["EP3_sm"] = "off" /\ r["EP3_lt"] = "off"

\* Filter, gain and detector are out of the settings of the calibration.
Released ==
    /\ chip["EB12"] = "up" /\ chip["EB18_loop"] = "on" /\ chip["EB18_gain"] = "6dB"
    /\ chip["EB21"] = "-6dB" /\ chip["EB23"] = "off"

Held == calibrated /\ lost = "none" => Released

\* No register is uninitialised.
Known(r) == \A f \in Fields : r[f] # "?"

\* What a call may rely on between its steps.
CallState ==
    /\ call # "none" => id # "none" /\ ret = "none"
    /\ call = "attach" => ~calibrated

\* The shadow has been filled by tda18271_init_regs.
Filled ==
    \/ call = "none" /\ id # "none"
    \/ call = "tune"
    \/ call = "attach" /\ stage = 2 /\ next > 1

KnownState ==
    /\ badReads \in Nat
    /\ badReads = 0 => Known(chip) /\ (Filled => Known(shadow))

\* tda18271c2_rf_cal_init: behind the test of RF_CAL_OK the chip is not held for
\* calibrated, and k steps of tda18271_por have put it right so far.
PorBegins == Len(tda18271_calc_rf_filter_curve) + 2

Restored ==
    /\ next > PorBegins => chip["EB12"] = "up"
    /\ next > PorBegins + 1 => chip["EB18_loop"] = "on" /\ chip["EB18_gain"] = "6dB"
    /\ next > PorBegins + 2 => shadow["EB21"] = "-6dB"
    /\ next > PorBegins + 3 => chip["EB21"] = "-6dB" /\ chip["EB23"] = "off"

\* tda18271_channel_configuration: what it has set so far.
Configured ==
    /\ Off(shadow)
    /\ next > 1 => shadow["EP4"] = "normal"
    /\ next > 2 => shadow["TM"] = "off"
    /\ next > 3 /\ quiet /\ freq = "inside" => shadow["PLL"] = "tuned" /\ chip["PLL"] = "tuned"
    /\ next > 4 => Off(chip) /\ chip["EP4"] = "normal" /\ chip["TM"] = "off"
    /\ next > 6 /\ quiet => chip["EB4"] = "off"

Last == IF id = "C2" THEN 5 ELSE 4

TuneState ==
    /\ stage \in {1, Last} => Held
    /\ stage = 2 => /\ Off(chip) /\ Off(shadow)
                    /\ IF next <= 3 THEN Held ELSE shadow["EP1"] = "no"
    /\ stage = 3 /\ id = "C1" => Off(chip) /\ Off(shadow)
    /\ stage = 3 /\ id = "C2" =>
          IF next = 1 THEN Held \/ shadow["EP1"] = "no" ELSE ~calibrated /\ Restored
    /\ stage = 4 /\ id = "C2" => Held /\ (next > 1 => Off(chip) /\ Off(shadow))
    /\ stage = Last => Configured

IInv ==
    /\ TypeOK
    /\ CallState
    /\ KnownState
    /\ call = "tune" /\ lost # "now" => TuneState
    /\ call = "none" => Held /\ TuneLeavesNormal

-----------------------------------------------------------------------------
(* Steps, and the sequences of them that the functions of the driver are. *)

Ops == {"write", "read", "read_extended", "id", "ir_test", "rf_test", "calibrated", "skip",
        "back"}

\* The driver never writes an unknown value on purpose.
Edits == UNION {[fs -> Values \ {"?"}] : fs \in SUBSET Fields}

AnyStep == [op : Ops, edit : Edits, range : SUBSET Fields, checked : BOOLEAN, n : Nat]

\* Every loop and every condition stays within its function.
Code == {t \in Seq(AnyStep) :
            \A i \in 1..Len(t) : /\ t[i].op = "skip" => t[i].n \in 1..(Len(t) + 1 - i)
                                 /\ t[i].op = "back" => t[i].n \in 1..(i - 1)}

Plain == {s \in AnyStep : s.op \notin {"skip", "back"}}

LEMMA FieldsAre ==
    Fields = {"ID", "TM", "EP1", "EP3_sm", "EP3_lt", "EP4", "PLL", "EB4", "EB7", "EB12",
              "EB18_loop", "EB18_gain", "EB20", "EB21", "EB23"}
  <1>1. Len(Order) = 15
    BY DEF Order
  <1>2. 1..15 = {1, 2, 3, 4, 5, 6, 7, 8, 9, 10, 11, 12, 13, 14, 15}
    OBVIOUS
  <1> QED
    BY <1>1, <1>2 DEF Fields, Order

LEMMA StepFields ==
    ASSUME NEW op \in Ops
    PROVE  /\ Step(op) \in AnyStep
           /\ Step(op).op = op /\ Step(op).edit = << >> /\ Step(op).range = {}
           /\ Step(op).checked = FALSE
  <1>1. << >> \in Edits
    <2>1. << >> \in [{} -> Values \ {"?"}]
      OBVIOUS
    <2> QED
      BY <2>1 DEF Edits
  <1> QED
    BY <1>1 DEF Step, AnyStep

LEMMA EditType ==
    ASSUME NEW fs \in SUBSET Fields, NEW e \in [fs -> Values \ {"?"}]
    PROVE  e \in Edits
  BY DEF Edits

LEMMA WriteFields ==
    ASSUME NEW e \in Edits, NEW r \in SUBSET Fields
    PROVE  /\ Write(e, r) \in Plain
           /\ Write(e, r).op = "write" /\ Write(e, r).edit = e /\ Write(e, r).range = r
           /\ Write(e, r).checked = FALSE
  BY StepFields DEF Write, AnyStep, Plain, Ops

LEMMA CheckedFields ==
    ASSUME NEW s \in AnyStep
    PROVE  /\ Checked(s) \in AnyStep
           /\ Checked(s).op = s.op /\ Checked(s).edit = s.edit /\ Checked(s).range = s.range
           /\ Checked(s).checked = TRUE /\ Checked(s).n = s.n
  BY DEF Checked, AnyStep

LEMMA JumpFields ==
    ASSUME NEW op \in Ops, NEW k \in Nat
    PROVE  /\ Jump(op, k) \in AnyStep
           /\ Jump(op, k).op = op /\ Jump(op, k).n = k /\ Jump(op, k).edit = << >>
           /\ Jump(op, k).range = {}
  <1>1. /\ Step(op) \in AnyStep /\ Step(op).op = op /\ Step(op).edit = << >>
        /\ Step(op).range = {}
    BY StepFields
  <1> QED
    BY <1>1 DEF Jump, AnyStep

\* Concatenation.
LEMMA Concat ==
    ASSUME NEW S, NEW t \in Seq(S), NEW u \in Seq(S)
    PROVE  /\ t \o u \in Seq(S)
           /\ Len(t \o u) = Len(t) + Len(u)
           /\ \A i \in 1..Len(t) : (t \o u)[i] = t[i]
           /\ \A i \in (Len(t) + 1)..(Len(t) + Len(u)) : (t \o u)[i] = u[i - Len(t)]
  OBVIOUS

LEMMA Snoc ==
    ASSUME NEW S, NEW t \in Seq(S), NEW u \in Seq(S), Len(u) = 1
    PROVE  /\ t \o u \in Seq(S)
           /\ Len(t \o u) = Len(t) + 1 /\ (t \o u)[Len(t) + 1] = u[1]
           /\ \A i \in 1..Len(t) : (t \o u)[i] = t[i]
  <1>1. /\ t \o u \in Seq(S) /\ Len(t \o u) = Len(t) + Len(u)
        /\ \A i \in 1..Len(t) : (t \o u)[i] = t[i]
        /\ \A i \in (Len(t) + 1)..(Len(t) + Len(u)) : (t \o u)[i] = u[i - Len(t)]
    BY Concat
  <1>2. Len(t) \in Nat
    OBVIOUS
  <1>3. (t \o u)[Len(t) + 1] = u[(Len(t) + 1) - Len(t)] /\ (Len(t) + 1) - Len(t) = 1
    BY <1>1, <1>2
  <1> QED
    BY <1>1, <1>3

LEMMA Element ==
    ASSUME NEW S, NEW t \in Seq(S), NEW i \in 1..Len(t)
    PROVE  t[i] \in S
  OBVIOUS

LEMMA PlainCode ==
    ASSUME NEW t \in Seq(Plain)
    PROVE  t \in Code
  <1>1. \A i \in 1..Len(t) : t[i] \in Plain
    OBVIOUS
  <1>2. t \in Seq(AnyStep)
    BY DEF Plain
  <1> QED
    BY <1>1, <1>2 DEF Code, Plain

LEMMA CodeConcat ==
    ASSUME NEW t \in Code, NEW u \in Code
    PROVE  t \o u \in Code
  <1>1. t \in Seq(AnyStep) /\ u \in Seq(AnyStep)
    BY DEF Code
  <1>2. ASSUME NEW i \in 1..Len(t \o u)
        PROVE  /\ (t \o u)[i].op = "skip" => (t \o u)[i].n \in 1..(Len(t \o u) + 1 - i)
               /\ (t \o u)[i].op = "back" => (t \o u)[i].n \in 1..(i - 1)
    <2>1. Len(t) \in Nat /\ Len(u) \in Nat /\ Len(t \o u) = Len(t) + Len(u)
      BY <1>1, Concat
    <2>2. CASE i \in 1..Len(t)
      <3>1. (t \o u)[i] = t[i]
        BY <1>1, <2>2, Concat
      <3> HIDE <1>1
      <3>2. /\ t[i].op = "skip" => t[i].n \in 1..(Len(t) + 1 - i)
            /\ t[i].op = "back" => t[i].n \in 1..(i - 1)
        BY <2>2 DEF Code
      <3> QED
        BY <2>1, <3>1, <3>2
    <2>3. CASE i \in (Len(t) + 1)..(Len(t) + Len(u))
      <3> DEFINE j == i - Len(t)
      <3>1. (t \o u)[i] = u[j]
        BY <1>1, <2>3, Concat
      <3>2. j \in 1..Len(u) /\ i = j + Len(t)
        BY <2>1, <2>3
      <3> HIDE DEF j
      <3>3. /\ u[j].op = "skip" => u[j].n \in 1..(Len(u) + 1 - j)
            /\ u[j].op = "back" => u[j].n \in 1..(j - 1)
        BY <3>2 DEF Code
      <3> QED
        BY <2>1, <3>1, <3>2, <3>3
    <2> QED
      BY <2>1, <2>2, <2>3
  <1> QED
    BY <1>1, <1>2, Concat DEF Code

\* A loop over the functions before it.
LEMMA CodeLoop ==
    ASSUME NEW t \in Code, NEW k \in 1..Len(t)
    PROVE  t \o <<Jump("back", k)>> \in Code
  <1>1. t \in Seq(AnyStep) /\ Len(t) \in Nat
    BY DEF Code
  <1>2. Jump("back", k) \in AnyStep /\ Jump("back", k).op = "back" /\ Jump("back", k).n = k
    BY <1>1, JumpFields DEF Ops
  <1> DEFINE u == <<Jump("back", k)>>
  <1>3. u \in Seq(AnyStep) /\ Len(u) = 1 /\ u[1] = Jump("back", k)
    BY <1>2
  <1> HIDE DEF u
  <1>4. ASSUME NEW i \in 1..Len(t \o u)
        PROVE  /\ (t \o u)[i].op = "skip" => (t \o u)[i].n \in 1..(Len(t \o u) + 1 - i)
               /\ (t \o u)[i].op = "back" => (t \o u)[i].n \in 1..(i - 1)
    <2>1. Len(t \o u) = Len(t) + Len(u)
      BY <1>1, <1>3, Concat
    <2>2. Len(t \o u) = Len(t) + 1
      BY <1>3, <2>1
    <2>3. CASE i \in 1..Len(t)
      <3>1. (t \o u)[i] = t[i]
        BY <1>1, <1>3, <2>3, Concat
      <3>2. /\ t[i].op = "skip" => t[i].n \in 1..(Len(t) + 1 - i)
            /\ t[i].op = "back" => t[i].n \in 1..(i - 1)
        BY <2>3 DEF Code
      <3> QED
        BY <1>1, <2>2, <3>1, <3>2
    <2>4. CASE i = Len(t) + 1
      <3>1. (t \o u)[i] = u[1]
        <4>1. i \in (Len(t) + 1)..(Len(t) + Len(u)) /\ i - Len(t) = 1
          BY <1>1, <1>3, <2>4
        <4> QED
          BY <1>1, <1>3, <4>1, Concat
      <3> QED
        BY <1>1, <1>2, <1>3, <2>4, <3>1
    <2> QED
      BY <1>1, <2>2, <2>3, <2>4
  <1>5. t \o u \in Seq(AnyStep)
    BY <1>1, <1>3, Concat
  <1> QED
    BY <1>4, <1>5 DEF Code, u

-----------------------------------------------------------------------------
(* The functions. *)

\* A step of a calibration: control stays in the function.
CalcStep == {s \in AnyStep : s.op \in {"write", "read", "read_extended", "skip", "back"}}

CalFields == {"EB12", "EB18_loop", "EB18_gain", "EB21", "EB23"}

\* A step that neither touches standby nor what the calibration switches.
ThermStep ==
    {s \in AnyStep : /\ s.op \in {"write", "read", "skip"}
                     /\ s.range \cap CalFields = {}
                     /\ DOMAIN s.edit \cap EP3 = {}}

\* A step of tda18271_init_regs behind the first.
InitStep ==
    {s \in Plain : /\ s.op = "write" /\ ~s.checked
                   /\ "EP1" \notin DOMAIN s.edit
                   /\ \A f \in EP3 \cap DOMAIN s.edit : s.edit[f] = "off"}

\* A write that leaves standby as it is.
ImageStep == {s \in Plain : s.op = "write" /\ DOMAIN s.edit \cap EP3 = {}}

LEMMA EditsAre ==
    /\ [EP3_sm |-> "off", EP3_lt |-> "off"] \in Edits
    /\ [EB21 |-> "-6dB", EP3_sm |-> "on", EP3_lt |-> "off"] \in Edits
    /\ [EP3_sm |-> "off", EP3_lt |-> "off", EP4 |-> "ircal", PLL |-> "cal"] \in Edits
    /\ [EP4 |-> "normal", EP3_lt |-> "off", EB18_gain |-> "6dB"] \in Edits
    /\ [EP3_lt |-> "on", EB18_gain |-> "15dB"] \in Edits
    /\ [EB21 |-> "-15dB", EB23 |-> "on"] \in Edits
    /\ [EB18_loop |-> "on", EB18_gain |-> "6dB"] \in Edits
    /\ [EP4 |-> "rfcal", PLL |-> "cal"] \in Edits
  BY EditType, FieldsAre, SMTT(30) DEF Values

LEMMA EmptyEdit == << >> \in Edits
  <1>1. << >> \in [{} -> Values \ {"?"}]
    OBVIOUS
  <1> QED
    BY <1>1 DEF Edits

LEMMA SingleEdits ==
    /\ [PLL |-> "cal"] \in Edits /\ [PLL |-> "tuned"] \in Edits
    /\ [EP4 |-> "normal"] \in Edits /\ [EP4 |-> "detect"] \in Edits /\ [EP4 |-> "rfcal"] \in Edits
    /\ [EB20 |-> "on"] \in Edits /\ [EB20 |-> "off"] \in Edits
    /\ [EB18_gain |-> "6dB"] \in Edits /\ [TM |-> "on"] \in Edits /\ [TM |-> "off"] \in Edits
    /\ [EB12 |-> "up"] \in Edits /\ [EB23 |-> "off"] \in Edits
    /\ [EB4 |-> "on"] \in Edits /\ [EB4 |-> "off"] \in Edits
    /\ [EB7 |-> "on"] \in Edits /\ [EB7 |-> "off"] \in Edits
  <1> USE EditType, FieldsAre DEF Values
  <1>1. /\ [PLL |-> "cal"] \in Edits /\ [PLL |-> "tuned"] \in Edits
        /\ [EP4 |-> "normal"] \in Edits /\ [EP4 |-> "detect"] \in Edits
        /\ [EP4 |-> "rfcal"] \in Edits
    OBVIOUS
  <1>2. /\ [EB20 |-> "on"] \in Edits /\ [EB20 |-> "off"] \in Edits
        /\ [EB18_gain |-> "6dB"] \in Edits /\ [TM |-> "on"] \in Edits
        /\ [TM |-> "off"] \in Edits
    OBVIOUS
  <1>3. /\ [EB12 |-> "up"] \in Edits /\ [EB23 |-> "off"] \in Edits
        /\ [EB4 |-> "on"] \in Edits /\ [EB4 |-> "off"] \in Edits
        /\ [EB7 |-> "on"] \in Edits /\ [EB7 |-> "off"] \in Edits
    OBVIOUS
  <1> QED
    BY <1>1, <1>2, <1>3

\* The charge pump sources are written by one function; what it changes is a record
\* of one field.
LEMMA ChargePump ==
    ASSUME NEW pll \in Fields, NEW force \in Values \ {"?"}
    PROVE  \E s \in Plain : /\ tda18271_charge_pump_source(pll, force) = <<s>>
                            /\ s.op = "write" /\ ~s.checked /\ s.range = {pll}
                            /\ s.edit = [f \in {pll} |-> force]
  <1> DEFINE e == [f \in {pll} |-> force]
  <1>1. e \in [{pll} -> Values \ {"?"}]
    OBVIOUS
  <1>2. e \in Edits
    BY <1>1 DEF Edits
  <1>3. {pll} \in SUBSET Fields
    OBVIOUS
  <1> HIDE DEF e
  <1>4. /\ Write(e, {pll}) \in Plain
        /\ Write(e, {pll}).op = "write" /\ Write(e, {pll}).edit = e
        /\ Write(e, {pll}).range = {pll} /\ Write(e, {pll}).checked = FALSE
    BY <1>2, <1>3, WriteFields
  <1> QED
    BY <1>4 DEF tda18271_charge_pump_source, e

LEMMA Ranges ==
    /\ EP3 \in SUBSET Fields /\ EB18 \in SUBSET Fields
    /\ EP3 \cup {"EP4"} \in SUBSET Fields /\ EP3 \cup {"EP4", "PLL"} \in SUBSET Fields
    /\ EP3 \cup {"TM", "EP4"} \in SUBSET Fields
    /\ {"EB21", "EB23"} \in SUBSET Fields /\ Fields \in SUBSET Fields /\ {} \in SUBSET Fields
    /\ \A f \in Fields : {f} \in SUBSET Fields
    /\ \A f \in {"TM", "EP4", "PLL", "EB4", "EB7", "EB12", "EB20"} : f \in Fields
  BY FieldsAre DEF EP3, EB18

\* A write, checked or not, as a step of a calibration.
LEMMA CalcWrite ==
    ASSUME NEW e \in Edits, NEW r \in SUBSET Fields
    PROVE  /\ Write(e, r) \in Plain \cap CalcStep
           /\ Checked(Write(e, r)) \in Plain \cap CalcStep
  <1>1. Write(e, r) \in Plain /\ Write(e, r).op = "write"
    BY WriteFields
  <1>2. Checked(Write(e, r)) \in AnyStep /\ Checked(Write(e, r)).op = "write"
    BY <1>1, CheckedFields DEF Plain
  <1> QED
    BY <1>1, <1>2 DEF Plain, CalcStep

LEMMA PowerscanInit ==
    tda18271_powerscan_init \in Code \cap Seq(CalcStep)
  <1> DEFINE s1 == Checked(Write([EP4 |-> "normal"], EP3 \cup {"EP4"}))
             s2 == Checked(Write([EB18_gain |-> "6dB"], EB18))
             s3 == Checked(Write([EB21 |-> "-15dB", EB23 |-> "on"], {"EB21", "EB23"}))
  <1>1. s1 \in Plain \cap CalcStep /\ s2 \in Plain \cap CalcStep /\ s3 \in Plain \cap CalcStep
    BY SingleEdits, EditsAre, Ranges, CalcWrite
  <1>2. tda18271_powerscan_init = <<s1, s2, s3>>
    BY DEF tda18271_powerscan_init
  <1> HIDE DEF s1, s2, s3
  <1>3. <<s1, s2, s3>> \in Seq(Plain) /\ <<s1, s2, s3>> \in Seq(CalcStep)
    BY <1>1
  <1> QED
    BY <1>2, <1>3, PlainCode

\* Functions without jumps are made of plain steps of a calibration.
CalcPlain == Plain \cap CalcStep

LEMMA CalcPlainCode ==
    ASSUME NEW t \in Seq(CalcPlain)
    PROVE  t \in Code \cap Seq(CalcStep)
  <1>1. t \in Seq(Plain) /\ t \in Seq(CalcStep)
    BY DEF CalcPlain
  <1> QED
    BY <1>1, PlainCode

LEMMA CalcRead ==
    /\ Step("read") \in CalcPlain /\ Step("read_extended") \in CalcPlain
    /\ Checked(Step("read")) \in CalcPlain /\ Checked(Step("read_extended")) \in CalcPlain
  <1>1. ASSUME NEW op \in {"read", "read_extended"}
        PROVE  Step(op) \in CalcPlain /\ Checked(Step(op)) \in CalcPlain
    <2>1. Step(op) \in AnyStep /\ Step(op).op = op
      BY StepFields DEF Ops
    <2>2. Checked(Step(op)) \in AnyStep /\ Checked(Step(op)).op = op
      BY <2>1, CheckedFields
    <2> QED
      BY <2>1, <2>2 DEF CalcPlain, Plain, CalcStep
  <1> QED
    BY <1>1

LEMMA CalcPump ==
    ASSUME NEW pll \in {"EB4", "EB7"}, NEW force \in {"on", "off"}
    PROVE  tda18271_charge_pump_source(pll, force) \in Seq(CalcPlain)
  <1>1. pll \in Fields /\ force \in Values \ {"?"}
    BY Ranges DEF Values
  <1>2. PICK s \in Plain : /\ tda18271_charge_pump_source(pll, force) = <<s>>
                           /\ s.op = "write"
    BY <1>1, ChargePump, ZenonT(60)
  <1>3. s \in CalcPlain
    BY <1>2 DEF CalcPlain, CalcStep, Plain
  <1> QED
    BY <1>2, <1>3

LEMMA Powerscan ==
    /\ tda18271_powerscan \in Code \cap Seq(CalcStep)
    /\ Len(tda18271_powerscan) = 7
  <1> DEFINE s1 == Write([PLL |-> "cal"], {"PLL"})
             s2 == Write([EP4 |-> "detect"], {"EP4"})
             s3 == Checked(Step("read_extended"))
             s4 == Jump("skip", 3)
             s7 == Jump("back", 2)
             t == tda18271_powerscan
  <1>1. s1 \in CalcPlain /\ s2 \in CalcPlain
    BY SingleEdits, Ranges, CalcWrite DEF CalcPlain
  <1>2. s3 \in CalcPlain
    BY CalcRead
  <1>3. s4 \in AnyStep /\ s4.op = "skip" /\ s4.n = 3
    BY JumpFields DEF Ops
  <1>4. s7 \in AnyStep /\ s7.op = "back" /\ s7.n = 2
    BY JumpFields DEF Ops
  <1>5. t = <<s1, s2, s3, s4, s1, s3, s7>>
    BY DEF tda18271_powerscan
  <1> HIDE DEF s1, s2, s3, s4, s7, t
  <1>6. s4 \in CalcStep /\ s7 \in CalcStep
    BY <1>3, <1>4 DEF CalcStep
  <1>7. s1 \in CalcStep /\ s2 \in CalcStep /\ s3 \in CalcStep
    BY <1>1, <1>2 DEF CalcPlain
  <1>8. t \in Seq(CalcStep) /\ Len(t) = 7
    BY <1>5, <1>6, <1>7
  <1>9. t \in Seq(AnyStep)
    BY <1>8 DEF CalcStep
  <1>10. ASSUME NEW i \in 1..Len(t)
         PROVE  /\ t[i].op = "skip" => t[i].n \in 1..(Len(t) + 1 - i)
                /\ t[i].op = "back" => t[i].n \in 1..(i - 1)
    <2>1. CASE i \in {1, 2, 3, 5, 6}
      <3>1. t[i] \in {s1, s2, s3}
        BY <1>5, <2>1
      <3> QED
        BY <1>1, <1>2, <3>1 DEF CalcPlain, Plain
    <2>2. CASE i = 4
      BY <1>3, <1>5, <1>8, <2>2
    <2>3. CASE i = 7
      BY <1>4, <1>5, <1>8, <2>3
    <2> QED
      BY <1>8, <2>1, <2>2, <2>3
  <1> QED
    BY <1>8, <1>9, <1>10 DEF Code, t

LEMMA CalibrateRf ==
    /\ tda18271_calibrate_rf \in Code \cap Seq(CalcStep)
    /\ Len(tda18271_calibrate_rf) \in Nat
  <1> DEFINE a == <<Write([EP4 |-> "normal"], {"EP4"}),
                    Write([EP3_lt |-> "on", EB18_gain |-> "15dB"], EB18)>>
             b == <<Write([EB20 |-> "off"], {"EB20"}), Write([EP4 |-> "rfcal"], {"EP4"}),
                    Write([PLL |-> "cal"], {"PLL"})>>
             c == <<Write([EB20 |-> "on"], {"EB20"}),
                    Write([EP4 |-> "normal", EP3_lt |-> "off", EB18_gain |-> "6dB"], EB18),
                    Write(<< >>, EP3 \cup {"EP4"}), Step("read_extended")>>
             on4 == tda18271_charge_pump_source("EB4", "on")
             on7 == tda18271_charge_pump_source("EB7", "on")
             off4 == tda18271_charge_pump_source("EB4", "off")
             off7 == tda18271_charge_pump_source("EB7", "off")
  <1>1. ASSUME NEW e \in Edits, NEW r \in SUBSET Fields
        PROVE  Write(e, r) \in CalcPlain
    BY CalcWrite DEF CalcPlain
  <1>2. a \in Seq(CalcPlain)
    <2>1. /\ Write([EP4 |-> "normal"], {"EP4"}) \in CalcPlain
          /\ Write([EP3_lt |-> "on", EB18_gain |-> "15dB"], EB18) \in CalcPlain
      BY <1>1, SingleEdits, EditsAre, Ranges
    <2> QED
      BY <2>1
  <1>3. b \in Seq(CalcPlain)
    <2>1. /\ Write([EB20 |-> "off"], {"EB20"}) \in CalcPlain
          /\ Write([EP4 |-> "rfcal"], {"EP4"}) \in CalcPlain
          /\ Write([PLL |-> "cal"], {"PLL"}) \in CalcPlain
      BY <1>1, SingleEdits, Ranges
    <2> QED
      BY <2>1
  <1>4. c \in Seq(CalcPlain)
    <2>1. /\ Write([EB20 |-> "on"], {"EB20"}) \in CalcPlain
          /\ Write([EP4 |-> "normal", EP3_lt |-> "off", EB18_gain |-> "6dB"], EB18) \in CalcPlain
          /\ Write(<< >>, EP3 \cup {"EP4"}) \in CalcPlain
      BY <1>1, SingleEdits, EditsAre, EmptyEdit, Ranges
    <2> QED
      BY <2>1, CalcRead
  <1>5. /\ on4 \in Seq(CalcPlain) /\ on7 \in Seq(CalcPlain)
        /\ off4 \in Seq(CalcPlain) /\ off7 \in Seq(CalcPlain)
    BY CalcPump
  <1>6. tda18271_calibrate_rf = a \o on4 \o on7 \o b \o off4 \o off7 \o c
    BY DEF tda18271_calibrate_rf
  <1> HIDE DEF a, b, c, on4, on7, off4, off7
  <1>7. a \o on4 \o on7 \o b \o off4 \o off7 \o c \in Seq(CalcPlain)
    BY <1>2, <1>3, <1>4, <1>5
  <1>8. tda18271_calibrate_rf \in Seq(CalcPlain)
    BY <1>6, <1>7
  <1> QED
    BY <1>8, CalcPlainCode

\* The condition jumps over tda18271_calibrate_rf to the end of the loop's body.
LEMMA TrackingFiltersInit ==
    /\ tda18271_rf_tracking_filters_init \in Code \cap Seq(CalcStep)
    /\ Len(tda18271_rf_tracking_filters_init) \in Nat \ {0}
  <1> DEFINE p == tda18271_powerscan
             c == tda18271_calibrate_rf
             k == Len(c)
  <1>1. p \in Code /\ p \in Seq(CalcStep) /\ Len(p) = 7 /\ p \in Seq(AnyStep)
    BY Powerscan DEF Code
  <1>2. c \in Code /\ c \in Seq(CalcStep) /\ k \in Nat /\ c \in Seq(AnyStep)
    BY CalibrateRf DEF Code
  <1> DEFINE j == Jump("skip", k + 1)
  <1>3. j \in AnyStep /\ j.op = "skip" /\ j.n = k + 1
    <2>1. k + 1 \in Nat /\ "skip" \in Ops
      BY <1>2 DEF Ops
    <2> QED
      BY <2>1, JumpFields
  <1>4. j \in CalcStep
    BY <1>3 DEF CalcStep
  <1>5. tda18271_rf_tracking_filters_init = (p \o <<j>>) \o c
    BY DEF tda18271_rf_tracking_filters_init
  <1> HIDE DEF p, c, j
  <1> DEFINE u == <<j>>
             q == p \o u
             v == q \o c
  <1>6. /\ q \in Seq(CalcStep) /\ q \in Seq(AnyStep) /\ Len(q) = 8 /\ q[8] = j
        /\ \A i \in 1..7 : q[i] = p[i]
    <2>1. u \in Seq(CalcStep) /\ u \in Seq(AnyStep) /\ Len(u) = 1 /\ u[1] = j
      BY <1>3, <1>4
    <2> HIDE DEF u
    <2>2. q \in Seq(CalcStep) /\ Len(q) = Len(p) + Len(u)
      BY <1>1, <2>1, Concat
    <2>3. q \in Seq(AnyStep) /\ \A i \in 1..Len(p) : q[i] = p[i]
      BY <1>1, <2>1, Concat
    <2>4. 8 \in (Len(p) + 1)..(Len(p) + Len(u)) /\ 8 - Len(p) = 1
      BY <1>1, <2>1
    <2>5. q[8] = u[8 - Len(p)]
      BY <1>1, <2>1, <2>4, Concat
    <2>6. q[8] = u[1]
      BY <2>4, <2>5
    <2> QED
      BY <1>1, <2>1, <2>2, <2>3, <2>6
  <1> HIDE DEF q
  <1>7. /\ v \in Seq(CalcStep) /\ v \in Seq(AnyStep) /\ Len(v) = 8 + k
        /\ \A i \in 1..8 : v[i] = q[i]
        /\ \A i \in 9..(8 + k) : v[i] = c[i - 8]
    <2>1. /\ q \in Seq(CalcStep) /\ c \in Seq(CalcStep)
          /\ q \in Seq(AnyStep) /\ c \in Seq(AnyStep)
      BY <1>2, <1>6
    <2>2. v \in Seq(CalcStep) /\ v \in Seq(AnyStep) /\ Len(v) = Len(q) + Len(c)
      BY <2>1, Concat
    <2>3. \A i \in 1..Len(q) : v[i] = q[i]
      BY <2>1, Concat
    <2>4. \A i \in (Len(q) + 1)..(Len(q) + Len(c)) : v[i] = c[i - Len(q)]
      BY <2>1, Concat
    <2> HIDE DEF v
    <2> QED
      BY <1>2, <1>6, <2>2, <2>3, <2>4
  <1>8. v = tda18271_rf_tracking_filters_init
    BY <1>5 DEF q
  <1> HIDE DEF v, k
  <1>9. ASSUME NEW i \in 1..Len(v)
         PROVE  /\ v[i].op = "skip" => v[i].n \in 1..(Len(v) + 1 - i)
                /\ v[i].op = "back" => v[i].n \in 1..(i - 1)
    <2>1. CASE i \in 1..7
      <3>1. v[i] = p[i]
        BY <1>6, <1>7, <2>1
      <3>2. /\ p[i].op = "skip" => p[i].n \in 1..(7 + 1 - i)
            /\ p[i].op = "back" => p[i].n \in 1..(i - 1)
        BY <1>1, <2>1 DEF Code
      <3> QED
        BY <1>2, <1>7, <3>1, <3>2
    <2>2. CASE i = 8
      BY <1>2, <1>3, <1>6, <1>7, <2>2
    <2>3. CASE i \in 9..(8 + k)
      <3> DEFINE h == i - 8
      <3>1. h \in 1..k /\ i = h + 8
        BY <1>2, <2>3
      <3>2. v[i] = c[h]
        BY <1>7, <2>3
      <3> HIDE DEF h
      <3>3. /\ c[h].op = "skip" => c[h].n \in 1..(k + 1 - h)
            /\ c[h].op = "back" => c[h].n \in 1..(h - 1)
        BY <1>2, <3>1 DEF Code, k
      <3> QED
        BY <1>2, <1>7, <3>1, <3>2, <3>3
    <2>4. i \in 1..7 \/ i = 8 \/ i \in 9..(8 + k)
      BY <1>2, <1>7
    <2> QED
      BY <2>1, <2>2, <2>3, <2>4, Zenon
  <1> QED
    BY <1>2, <1>7, <1>8, <1>9 DEF Code

LEMMA ThermWrite ==
    ASSUME NEW e \in Edits, NEW r \in SUBSET Fields,
           r \cap CalFields = {}, DOMAIN e \cap EP3 = {}
    PROVE  Write(e, r) \in Plain \cap ThermStep
  <1>1. /\ Write(e, r) \in Plain /\ Write(e, r).op = "write"
        /\ Write(e, r).edit = e /\ Write(e, r).range = r
    BY WriteFields
  <1> QED
    BY <1>1 DEF Plain, ThermStep

LEMMA Thermometer ==
    /\ tda18271_read_thermometer \in Code \cap Seq(CalcStep)
    /\ tda18271_read_thermometer \in Seq(ThermStep)
    /\ Len(tda18271_read_thermometer) = 7
  <1> DEFINE s1 == Write([TM |-> "on"], {"TM"})
             s2 == Step("read")
             s3 == Jump("skip", 3)
             s4 == Write(<< >>, {"TM"})
             s6 == Write([TM |-> "off"], {"TM"})
             s7 == Write([EP4 |-> "normal"], {"EP4"})
             t == tda18271_read_thermometer
  <1>1. /\ DOMAIN [TM |-> "on"] \cap EP3 = {} /\ DOMAIN [TM |-> "off"] \cap EP3 = {}
        /\ DOMAIN [EP4 |-> "normal"] \cap EP3 = {}
        /\ {"TM"} \cap CalFields = {} /\ {"EP4"} \cap CalFields = {}
    BY DEF EP3, CalFields
  <1>2. DOMAIN << >> \cap EP3 = {}
    OBVIOUS
  <1>3. /\ s1 \in Plain \cap ThermStep /\ s4 \in Plain \cap ThermStep
        /\ s6 \in Plain \cap ThermStep /\ s7 \in Plain \cap ThermStep
    BY <1>2, <1>1, SingleEdits, EmptyEdit, Ranges, ThermWrite
  <1>4. s2 \in Plain \cap ThermStep
    <2>1. s2 \in AnyStep /\ s2.op = "read" /\ s2.range = {} /\ s2.edit = << >>
      BY StepFields DEF Ops
    <2> QED
      BY <1>2, <2>1 DEF Plain, ThermStep
  <1>5. s3 \in AnyStep /\ s3.op = "skip" /\ s3.n = 3 /\ s3.range = {} /\ s3.edit = << >>
    BY JumpFields DEF Ops
  <1>6. s3 \in ThermStep
    BY <1>2, <1>5 DEF ThermStep
  <1>7. t = <<s1, s2, s3, s4, s2, s6, s7>>
    BY DEF tda18271_read_thermometer
  <1> HIDE DEF s1, s2, s3, s4, s6, s7, t
  <1>8. t \in Seq(ThermStep) /\ Len(t) = 7
    BY <1>3, <1>4, <1>6, <1>7
  <1>9. t \in Seq(AnyStep) /\ t \in Seq(CalcStep)
    BY <1>8 DEF ThermStep, CalcStep
  <1>10. ASSUME NEW i \in 1..Len(t)
        PROVE  /\ t[i].op = "skip" => t[i].n \in 1..(Len(t) + 1 - i)
               /\ t[i].op = "back" => t[i].n \in 1..(i - 1)
    <2>1. CASE i \in {1, 2, 4, 5, 6, 7}
      <3>1. t[i] \in {s1, s2, s4, s6, s7}
        BY <1>7, <2>1
      <3> QED
        BY <1>3, <1>4, <3>1 DEF Plain
    <2>2. CASE i = 3
      BY <1>5, <1>7, <1>8, <2>2
    <2> QED
      BY <1>8, <2>1, <2>2
  <1> QED
    BY <1>8, <1>9, <1>10 DEF Code, t

LEMMA CurveJumps ==
    /\ tda18271_calc_rf_filter_curve \in Code \cap Seq(CalcStep)
    /\ Len(tda18271_calc_rf_filter_curve) \in Nat
  <1> DEFINE a == tda18271_powerscan_init
             b == tda18271_rf_tracking_filters_init
             j == Jump("back", Len(b))
             c == tda18271_read_thermometer
             u == <<j>>
  <1>1. a \in Code /\ a \in Seq(CalcStep)
    BY PowerscanInit
  <1>2. b \in Code /\ b \in Seq(CalcStep) /\ Len(b) \in Nat \ {0}
    BY TrackingFiltersInit
  <1>3. c \in Code /\ c \in Seq(CalcStep)
    BY Thermometer
  <1>4. j \in AnyStep /\ j.op = "back"
    BY <1>2, JumpFields DEF Ops
  <1>5. tda18271_calc_rf_filter_curve = ((a \o b) \o u) \o c
    BY DEF tda18271_calc_rf_filter_curve
  <1>6. u \in Seq(CalcStep)
    <2>1. j \in CalcStep
      BY <1>4 DEF CalcStep
    <2> QED
      BY <2>1
  <1> HIDE DEF a, b, c
  <1>7. a \o b \in Code /\ a \o b \in Seq(CalcStep) /\ Len(a \o b) = Len(a) + Len(b)
    BY <1>1, <1>2, CodeConcat, Concat
  <1>8. Len(b) \in 1..Len(a \o b)
    <2>1. Len(a) \in Nat
      BY <1>1
    <2> QED
      BY <1>2, <1>7, <2>1
  <1>9. (a \o b) \o u \in Code
    BY <1>7, <1>8, CodeLoop
  <1> HIDE DEF u, j
  <1>10. ((a \o b) \o u) \o c \in Code
    BY <1>3, <1>9, CodeConcat
  <1>11. ((a \o b) \o u) \o c \in Seq(CalcStep)
    BY <1>3, <1>6, <1>7
  <1> QED
    BY <1>5, <1>10, <1>11

\* The steps of tda18271_por.
Por1 == Checked(Write([EB12 |-> "up"], {"EB12"}))
Por2 == Checked(Write([EB18_loop |-> "on", EB18_gain |-> "6dB"], EB18))
Por3 == Checked(Write([EB21 |-> "-6dB", EP3_sm |-> "on", EP3_lt |-> "off"], EP3))
Por4 == Checked(Write([EB23 |-> "off"], {"EB21", "EB23"}))

LEMMA CheckedWrite ==
    ASSUME NEW e \in Edits, NEW r \in SUBSET Fields
    PROVE  /\ Checked(Write(e, r)) \in Plain
           /\ Checked(Write(e, r)).op = "write" /\ Checked(Write(e, r)).edit = e
           /\ Checked(Write(e, r)).range = r /\ Checked(Write(e, r)).checked = TRUE
  <1>1. /\ Write(e, r) \in Plain /\ Write(e, r).op = "write" /\ Write(e, r).edit = e
        /\ Write(e, r).range = r
    BY WriteFields
  <1> QED
    BY <1>1, CheckedFields DEF Plain

LEMMA Por ==
    /\ tda18271_por = <<Por1, Por2, Por3, Por4>>
    /\ Por1 \in Plain /\ Por2 \in Plain /\ Por3 \in Plain /\ Por4 \in Plain
    /\ Por1.op = "write" /\ Por1.checked
       /\ Por1.edit = [EB12 |-> "up"] /\ Por1.range = {"EB12"}
    /\ Por2.op = "write" /\ Por2.checked
       /\ Por2.edit = [EB18_loop |-> "on", EB18_gain |-> "6dB"] /\ Por2.range = EB18
    /\ Por3.op = "write" /\ Por3.checked
       /\ Por3.edit = [EB21 |-> "-6dB", EP3_sm |-> "on", EP3_lt |-> "off"] /\ Por3.range = EP3
    /\ Por4.op = "write" /\ Por4.checked
       /\ Por4.edit = [EB23 |-> "off"] /\ Por4.range = {"EB21", "EB23"}
  <1>1. tda18271_por = <<Por1, Por2, Por3, Por4>>
    BY DEF tda18271_por, Por1, Por2, Por3, Por4
  <1>2. /\ [EB12 |-> "up"] \in Edits /\ {"EB12"} \in SUBSET Fields
        /\ [EB18_loop |-> "on", EB18_gain |-> "6dB"] \in Edits /\ EB18 \in SUBSET Fields
        /\ [EB21 |-> "-6dB", EP3_sm |-> "on", EP3_lt |-> "off"] \in Edits /\ EP3 \in SUBSET Fields
        /\ [EB23 |-> "off"] \in Edits /\ {"EB21", "EB23"} \in SUBSET Fields
    BY SingleEdits, EditsAre, Ranges
  <1>3. /\ Por1 \in Plain /\ Por1.op = "write" /\ Por1.checked
        /\ Por1.edit = [EB12 |-> "up"] /\ Por1.range = {"EB12"}
    <2> DEFINE e == [EB12 |-> "up"]
               r == {"EB12"}
    <2>1. e \in Edits /\ r \in SUBSET Fields /\ Por1 = Checked(Write(e, r))
      BY <1>2 DEF Por1
    <2> HIDE DEF e, r
    <2>2. /\ Por1 \in Plain /\ Por1.op = "write" /\ Por1.checked = TRUE
          /\ Por1.edit = e /\ Por1.range = r
      BY <2>1, CheckedWrite
    <2> QED
      BY <2>2 DEF e, r
  <1>4. /\ Por2 \in Plain /\ Por2.op = "write" /\ Por2.checked
        /\ Por2.edit = [EB18_loop |-> "on", EB18_gain |-> "6dB"] /\ Por2.range = EB18
    BY <1>2, CheckedWrite, ZenonT(60) DEF Por2
  <1>5. /\ Por3 \in Plain /\ Por3.op = "write" /\ Por3.checked
        /\ Por3.edit = [EB21 |-> "-6dB", EP3_sm |-> "on", EP3_lt |-> "off"] /\ Por3.range = EP3
    BY <1>2, CheckedWrite, ZenonT(60) DEF Por3
  <1>6. /\ Por4 \in Plain /\ Por4.op = "write" /\ Por4.checked
        /\ Por4.edit = [EB23 |-> "off"] /\ Por4.range = {"EB21", "EB23"}
    <2> DEFINE e == [EB23 |-> "off"]
               r == {"EB21", "EB23"}
    <2>1. e \in Edits /\ r \in SUBSET Fields /\ Por4 = Checked(Write(e, r))
      BY <1>2 DEF Por4
    <2> HIDE DEF e, r
    <2>2. /\ Por4 \in Plain /\ Por4.op = "write" /\ Por4.checked = TRUE
          /\ Por4.edit = e /\ Por4.range = r
      BY <2>1, CheckedWrite
    <2> QED
      BY <2>2 DEF e, r
  <1> QED
    BY <1>1, <1>3, <1>4, <1>5, <1>6

\* What tda18271c2_rf_cal_init does at each place: the test, the calibration,
\* tda18271_por, and the flag.
LEMMA RfCalInit ==
    LET t == tda18271c2_rf_cal_init
    IN  /\ PorBegins \in Nat /\ PorBegins >= 2
        /\ t \in Code /\ Len(t) = PorBegins + 4
        /\ t[1] = Step("rf_test")
        /\ \A i \in 2..(PorBegins - 1) :
              t[i] \in CalcStep /\ (t[i].op = "skip" => i + t[i].n <= PorBegins)
        /\ t[PorBegins] = Por1 /\ t[PorBegins + 1] = Por2
        /\ t[PorBegins + 2] = Por3 /\ t[PorBegins + 3] = Por4
        /\ t[PorBegins + 4] = Step("calibrated")
  <1> DEFINE a == <<Step("rf_test")>>
             b == tda18271_calc_rf_filter_curve
             c == tda18271_por
             d == <<Step("calibrated")>>
             k == Len(b)
  <1>1. Step("rf_test") \in Plain /\ Step("calibrated") \in Plain
    BY StepFields DEF Plain, Ops
  <1>2. a \in Seq(Plain) /\ Len(a) = 1 /\ a[1] = Step("rf_test")
    BY <1>1
  <1>3. d \in Seq(Plain) /\ Len(d) = 1 /\ d[1] = Step("calibrated")
    BY <1>1
  <1>4. /\ c \in Seq(Plain) /\ Len(c) = 4
        /\ c[1] = Por1 /\ c[2] = Por2 /\ c[3] = Por3 /\ c[4] = Por4
    <2> HIDE DEF c
    <2>1. c = <<Por1, Por2, Por3, Por4>> /\ Por1 \in Plain /\ Por2 \in Plain /\ Por3 \in Plain
          /\ Por4 \in Plain
      BY Por DEF c
    <2> QED
      BY <2>1
  <1>5. b \in Code /\ b \in Seq(CalcStep) /\ k \in Nat
    BY CurveJumps
  <1>6. a \in Code /\ c \in Code /\ d \in Code
    BY <1>2, <1>3, <1>4, PlainCode
  <1>7. tda18271c2_rf_cal_init = ((a \o b) \o c) \o d
    BY DEF tda18271c2_rf_cal_init
  <1>8. PorBegins = k + 2
    BY DEF PorBegins
  <1> HIDE DEF a, b, c, d
  <1>9. ((a \o b) \o c) \o d \in Code
    BY <1>5, <1>6, CodeConcat
  <1>10. a \in Seq(AnyStep) /\ b \in Seq(AnyStep) /\ c \in Seq(AnyStep) /\ d \in Seq(AnyStep)
    BY <1>5, <1>6 DEF Code
  <1> DEFINE ab == a \o b
             abc == ab \o c
             t == abc \o d
  <1>11. /\ ab \in Seq(AnyStep) /\ Len(ab) = k + 1 /\ ab[1] = Step("rf_test")
         /\ \A i \in 2..(k + 1) : ab[i] = b[i - 1]
    <2>1. ab \in Seq(AnyStep) /\ Len(ab) = Len(a) + Len(b)
      BY <1>10, Concat
    <2>2. /\ \A i \in 1..Len(a) : ab[i] = a[i]
          /\ \A i \in (Len(a) + 1)..(Len(a) + Len(b)) : ab[i] = b[i - Len(a)]
      BY <1>10, Concat
    <2> HIDE DEF ab
    <2> QED
      BY <1>2, <1>5, <2>1, <2>2
  <1> HIDE DEF ab
  <1>12. /\ abc \in Seq(AnyStep) /\ Len(abc) = k + 5
         /\ \A i \in 1..(k + 1) : abc[i] = ab[i]
         /\ \A i \in (k + 2)..(k + 5) : abc[i] = c[i - (k + 1)]
    <2>1. abc \in Seq(AnyStep) /\ Len(abc) = Len(ab) + Len(c)
      BY <1>10, <1>11, Concat
    <2>2. /\ \A i \in 1..Len(ab) : abc[i] = ab[i]
          /\ \A i \in (Len(ab) + 1)..(Len(ab) + Len(c)) : abc[i] = c[i - Len(ab)]
      BY <1>10, <1>11, Concat
    <2> HIDE DEF abc, k
    <2>3. Len(ab) = k + 1 /\ Len(c) = 4 /\ k \in Nat
      BY <1>4, <1>5, <1>11 DEF k
    <2>4. /\ \A i \in 1..(k + 1) : abc[i] = ab[i]
          /\ \A i \in ((k + 1) + 1)..((k + 1) + 4) : abc[i] = c[i - (k + 1)]
      BY <2>2, <2>3
    <2> QED
      BY <2>1, <2>3, <2>4
  <1> HIDE DEF abc
  <1>13. /\ Len(t) = k + 6
         /\ \A i \in 1..(k + 5) : t[i] = abc[i]
         /\ t[k + 6] = d[1]
    <2>1. t \in Seq(AnyStep) /\ Len(t) = Len(abc) + Len(d)
      BY <1>10, <1>12, Concat
    <2>2. /\ \A i \in 1..Len(abc) : t[i] = abc[i]
          /\ \A i \in (Len(abc) + 1)..(Len(abc) + Len(d)) : t[i] = d[i - Len(abc)]
      BY <1>10, <1>12, Concat
    <2> HIDE DEF t
    <2>3. t[k + 6] = d[(k + 6) - Len(abc)] /\ (k + 6) - Len(abc) = 1
      BY <1>3, <1>5, <1>12, <2>1, <2>2
    <2>4. t[k + 6] = d[1]
      BY <2>3
    <2> QED
      BY <1>3, <1>5, <1>12, <2>1, <2>2, <2>4
  <1>14. t = tda18271c2_rf_cal_init /\ t \in Code
    BY <1>7, <1>9 DEF abc, ab
  <1> HIDE DEF t, k
  <1>15. t[1] = Step("rf_test")
    BY <1>5, <1>11, <1>12, <1>13
  <1>16. ASSUME NEW i \in 2..(k + 1)
         PROVE  t[i] \in CalcStep /\ (t[i].op = "skip" => i + t[i].n <= k + 2)
    <2> DEFINE h == i - 1
    <2>1. t[i] = b[h] /\ h \in 1..k /\ i = h + 1
      BY <1>5, <1>11, <1>12, <1>13
    <2> HIDE DEF h
    <2>2. b[h] \in CalcStep
      BY <1>5, <2>1 DEF k
    <2>3. b[h].op = "skip" => b[h].n \in 1..(k + 1 - h)
      BY <1>5, <2>1 DEF k, Code
    <2> QED
      BY <1>5, <2>1, <2>2, <2>3
  <1>17. /\ t[k + 2] = Por1 /\ t[k + 3] = Por2 /\ t[k + 4] = Por3 /\ t[k + 5] = Por4
    <2>1. \A i \in (k + 2)..(k + 5) : t[i] = c[i - (k + 1)]
      BY <1>5, <1>12, <1>13
    <2>2. /\ (k + 2) - (k + 1) = 1 /\ (k + 3) - (k + 1) = 2
          /\ (k + 4) - (k + 1) = 3 /\ (k + 5) - (k + 1) = 4
      BY <1>5
    <2>3. /\ t[k + 2] = c[(k + 2) - (k + 1)] /\ t[k + 3] = c[(k + 3) - (k + 1)]
          /\ t[k + 4] = c[(k + 4) - (k + 1)] /\ t[k + 5] = c[(k + 5) - (k + 1)]
      BY <1>5, <2>1
    <2> QED
      BY <1>4, <2>2, <2>3
  <1>18. /\ PorBegins - 1 = k + 1 /\ PorBegins + 1 = k + 3 /\ PorBegins + 2 = k + 4
         /\ PorBegins + 3 = k + 5 /\ PorBegins + 4 = k + 6
    BY <1>5, <1>8
  <1> QED
    BY <1>3, <1>5, <1>8, <1>13, <1>14, <1>15, <1>16, <1>17, <1>18

\* A sequence of tda18271_init_regs: its first step, and what may follow it.
Led(w) == {t \in Seq(Plain) : /\ Len(t) >= 1 /\ t[1] = w
                              /\ \A i \in 2..Len(t) : t[i] \in InitStep}

LEMMA LedConcat ==
    ASSUME NEW w, NEW t \in Led(w), NEW u \in Seq(InitStep)
    PROVE  t \o u \in Led(w)
  <1>1. t \in Seq(Plain) /\ Len(t) \in Nat /\ Len(t) >= 1 /\ t[1] = w
    BY DEF Led
  <1>2. u \in Seq(Plain) /\ Len(u) \in Nat
    BY DEF InitStep
  <1>3. /\ t \o u \in Seq(Plain) /\ Len(t \o u) = Len(t) + Len(u)
        /\ \A i \in 1..Len(t) : (t \o u)[i] = t[i]
        /\ \A i \in (Len(t) + 1)..(Len(t) + Len(u)) : (t \o u)[i] = u[i - Len(t)]
    BY <1>1, <1>2, Concat
  <1> DEFINE v == t \o u
  <1> HIDE DEF v
  <1>4. ASSUME NEW i \in 2..Len(v)
        PROVE  v[i] \in InitStep
    <2>1. CASE i \in 2..Len(t)
      BY <1>1, <1>3, <2>1 DEF Led, v
    <2>2. CASE i \in (Len(t) + 1)..(Len(t) + Len(u))
      <3>1. v[i] = u[i - Len(t)] /\ i - Len(t) \in 1..Len(u)
        BY <1>1, <1>2, <1>3, <2>2 DEF v
      <3> QED
        BY <3>1
    <2> QED
      BY <1>1, <1>2, <1>3, <2>1, <2>2 DEF v
  <1>5. v \in Seq(Plain) /\ Len(v) >= 1 /\ v[1] = w
    BY <1>1, <1>2, <1>3 DEF v
  <1> QED
    BY <1>4, <1>5 DEF Led, v

LEMMA InitWrite ==
    ASSUME NEW e \in Edits, NEW r \in SUBSET Fields, "EP1" \notin DOMAIN e,
           \A f \in EP3 \cap DOMAIN e : e[f] = "off"
    PROVE  Write(e, r) \in InitStep
  <1>1. /\ Write(e, r) \in Plain /\ Write(e, r).op = "write"
        /\ Write(e, r).edit = e /\ ~Write(e, r).checked
    BY WriteFields, ZenonT(60)
  <1> QED
    BY <1>1 DEF InitStep

LEMMA InitPump ==
    ASSUME NEW force \in {"on", "off"}
    PROVE  tda18271_charge_pump_source("EB4", force) \in Seq(InitStep)
  <1>1. "EB4" \in Fields /\ force \in Values \ {"?"}
    BY Ranges DEF Values
  <1>2. PICK s \in Plain : /\ tda18271_charge_pump_source("EB4", force) = <<s>>
                           /\ s.op = "write" /\ ~s.checked /\ s.range = {"EB4"}
                           /\ s.edit = [f \in {"EB4"} |-> force]
    BY <1>1, ChargePump
  <1>3. s \in InitStep
    BY <1>2 DEF InitStep, EP3
  <1>4. <<s>> \in Seq(InitStep)
    BY <1>3
  <1> QED
    BY <1>2, <1>4

LEMMA InitValuesType ==
    /\ InitValues \in Edits /\ DOMAIN InitValues = Fields
    /\ InitValues["EP1"] = "no"
    /\ InitValues["EP3_sm"] = "off" /\ InitValues["EP3_lt"] = "off"
  <1> DEFINE v == InitValues
  <1>1. DOMAIN v = Fields
    BY FieldsAre DEF InitValues
  <1>2. /\ InitValues["EP1"] = "no"
        /\ InitValues["EP3_sm"] = "off" /\ InitValues["EP3_lt"] = "off"
    BY DEF InitValues
  <1>3. ASSUME NEW f \in Fields
        PROVE  InitValues[f] \in Values \ {"?"}
    <2>1. CASE f \in {"ID", "TM", "EP1", "EP3_sm", "EP3_lt", "EP4", "PLL"}
      BY <2>1 DEF InitValues, Values
    <2>2. CASE f \in {"EB4", "EB7", "EB12", "EB18_loop", "EB18_gain", "EB20", "EB21", "EB23"}
      BY <2>2 DEF InitValues, Values
    <2> QED
      BY <2>1, <2>2, FieldsAre
  <1>4. InitValues = [f \in Fields |-> InitValues[f]]
    BY FieldsAre DEF InitValues
  <1> HIDE DEF v
  <1>5. InitValues \in [Fields -> Values \ {"?"}]
    BY <1>3, <1>4
  <1> QED
    BY <1>1, <1>2, <1>5, EditType DEF v

First1 == Write(InitValues, Fields)

LEMMA InitRegs == tda18271_init_regs \in Led(First1)
  <1> DEFINE w == <<First1>>
             a == IF id = "C1" THEN <<Write([EB20 |-> "on"], {"EB20"})>> ELSE << >>
             b == <<Write([EP3_sm |-> "off", EP3_lt |-> "off", EP4 |-> "ircal", PLL |-> "cal"],
                          EP3 \cup {"EP4", "PLL"})>>
             c == IF id = "C2" THEN tda18271_charge_pump_source("EB4", "on")
                                    \o tda18271_charge_pump_source("EB4", "off") ELSE << >>
             d == <<Write([EP4 |-> "normal"], {"EP4"})>>
  <1>1. w \in Led(First1)
    <2>1. First1 \in Plain
      BY InitValuesType, Ranges, WriteFields DEF First1
    <2> HIDE DEF w
    <2>2. w \in Seq(Plain) /\ Len(w) = 1 /\ w[1] = First1
      BY <2>1 DEF w
    <2>3. \A i \in 2..Len(w) : w[i] \in InitStep
      BY <2>2
    <2>4. w \in Seq(Plain) /\ Len(w) >= 1 /\ w[1] = First1
      BY <2>2
    <2> QED
      BY <2>3, <2>4, Zenon DEF Led
  <1>2. a \in Seq(InitStep)
    <2>1. Write([EB20 |-> "on"], {"EB20"}) \in InitStep
      <3> DEFINE e == [EB20 |-> "on"]
      <3>1. e \in Edits /\ "EP1" \notin DOMAIN e /\ \A f \in EP3 \cap DOMAIN e : e[f] = "off"
        BY SingleEdits DEF EP3
      <3>2. {"EB20"} \in SUBSET Fields
        BY Ranges
      <3> HIDE DEF e
      <3> QED
        BY <3>1, <3>2, InitWrite DEF e
    <2> QED
      BY <2>1
  <1>3. b \in Seq(InitStep)
    <2>1. Write([EP3_sm |-> "off", EP3_lt |-> "off", EP4 |-> "ircal", PLL |-> "cal"],
                EP3 \cup {"EP4", "PLL"}) \in InitStep
      <3> DEFINE e == [EP3_sm |-> "off", EP3_lt |-> "off", EP4 |-> "ircal", PLL |-> "cal"]
      <3>1. e \in Edits /\ "EP1" \notin DOMAIN e /\ \A f \in EP3 \cap DOMAIN e : e[f] = "off"
        BY EditsAre DEF EP3
      <3>2. EP3 \cup {"EP4", "PLL"} \in SUBSET Fields
        BY Ranges
      <3> HIDE DEF e
      <3> QED
        BY <3>1, <3>2, InitWrite DEF e
    <2> QED
      BY <2>1
  <1>4. c \in Seq(InitStep)
    <2>1. /\ tda18271_charge_pump_source("EB4", "on") \in Seq(InitStep)
          /\ tda18271_charge_pump_source("EB4", "off") \in Seq(InitStep)
      BY InitPump
    <2> QED
      BY <2>1
  <1>5. d \in Seq(InitStep)
    <2>1. Write([EP4 |-> "normal"], {"EP4"}) \in InitStep
      <3> DEFINE e == [EP4 |-> "normal"]
      <3>1. e \in Edits /\ "EP1" \notin DOMAIN e /\ \A f \in EP3 \cap DOMAIN e : e[f] = "off"
        BY SingleEdits DEF EP3
      <3>2. {"EP4"} \in SUBSET Fields
        BY Ranges
      <3> HIDE DEF e
      <3> QED
        BY <3>1, <3>2, InitWrite DEF e
    <2> QED
      BY <2>1
  <1>6. ImageBand \in Seq(InitStep)
    <2>1. Write([PLL |-> "cal"], EP3 \cup {"EP4", "PLL"}) \in InitStep
      <3> DEFINE e == [PLL |-> "cal"]
      <3>1. e \in Edits /\ "EP1" \notin DOMAIN e /\ \A f \in EP3 \cap DOMAIN e : e[f] = "off"
        BY SingleEdits DEF EP3
      <3>2. EP3 \cup {"EP4", "PLL"} \in SUBSET Fields
        BY Ranges
      <3> HIDE DEF e
      <3> QED
        BY <3>1, <3>2, InitWrite DEF e
    <2>2. Write(<< >>, EP3 \cup {"EP4"}) \in InitStep
      <3> DEFINE e == << >>
      <3>1. e \in Edits /\ "EP1" \notin DOMAIN e /\ \A f \in EP3 \cap DOMAIN e : e[f] = "off"
        BY EmptyEdit
      <3>2. EP3 \cup {"EP4"} \in SUBSET Fields
        BY Ranges
      <3> HIDE DEF e
      <3> QED
        BY <3>1, <3>2, InitWrite DEF e
    <2> QED
      BY <2>1, <2>2 DEF ImageBand
  <1>7. tda18271_init_regs = w \o a \o b \o c \o ImageBand \o ImageBand \o ImageBand \o d
    BY DEF tda18271_init_regs, First1
  <1> HIDE DEF w, a, b, c, d
  <1>8. w \o a \o b \o c \in Led(First1)
    BY <1>1, <1>2, <1>3, <1>4, LedConcat
  <1>9. w \o a \o b \o c \o ImageBand \o ImageBand \o ImageBand \o d \in Led(First1)
    BY <1>5, <1>6, <1>8, LedConcat
  <1> QED
    BY <1>7, <1>9

LEMMA First1Is ==
    /\ First1 \in Plain /\ First1.op = "write" /\ First1.checked = FALSE
    /\ First1.edit = InitValues /\ First1.range = Fields
  BY InitValuesType, Ranges, WriteFields DEF First1

LEMMA InitRegsIs ==
    LET t == tda18271_init_regs
    IN  /\ t \in Code /\ Len(t) \in Nat \ {0}
        /\ t[1] = First1
        /\ \A i \in 2..Len(t) : t[i] \in InitStep
  <1> DEFINE t == tda18271_init_regs
  <1>1. t \in Led(First1)
    BY InitRegs
  <1> HIDE DEF t
  <1>2. t \in Seq(Plain) /\ Len(t) >= 1 /\ t[1] = First1 /\ \A i \in 2..Len(t) : t[i] \in InitStep
    BY <1>1 DEF Led
  <1> QED
    BY <1>2, PlainCode DEF t

LEMMA IrCalInit ==
    LET t == tda18271_ir_cal_init
    IN  /\ t \in Code /\ Len(t) \in Nat /\ Len(t) >= 3
        /\ t[1] = Checked(Step("read")) /\ t[2] = Step("ir_test") /\ t[3] = First1
        /\ \A i \in 4..Len(t) : t[i] \in InitStep
  <1> DEFINE a == <<Checked(Step("read")), Step("ir_test")>>
             b == tda18271_init_regs
             t == a \o b
  <1>1. Checked(Step("read")) \in Plain /\ Step("ir_test") \in Plain
    <2>1. Step("ir_test") \in AnyStep /\ Step("ir_test").op = "ir_test"
      BY StepFields DEF Ops
    <2> QED
      BY <2>1, CalcRead DEF Plain, CalcPlain
  <1>2. /\ a \in Seq(Plain) /\ Len(a) = 2
        /\ a[1] = Checked(Step("read")) /\ a[2] = Step("ir_test")
    BY <1>1
  <1>3. /\ b \in Code /\ Len(b) \in Nat \ {0} /\ b[1] = First1
        /\ \A i \in 2..Len(b) : b[i] \in InitStep
    BY InitRegsIs
  <1>4. tda18271_ir_cal_init = t
    BY DEF tda18271_ir_cal_init
  <1> HIDE DEF a, b
  <1>5. a \in Code /\ a \in Seq(AnyStep) /\ b \in Seq(AnyStep)
    BY <1>2, <1>3, PlainCode DEF Code
  <1>6. t \in Code /\ Len(t) = Len(a) + Len(b)
    BY <1>3, <1>5, CodeConcat, Concat
  <1>7. /\ \A i \in 1..Len(a) : t[i] = a[i]
        /\ \A i \in (Len(a) + 1)..(Len(a) + Len(b)) : t[i] = b[i - Len(a)]
    BY <1>5, Concat
  <1> HIDE DEF t
  <1>8. /\ \A i \in 1..2 : t[i] = a[i]
        /\ \A i \in 3..(2 + Len(b)) : t[i] = b[i - 2]
    BY <1>2, <1>7
  <1>9. t[3] = b[3 - 2] /\ 3 - 2 = 1
    BY <1>3, <1>8
  <1>10. t[3] = First1
    BY <1>3, <1>9
  <1>11. ASSUME NEW i \in 4..Len(t)
         PROVE  t[i] \in InitStep
    <2>1. i - 2 \in 2..Len(b) /\ t[i] = b[i - 2]
      BY <1>2, <1>3, <1>6, <1>8
    <2> QED
      BY <1>3, <2>1
  <1> QED
    BY <1>2, <1>3, <1>4, <1>6, <1>8, <1>10, <1>11

LEMMA GetId ==
    LET t == tda18271_get_id
    IN  /\ t \in Code /\ Len(t) = 2
        /\ t[1] = Step("read") /\ t[2] = Step("id")
        /\ Step("read").op = "read" /\ Step("id").op = "id"
  <1>1. /\ Step("read") \in Plain /\ Step("id") \in Plain
        /\ Step("read").op = "read" /\ Step("id").op = "id"
    BY StepFields DEF Plain, Ops
  <1> DEFINE t == <<Step("read"), Step("id")>>
  <1>2. t \in Seq(Plain) /\ Len(t) = 2 /\ t[1] = Step("read") /\ t[2] = Step("id")
    BY <1>1
  <1>3. t = tda18271_get_id
    BY DEF tda18271_get_id
  <1> HIDE DEF t
  <1> QED
    BY <1>1, <1>2, <1>3, PlainCode

Standby1 == Checked(Write([EP3_sm |-> "off", EP3_lt |-> "off"], EP3))

LEMMA Standby ==
    LET t == tda18271_set_standby_mode("off")
    IN  /\ t \in Code /\ Len(t) = 1 /\ t[1] = Standby1
        /\ Standby1 \in Plain /\ Standby1.op = "write" /\ Standby1.checked = TRUE
        /\ Standby1.edit = [EP3_sm |-> "off", EP3_lt |-> "off"] /\ Standby1.range = EP3
  <1> DEFINE t == <<Standby1>>
  <1>1. /\ Standby1 \in Plain /\ Standby1.op = "write" /\ Standby1.checked = TRUE
        /\ Standby1.edit = [EP3_sm |-> "off", EP3_lt |-> "off"] /\ Standby1.range = EP3
    <2> DEFINE e == [EP3_sm |-> "off", EP3_lt |-> "off"]
    <2>1. e \in Edits /\ EP3 \in SUBSET Fields /\ Standby1 = Checked(Write(e, EP3))
      BY EditsAre, Ranges DEF Standby1
    <2> HIDE DEF e
    <2>2. /\ Standby1 \in Plain /\ Standby1.op = "write" /\ Standby1.checked = TRUE
          /\ Standby1.edit = e /\ Standby1.range = EP3
      BY <2>1, CheckedWrite
    <2> QED
      BY <2>2 DEF e
  <1>2. t \in Seq(Plain) /\ Len(t) = 1 /\ t[1] = Standby1
    BY <1>1
  <1>3. t = tda18271_set_standby_mode("off")
    BY DEF tda18271_set_standby_mode, Standby1
  <1> HIDE DEF t
  <1> QED
    BY <1>1, <1>2, <1>3, PlainCode

LEMMA Correction ==
    LET t == tda18271c2_rf_tracking_filters_correction
    IN  /\ t \in Code /\ Len(t) = 8 /\ t[1] = Standby1
        /\ \A i \in 2..8 : /\ t[i] \in ThermStep
                           /\ t[i].op = "skip" => t[i].n >= 1
  <1> DEFINE a == tda18271_set_standby_mode("off")
             b == tda18271_read_thermometer
             t == a \o b
  <1>1. a \in Code /\ Len(a) = 1 /\ a[1] = Standby1
    BY Standby
  <1>2. b \in Code /\ b \in Seq(ThermStep) /\ Len(b) = 7
    BY Thermometer
  <1>3. t = tda18271c2_rf_tracking_filters_correction
    BY DEF tda18271c2_rf_tracking_filters_correction
  <1> HIDE DEF a, b
  <1>4. a \in Seq(AnyStep) /\ b \in Seq(AnyStep)
    BY <1>1, <1>2 DEF Code
  <1>5. t \in Code /\ Len(t) = 8
    <2>1. t \in Code
      BY <1>1, <1>2, CodeConcat
    <2>2. Len(t) = Len(a) + Len(b)
      BY <1>4, Concat
    <2> QED
      BY <1>1, <1>2, <2>1, <2>2
  <1>6. /\ \A i \in 1..Len(a) : t[i] = a[i]
        /\ \A i \in (Len(a) + 1)..(Len(a) + Len(b)) : t[i] = b[i - Len(a)]
    BY <1>4, Concat
  <1> HIDE DEF t
  <1>7. t[1] = a[1] /\ \A i \in 2..8 : t[i] = b[i - 1]
    BY <1>1, <1>2, <1>6
  <1>8. ASSUME NEW i \in 2..8
        PROVE  t[i] \in ThermStep
    <2> DEFINE h == i - 1
    <2>1. h \in 1..Len(b) /\ t[i] = b[h]
      BY <1>2, <1>7
    <2> HIDE DEF h
    <2>2. b[h] \in ThermStep
      BY <1>2, <2>1, Element
    <2> QED
      BY <2>1, <2>2
  <1>9. ASSUME NEW i \in 2..8, t[i].op = "skip"
        PROVE  t[i].n >= 1
    <2>1. i \in 1..Len(t)
      BY <1>5
    <2>2. t[i].n \in 1..(Len(t) + 1 - i)
      BY <1>5, <1>9, <2>1 DEF Code
    <2> QED
      BY <2>2
  <1> QED
    BY <1>1, <1>2, <1>3, <1>5, <1>7, <1>8, <1>9

LEMMA ImageWrite ==
    ASSUME NEW e \in Edits, NEW r \in SUBSET Fields, DOMAIN e \cap EP3 = {}
    PROVE  Write(e, r) \in ImageStep /\ Checked(Write(e, r)) \in ImageStep
  <1>1. Write(e, r) \in Plain /\ Write(e, r).op = "write" /\ Write(e, r).edit = e
    BY WriteFields
  <1>2. /\ Checked(Write(e, r)) \in Plain /\ Checked(Write(e, r)).op = "write"
        /\ Checked(Write(e, r)).edit = e
    BY CheckedWrite
  <1> QED
    BY <1>1, <1>2 DEF ImageStep

LEMMA FilterCalibration ==
    LET t == tda18271c1_rf_tracking_filter_calibration
    IN  t \in Code /\ Len(t) = 8 /\ \A i \in 1..8 : t[i] \in ImageStep
  <1> DEFINE s1 == Write([EB4 |-> "on"], {"EB4"})
             s2 == Write([EB7 |-> "on"], {"EB7"})
             s3 == Write([EB20 |-> "off"], {"EB20"})
             s4 == Checked(Write([EP4 |-> "rfcal", PLL |-> "cal"], EP3 \cup {"EP4", "PLL"}))
             s5 == Write([EB4 |-> "off"], {"EB4"})
             s6 == Write([EB7 |-> "off"], {"EB7"})
             s7 == Write([EB20 |-> "on"], {"EB20"})
             s8 == Write([EP4 |-> "normal"], {"EP4"})
             t == <<s1, s2, s3, s4, s5, s6, s7, s8>>
  <1>1. /\ DOMAIN [EB4 |-> "on"] \cap EP3 = {} /\ DOMAIN [EB7 |-> "on"] \cap EP3 = {}
        /\ DOMAIN [EB20 |-> "off"] \cap EP3 = {} /\ DOMAIN [EB4 |-> "off"] \cap EP3 = {}
        /\ DOMAIN [EB7 |-> "off"] \cap EP3 = {} /\ DOMAIN [EB20 |-> "on"] \cap EP3 = {}
        /\ DOMAIN [EP4 |-> "normal"] \cap EP3 = {}
        /\ DOMAIN [EP4 |-> "rfcal", PLL |-> "cal"] \cap EP3 = {}
    BY DEF EP3
  <1>2. s1 \in ImageStep /\ s2 \in ImageStep /\ s3 \in ImageStep
    BY <1>1, SingleEdits, Ranges, ImageWrite
  <1>3. s4 \in ImageStep
    BY <1>1, EditsAre, Ranges, ImageWrite
  <1>4. s5 \in ImageStep /\ s6 \in ImageStep /\ s7 \in ImageStep /\ s8 \in ImageStep
    BY <1>1, SingleEdits, Ranges, ImageWrite
  <1>5. t = tda18271c1_rf_tracking_filter_calibration
    BY DEF tda18271c1_rf_tracking_filter_calibration
  <1> HIDE DEF s1, s2, s3, s4, s5, s6, s7, s8
  <1>6. t \in Seq(ImageStep) /\ Len(t) = 8
    BY <1>2, <1>3, <1>4
  <1> HIDE DEF t
  <1>7. t \in Code
    <2>1. t \in Seq(Plain)
      BY <1>6 DEF ImageStep
    <2> QED
      BY <2>1, PlainCode
  <1>8. \A i \in 1..Len(t) : t[i] \in ImageStep
    BY <1>6, Element
  <1> QED
    BY <1>5, <1>6, <1>7, <1>8

\* The steps of tda18271_channel_configuration.
Channel1 == Checked(Write([EP4 |-> "normal"], {}))
Channel2 == Checked(Write([TM |-> "off"], {}))
Channel3 == Write(MainPll, {"PLL"})
Channel4 == Checked(Write(<< >>, EP3 \cup {"TM", "EP4"}))
Channel7 == Checked(Write(<< >>, EP3))

LEMMA ChannelSteps ==
    /\ Channel1 \in Plain /\ Channel1.op = "write" /\ Channel1.checked = TRUE
       /\ Channel1.edit = [EP4 |-> "normal"] /\ Channel1.range = {}
    /\ Channel2 \in Plain /\ Channel2.op = "write" /\ Channel2.checked = TRUE
       /\ Channel2.edit = [TM |-> "off"] /\ Channel2.range = {}
    /\ Channel3 \in Plain /\ Channel3.op = "write"
       /\ Channel3.edit = MainPll /\ Channel3.range = {"PLL"}
    /\ Channel4 \in Plain /\ Channel4.op = "write" /\ Channel4.checked = TRUE
       /\ Channel4.edit = << >> /\ Channel4.range = EP3 \cup {"TM", "EP4"}
    /\ Channel7 \in Plain /\ Channel7.op = "write" /\ Channel7.checked = TRUE
       /\ Channel7.edit = << >> /\ Channel7.range = EP3
  <1>1. /\ Channel1 \in Plain /\ Channel1.op = "write" /\ Channel1.checked = TRUE
        /\ Channel1.edit = [EP4 |-> "normal"] /\ Channel1.range = {}
    <2> DEFINE e == [EP4 |-> "normal"]
    <2>1. e \in Edits /\ {} \in SUBSET Fields
      BY SingleEdits
    <2> HIDE DEF e
    <2>2. Channel1 = Checked(Write(e, {}))
      BY DEF Channel1, e
    <2>3. /\ Checked(Write(e, {})) \in Plain /\ Checked(Write(e, {})).op = "write"
          /\ Checked(Write(e, {})).checked = TRUE /\ Checked(Write(e, {})).edit = e
          /\ Checked(Write(e, {})).range = {}
      BY <2>1, CheckedWrite, ZenonT(60)
    <2> QED
      BY <2>2, <2>3 DEF e
  <1>2. /\ Channel2 \in Plain /\ Channel2.op = "write" /\ Channel2.checked = TRUE
        /\ Channel2.edit = [TM |-> "off"] /\ Channel2.range = {}
    <2> DEFINE e == [TM |-> "off"]
    <2>1. e \in Edits /\ {} \in SUBSET Fields
      BY SingleEdits
    <2> HIDE DEF e
    <2>2. Channel2 = Checked(Write(e, {}))
      BY DEF Channel2, e
    <2>3. /\ Checked(Write(e, {})) \in Plain /\ Checked(Write(e, {})).op = "write"
          /\ Checked(Write(e, {})).checked = TRUE /\ Checked(Write(e, {})).edit = e
          /\ Checked(Write(e, {})).range = {}
      BY <2>1, CheckedWrite, ZenonT(60)
    <2> QED
      BY <2>2, <2>3 DEF e
  <1>3. /\ Channel3 \in Plain /\ Channel3.op = "write"
        /\ Channel3.edit = MainPll /\ Channel3.range = {"PLL"}
    <2>1. MainPll \in Edits
      BY SingleEdits, EmptyEdit DEF MainPll
    <2>2. {"PLL"} \in SUBSET Fields
      BY Ranges
    <2> DEFINE r == {"PLL"}
    <2>3. r \in SUBSET Fields /\ Channel3 = Write(MainPll, r)
      BY <2>2 DEF Channel3
    <2> HIDE DEF r
    <2>4. /\ Channel3 \in Plain /\ Channel3.op = "write"
          /\ Channel3.edit = MainPll /\ Channel3.range = r
      BY <2>1, <2>3, WriteFields
    <2> QED
      BY <2>4 DEF r
  <1>4. /\ Channel4 \in Plain /\ Channel4.op = "write" /\ Channel4.checked = TRUE
        /\ Channel4.edit = << >> /\ Channel4.range = EP3 \cup {"TM", "EP4"}
    <2> DEFINE e == << >>
               r == EP3 \cup {"TM", "EP4"}
    <2>1. e \in Edits /\ r \in SUBSET Fields /\ Channel4 = Checked(Write(e, r))
      BY EmptyEdit, Ranges DEF Channel4
    <2> HIDE DEF e, r
    <2>2. /\ Channel4 \in Plain /\ Channel4.op = "write" /\ Channel4.checked = TRUE
          /\ Channel4.edit = e /\ Channel4.range = r
      BY <2>1, CheckedWrite
    <2> QED
      BY <2>2 DEF e, r
  <1>5. /\ Channel7 \in Plain /\ Channel7.op = "write" /\ Channel7.checked = TRUE
        /\ Channel7.edit = << >> /\ Channel7.range = EP3
    BY EmptyEdit, Ranges, CheckedWrite DEF Channel7
  <1> QED
    BY <1>1, <1>2, <1>3, <1>4, <1>5

LEMMA Channel ==
    LET t == tda18271_channel_configuration
    IN  /\ t \in Code /\ Len(t) = (IF id = "C2" THEN 7 ELSE 6)
        /\ t[1] = Channel1 /\ t[2] = Channel2 /\ t[3] = Channel3 /\ t[4] = Channel4
        /\ \A i \in {5, 6} :
              /\ t[i] \in Plain /\ t[i].op = "write" /\ t[i].range = {"EB4"}
              /\ t[i].edit = [f \in {"EB4"} |-> IF i = 5 THEN "on" ELSE "off"]
        /\ id = "C2" => t[7] = Channel7
  <1> DEFINE a == <<Channel1, Channel2, Channel3, Channel4>>
             t == tda18271_channel_configuration
  <1>1. /\ Channel1 \in Plain /\ Channel2 \in Plain /\ Channel3 \in Plain /\ Channel4 \in Plain
        /\ Channel7 \in Plain
    BY ChannelSteps
  <1>2. "EB4" \in Fields /\ "on" \in Values \ {"?"} /\ "off" \in Values \ {"?"}
    BY Ranges DEF Values
  <1>3. PICK s5 \in Plain : /\ tda18271_charge_pump_source("EB4", "on") = <<s5>>
                            /\ s5.op = "write" /\ ~s5.checked /\ s5.range = {"EB4"}
                            /\ s5.edit = [f \in {"EB4"} |-> "on"]
    BY <1>2, ChargePump
  <1>4. PICK s6 \in Plain : /\ tda18271_charge_pump_source("EB4", "off") = <<s6>>
                            /\ s6.op = "write" /\ ~s6.checked /\ s6.range = {"EB4"}
                            /\ s6.edit = [f \in {"EB4"} |-> "off"]
    BY <1>2, ChargePump
  <1>5. t = ((a \o <<s5>>) \o <<s6>>) \o (IF id = "C2" THEN <<Channel7>> ELSE << >>)
    BY <1>3, <1>4 DEF tda18271_channel_configuration, Channel1, Channel2, Channel3, Channel4,
                      Channel7
  <1> DEFINE u == (a \o <<s5>>) \o <<s6>>
  <1>6. /\ u \in Seq(Plain) /\ Len(u) = 6
        /\ u[1] = Channel1 /\ u[2] = Channel2 /\ u[3] = Channel3 /\ u[4] = Channel4
        /\ u[5] = s5 /\ u[6] = s6
    <2>1. /\ a \in Seq(Plain) /\ Len(a) = 4
          /\ a[1] = Channel1 /\ a[2] = Channel2 /\ a[3] = Channel3 /\ a[4] = Channel4
      BY <1>1
    <2> HIDE DEF a
    <2> DEFINE x5 == <<s5>>
               x6 == <<s6>>
               v == a \o x5
    <2>2. /\ x5 \in Seq(Plain) /\ Len(x5) = 1 /\ x5[1] = s5
          /\ x6 \in Seq(Plain) /\ Len(x6) = 1 /\ x6[1] = s6
      OBVIOUS
    <2>3. u = v \o x6
      OBVIOUS
    <2> HIDE DEF x5, x6, u
    <2>4. /\ v \in Seq(Plain) /\ Len(v) = Len(a) + 1 /\ v[Len(a) + 1] = x5[1]
          /\ \A i \in 1..Len(a) : v[i] = a[i]
      <3>1. a \in Seq(Plain) /\ x5 \in Seq(Plain) /\ Len(x5) = 1
        BY <2>1, <2>2
      <3> QED
        BY <3>1, Snoc
    <2>5. /\ v \in Seq(Plain) /\ Len(v) = 5 /\ v[5] = s5
          /\ \A i \in 1..4 : v[i] = a[i]
      BY <2>1, <2>2, <2>4
    <2> HIDE DEF v
    <2>6. /\ u \in Seq(Plain) /\ Len(u) = Len(v) + 1 /\ u[Len(v) + 1] = x6[1]
          /\ \A i \in 1..Len(v) : u[i] = v[i]
      <3>1. v \in Seq(Plain) /\ x6 \in Seq(Plain) /\ Len(x6) = 1
        BY <2>5, <2>2
      <3> QED
        BY <2>3, <3>1, Snoc
    <2> QED
      BY <2>1, <2>5, <2>6, <2>2
  <1>7. CASE id = "C2"
    <2> DEFINE x7 == <<Channel7>>
    <2>1. t = u \o x7
      BY <1>5, <1>7
    <2>2. x7 \in Seq(Plain) /\ Len(x7) = 1 /\ x7[1] = Channel7
      BY <1>1
    <2> HIDE DEF t, u, x7
    <2>3. /\ t \in Seq(Plain) /\ Len(t) = Len(u) + 1 /\ t[Len(u) + 1] = x7[1]
          /\ \A i \in 1..Len(u) : t[i] = u[i]
      <3>1. u \in Seq(Plain) /\ x7 \in Seq(Plain) /\ Len(x7) = 1
        BY <1>6, <2>2
      <3> QED
        BY <2>1, <3>1, Snoc
    <2>4. /\ t \in Seq(Plain) /\ Len(t) = 7
          /\ t[1] = Channel1 /\ t[2] = Channel2 /\ t[3] = Channel3 /\ t[4] = Channel4
          /\ t[5] = s5 /\ t[6] = s6 /\ t[7] = Channel7
      BY <1>6, <2>3, <2>2
    <2>5. t \in Code
      BY <2>4, PlainCode
    <2>6. \A i \in {5, 6} :
              /\ t[i] \in Plain /\ t[i].op = "write" /\ t[i].range = {"EB4"}
              /\ t[i].edit = [f \in {"EB4"} |-> IF i = 5 THEN "on" ELSE "off"]
      BY <1>3, <1>4, <2>4
    <2> QED
      BY <1>7, <2>4, <2>5, <2>6 DEF t
  <1>8. CASE id # "C2"
    <2>1. u \o << >> = u
      <3> HIDE DEF u
      <3> QED
        BY <1>6
    <2>2. t = u
      BY <1>5, <1>8, <2>1
    <2> HIDE DEF t, u
    <2>3. /\ t \in Seq(Plain) /\ Len(t) = 6
          /\ t[1] = Channel1 /\ t[2] = Channel2 /\ t[3] = Channel3 /\ t[4] = Channel4
          /\ t[5] = s5 /\ t[6] = s6
      BY <1>6, <2>2
    <2>4. t \in Code
      BY <2>3, PlainCode
    <2>5. \A i \in {5, 6} :
              /\ t[i] \in Plain /\ t[i].op = "write" /\ t[i].range = {"EB4"}
              /\ t[i].edit = [f \in {"EB4"} |-> IF i = 5 THEN "on" ELSE "off"]
      BY <1>3, <1>4, <2>3
    <2> QED
      BY <1>8, <2>3, <2>4, <2>5 DEF t
  <1> QED
    BY <1>7, <1>8

-----------------------------------------------------------------------------
(* Stages. *)

LEMMA AttachStages ==
    call = "attach" =>
        /\ Len(Stages) = 2
        /\ Stages[1] = Stage(tda18271_get_id, "fail")
        /\ Stages[2] = Stage(tda18271_init_regs, "fail")
  BY DEF Stages

LEMMA TuneStages ==
    call # "attach" =>
        /\ Len(Stages) = Last /\ Last \in {4, 5}
        /\ Stages[1] = Stage(tda18271_set_standby_mode("off"), "fail")
        /\ Stages[2] = Stage(tda18271_ir_cal_init, "fail")
        /\ id = "C2" => /\ Stages[3] = Stage(tda18271c2_rf_cal_init, "go on")
                        /\ Stages[4] = Stage(tda18271c2_rf_tracking_filters_correction, "go on")
                        /\ Last = 5
        /\ id # "C2" => /\ Stages[3] = Stage(tda18271c1_rf_tracking_filter_calibration, "go on")
                        /\ Last = 4
        /\ Stages[Last] = Stage(tda18271_channel_configuration, "fail")
  <1> SUFFICES ASSUME call # "attach"
               PROVE  /\ Len(Stages) = Last /\ Last \in {4, 5}
                      /\ Stages[1] = Stage(tda18271_set_standby_mode("off"), "fail")
                      /\ Stages[2] = Stage(tda18271_ir_cal_init, "fail")
                      /\ id = "C2" =>
                            /\ Stages[3] = Stage(tda18271c2_rf_cal_init, "go on")
                            /\ Stages[4] = Stage(tda18271c2_rf_tracking_filters_correction, "go on")
                            /\ Last = 5
                      /\ id # "C2" =>
                            /\ Stages[3] = Stage(tda18271c1_rf_tracking_filter_calibration, "go on")
                            /\ Last = 4
                      /\ Stages[Last] = Stage(tda18271_channel_configuration, "fail")
    OBVIOUS
  <1> DEFINE a == Stage(tda18271_set_standby_mode("off"), "fail")
             b == Stage(tda18271_ir_cal_init, "fail")
             c == Stage(tda18271c2_rf_cal_init, "go on")
             d == Stage(tda18271c2_rf_tracking_filters_correction, "go on")
             e == Stage(tda18271c1_rf_tracking_filter_calibration, "go on")
             f == Stage(tda18271_channel_configuration, "fail")
             S == {a, b, c, d, e, f}
             p == <<a, b>>
             m == IF id = "C2" THEN <<c, d>> ELSE <<e>>
             x == <<f>>
  <1>1. Stages = (p \o m) \o x
    BY DEF Stages
  <1> HIDE DEF a, b, c, d, e, f
  <1>2. /\ p \in Seq(S) /\ Len(p) = 2 /\ p[1] = a /\ p[2] = b
        /\ m \in Seq(S)
        /\ id = "C2" => Len(m) = 2 /\ m[1] = c /\ m[2] = d
        /\ id # "C2" => Len(m) = 1 /\ m[1] = e
    <2>1. /\ a \in S /\ b \in S /\ c \in S /\ d \in S /\ e \in S /\ f \in S
      OBVIOUS
    <2> HIDE DEF S
    <2>2. p \in Seq(S) /\ Len(p) = 2 /\ p[1] = a /\ p[2] = b
      BY <2>1
    <2>3. CASE id = "C2"
      <3>1. m = <<c, d>>
        BY <2>3
      <3>2. m \in Seq(S) /\ Len(m) = 2 /\ m[1] = c /\ m[2] = d
        BY <2>1, <3>1
      <3> QED
        BY <2>2, <2>3, <3>2
    <2>4. CASE id # "C2"
      <3>1. m = <<e>>
        BY <2>4
      <3>2. m \in Seq(S) /\ Len(m) = 1 /\ m[1] = e
        BY <2>1, <3>1
      <3> QED
        BY <2>2, <2>4, <3>2
    <2> QED
      BY <2>3, <2>4
  <1>3. x \in Seq(S) /\ Len(x) = 1 /\ x[1] = f
    OBVIOUS
  <1> HIDE DEF S, p, m, x
  <1> DEFINE q == p \o m
  <1>4. /\ q \in Seq(S) /\ Len(q) = 2 + Len(m)
        /\ \A i \in 1..2 : q[i] = p[i]
        /\ \A i \in 3..(2 + Len(m)) : q[i] = m[i - 2]
    <2>1. q \in Seq(S) /\ Len(q) = Len(p) + Len(m)
      BY <1>2, Concat
    <2>2. /\ \A i \in 1..Len(p) : q[i] = p[i]
          /\ \A i \in (Len(p) + 1)..(Len(p) + Len(m)) : q[i] = m[i - Len(p)]
      BY <1>2, Concat
    <2> HIDE DEF q
    <2> QED
      BY <1>2, <2>1, <2>2
  <1>5. Stages = q \o x
    BY <1>1
  <1> HIDE DEF q
  <1>6. /\ Len(Stages) = Len(q) + 1 /\ Stages[Len(q) + 1] = f
        /\ \A i \in 1..Len(q) : Stages[i] = q[i]
    BY <1>3, <1>4, <1>5, Snoc
  <1>7. CASE id = "C2"
    <2>1. Len(m) = 2 /\ m[1] = c /\ m[2] = d
      BY <1>2, <1>7
    <2>2. Len(q) = 4 /\ q[1] = a /\ q[2] = b
      BY <1>2, <1>4, <2>1
    <2>3. q[3] = m[3 - 2] /\ q[4] = m[4 - 2] /\ 3 - 2 = 1 /\ 4 - 2 = 2
      BY <1>4, <2>1
    <2>4. Len(q) = 4 /\ q[1] = a /\ q[2] = b
      BY <2>2
    <2>5. q[3] = c /\ q[4] = d
      BY <2>1, <2>3
    <2>6. Last = 5
      BY <1>7 DEF Last
    <2>7. /\ Len(Stages) = 5 /\ Stages[5] = f
          /\ Stages[1] = a /\ Stages[2] = b /\ Stages[3] = c /\ Stages[4] = d
      BY <1>6, <2>4, <2>5
    <2> QED
      BY <1>7, <2>6, <2>7 DEF a, b, c, d, f
  <1>8. CASE id # "C2"
    <2>1. Len(m) = 1 /\ m[1] = e
      BY <1>2, <1>8
    <2>2. Len(q) = 3 /\ q[1] = a /\ q[2] = b
      BY <1>2, <1>4, <2>1
    <2>3. q[3] = m[3 - 2] /\ 3 - 2 = 1
      BY <1>4, <2>1
    <2>4. q[3] = e
      BY <2>1, <2>3
    <2>5. Last = 4
      BY <1>8 DEF Last
    <2>6. /\ Len(Stages) = 4 /\ Stages[4] = f
          /\ Stages[1] = a /\ Stages[2] = b /\ Stages[3] = e
      BY <1>6, <2>2, <2>4
    <2> QED
      BY <1>8, <2>5, <2>6 DEF a, b, e, f
  <1> QED
    BY <1>7, <1>8

\* The stages of a call, and what their failure does.
LEMMA AttachAre ==
    call = "attach" =>
        /\ Len(Stages) = 2
        /\ Stages[1].steps = tda18271_get_id /\ Stages[1].fail = "fail"
        /\ Stages[2].steps = tda18271_init_regs /\ Stages[2].fail = "fail"
  <1> DEFINE a == tda18271_get_id
             b == tda18271_init_regs
  <1>1. /\ Stage(a, "fail").steps = a /\ Stage(a, "fail").fail = "fail"
        /\ Stage(b, "fail").steps = b /\ Stage(b, "fail").fail = "fail"
    BY DEF Stage
  <1> QED
    BY <1>1, AttachStages, Zenon

LEMMA TuneAre ==
    call # "attach" =>
        /\ Len(Stages) = Last /\ Last \in {4, 5}
        /\ Stages[1].steps = tda18271_set_standby_mode("off") /\ Stages[1].fail = "fail"
        /\ Stages[2].steps = tda18271_ir_cal_init /\ Stages[2].fail = "fail"
        /\ id = "C2" =>
              /\ Last = 5
              /\ Stages[3].steps = tda18271c2_rf_cal_init /\ Stages[3].fail = "go on"
              /\ Stages[4].steps = tda18271c2_rf_tracking_filters_correction
              /\ Stages[4].fail = "go on"
        /\ id # "C2" =>
              /\ Last = 4
              /\ Stages[3].steps = tda18271c1_rf_tracking_filter_calibration
              /\ Stages[3].fail = "go on"
        /\ Stages[Last].steps = tda18271_channel_configuration /\ Stages[Last].fail = "fail"
  <1> DEFINE a == tda18271_set_standby_mode("off")
             b == tda18271_ir_cal_init
             c == tda18271c2_rf_cal_init
             d == tda18271c2_rf_tracking_filters_correction
             e == tda18271c1_rf_tracking_filter_calibration
             f == tda18271_channel_configuration
  <1>1. /\ Stage(a, "fail").steps = a /\ Stage(a, "fail").fail = "fail"
        /\ Stage(b, "fail").steps = b /\ Stage(b, "fail").fail = "fail"
        /\ Stage(c, "go on").steps = c /\ Stage(c, "go on").fail = "go on"
        /\ Stage(d, "go on").steps = d /\ Stage(d, "go on").fail = "go on"
        /\ Stage(e, "go on").steps = e /\ Stage(e, "go on").fail = "go on"
        /\ Stage(f, "fail").steps = f /\ Stage(f, "fail").fail = "fail"
    BY DEF Stage
  <1> QED
    BY <1>1, TuneStages, Zenon

LEMMA StageCount ==
    Len(Stages) = IF call = "attach" THEN 2 ELSE Last
  BY AttachAre, TuneAre, Zenon

LEMMA StageCountPrime ==
    (Len(Stages) = IF call = "attach" THEN 2 ELSE Last)'
  BY StageCount, PTL

\* The stages of a call are sequences of steps, and none is empty.
LEMMA StageCode ==
    \A i \in 1..Len(Stages) : /\ Stages[i].steps \in Code
                              /\ Len(Stages[i].steps) \in Nat \ {0}
                              /\ Stages[i].fail \in {"fail", "go on"}
  <1> DEFINE Good(i) == /\ Stages[i].steps \in Code
                        /\ Len(Stages[i].steps) \in Nat \ {0}
                        /\ Stages[i].fail \in {"fail", "go on"}
  <1>1. tda18271_get_id \in Code /\ Len(tda18271_get_id) \in Nat \ {0}
    BY GetId
  <1>2. tda18271_init_regs \in Code /\ Len(tda18271_init_regs) \in Nat \ {0}
    BY InitRegsIs
  <1>3. /\ tda18271_set_standby_mode("off") \in Code
        /\ Len(tda18271_set_standby_mode("off")) \in Nat \ {0}
    BY Standby
  <1>4. tda18271_ir_cal_init \in Code /\ Len(tda18271_ir_cal_init) \in Nat \ {0}
    BY IrCalInit
  <1>5. tda18271c2_rf_cal_init \in Code /\ Len(tda18271c2_rf_cal_init) \in Nat \ {0}
    BY RfCalInit
  <1>6. /\ tda18271c2_rf_tracking_filters_correction \in Code
        /\ Len(tda18271c2_rf_tracking_filters_correction) \in Nat \ {0}
    BY Correction
  <1>7. /\ tda18271c1_rf_tracking_filter_calibration \in Code
        /\ Len(tda18271c1_rf_tracking_filter_calibration) \in Nat \ {0}
    BY FilterCalibration
  <1>8. /\ tda18271_channel_configuration \in Code
        /\ Len(tda18271_channel_configuration) \in Nat \ {0}
    BY Channel
  <1>9. CASE call = "attach"
    <2>1. Len(Stages) = 2
      BY <1>9, AttachAre, Zenon
    <2>2. Good(1) /\ Good(2)
      BY <1>1, <1>2, <1>9, AttachAre, Zenon
    <2> HIDE DEF Good
    <2>3. \A i \in 1..Len(Stages) : Good(i)
      BY <2>1, <2>2
    <2> QED
      BY <2>3 DEF Good
  <1>10. CASE call # "attach" /\ id = "C2"
    <2>1. Len(Stages) = 5 /\ Last = 5
      BY <1>10, TuneAre, Zenon
    <2>2. Good(1) /\ Good(2) /\ Good(3) /\ Good(4) /\ Good(Last)
      BY <1>3, <1>4, <1>5, <1>6, <1>8, <1>10, TuneAre, Zenon
    <2> HIDE DEF Good
    <2>3. \A i \in 1..Len(Stages) : Good(i)
      BY <2>1, <2>2
    <2> QED
      BY <2>3 DEF Good
  <1>11. CASE call # "attach" /\ id # "C2"
    <2>1. Len(Stages) = 4 /\ Last = 4
      BY <1>11, TuneAre, Zenon
    <2>2. Good(1) /\ Good(2) /\ Good(3) /\ Good(Last)
      BY <1>3, <1>4, <1>7, <1>8, <1>11, TuneAre, Zenon
    <2> HIDE DEF Good
    <2>3. \A i \in 1..Len(Stages) : Good(i)
      BY <2>1, <2>2
    <2> QED
      BY <2>3 DEF Good
  <1> QED
    BY <1>9, <1>10, <1>11

LEMMA StageCodePrime ==
    (\A i \in 1..Len(Stages) : /\ Stages[i].steps \in Code
                               /\ Len(Stages[i].steps) \in Nat \ {0}
                               /\ Stages[i].fail \in {"fail", "go on"})'
  BY StageCode, PTL

LEMMA SameStages ==
    ASSUME UNCHANGED <<call, id, freq>>
    PROVE  Stages' = Stages
  BY DEF Stages, Stage, tda18271_init_regs, tda18271_ir_cal_init, tda18271_channel_configuration,
         InitValues, MainPll

\* Where the running call is: which steps of which stage, and what its failure does.
Running(t, what) ==
    /\ Stages[stage].steps = t /\ Stages[stage].fail = what
    /\ next \in 1..Len(t) /\ Now = t[next]

LEMMA RunningIs ==
    ASSUME NEW t, NEW what, TypeOK, Stages[stage].steps = t, Stages[stage].fail = what
    PROVE  Running(t, what)
  BY DEF TypeOK, Running, Now

LEMMA AtGetId ==
    TypeOK /\ call = "attach" /\ stage = 1 =>
        /\ Len(Stages) = 2 /\ Len(Stages[stage].steps) = 2 /\ next \in {1, 2}
        /\ Now.op = IF next = 1 THEN "read" ELSE "id"
  <1> SUFFICES ASSUME TypeOK, call = "attach", stage = 1
               PROVE  /\ Len(Stages) = 2 /\ Len(Stages[stage].steps) = 2 /\ next \in {1, 2}
                      /\ Now.op = IF next = 1 THEN "read" ELSE "id"
    OBVIOUS
  <1> DEFINE t == tda18271_get_id
             w == "fail"
  <1>1. Stages[stage].steps = t /\ Stages[stage].fail = w /\ Len(Stages) = 2
    BY AttachAre, Zenon
  <1>2. Len(t) = 2 /\ t[1].op = "read" /\ t[2].op = "id"
    BY GetId
  <1> HIDE DEF t, w
  <1>3. Running(t, w)
    BY <1>1, RunningIs
  <1> QED
    BY <1>1, <1>2, <1>3 DEF Running

LEMMA AtInitRegs ==
    TypeOK /\ call = "attach" /\ stage = 2 =>
        /\ Len(Stages) = 2 /\ Now.op = "write"
        /\ next = 1 => Now = First1
  <1> SUFFICES ASSUME TypeOK, call = "attach", stage = 2
               PROVE  /\ Len(Stages) = 2 /\ Now.op = "write"
                      /\ next = 1 => Now = First1
    OBVIOUS
  <1> DEFINE t == tda18271_init_regs
             w == "fail"
  <1>1. Stages[stage].steps = t /\ Stages[stage].fail = w /\ Len(Stages) = 2
    BY AttachAre, Zenon
  <1>2. /\ Len(t) \in Nat /\ t[1] = First1 /\ First1.op = "write"
        /\ \A i \in 2..Len(t) : t[i].op = "write"
    BY InitRegsIs, First1Is DEF InitStep
  <1> HIDE DEF t, w
  <1>3. Running(t, w)
    BY <1>1, RunningIs
  <1> QED
    BY <1>1, <1>2, <1>3 DEF Running

LEMMA AtStandby ==
    TypeOK /\ call = "tune" /\ stage = 1 =>
        /\ Len(Stages) \in {4, 5} /\ Len(Stages[stage].steps) = 1 /\ next = 1
        /\ Now = Standby1 /\ Stages[stage].fail = "fail"
  <1> SUFFICES ASSUME TypeOK, call = "tune", stage = 1
               PROVE  /\ Len(Stages) \in {4, 5} /\ Len(Stages[stage].steps) = 1 /\ next = 1
                      /\ Now = Standby1 /\ Stages[stage].fail = "fail"
    OBVIOUS
  <1> DEFINE t == tda18271_set_standby_mode("off")
             w == "fail"
  <1>1. call # "attach"
    OBVIOUS
  <1>2. Stages[stage].steps = t /\ Stages[stage].fail = w /\ Len(Stages) = Last /\ Last \in {4, 5}
    BY <1>1, TuneAre, Zenon
  <1>3. Len(t) = 1 /\ t[1] = Standby1
    BY Standby
  <1> HIDE DEF t
  <1>4. Running(t, w)
    BY <1>2, RunningIs
  <1> QED
    BY <1>2, <1>3, <1>4 DEF Running

LEMMA AtIrCalInit ==
    TypeOK /\ call = "tune" /\ stage = 2 =>
        /\ Len(Stages) \in {4, 5} /\ Len(Stages[stage].steps) \in Nat
        /\ Len(Stages[stage].steps) >= 3
        /\ Stages[stage].fail = "fail"
        /\ next = 1 => Now = Checked(Step("read"))
        /\ next = 2 => Now = Step("ir_test")
        /\ next = 3 => Now = First1
        /\ next > 3 => Now \in InitStep
  <1> SUFFICES ASSUME TypeOK, call = "tune", stage = 2
               PROVE  /\ Len(Stages) \in {4, 5} /\ Len(Stages[stage].steps) \in Nat
                      /\ Len(Stages[stage].steps) >= 3
                      /\ Stages[stage].fail = "fail"
                      /\ next = 1 => Now = Checked(Step("read"))
                      /\ next = 2 => Now = Step("ir_test")
                      /\ next = 3 => Now = First1
                      /\ next > 3 => Now \in InitStep
    OBVIOUS
  <1> DEFINE t == tda18271_ir_cal_init
             w == "fail"
             r == Checked(Step("read"))
             i == Step("ir_test")
  <1>1. call # "attach"
    OBVIOUS
  <1>2. Stages[stage].steps = t /\ Stages[stage].fail = w /\ Len(Stages) = Last /\ Last \in {4, 5}
    BY <1>1, TuneAre, Zenon
  <1>3. /\ Len(t) \in Nat /\ Len(t) >= 3 /\ t[1] = r /\ t[2] = i /\ t[3] = First1
        /\ \A k \in 4..Len(t) : t[k] \in InitStep
    BY IrCalInit
  <1> HIDE DEF t, r, i
  <1>4. Running(t, w)
    BY <1>2, RunningIs
  <1>5. /\ next = 1 => Now = r
        /\ next = 2 => Now = i
        /\ next = 3 => Now = First1
        /\ next > 3 => Now \in InitStep
    BY <1>3, <1>4 DEF Running
  <1> QED
    BY <1>2, <1>3, <1>5 DEF r, i

LEMMA AtFilterCalibration ==
    TypeOK /\ call = "tune" /\ stage = 3 /\ id # "C2" =>
        /\ Len(Stages) = 4 /\ Stages[stage].fail = "go on"
        /\ Now \in ImageStep
  <1> SUFFICES ASSUME TypeOK, call = "tune", stage = 3, id # "C2"
               PROVE  /\ Len(Stages) = 4 /\ Stages[stage].fail = "go on"
                      /\ Now \in ImageStep
    OBVIOUS
  <1> DEFINE t == tda18271c1_rf_tracking_filter_calibration
             w == "go on"
  <1>1. call # "attach"
    OBVIOUS
  <1>2. Stages[stage].steps = t /\ Stages[stage].fail = w /\ Len(Stages) = Last /\ Last = 4
    BY <1>1, TuneAre, Zenon
  <1>3. Len(t) = 8 /\ \A i \in 1..8 : t[i] \in ImageStep
    BY FilterCalibration
  <1> HIDE DEF t
  <1>4. Running(t, w)
    BY <1>2, RunningIs
  <1> QED
    BY <1>2, <1>3, <1>4 DEF Running

LEMMA AtRfCalInit ==
    TypeOK /\ call = "tune" /\ stage = 3 /\ id = "C2" =>
        /\ Len(Stages) = 5 /\ Stages[stage].fail = "go on"
        /\ PorBegins \in Nat /\ PorBegins >= 2
        /\ Len(Stages[stage].steps) = PorBegins + 4
        /\ next = 1 => Now = Step("rf_test")
        /\ next > 1 /\ next < PorBegins =>
              Now \in CalcStep /\ (Now.op = "skip" => next + Now.n <= PorBegins)
        /\ next = PorBegins => Now = Por1
        /\ next = PorBegins + 1 => Now = Por2
        /\ next = PorBegins + 2 => Now = Por3
        /\ next = PorBegins + 3 => Now = Por4
        /\ next = PorBegins + 4 => Now = Step("calibrated")
  <1> SUFFICES ASSUME TypeOK, call = "tune", stage = 3, id = "C2"
               PROVE  /\ Len(Stages) = 5 /\ Stages[stage].fail = "go on"
                      /\ PorBegins \in Nat /\ PorBegins >= 2
                      /\ Len(Stages[stage].steps) = PorBegins + 4
                      /\ next = 1 => Now = Step("rf_test")
                      /\ next > 1 /\ next < PorBegins =>
                            Now \in CalcStep /\ (Now.op = "skip" => next + Now.n <= PorBegins)
                      /\ next = PorBegins => Now = Por1
                      /\ next = PorBegins + 1 => Now = Por2
                      /\ next = PorBegins + 2 => Now = Por3
                      /\ next = PorBegins + 3 => Now = Por4
                      /\ next = PorBegins + 4 => Now = Step("calibrated")
    OBVIOUS
  <1> DEFINE t == tda18271c2_rf_cal_init
             w == "go on"
             r == Step("rf_test")
             c == Step("calibrated")
             p == PorBegins
  <1>1. call # "attach"
    OBVIOUS
  <1>2. Stages[stage].steps = t /\ Stages[stage].fail = w /\ Len(Stages) = Last /\ Last = 5
    BY <1>1, TuneAre, Zenon
  <1>3. /\ p \in Nat /\ p >= 2 /\ Len(t) = p + 4 /\ t[1] = r
        /\ \A i \in 2..(p - 1) : t[i] \in CalcStep /\ (t[i].op = "skip" => i + t[i].n <= p)
        /\ t[p] = Por1 /\ t[p + 1] = Por2 /\ t[p + 2] = Por3 /\ t[p + 3] = Por4
        /\ t[p + 4] = c
    BY RfCalInit
  <1> HIDE DEF t, r, c, p
  <1>4. Running(t, w)
    BY <1>2, RunningIs
  <1>5. /\ next = 1 => Now = r
        /\ next = p => Now = Por1
        /\ next = p + 1 => Now = Por2
        /\ next = p + 2 => Now = Por3
        /\ next = p + 3 => Now = Por4
        /\ next = p + 4 => Now = c
    BY <1>3, <1>4 DEF Running
  <1>6. ASSUME next > 1, next < p
        PROVE  Now \in CalcStep /\ (Now.op = "skip" => next + Now.n <= p)
    <2>1. next \in Nat /\ p \in Nat
      BY <1>3 DEF TypeOK
    <2>2. next \in 2..(p - 1)
      BY <1>6, <2>1
    <2> QED
      BY <1>3, <1>4, <2>2 DEF Running
  <1>7. Len(Stages) = 5 /\ Stages[stage].fail = "go on" /\ Len(Stages[stage].steps) = p + 4
    BY <1>2, <1>3
  <1> QED
    BY <1>3, <1>5, <1>6, <1>7 DEF r, c, p

LEMMA AtCorrection ==
    TypeOK /\ call = "tune" /\ stage = 4 /\ id = "C2" =>
        /\ Len(Stages) = 5 /\ Stages[stage].fail = "go on" /\ Len(Stages[stage].steps) = 8
        /\ next = 1 => Now = Standby1
        /\ next > 1 => Now \in ThermStep
  <1> SUFFICES ASSUME TypeOK, call = "tune", stage = 4, id = "C2"
               PROVE  /\ Len(Stages) = 5 /\ Stages[stage].fail = "go on"
                      /\ Len(Stages[stage].steps) = 8
                      /\ next = 1 => Now = Standby1
                      /\ next > 1 => Now \in ThermStep
    OBVIOUS
  <1> DEFINE t == tda18271c2_rf_tracking_filters_correction
             w == "go on"
  <1>1. call # "attach"
    OBVIOUS
  <1>2. Stages[stage].steps = t /\ Stages[stage].fail = w /\ Len(Stages) = Last /\ Last = 5
    BY <1>1, TuneAre, Zenon
  <1>3. Len(t) = 8 /\ t[1] = Standby1 /\ \A i \in 2..8 : t[i] \in ThermStep
    BY Correction
  <1> HIDE DEF t
  <1>4. Running(t, w)
    BY <1>2, RunningIs
  <1>5. next \in 1..8 /\ Now = t[next]
    BY <1>3, <1>4 DEF Running
  <1>6. next = 1 => Now = Standby1
    BY <1>3, <1>5
  <1>7. ASSUME next > 1
        PROVE  Now \in ThermStep
    <2>1. next \in 2..8
      BY <1>5, <1>7
    <2> QED
      BY <1>3, <1>5, <2>1
  <1>8. /\ Len(Stages) = 5 /\ Stages[stage].fail = "go on" /\ Len(Stages[stage].steps) = 8
    BY <1>2, <1>3
  <1> QED
    BY <1>6, <1>7, <1>8

LEMMA AtChannel ==
    TypeOK /\ call = "tune" /\ stage = Last =>
        /\ Len(Stages) = Last /\ Stages[stage].fail = "fail"
        /\ next \in 1..(IF id = "C2" THEN 7 ELSE 6)
        /\ Len(Stages[stage].steps) = (IF id = "C2" THEN 7 ELSE 6)
        /\ next = 1 => Now = Channel1
        /\ next = 2 => Now = Channel2
        /\ next = 3 => Now = Channel3
        /\ next = 4 => Now = Channel4
        /\ next = 5 => /\ Now \in Plain /\ Now.op = "write" /\ Now.range = {"EB4"}
                       /\ Now.edit = [f \in {"EB4"} |-> "on"]
        /\ next = 6 => /\ Now \in Plain /\ Now.op = "write" /\ Now.range = {"EB4"}
                       /\ Now.edit = [f \in {"EB4"} |-> "off"]
        /\ next = 7 => Now = Channel7
  <1> SUFFICES ASSUME TypeOK, call = "tune", stage = Last
               PROVE  /\ Len(Stages) = Last /\ Stages[stage].fail = "fail"
                      /\ next \in 1..(IF id = "C2" THEN 7 ELSE 6)
                      /\ Len(Stages[stage].steps) = (IF id = "C2" THEN 7 ELSE 6)
                      /\ next = 1 => Now = Channel1
                      /\ next = 2 => Now = Channel2
                      /\ next = 3 => Now = Channel3
                      /\ next = 4 => Now = Channel4
                      /\ next = 5 => /\ Now \in Plain /\ Now.op = "write" /\ Now.range = {"EB4"}
                                     /\ Now.edit = [f \in {"EB4"} |-> "on"]
                      /\ next = 6 => /\ Now \in Plain /\ Now.op = "write" /\ Now.range = {"EB4"}
                                     /\ Now.edit = [f \in {"EB4"} |-> "off"]
                      /\ next = 7 => Now = Channel7
    OBVIOUS
  <1> DEFINE t == tda18271_channel_configuration
             w == "fail"
             m == IF id = "C2" THEN 7 ELSE 6
             on == [f \in {"EB4"} |-> "on"]
             off == [f \in {"EB4"} |-> "off"]
  <1>1. call # "attach"
    OBVIOUS
  <1>2. Stages[stage].steps = t /\ Stages[stage].fail = w /\ Len(Stages) = Last
    BY <1>1, TuneAre, Zenon
  <1>3. /\ Len(t) = m /\ t[1] = Channel1 /\ t[2] = Channel2 /\ t[3] = Channel3
        /\ t[4] = Channel4 /\ (id = "C2" => t[7] = Channel7)
        /\ \A i \in {5, 6} : t[i] \in Plain /\ t[i].op = "write" /\ t[i].range = {"EB4"}
        /\ t[5].edit = on /\ t[6].edit = off
    BY Channel
  <1> HIDE DEF t, on, off
  <1>4. Running(t, w)
    BY <1>2, RunningIs
  <1>5. next \in 1..m /\ (next = 7 => id = "C2")
    BY <1>3, <1>4 DEF Running
  <1>6. /\ next = 1 => Now = Channel1
        /\ next = 2 => Now = Channel2
        /\ next = 3 => Now = Channel3
        /\ next = 4 => Now = Channel4
        /\ next = 5 => /\ Now \in Plain /\ Now.op = "write" /\ Now.range = {"EB4"}
                       /\ Now.edit = on
        /\ next = 6 => /\ Now \in Plain /\ Now.op = "write" /\ Now.range = {"EB4"}
                       /\ Now.edit = off
        /\ next = 7 => Now = Channel7
    BY <1>3, <1>4, <1>5 DEF Running
  <1> QED
    BY <1>2, <1>3, <1>5, <1>6 DEF on, off

LEMMA NowIs ==
    TypeOK =>
        /\ Now \in AnyStep
        /\ Now.op = "skip" => Now.n \in 1..(Len(Stages[stage].steps) + 1 - next)
        /\ Now.op = "back" => Now.n \in 1..(next - 1)
  <1> DEFINE t == Stages[stage].steps
  <1> SUFFICES ASSUME TypeOK
               PROVE  /\ Now \in AnyStep
                      /\ Now.op = "skip" => Now.n \in 1..(Len(t) + 1 - next)
                      /\ Now.op = "back" => Now.n \in 1..(next - 1)
    OBVIOUS
  <1>1. t \in Code /\ next \in 1..Len(t) /\ Now = t[next]
    BY StageCode DEF TypeOK, Now
  <1> HIDE DEF t
  <1>2. t \in Seq(AnyStep)
    BY <1>1 DEF Code
  <1>3. t[next] \in AnyStep
    BY <1>1, <1>2, Element
  <1> QED
    BY <1>1, <1>3 DEF Code

LEMMA WhereIs ==
    TypeOK /\ call # "none" =>
        \/ call = "attach" /\ stage \in {1, 2}
        \/ call = "tune" /\ stage \in {1, 2}
        \/ call = "tune" /\ stage = 3 /\ id # "C2"
        \/ call = "tune" /\ stage = 3 /\ id = "C2"
        \/ call = "tune" /\ stage = 4 /\ id = "C2"
        \/ call = "tune" /\ stage = Last
  <1> SUFFICES ASSUME TypeOK, call # "none"
               PROVE  \/ call = "attach" /\ stage \in {1, 2}
                      \/ call = "tune" /\ stage \in {1, 2}
                      \/ call = "tune" /\ stage = 3 /\ id # "C2"
                      \/ call = "tune" /\ stage = 3 /\ id = "C2"
                      \/ call = "tune" /\ stage = 4 /\ id = "C2"
                      \/ call = "tune" /\ stage = Last
    OBVIOUS
  <1>1. stage \in 1..Len(Stages) /\ call \in {"attach", "tune"}
    BY DEF TypeOK
  <1> QED
    BY <1>1, StageCount DEF Last

LEMMA CheckedRead ==
    /\ Checked(Step("read")).op = "read" /\ Checked(Step("read")).checked = TRUE
    /\ Checked(Step("read")).edit = << >>
  <1>1. Step("read") \in AnyStep /\ Step("read").op = "read" /\ Step("read").edit = << >>
    BY StepFields DEF Ops
  <1> DEFINE s == Step("read")
  <1> HIDE DEF s
  <1>2. Checked(s) \in AnyStep /\ Checked(s).op = s.op /\ Checked(s).checked = TRUE
        /\ Checked(s).edit = s.edit
    BY <1>1, CheckedFields DEF s
  <1>3. Checked(s).op = "read" /\ Checked(s).checked = TRUE /\ Checked(s).edit = << >>
    BY <1>1, <1>2, Zenon DEF s
  <1> QED
    BY <1>3 DEF s

LEMMA PorWrites ==
    Por1.op = "write" /\ Por2.op = "write" /\ Por3.op = "write" /\ Por4.op = "write"
  BY Por, Zenon

\* Only tda18271_get_id sets the id, only tda18271c2_rf_cal_init the flag, and
\* tda18271_attach reads before it writes.
LEMMA OpsAre ==
    TypeOK /\ call # "none" =>
        /\ Now.op = "id" => call = "attach" /\ stage = 1 /\ next = 2
        /\ Now.op = "calibrated" => call = "tune" /\ stage = 3 /\ id = "C2"
        /\ call = "attach" => \/ stage = 1 /\ next = 1 /\ Now.op = "read"
                              \/ stage = 1 /\ next = 2 /\ Now.op = "id"
                              \/ stage = 2 /\ Now.op = "write"
  <1> SUFFICES ASSUME TypeOK, call # "none"
               PROVE  /\ Now.op = "id" => call = "attach" /\ stage = 1 /\ next = 2
                      /\ Now.op = "calibrated" => call = "tune" /\ stage = 3 /\ id = "C2"
                      /\ call = "attach" => \/ stage = 1 /\ next = 1 /\ Now.op = "read"
                                            \/ stage = 1 /\ next = 2 /\ Now.op = "id"
                                            \/ stage = 2 /\ Now.op = "write"
    OBVIOUS
  <1>1. CASE call = "attach" /\ stage \in {1, 2}
    BY <1>1, AtGetId, AtInitRegs
  <1>2. CASE call = "tune" /\ stage \in {1, 2}
    <2>1. CASE stage = 1
      <3>1. Now.op = "write"
        BY <1>2, <2>1, AtStandby, Standby
      <3> QED
        BY <1>2, <3>1
    <2>2. CASE stage = 2
      <3>1. next \in Nat /\ next >= 1
        BY DEF TypeOK
      <3>2. CASE next = 1
        <4>1. Now.op = "read"
          BY <1>2, <2>2, <3>2, AtIrCalInit, CheckedRead
        <4> QED
          BY <1>2, <4>1
      <3>3. CASE next = 2
        <4>1. Now.op = "ir_test"
          BY <1>2, <2>2, <3>3, AtIrCalInit, StepFields DEF Ops
        <4> QED
          BY <1>2, <4>1
      <3>4. CASE next >= 3
        <4>1. Now.op = "write"
          BY <1>2, <2>2, <3>1, <3>4, AtIrCalInit, First1Is DEF InitStep
        <4> QED
          BY <1>2, <4>1
      <3> QED
        BY <3>1, <3>2, <3>3, <3>4
    <2> QED
      BY <1>2, <2>1, <2>2
  <1>3. CASE call = "tune" /\ stage = 3 /\ id # "C2"
    <2>1. Now.op = "write"
      BY <1>3, AtFilterCalibration DEF ImageStep
    <2> QED
      BY <1>3, <2>1
  <1>4. CASE call = "tune" /\ stage = 3 /\ id = "C2"
    <2>1. Now.op # "id"
      <3>1. next \in Nat /\ next >= 1 /\ next <= Len(Stages[stage].steps)
        BY DEF TypeOK
      <3>2. PorBegins \in Nat /\ Len(Stages[stage].steps) = PorBegins + 4
        BY <1>4, AtRfCalInit
      <3>3. CASE next = 1
        BY <1>4, <3>3, AtRfCalInit, StepFields DEF Ops
      <3>4. CASE next > 1 /\ next < PorBegins
        BY <1>4, <3>4, AtRfCalInit DEF CalcStep
      <3>5. CASE next >= PorBegins /\ next < PorBegins + 4
        <4>1. next \in {PorBegins, PorBegins + 1, PorBegins + 2, PorBegins + 3}
          BY <3>1, <3>5, <3>2
        <4>2. Now \in {Por1, Por2, Por3, Por4}
          BY <1>4, <4>1, AtRfCalInit
        <4> QED
          BY <4>2, PorWrites
      <3>6. CASE next = PorBegins + 4
        BY <1>4, <3>6, AtRfCalInit, StepFields DEF Ops
      <3> QED
        BY <3>1, <3>3, <3>4, <3>5, <3>6, <3>2
    <2> QED
      BY <1>4, <2>1
  <1>5. CASE call = "tune" /\ stage = 4 /\ id = "C2"
    <2>1. Now.op \in {"write", "read", "skip"}
      <3>1. next \in Nat /\ next >= 1
        BY DEF TypeOK
      <3>2. CASE next = 1
        BY <1>5, <3>2, AtCorrection, Standby
      <3>3. CASE next > 1
        BY <1>5, <3>3, AtCorrection DEF ThermStep
      <3> QED
        BY <3>1, <3>2, <3>3
    <2> QED
      BY <1>5, <2>1
  <1>6. CASE call = "tune" /\ stage = Last
    <2>1. Now.op = "write"
      <3>1. next \in 1..7
        BY <1>6, AtChannel
      <3> QED
        BY <1>6, <3>1, AtChannel, ChannelSteps
    <2> QED
      BY <1>6, <2>1
  <1> QED
    BY <1>1, <1>2, <1>3, <1>4, <1>5, <1>6, WhereIs

\* Where a step of a call may lead.
NextBegins == stage < Len(Stages) /\ stage' = stage + 1 /\ next' = 1 /\ UNCHANGED <<call, ret>>

Moves ==
    \/ \E i \in 1..Len(Stages[stage].steps) : GoTo(i)
    \/ NextBegins
    \/ Return("ok") \/ Return("error")

LEMMA NextStageMoves ==
    ASSUME TypeOK, NextStage
    PROVE  NextBegins \/ (stage = Len(Stages) /\ Return("ok"))
  BY DEF TypeOK, NextStage, NextBegins

LEMMA Position ==
    TypeOK => /\ stage \in 1..Len(Stages)
              /\ next \in Nat /\ next >= 1 /\ next <= Len(Stages[stage].steps)
              /\ Len(Stages[stage].steps) \in Nat
  <1> DEFINE m == Len(Stages[stage].steps)
  <1> SUFFICES ASSUME TypeOK
               PROVE  stage \in 1..Len(Stages) /\ next \in Nat /\ next >= 1 /\ next <= m /\ m \in Nat
    OBVIOUS
  <1>1. stage \in 1..Len(Stages) /\ next \in 1..m
    BY DEF TypeOK
  <1>2. m \in Nat \ {0}
    BY <1>1, StageCode
  <1> HIDE DEF m
  <1> QED
    BY <1>1, <1>2

LEMMA AdvanceIs ==
    ASSUME TypeOK, NEW n \in Nat, Advance(n)
    PROVE  \/ next + n \in 1..Len(Stages[stage].steps) /\ GoTo(next + n)
           \/ next + n > Len(Stages[stage].steps) /\ NextBegins
           \/ /\ next + n > Len(Stages[stage].steps)
              /\ stage = Len(Stages) /\ Return("ok")
  <1>1. next \in Nat /\ next >= 1 /\ Len(Stages[stage].steps) \in Nat
    BY Position
  <1>2. CASE next + n <= Len(Stages[stage].steps)
    BY <1>1, <1>2 DEF Advance
  <1>3. CASE ~(next + n <= Len(Stages[stage].steps))
    <2>1. NextStage
      BY <1>3 DEF Advance
    <2>2. next + n > Len(Stages[stage].steps)
      BY <1>1, <1>3
    <2> QED
      BY <2>1, <2>2, NextStageMoves
  <1> QED
    BY <1>2, <1>3

LEMMA AdvanceMoves ==
    ASSUME TypeOK, NEW n \in Nat, Advance(n)
    PROVE  Moves
  BY AdvanceIs DEF Moves

LEMMA FailsMoves ==
    ASSUME TypeOK, Fails
    PROVE  Moves
  <1>1. CASE ~Now.checked
    BY <1>1, AdvanceMoves DEF Fails
  <1>2. CASE Now.checked /\ Stages[stage].fail = "fail"
    BY <1>2 DEF Fails, Moves
  <1>3. CASE Now.checked /\ Stages[stage].fail # "fail"
    BY <1>3, NextStageMoves DEF Fails, Moves
  <1> QED
    BY <1>1, <1>2, <1>3

LEMMA StepMoves ==
    ASSUME TypeOK, Next, call # "none"
    PROVE  Moves
  <1>1. CASE WriteRegs \/ ReadRegs \/ Calibrated
    BY <1>1, AdvanceMoves DEF WriteRegs, ReadRegs, Calibrated
  <1>2. CASE Identify
    BY <1>2, AdvanceMoves DEF Identify, Moves
  <1>3. CASE IrTest
    BY <1>3, AdvanceMoves, NextStageMoves DEF IrTest, Moves
  <1>4. CASE RfTest
    BY <1>4, AdvanceMoves, NextStageMoves DEF RfTest, Moves
  <1>5. CASE Branch
    <2>1. CASE Advance(1)
      BY <2>1, AdvanceMoves
    <2>2. CASE Now.op = "skip" /\ Advance(Now.n)
      <3>1. Now.n \in Nat
        BY NowIs DEF AnyStep
      <3> QED
        BY <2>2, <3>1, AdvanceMoves
    <2>3. CASE Now.op = "back" /\ GoTo(next - Now.n)
      <3>1. next \in Nat /\ next <= Len(Stages[stage].steps) /\ Now.n \in 1..(next - 1)
            /\ Len(Stages[stage].steps) \in Nat
        BY <2>3, NowIs, Position
      <3>2. next - Now.n \in 1..Len(Stages[stage].steps)
        BY <3>1
      <3> QED
        BY <2>3, <3>2 DEF Moves
    <2> QED
      BY <1>5, <2>1, <2>2, <2>3 DEF Branch
  <1>6. CASE WriteFails \/ ReadFails
    BY <1>6, FailsMoves DEF WriteFails, ReadFails
  <1>7. CASE WriteLost \/ ReadLost
    BY <1>7, AdvanceMoves DEF WriteLost, ReadLost, Lost
  <1> QED
    BY <1>1, <1>2, <1>3, <1>4, <1>5, <1>6, <1>7 DEF Next, Attach, Tune

ControlType ==
    /\ call \in {"none", "attach", "tune"}
    /\ stage \in 1..Len(Stages)
    /\ next \in 1..Len(Stages[stage].steps)
    /\ ret \in {"none", "ok", "error"}

LEMMA FirstStep ==
    ASSUME stage' = 1, next' = 1
    PROVE  stage' \in 1..Len(Stages)' /\ next' \in 1..Len(Stages[stage].steps)'
  <1>1. Len(Stages)' \in {2, 4, 5}
    BY StageCountPrime DEF Last
  <1>2. 1 \in 1..Len(Stages)'
    BY <1>1
  <1>3. Len(Stages[stage].steps)' \in Nat \ {0}
    BY <1>2, StageCodePrime
  <1> QED
    BY <1>2, <1>3

LEMMA MovesType ==
    ASSUME TypeOK, Moves, UNCHANGED <<id, freq>>
    PROVE  ControlType'
  <1>1. ASSUME NEW i \in 1..Len(Stages[stage].steps), GoTo(i)
        PROVE  ControlType'
    <2>1. Stages' = Stages
      BY <1>1, SameStages DEF GoTo
    <2> QED
      BY <1>1, <2>1 DEF GoTo, TypeOK, ControlType
  <1>2. CASE NextBegins
    <2>1. Stages' = Stages
      BY <1>2, SameStages DEF NextBegins
    <2>2. stage + 1 \in 1..Len(Stages) /\ stage' = stage + 1 /\ next' = 1
      BY <1>2 DEF NextBegins, TypeOK
    <2>3. Len(Stages[stage + 1].steps) \in Nat \ {0}
      BY <2>2, StageCode
    <2> QED
      BY <1>2, <2>1, <2>2, <2>3 DEF NextBegins, TypeOK, ControlType
  <1>3. CASE Return("ok") \/ Return("error")
    BY <1>3, FirstStep DEF Return, TypeOK, ControlType
  <1> QED
    BY <1>1, <1>2, <1>3 DEF Moves

\* What a write and a read do to the registers.
LEMMA EditIs ==
    ASSUME NEW e \in Edits
    PROVE  DOMAIN e \subseteq Fields /\ \A f \in DOMAIN e : e[f] \in Values \ {"?"}
  BY DEF Edits

LEMMA WriteEffect ==
    ASSUME TypeOK, WriteRegs \/ WriteFails
    PROVE  /\ Now \in AnyStep /\ Now.op = "write" /\ call # "none"
           /\ shadow' \in [Fields -> Values] /\ chip' \in [Fields -> Values]
           /\ \A f \in Fields : shadow'[f] = IF f \in DOMAIN Now.edit THEN Now.edit[f]
                                                                       ELSE shadow[f]
           /\ \A f \in Fields : f \notin Now.range => chip'[f] = chip[f]
           /\ \A f \in Fields : chip'[f] = chip[f] \/ chip'[f] = shadow'[f]
           /\ WriteRegs => \A f \in Now.range \cap (Fields \ {"ID", "EP1"}) : chip'[f] = shadow'[f]
           /\ UNCHANGED <<id, calibrated, badReads, freq, tunes, lost>>
  <1> DEFINE e == Now.edit
             r == Now.range \ {"ID", "EP1"}
  <1>1. Now \in AnyStep /\ e \in Edits
    BY NowIs DEF AnyStep
  <1>2. /\ Now.op = "write" /\ call # "none" /\ shadow' = Edited(e)
        /\ UNCHANGED <<id, calibrated, badReads, freq, tunes, lost>>
        /\ \/ chip' = chip
           \/ chip' = [f \in Fields |-> IF f \in r THEN shadow'[f] ELSE chip[f]]
        /\ WriteRegs => chip' = [f \in Fields |-> IF f \in r THEN shadow'[f] ELSE chip[f]]
    BY DEF WriteRegs, WriteFails, Fails, Others
  <1>3. DOMAIN e \subseteq Fields /\ \A f \in DOMAIN e : e[f] \in Values
    BY <1>1, EditIs
  <1> HIDE DEF e
  <1>4. /\ shadow' \in [Fields -> Values]
        /\ \A f \in Fields : shadow'[f] = IF f \in DOMAIN e THEN e[f] ELSE shadow[f]
    BY <1>2, <1>3 DEF Edited, TypeOK
  <1> HIDE DEF r
  <1>5. /\ chip' \in [Fields -> Values]
        /\ \A f \in Fields : f \notin r => chip'[f] = chip[f]
        /\ \A f \in Fields : chip'[f] = chip[f] \/ chip'[f] = shadow'[f]
        /\ WriteRegs => \A f \in r \cap Fields : chip'[f] = shadow'[f]
    <2>1. CASE chip' = chip /\ ~WriteRegs
      BY <2>1 DEF TypeOK
    <2>2. CASE chip' = [f \in Fields |-> IF f \in r THEN shadow'[f] ELSE chip[f]]
      BY <2>2, <1>4 DEF TypeOK
    <2> QED
      BY <1>2, <2>1, <2>2
  <1> QED
    BY <1>1, <1>2, <1>4, <1>5 DEF e, r

LEMMA ReadEffect ==
    ASSUME TypeOK, ReadRegs \/ ReadFails
    PROVE  /\ Now.op \in {"read", "read_extended"} /\ call # "none"
           /\ shadow' \in [Fields -> Values]
           /\ ReadRegs \/ Now.op = "read" =>
                 \A f \in Fields : \/ shadow'[f] = shadow[f]
                                   \/ f # "EP1" /\ f # "EB20" /\ shadow'[f] = chip[f]
                                   \/ f = "EP1" /\ shadow'[f] \in {"ok", "no"}
           /\ badReads \in Nat /\ (ReadRegs \/ Now.op = "read") => badReads' = badReads
           /\ badReads \in Nat => badReads' \in Nat
           /\ badReads \in Nat /\ ~(ReadRegs \/ Now.op = "read") => badReads' # 0
           /\ UNCHANGED <<chip, id, calibrated, freq, tunes, lost>>
  <1>1. /\ chip \in [Fields -> Values] /\ shadow \in [Fields -> Values]
        /\ {"?", "ok", "no"} \subseteq Values
    BY DEF TypeOK, Values
  <1>2. CASE ReadRegs
    <2>1. PICK flag \in {"ok", "no"} :
              shadow' = [f \in Fields |-> IF f \in First(Count) \ WriteOnly THEN Brought(f, flag)
                                                                         ELSE shadow[f]]
      BY <1>2 DEF ReadRegs
    <2>2. shadow' \in [Fields -> Values]
      BY <1>1, <2>1 DEF Brought
    <2>3. \A f \in Fields : \/ shadow'[f] = shadow[f]
                            \/ f # "EP1" /\ f # "EB20" /\ shadow'[f] = chip[f]
                            \/ f = "EP1" /\ shadow'[f] \in {"ok", "no"}
      BY <2>1 DEF Brought, WriteOnly
    <2> QED
      BY <1>2, <2>2, <2>3 DEF ReadRegs, Reads, Others
  <1>3. CASE ReadFails /\ ~ReadRegs
    <2>1. PICK n \in 0..Count, flag \in {"ok", "no"} :
              shadow' = [f \in Fields |->
                            IF f \in First(n) \ WriteOnly THEN Brought(f, flag)
                            ELSE IF f \in First(Count) \ WriteOnly /\ Now.op = "read_extended"
                                 THEN "?" ELSE shadow[f]]
      BY <1>3 DEF ReadFails
    <2>2. shadow' \in [Fields -> Values]
      BY <1>1, <2>1 DEF Brought
    <2>3. Now.op = "read" =>
             \A f \in Fields : \/ shadow'[f] = shadow[f]
                               \/ f # "EP1" /\ f # "EB20" /\ shadow'[f] = chip[f]
                               \/ f = "EP1" /\ shadow'[f] \in {"ok", "no"}
      BY <2>1 DEF Brought, WriteOnly
    <2>4. /\ Now.op \in {"read", "read_extended"} /\ call # "none"
          /\ badReads' = badReads + (IF Now.op = "read_extended" THEN 1 ELSE 0)
          /\ UNCHANGED <<chip, id, calibrated, freq, tunes, lost>>
      BY <1>3 DEF ReadFails, Reads, Fails, Others
    <2>5. /\ badReads \in Nat /\ Now.op = "read" => badReads' = badReads
          /\ badReads \in Nat => badReads' \in Nat
          /\ badReads \in Nat /\ Now.op # "read" => badReads' # 0
      <3>1. CASE Now.op = "read" /\ badReads \in Nat
        BY <2>4, <3>1
      <3>2. CASE Now.op = "read_extended"
        BY <2>4, <3>2
      <3> QED
        BY <2>4, <3>1, <3>2
    <2> QED
      BY <1>3, <2>2, <2>3, <2>4, <2>5
  <1> QED
    BY <1>2, <1>3

\* What a lost write and a lost read do.
LEMMA LostWrite ==
    ASSUME TypeOK, WriteLost
    PROVE  /\ Now \in AnyStep /\ Now.op = "write" /\ call # "none"
           /\ shadow' \in [Fields -> Values] /\ chip' \in [Fields -> Values]
           /\ \A f \in Fields : shadow'[f] = IF f \in DOMAIN Now.edit THEN Now.edit[f]
                                                                       ELSE shadow[f]
           /\ \A f \in Fields : chip'[f] \in {chip[f], shadow'[f], "junk"}
           /\ lost' = "now"
           /\ UNCHANGED <<id, calibrated, badReads, freq, tunes>>
  <1> DEFINE e == Now.edit
             r == Now.range
  <1>1. Now \in AnyStep /\ e \in Edits
    BY NowIs DEF AnyStep
  <1>2. /\ Now.op = "write" /\ call # "none" /\ shadow' = Edited(e) /\ lost' = "now"
        /\ UNCHANGED <<id, calibrated, badReads, freq, tunes>>
    BY DEF WriteLost, Lost
  <1>3. PICK n \in 0..Len(Order), garbled \in BOOLEAN :
            chip' = [f \in Fields |->
                        IF f \in {"ID", "EP1"} THEN chip[f]
                        ELSE IF f \in First(n) \cap r THEN shadow'[f]
                        ELSE IF garbled THEN "junk" ELSE chip[f]]
    BY DEF WriteLost
  <1>4. DOMAIN e \subseteq Fields /\ \A f \in DOMAIN e : e[f] \in Values
    BY <1>1, EditIs
  <1> HIDE DEF e, r
  <1>5. /\ shadow' \in [Fields -> Values]
        /\ \A f \in Fields : shadow'[f] = IF f \in DOMAIN e THEN e[f] ELSE shadow[f]
    BY <1>2, <1>4 DEF Edited, TypeOK
  <1>6. chip \in [Fields -> Values] /\ "junk" \in Values
    BY DEF TypeOK, Values
  <1>7. /\ chip' \in [Fields -> Values]
        /\ \A f \in Fields : chip'[f] \in {chip[f], shadow'[f], "junk"}
    BY <1>3, <1>5, <1>6
  <1> QED
    BY <1>1, <1>2, <1>5, <1>7 DEF e

LEMMA LostRead ==
    ASSUME TypeOK, ReadLost
    PROVE  /\ Now.op \in {"read", "read_extended"} /\ call # "none"
           /\ shadow' \in [Fields -> Values]
           /\ \A f \in Fields : \/ shadow'[f] = shadow[f]
                                \/ f # "EP1" /\ f # "EB20" /\ shadow'[f] = chip[f]
                                \/ shadow'[f] \in {"ok", "no", "junk"}
           /\ lost' = "now"
           /\ UNCHANGED <<chip, id, calibrated, badReads, freq, tunes>>
  <1>1. /\ chip \in [Fields -> Values] /\ shadow \in [Fields -> Values]
        /\ {"?", "ok", "no", "junk"} \subseteq Values
    BY DEF TypeOK, Values
  <1>2. PICK n \in 0..Count, flag \in {"ok", "no"} :
            shadow' = [f \in Fields |->
                          IF f \in First(n) \ WriteOnly THEN Brought(f, flag)
                          ELSE IF f \in First(Count) \ WriteOnly THEN "junk"
                          ELSE shadow[f]]
    BY DEF ReadLost
  <1>3. shadow' \in [Fields -> Values]
    BY <1>1, <1>2 DEF Brought
  <1>4. \A f \in Fields : \/ shadow'[f] = shadow[f]
                          \/ f # "EP1" /\ f # "EB20" /\ shadow'[f] = chip[f]
                          \/ shadow'[f] \in {"ok", "no", "junk"}
    BY <1>2 DEF Brought, WriteOnly
  <1>5. /\ Now.op \in {"read", "read_extended"} /\ call # "none"
        /\ lost' = "now"
        /\ UNCHANGED <<chip, id, calibrated, badReads, freq, tunes>>
    BY DEF ReadLost, Lost, Reads
  <1> QED
    BY <1>3, <1>4, <1>5

-----------------------------------------------------------------------------
\* Types.
LEMMA IdentifyType ==
    ASSUME TypeOK, Identify
    PROVE  /\ call = "attach" /\ stage = 1 /\ next = 2
           /\ id' \in {"none", "C1", "C2"} /\ freq' = freq
           /\ \/ id' = "none" /\ Return("error")
              \/ id' # "none" /\ NextBegins
           /\ ControlType'
  <1>1. call # "none" /\ Now.op = "id"
    BY DEF Identify
  <1>2. call = "attach" /\ stage = 1 /\ next = 2
    BY <1>1, OpsAre
  <1>3. Len(Stages) = 2 /\ Len(Stages[stage].steps) = 2
    BY <1>2, AtGetId
  <1>4. id' \in {"none", "C1", "C2"} /\ freq' = freq
    BY TunerAssumption DEF Identify, Others
  <1>5. CASE id' = "none"
    <2>1. Return("error")
      BY <1>5 DEF Identify
    <2>2. ControlType'
      BY <2>1, FirstStep DEF Return, TypeOK, ControlType
    <2> QED
      BY <1>2, <1>4, <1>5, <2>1, <2>2
  <1>6. CASE id' # "none"
    <2>1. Advance(1)
      BY <1>6 DEF Identify
    <2>2. NextBegins
      BY <1>2, <1>3, <2>1 DEF Advance, NextStage, NextBegins
    <2>3. call' = "attach" /\ ret' = ret /\ stage' = 2 /\ next' = 1
      BY <1>2, <2>2 DEF NextBegins
    <2>4. Len(Stages)' = 2
      BY <2>3, StageCountPrime
    <2>5. Len(Stages[stage].steps)' \in Nat \ {0}
      <3>1. stage' \in 1..Len(Stages)'
        BY <2>3, <2>4
      <3> QED
        BY <3>1, StageCodePrime
    <2>6. ControlType'
      BY <2>3, <2>4, <2>5 DEF TypeOK, ControlType
    <2> QED
      BY <1>2, <1>4, <1>6, <2>2, <2>6
  <1> QED
    BY <1>5, <1>6

LEMMA BeginType ==
    ASSUME TypeOK, Attach \/ Tune
    PROVE  ControlType'
  <1>1. stage' = 1 /\ next' = 1 /\ call' \in {"attach", "tune"} /\ ret' = "none"
    BY DEF Attach, Tune
  <1> QED
    BY <1>1, FirstStep DEF ControlType

LEMMA TestEffect ==
    ASSUME TypeOK, IrTest \/ RfTest \/ Calibrated \/ Branch
    PROVE  /\ UNCHANGED <<chip, shadow, id, freq, tunes, badReads, quiet, lost>>
           /\ call # "none" /\ Now.op \in {"ir_test", "rf_test", "calibrated", "skip", "back"}
           /\ calibrated' \in BOOLEAN /\ (calibrated' => calibrated \/ Calibrated)
  <1>1. CASE IrTest \/ Branch
    BY <1>1 DEF TypeOK, IrTest, Branch, Others
  <1>2. CASE Calibrated
    BY <1>2 DEF Calibrated, Others
  <1>3. CASE RfTest
    <2> DEFINE a == calibrated /\ shadow["EP1"] = "ok"
               b == calibrated /\ shadow["EP1"] \in {"ok", "?", "junk"}
    <2>1. calibrated' = a \/ calibrated' = b
      BY <1>3 DEF RfTest
    <2>2. a \in BOOLEAN /\ b \in BOOLEAN /\ (a => calibrated) /\ (b => calibrated)
      BY DEF TypeOK
    <2> HIDE DEF a, b
    <2>3. CASE calibrated' = a
      BY <1>3, <2>2, <2>3 DEF RfTest, Others
    <2>4. CASE calibrated' = b
      BY <1>3, <2>2, <2>4 DEF RfTest, Others
    <2> QED
      BY <2>1, <2>3, <2>4
  <1> QED
    BY <1>1, <1>2, <1>3

LEMMA TypeStep ==
    TypeOK /\ CallState /\ [Next]_vars => TypeOK'
  <1> SUFFICES ASSUME TypeOK, CallState, [Next]_vars
               PROVE  TypeOK'
    OBVIOUS
  <1>1. CASE Attach \/ Tune
    <2>1. ControlType'
      BY <1>1, BeginType
    <2>2. /\ chip' \in [Fields -> Values] /\ shadow' \in [Fields -> Values]
          /\ id' \in {"none", "C1", "C2"}
          /\ calibrated' \in BOOLEAN /\ (calibrated' => id' = "C2")
          /\ freq' \in {"inside", "outside"} /\ lost' \in {"none", "earlier", "now"}
      <3>1. CASE Attach
        <4>1. /\ chip' = chip /\ shadow' = [f \in Fields |-> "?"] /\ id' = "C2"
              /\ calibrated' = FALSE /\ lost' = "none" /\ freq' = freq /\ "?" \in Values
          BY <3>1 DEF Attach, AttachCalibrated, Values
        <4> QED
          BY <4>1 DEF TypeOK
      <3>2. CASE Tune
        BY <3>2 DEF Tune, TypeOK
      <3> QED
        BY <1>1, <3>1, <3>2
    <2> QED
      BY <2>1, <2>2 DEF TypeOK, ControlType
  <1>2. CASE WriteRegs \/ WriteFails
    <2>1. Moves
      BY <1>2, WriteEffect, StepMoves DEF Next
    <2>2. ControlType'
      BY <1>2, <2>1, WriteEffect, MovesType
    <2>3. /\ chip' \in [Fields -> Values] /\ shadow' \in [Fields -> Values]
          /\ UNCHANGED <<id, calibrated, freq, lost>>
      BY <1>2, WriteEffect
    <2> QED
      BY <2>2, <2>3 DEF TypeOK, ControlType
  <1>3. CASE ReadRegs \/ ReadFails
    <2>1. Moves
      BY <1>3, ReadEffect, StepMoves DEF Next
    <2>2. ControlType'
      BY <1>3, <2>1, ReadEffect, MovesType
    <2>3. shadow' \in [Fields -> Values] /\ UNCHANGED <<chip, id, calibrated, freq, lost>>
      BY <1>3, ReadEffect
    <2> QED
      BY <2>2, <2>3 DEF TypeOK, ControlType
  <1>4. CASE Identify
    <2>1. call = "attach" /\ id' \in {"none", "C1", "C2"} /\ freq' = freq /\ ControlType'
      BY <1>4, IdentifyType
    <2>2. calibrated' = FALSE /\ UNCHANGED <<chip, shadow, lost>>
      BY <1>4, <2>1 DEF Identify, CallState, TypeOK, Others
    <2> QED
      BY <2>1, <2>2 DEF TypeOK, ControlType
  <1>5. CASE IrTest \/ RfTest \/ Calibrated \/ Branch
    <2>1. Moves
      BY <1>5, StepMoves DEF Next, IrTest, RfTest, Calibrated, Branch
    <2>2. ControlType'
      BY <1>5, <2>1, TestEffect, MovesType
    <2>3. calibrated' \in BOOLEAN /\ (calibrated' => id' = "C2")
      BY <1>5, TestEffect, OpsAre DEF TypeOK, Calibrated
    <2> QED
      BY <1>5, <2>2, <2>3, TestEffect DEF TypeOK, ControlType
  <1>6. CASE UNCHANGED vars
    <2>1. Stages' = Stages
      BY <1>6, SameStages DEF vars
    <2> QED
      BY <1>6, <2>1 DEF vars, TypeOK
  <1>7. CASE WriteLost
    <2>1. Moves
      BY <1>7, LostWrite, StepMoves DEF Next
    <2>2. ControlType'
      BY <1>7, <2>1, LostWrite, MovesType
    <2> QED
      BY <1>7, <2>2, LostWrite DEF TypeOK, ControlType
  <1>8. CASE ReadLost
    <2>1. Moves
      BY <1>8, LostRead, StepMoves DEF Next
    <2>2. ControlType'
      BY <1>8, <2>1, LostRead, MovesType
    <2> QED
      BY <1>8, <2>2, LostRead DEF TypeOK, ControlType
  <1> QED
    BY <1>1, <1>2, <1>3, <1>4, <1>5, <1>6, <1>7, <1>8 DEF Next

LEMMA MovesCall ==
    ASSUME Moves
    PROVE  call' = "none" \/ (call' = call /\ ret' = ret)
  BY DEF Moves, GoTo, NextBegins, Return

LEMMA CallStep ==
    TypeOK /\ CallState /\ [Next]_vars => CallState'
  <1> SUFFICES ASSUME TypeOK, CallState, [Next]_vars
               PROVE  CallState'
    OBVIOUS
  <1>1. CASE Attach
    BY <1>1 DEF Attach, AttachCalibrated, CallState
  <1>2. CASE Tune
    BY <1>2 DEF Tune, CallState
  <1>3. CASE WriteRegs \/ WriteFails \/ ReadRegs \/ ReadFails \/ WriteLost \/ ReadLost
    <2>1. call # "none" /\ UNCHANGED <<id, calibrated>>
      BY <1>3, WriteEffect, ReadEffect, LostWrite, LostRead
    <2>2. Moves
      BY <1>3, <2>1, StepMoves DEF Next
    <2> QED
      BY <2>1, <2>2, MovesCall DEF CallState
  <1>4. CASE Identify
    <2>1. call = "attach" /\ calibrated' = calibrated
      BY <1>4, IdentifyType DEF Identify
    <2>2. CASE id' = "none" /\ Return("error")
      BY <2>2 DEF Return, CallState
    <2>3. CASE id' # "none" /\ NextBegins
      BY <2>1, <2>3 DEF NextBegins, CallState
    <2> QED
      BY <1>4, <2>2, <2>3, IdentifyType
  <1>5. CASE IrTest \/ RfTest \/ Calibrated \/ Branch
    <2>1. /\ call # "none" /\ id' = id
          /\ (calibrated' => calibrated \/ call = "tune")
      BY <1>5, TestEffect, OpsAre DEF Calibrated
    <2>2. Moves
      BY <1>5, <2>1, StepMoves DEF Next
    <2> QED
      BY <2>1, <2>2, MovesCall DEF CallState
  <1>6. CASE UNCHANGED vars
    BY <1>6 DEF vars, CallState
  <1> QED
    BY <1>1, <1>2, <1>3, <1>4, <1>5, <1>6 DEF Next

LEMMA AtGetIdRead ==
    TypeOK /\ call = "attach" /\ stage = 1 /\ next = 1 =>
        Now = Step("read") /\ Len(Stages[stage].steps) = 2
  <1> SUFFICES ASSUME TypeOK, call = "attach", stage = 1, next = 1
               PROVE  Now = Step("read") /\ Len(Stages[stage].steps) = 2
    OBVIOUS
  <1> DEFINE t == tda18271_get_id
  <1>1. Stages[stage].steps = t
    BY AttachAre, Zenon
  <1>2. t[1] = Step("read") /\ Len(t) = 2
    BY GetId
  <1> HIDE DEF t
  <1> QED
    BY <1>1, <1>2, Zenon DEF Now

LEMMA WriteKnown ==
    ASSUME TypeOK, KnownState, WriteRegs \/ WriteFails \/ WriteLost, badReads = 0
    PROVE  Known(shadow') /\ Known(chip')
  <1>1. /\ call # "none"
        /\ \A f \in Fields : shadow'[f] = IF f \in DOMAIN Now.edit THEN Now.edit[f] ELSE shadow[f]
        /\ \A f \in Fields : chip'[f] \in {chip[f], shadow'[f], "junk"}
        /\ Now.edit \in Edits /\ Now.op = "write"
    <2>1. CASE WriteLost
      BY <2>1, LostWrite DEF AnyStep
    <2>2. CASE WriteRegs \/ WriteFails
      BY <2>2, WriteEffect DEF AnyStep
    <2> QED
      BY <2>1, <2>2
  <1>2. \A f \in DOMAIN Now.edit : Now.edit[f] # "?"
    BY <1>1, EditIs
  <1>3. Known(shadow')
    <2>1. CASE Filled
      BY <1>1, <1>2, <2>1 DEF KnownState, Known
    <2>2. CASE ~Filled
      <3>1. call = "attach" /\ stage = 2 /\ next = 1
        <4>1. call = "attach"
          BY <1>1, <2>2 DEF TypeOK, Filled
        <4>2. stage = 2
          BY <1>1, <4>1, OpsAre
        <4>3. next \in Nat /\ next >= 1
          BY Position
        <4> QED
          BY <2>2, <4>1, <4>2, <4>3 DEF Filled
      <3>2. Now.edit = InitValues
        BY <3>1, AtInitRegs, First1Is
      <3>3. DOMAIN Now.edit = Fields
        BY <3>2, InitValuesType
      <3> QED
        BY <1>1, <1>2, <3>3 DEF Known
    <2> QED
      BY <2>1, <2>2
  <1>4. Known(chip')
    BY <1>1, <1>3 DEF KnownState, Known
  <1> QED
    BY <1>3, <1>4

LEMMA ReadKnown ==
    ASSUME TypeOK, CallState, KnownState, ReadRegs \/ ReadFails \/ ReadLost
    PROVE  KnownState'
  <1>1. /\ call # "none" /\ Now.op \in {"read", "read_extended"}
        /\ badReads' \in Nat
        /\ UNCHANGED <<chip, id>>
    BY ReadEffect, LostRead DEF KnownState
  <1>2. SUFFICES ASSUME badReads' = 0
                 PROVE  Known(chip') /\ (Filled' => Known(shadow'))
    BY <1>1 DEF KnownState
  <1>3. ReadRegs \/ Now.op = "read" \/ ReadLost
    BY <1>2, ReadEffect DEF KnownState
  <1>4. badReads = 0
    BY <1>2, <1>3, ReadEffect, LostRead DEF KnownState
  <1>5. \A f \in Fields : \/ shadow'[f] = shadow[f]
                          \/ f # "EP1" /\ f # "EB20" /\ shadow'[f] = chip[f]
                          \/ shadow'[f] \in {"ok", "no", "junk"}
    <2>1. CASE ReadLost
      BY <2>1, LostRead
    <2>2. CASE ~ReadLost
      BY <1>3, <2>2, ReadEffect
    <2> QED
      BY <2>1, <2>2
  <1>6. Known(chip')
    BY <1>1, <1>4 DEF KnownState
  <1>7. ASSUME Filled'
        PROVE  Filled
    <2>1. Moves
      BY <1>1, StepMoves DEF Next
    <2>2. CASE call = "attach"
      <3>1. stage = 1 /\ next = 1
        BY <1>1, <2>2, OpsAre
      <3>2. Len(Stages[stage].steps) = 2 /\ ~Now.checked
        <4>1. Now = Step("read") /\ Len(Stages[stage].steps) = 2
          BY <2>2, <3>1, AtGetIdRead
        <4> QED
          BY <4>1, StepFields DEF Ops
      <3>3. Advance(1)
        BY <3>2 DEF ReadRegs, ReadFails, Fails, ReadLost, Lost
      <3>4. GoTo(2)
        BY <3>1, <3>2, <3>3 DEF Advance
      <3> QED
        BY <1>7, <2>2, <3>1, <3>4 DEF GoTo, Filled
    <2>3. CASE call # "attach"
      BY <1>1, <2>3 DEF Filled, TypeOK
    <2> QED
      BY <2>2, <2>3
  <1> QED
    BY <1>4, <1>5, <1>6, <1>7 DEF KnownState, Known

LEMMA KnownStep ==
    TypeOK /\ CallState /\ KnownState /\ [Next]_vars => KnownState'
  <1> SUFFICES ASSUME TypeOK, CallState, KnownState, [Next]_vars
               PROVE  KnownState'
    OBVIOUS
  <1>1. CASE Attach
    BY <1>1 DEF Attach, KnownState, Filled, Known
  <1>2. CASE Tune
    BY <1>2 DEF Tune, KnownState, Filled, Known
  <1>3. CASE WriteRegs \/ WriteFails \/ WriteLost
    <2>1. badReads' = badReads
      BY <1>3, WriteEffect, LostWrite
    <2> QED
      BY <1>3, <2>1, WriteKnown DEF KnownState, Known
  <1>4. CASE ReadRegs \/ ReadFails \/ ReadLost
    BY <1>4, ReadKnown
  <1>5. CASE Identify
    <2>1. /\ call = "attach" /\ stage = 1 /\ next = 2
          /\ \/ id' = "none" /\ Return("error")
             \/ id' # "none" /\ NextBegins
      BY <1>5, IdentifyType
    <2>2. ~Filled'
      BY <2>1 DEF Return, NextBegins, Filled
    <2> QED
      BY <1>5, <2>2 DEF Identify, KnownState, Known
  <1>6. CASE IrTest \/ RfTest \/ Calibrated \/ Branch
    <2>1. /\ call # "none" /\ UNCHANGED <<chip, shadow, badReads>>
          /\ Now.op \in {"ir_test", "rf_test", "calibrated", "skip", "back"}
      BY <1>6, TestEffect
    <2>2. call = "tune"
      BY <2>1, OpsAre DEF TypeOK
    <2>3. Filled
      BY <2>2 DEF Filled
    <2> QED
      BY <2>1, <2>3 DEF KnownState, Known
  <1>7. CASE UNCHANGED vars
    BY <1>7 DEF vars, KnownState, Filled, Known
  <1> QED
    BY <1>1, <1>2, <1>3, <1>4, <1>5, <1>6, <1>7 DEF Next

-----------------------------------------------------------------------------
\* The stages of tda18271_tune.  In a step that is sound no transfer is lost.
Sound ==
    \/ Attach \/ Tune
    \/ WriteRegs \/ ReadRegs \/ Identify \/ IrTest \/ RfTest \/ Calibrated \/ Branch
    \/ WriteFails \/ ReadFails

LEMMA SoundMoves ==
    ASSUME TypeOK, Sound, call # "none"
    PROVE  Moves
  BY StepMoves DEF Next, Sound

LEMMA SoundKeeps ==
    ASSUME TypeOK, Sound, call # "none"
    PROVE  lost' = lost
  BY DEF Sound, Attach, Tune, WriteRegs, ReadRegs, Identify, IrTest, RfTest, Calibrated, Branch,
         WriteFails, ReadFails, Fails, Others

TuneGoal ==
    /\ call' = "tune" => TuneState'
    /\ call' = "none" => Held' /\ TuneLeavesNormal'

LEMMA OnlyWrites ==
    ASSUME Sound, call # "none", Now.op = "write"
    PROVE  WriteRegs \/ WriteFails
  BY DEF Sound, Attach, Tune, ReadRegs, Reads, Identify, IrTest, RfTest, Calibrated, Branch, ReadFails

LEMMA WriteControl ==
    ASSUME WriteRegs \/ WriteFails
    PROVE  (WriteRegs /\ Advance(1) /\ quiet' = quiet) \/ (WriteFails /\ Fails)
  BY DEF WriteRegs, WriteFails

LEMMA HeldKept ==
    ASSUME TypeOK, Held, WriteRegs \/ WriteFails, Now.range \cap CalFields = {}
    PROVE  Held'
  <1>1. \A f \in Fields : f \notin Now.range => chip'[f] = chip[f]
    BY WriteEffect
  <1>2. calibrated' = calibrated /\ lost' = lost
    BY WriteEffect
  <1>3. CalFields \subseteq Fields
    BY FieldsAre DEF CalFields
  <1>4. \A f \in CalFields : chip'[f] = chip[f]
    BY <1>1, <1>3
  <1> QED
    BY <1>2, <1>4 DEF Held, Released, CalFields

LEMMA HeldSame ==
    ASSUME Held, chip' = chip, calibrated' => calibrated, lost' = "none" => lost = "none"
    PROVE  Held'
  BY DEF Held, Released

LEMMA HeldFree ==
    ASSUME calibrated' = FALSE
    PROVE  Held'
  BY DEF Held

LEMMA OffFields == "EP3_sm" \in Fields /\ "EP3_lt" \in Fields
  BY FieldsAre

LEMMA OffSet ==
    ASSUME TypeOK, WriteRegs \/ WriteFails,
           \A f \in EP3 : IF f \in DOMAIN Now.edit THEN Now.edit[f] = "off" ELSE shadow[f] = "off"
    PROVE  /\ Off(shadow')
           /\ Off(chip) => Off(chip')
           /\ WriteRegs /\ EP3 \subseteq Now.range => Off(chip')
  BY WriteEffect, OffFields DEF Off, EP3

LEMMA OffKept ==
    ASSUME TypeOK, WriteRegs \/ WriteFails, DOMAIN Now.edit \cap EP3 = {}, Off(shadow)
    PROVE  /\ Off(shadow')
           /\ Off(chip) => Off(chip')
  BY WriteEffect, OffFields DEF Off, EP3

LEMMA OffRead ==
    ASSUME TypeOK, ReadRegs \/ ReadFails, Now.op = "read", Off(shadow), Off(chip)
    PROVE  Off(shadow') /\ Off(chip')
  BY ReadEffect, OffFields DEF Off

LEMMA ErrorEnds ==
    ASSUME call = "tune", Return("error"), Held'
    PROVE  TuneGoal
  BY DEF Return, TuneGoal, TuneLeavesNormal

LEMMA AtStage1 ==
    ASSUME TypeOK, call = "tune", stage = 1, TuneState, Sound
    PROVE  TuneGoal
  <1>1. /\ Len(Stages) \in {4, 5} /\ Len(Stages[stage].steps) = 1 /\ next = 1
        /\ Now = Standby1 /\ Stages[stage].fail = "fail"
    BY AtStandby
  <1>2. /\ Now.op = "write" /\ Now.checked = TRUE /\ Now.range = EP3
        /\ Now.edit = [EP3_sm |-> "off", EP3_lt |-> "off"]
    BY <1>1, Standby
  <1>3. WriteRegs \/ WriteFails
    BY <1>2, OnlyWrites
  <1>4. Held' /\ id' = id
    <2>1. Held
      BY DEF TuneState
    <2>2. Now.range \cap CalFields = {}
      BY <1>2 DEF EP3, CalFields
    <2> QED
      BY <1>3, <2>1, <2>2, HeldKept, WriteEffect
  <1>5. CASE WriteRegs /\ Advance(1)
    <2>1. Off(shadow') /\ Off(chip')
      <3>1. \A f \in EP3 : f \in DOMAIN Now.edit /\ Now.edit[f] = "off"
        BY <1>2 DEF EP3
      <3>2. EP3 \subseteq Now.range
        BY <1>2
      <3> QED
        BY <1>3, <1>5, <3>1, <3>2, OffSet
    <2>2. stage' = 2 /\ next' = 1 /\ call' = "tune"
      BY <1>1, <1>5 DEF Advance, NextStage
    <2> QED
      BY <1>4, <2>1, <2>2 DEF TuneGoal, TuneState, Last
  <1>6. CASE WriteFails /\ Fails
    <2>1. Return("error")
      BY <1>1, <1>2, <1>6 DEF Fails
    <2> QED
      BY <1>4, <2>1, ErrorEnds
  <1> QED
    BY <1>3, <1>5, <1>6, WriteControl

LEMMA NoJump ==
    ASSUME Sound, call # "none", Now.op \in {"read", "read_extended"}
    PROVE  ReadRegs \/ ReadFails
  BY DEF Sound, Attach, Tune, WriteRegs, WriteFails, Identify, IrTest, RfTest, Calibrated, Branch

\* tda18271_ir_cal_init, from its stage to the first step of the next one.
LEMMA ToStage3 ==
    ASSUME call = "tune", stage = 2, NextBegins, id' = id, Off(chip'), Off(shadow'),
           Held' \/ shadow'["EP1"] = "no"
    PROVE  TuneGoal
  <1>1. call' = "tune" /\ stage' = 3 /\ next' = 1
    BY DEF NextBegins
  <1> QED
    BY <1>1 DEF TuneGoal, TuneState, Last

LEMMA AtStage2Read ==
    ASSUME TypeOK, CallState, call = "tune", stage = 2, next = 1, TuneState, Sound
    PROVE  TuneGoal
  <1>1. Now.op = "read" /\ Now.checked = TRUE /\ Stages[stage].fail = "fail"
        /\ Len(Stages[stage].steps) >= 3 /\ Len(Stages[stage].steps) \in Nat
    BY AtIrCalInit, CheckedRead
  <1>2. ReadRegs \/ ReadFails
    BY <1>1, NoJump
  <1>3. chip' = chip /\ id' = id /\ calibrated' = calibrated /\ lost' = lost
    BY <1>2, ReadEffect
  <1>4. Off(chip) /\ Off(shadow) /\ Held
    BY DEF TuneState
  <1>5. Held'
    BY <1>3, <1>4, HeldSame
  <1>6. CASE ReadRegs
    <2>1. Off(shadow') /\ Off(chip')
      BY <1>1, <1>2, <1>4, OffRead
    <2>2. GoTo(2)
      BY <1>1, <1>6 DEF ReadRegs, Advance
    <2>3. stage' = 2 /\ next' = 2 /\ call' = "tune"
      BY <2>2 DEF GoTo
    <2> QED
      BY <1>3, <1>5, <2>1, <2>3 DEF TuneGoal, TuneState, Last
  <1>7. CASE ReadFails
    <2>1. Return("error")
      BY <1>1, <1>7 DEF ReadFails, Fails
    <2> QED
      BY <1>5, <2>1, ErrorEnds
  <1> QED
    BY <1>2, <1>6, <1>7

LEMMA AtStage2Test ==
    ASSUME TypeOK, CallState, call = "tune", stage = 2, next = 2, TuneState, Sound
    PROVE  TuneGoal
  <1>1. Now.op = "ir_test" /\ Len(Stages) \in {4, 5}
        /\ Len(Stages[stage].steps) >= 3 /\ Len(Stages[stage].steps) \in Nat
    BY AtIrCalInit, StepFields DEF Ops
  <1>2. IrTest
    BY <1>1 DEF Sound, Attach, Tune, WriteRegs, WriteFails, ReadRegs, ReadFails, Reads, Identify,
                RfTest, Calibrated, Branch
  <1>3. chip' = chip /\ shadow' = shadow /\ id' = id /\ calibrated' = calibrated /\ lost' = lost
    BY <1>2 DEF IrTest, Others
  <1>4. Off(chip') /\ Off(shadow') /\ Held
    BY <1>3 DEF TuneState
  <1>5. Held'
    BY <1>3, <1>4, HeldSame
  <1>6. CASE Advance(1)
    <2>1. GoTo(3)
      BY <1>1, <1>6 DEF Advance
    <2>2. stage' = 2 /\ next' = 3 /\ call' = "tune"
      BY <2>1 DEF GoTo
    <2> QED
      BY <1>3, <1>4, <1>5, <2>2 DEF TuneGoal, TuneState, Last
  <1>7. CASE NextStage
    <2>1. NextBegins
      <3>1. stage # Len(Stages)
        <4>1. Len(Stages) \in {4, 5}
          BY <1>1
        <4> QED
          BY <4>1
      <3> QED
        BY <1>7, <3>1, NextStageMoves
    <2> QED
      BY <1>3, <1>4, <1>5, <2>1, ToStage3
  <1> QED
    BY <1>2, <1>6, <1>7 DEF IrTest

LEMMA AtStage2Init ==
    ASSUME TypeOK, CallState, call = "tune", stage = 2, next >= 3, TuneState, Sound
    PROVE  TuneGoal
  <1>1. /\ Len(Stages) \in {4, 5}
        /\ next = 3 => Now = First1
        /\ next > 3 => Now \in InitStep
    BY AtIrCalInit
  <1>2. next \in Nat /\ Off(chip) /\ Off(shadow)
    BY Position DEF TuneState
  <1>3. /\ Now.op = "write" /\ Now.checked = FALSE
        /\ \A f \in EP3 : IF f \in DOMAIN Now.edit THEN Now.edit[f] = "off" ELSE shadow[f] = "off"
        /\ IF "EP1" \in DOMAIN Now.edit THEN Now.edit["EP1"] = "no" ELSE shadow["EP1"] = "no"
    <2>1. CASE next = 3
      <3>1. Now = First1
        BY <1>1, <2>1
      <3>2. First1.edit = InitValues
        BY First1Is
      <3>3. /\ DOMAIN First1.edit = Fields
            /\ First1.edit["EP1"] = "no"
            /\ First1.edit["EP3_sm"] = "off" /\ First1.edit["EP3_lt"] = "off"
        BY <3>2, InitValuesType
      <3>4. First1.op = "write" /\ First1.checked = FALSE
        BY First1Is
      <3> HIDE DEF First1
      <3> QED
        BY <3>1, <3>3, <3>4, FieldsAre DEF EP3
    <2>2. CASE next > 3
      <3>1. Now \in InitStep /\ Now \in AnyStep
        BY <1>1, <2>2, NowIs
      <3>2. shadow["EP1"] = "no"
        BY <1>2, <2>2 DEF TuneState
      <3>3. Now.checked = FALSE
        BY <3>1 DEF InitStep, AnyStep
      <3> QED
        BY <1>2, <3>1, <3>2, <3>3 DEF InitStep, Off, EP3
    <2>3. next = 3 \/ next > 3
      BY <1>2
    <2> QED
      BY <2>1, <2>2, <2>3, Zenon
  <1>4. WriteRegs \/ WriteFails
    BY <1>3, OnlyWrites
  <1>5. Off(shadow') /\ Off(chip') /\ id' = id
    BY <1>2, <1>3, <1>4, OffSet, WriteEffect
  <1>6. shadow'["EP1"] = "no"
    BY <1>3, <1>4, WriteEffect, FieldsAre
  <1>7. Advance(1)
    BY <1>3, <1>4, WriteControl DEF Fails
  <1>8. GoTo(next + 1) \/ NextBegins
    BY <1>1, <1>7 DEF Advance, NextStage, NextBegins
  <1>9. CASE GoTo(next + 1)
    <2>1. stage' = 2 /\ call' = "tune" /\ next' = next + 1
      BY <1>9 DEF GoTo
    <2>2. ~(next' <= 3)
      BY <1>2, <2>1
    <2> QED
      BY <1>5, <1>6, <2>1, <2>2 DEF TuneGoal, TuneState, Last
  <1>10. CASE NextBegins
    BY <1>5, <1>6, <1>10, ToStage3
  <1> QED
    BY <1>8, <1>9, <1>10

LEMMA AtStage2 ==
    ASSUME TypeOK, CallState, call = "tune", stage = 2, TuneState, Sound
    PROVE  TuneGoal
  <1>1. next \in Nat /\ next >= 1
    BY Position
  <1>2. next = 1 \/ next = 2 \/ next >= 3
    BY <1>1
  <1> QED
    BY <1>2, AtStage2Read, AtStage2Test, AtStage2Init

LEMMA ToLast ==
    ASSUME call = "tune", stage + 1 = Last, NextBegins, id' = id, Off(shadow'), Held'
    PROVE  TuneGoal
  <1>1. call' = "tune" /\ stage' = Last /\ next' = 1 /\ Last' = Last
    BY DEF NextBegins, Last
  <1>2. Last = IF id = "C2" THEN 5 ELSE 4
    BY DEF Last
  <1>3. Configured'
    BY <1>1 DEF Configured
  <1> HIDE DEF Last
  <1> QED
    BY <1>1, <1>2, <1>3 DEF TuneGoal, TuneState

\* tda18271c1_rf_tracking_filter_calibration.
LEMMA AtStage3C1 ==
    ASSUME TypeOK, CallState, call = "tune", stage = 3, id # "C2", TuneState, Sound
    PROVE  TuneGoal
  <1>1. Len(Stages) = 4 /\ Stages[stage].fail = "go on" /\ Now \in ImageStep
    BY AtFilterCalibration
  <1>2. Now.op = "write" /\ DOMAIN Now.edit \cap EP3 = {}
    BY <1>1 DEF ImageStep
  <1>3. WriteRegs \/ WriteFails
    BY <1>2, OnlyWrites
  <1>4. id = "C1" /\ calibrated = FALSE
    BY DEF TypeOK, CallState
  <1>5. Off(chip) /\ Off(shadow)
    BY <1>4 DEF TuneState
  <1>6. Off(chip') /\ Off(shadow')
    BY <1>2, <1>3, <1>5, OffKept
  <1>7. id' = id /\ calibrated' = FALSE
    BY <1>3, <1>4, WriteEffect
  <1>8. Held'
    BY <1>7, HeldFree
  <1>9. GoTo(next + 1) \/ NextBegins
    <2>1. Advance(1) \/ NextStage
      BY <1>1, <1>3, WriteControl DEF Fails
    <2>2. NextStage => NextBegins
      <3>1. stage # Len(Stages)
        <4>1. Len(Stages) = 4
          BY <1>1
        <4> QED
          BY <4>1
      <3> QED
        BY <3>1, NextStageMoves
    <2> QED
      BY <2>1, <2>2 DEF Advance
  <1>10. CASE GoTo(next + 1)
    <2>1. stage' = 3 /\ call' = "tune"
      BY <1>10 DEF GoTo
    <2> QED
      BY <1>4, <1>6, <1>7, <2>1 DEF TuneGoal, TuneState, Last
  <1>11. CASE NextBegins
    <2>1. stage + 1 = Last
      BY <1>4 DEF Last
    <2> QED
      BY <1>6, <1>7, <1>8, <1>11, <2>1, ToLast
  <1> QED
    BY <1>9, <1>10, <1>11

\* tda18271c2_rf_cal_init, from its stage to the first step of the next one.
LEMMA ToStage4 ==
    ASSUME call = "tune", stage = 3, id = "C2", NextBegins, id' = id, Held'
    PROVE  TuneGoal
  <1>1. call' = "tune" /\ stage' = 4 /\ next' = 1
    BY DEF NextBegins
  <1> QED
    BY <1>1 DEF TuneGoal, TuneState, Last

LEMMA InStage3 ==
    ASSUME call = "tune", stage = 3, id = "C2", NEW k \in Nat \ {0}, GoTo(k), id' = id,
           calibrated' = FALSE, k > 1 => Restored'
    PROVE  TuneGoal
  <1>1. call' = "tune" /\ stage' = 3 /\ next' = k
    BY DEF GoTo
  <1>2. Held'
    BY HeldFree
  <1>3. TuneState'
    <2>1. CASE k = 1
      BY <1>1, <1>2, <2>1 DEF TuneState, Last
    <2>2. CASE k > 1
      BY <1>1, <1>2, <2>2 DEF TuneState, Last
    <2> QED
      BY <2>1, <2>2
  <1> QED
    BY <1>1, <1>3 DEF TuneGoal

LEMMA AtStage3Test ==
    ASSUME TypeOK, CallState, call = "tune", stage = 3, id = "C2", next = 1, TuneState, Sound
    PROVE  TuneGoal
  <1>1. /\ Now.op = "rf_test" /\ Len(Stages) = 5
        /\ PorBegins \in Nat /\ PorBegins >= 2 /\ Len(Stages[stage].steps) = PorBegins + 4
    BY AtRfCalInit, StepFields DEF Ops
  <1>2. RfTest
    BY <1>1 DEF Sound, Attach, Tune, WriteRegs, WriteFails, ReadRegs, ReadFails, Reads, Identify,
                IrTest, Calibrated, Branch
  <1>3. chip' = chip /\ shadow' = shadow /\ id' = id /\ calibrated' \in BOOLEAN /\ lost' = lost
    BY <1>2, TestEffect DEF RfTest
  <1>4. CASE calibrated' = TRUE
    <2>1. calibrated /\ shadow["EP1"] # "no"
      BY <1>2, <1>4 DEF RfTest
    <2>2. Held
      BY <2>1 DEF TuneState
    <2>3. Held'
      BY <1>3, <2>1, <2>2, HeldSame
    <2>4. NextStage
      BY <1>2, <1>4 DEF RfTest
    <2>5. NextBegins
      <3>1. stage # Len(Stages)
        <4>1. Len(Stages) = 5
          BY <1>1
        <4> QED
          BY <4>1
      <3> QED
        BY <2>4, <3>1, NextStageMoves
    <2> QED
      BY <1>3, <2>3, <2>5, ToStage4
  <1>5. CASE calibrated' = FALSE
    <2>1. Advance(1)
      BY <1>2, <1>5 DEF RfTest
    <2>2. GoTo(2)
      BY <1>1, <2>1 DEF Advance
    <2>3. Restored'
      <3> DEFINE p == PorBegins
      <3>1. p' = p
        BY DEF PorBegins
      <3>2. next' = 2 /\ p \in Nat /\ p >= 2
        BY <1>1, <2>2 DEF GoTo
      <3> QED
        BY <3>1, <3>2 DEF Restored
    <2>4. 2 \in Nat \ {0} /\ id' = id
      BY <1>3
    <2> QED
      BY <1>5, <2>2, <2>3, <2>4, InStage3, Zenon
  <1> QED
    BY <1>3, <1>4, <1>5

LEMMA RestoredEarly ==
    ASSUME NEW k \in Nat, next' = k, k <= PorBegins, PorBegins \in Nat
    PROVE  Restored'
  <1> DEFINE p == PorBegins
  <1>1. p' = p
    BY DEF PorBegins
  <1>2. p \in Nat /\ k <= p
    OBVIOUS
  <1> HIDE DEF p
  <1>3. ~(k > p) /\ ~(k > p + 1) /\ ~(k > p + 2) /\ ~(k > p + 3)
    BY <1>2
  <1> QED
    BY <1>1, <1>3 DEF Restored, p

LEMMA OnlyCalc ==
    ASSUME Sound, call # "none", Now \in CalcStep
    PROVE  WriteRegs \/ WriteFails \/ ReadRegs \/ ReadFails \/ Branch
  BY DEF Sound, Attach, Tune, Identify, IrTest, RfTest, Calibrated, CalcStep

\* The measurements, scans and calibrations of tda18271_calc_rf_filter_curve.
LEMMA AtStage3Calc ==
    ASSUME TypeOK, CallState, call = "tune", stage = 3, id = "C2", next > 1, next < PorBegins,
           TuneState, Sound
    PROVE  TuneGoal
  <1> DEFINE p == PorBegins
             m == Len(Stages[stage].steps)
  <1>1. /\ Len(Stages) = 5 /\ Stages[stage].fail = "go on"
        /\ p \in Nat /\ m = p + 4
        /\ Now \in CalcStep /\ (Now.op = "skip" => next + Now.n <= p)
    BY AtRfCalInit
  <1>2. next \in Nat /\ next > 1 /\ next < p
    BY Position
  <1>3. calibrated = FALSE
    BY <1>2 DEF TuneState, TypeOK
  <1>4. p \in Nat /\ m = p + 4
    BY <1>1
  <1> HIDE DEF p, m
  <1>5. ASSUME NEW k \in Nat \ {0}, k <= p, GoTo(k), id' = id, calibrated' = FALSE
        PROVE  TuneGoal
    <2>1. next' = k
      BY <1>5 DEF GoTo
    <2>2. Restored'
      BY <1>5, <1>4, <2>1, RestoredEarly DEF p
    <2> QED
      BY <1>5, <2>2, InStage3
  <1>6. ASSUME NextStage, id' = id, calibrated' = FALSE
        PROVE  TuneGoal
    <2>1. NextBegins
      <3>1. Len(Stages) = 5
        BY <1>1
      <3>2. stage # Len(Stages)
        BY <3>1
      <3> QED
        BY <1>6, <3>2, NextStageMoves
    <2>2. Held'
      BY <1>6, HeldFree
    <2> QED
      BY <1>6, <2>1, <2>2, ToStage4
  <1>7. ASSUME NEW n \in Nat \ {0}, next + n <= p, Advance(n), id' = id, calibrated' = FALSE
        PROVE  TuneGoal
    <2>1. next + n <= m /\ next + n \in Nat \ {0}
      BY <1>2, <1>7, <1>4
    <2>2. GoTo(next + n)
      BY <1>7, <2>1 DEF Advance, m
    <2> DEFINE k == next + n
    <2>3. k \in Nat \ {0} /\ k <= p /\ GoTo(k)
      BY <1>7, <2>1, <2>2
    <2> HIDE DEF k
    <2> QED
      BY <1>5, <1>7, <2>3
  <1>8. 1 \in Nat \ {0} /\ next + 1 <= p
    BY <1>2, <1>4
  <1>9. CASE WriteRegs \/ WriteFails \/ ReadRegs \/ ReadFails
    <2>1. id' = id /\ calibrated' = FALSE
      BY <1>3, <1>9, WriteEffect, ReadEffect
    <2>2. Advance(1) \/ NextStage
      BY <1>1, <1>9 DEF WriteRegs, WriteFails, ReadRegs, ReadFails, Fails
    <2> QED
      BY <1>6, <1>7, <1>8, <2>1, <2>2
  <1>10. CASE Branch
    <2>1. id' = id /\ calibrated' = FALSE
      BY <1>3, <1>10 DEF Branch
    <2>2. CASE Advance(1)
      BY <1>7, <1>8, <2>1, <2>2
    <2>3. CASE Now.op = "skip" /\ Advance(Now.n)
      <3>1. Now.n \in Nat \ {0} /\ next + Now.n <= p
        <4>1. Now.n \in 1..(m + 1 - next)
          BY <2>3, NowIs DEF m
        <4>2. Now.n \in Nat \ {0}
          BY <1>2, <1>4, <4>1
        <4>3. next + Now.n <= p
          BY <1>1, <2>3
        <4> QED
          BY <4>2, <4>3
      <3> DEFINE n == Now.n
      <3>2. n \in Nat \ {0} /\ next + n <= p /\ Advance(n)
        BY <2>3, <3>1
      <3> HIDE DEF n
      <3> QED
        BY <1>7, <2>1, <3>2
    <2>4. CASE Now.op = "back" /\ GoTo(next - Now.n)
      <3> DEFINE k == next - Now.n
      <3>1. k \in Nat \ {0} /\ k <= p
        <4>1. Now.n \in 1..(next - 1)
          BY <2>4, NowIs
        <4> DEFINE n == Now.n
        <4>2. n \in 1..(next - 1)
          BY <4>1
        <4> HIDE DEF n
        <4>3. next - n \in Nat \ {0} /\ next - n <= p
          BY <1>2, <1>4, <4>2
        <4> QED
          BY <4>3 DEF n
      <3>2. GoTo(k)
        BY <2>4
      <3> HIDE DEF k
      <3> QED
        BY <1>5, <2>1, <3>1, <3>2
    <2> QED
      BY <1>10, <2>2, <2>3, <2>4 DEF Branch
  <1> QED
    BY <1>1, <1>9, <1>10, OnlyCalc

\* tda18271_por: a step that fails leaves the stage without the flag.
LEMMA PorMoves ==
    ASSUME TypeOK, CallState, call = "tune", stage = 3, id = "C2", TuneState, Sound,
           NEW k \in 0..3, next = PorBegins + k, Now.op = "write", Now.checked = TRUE
    PROVE  /\ WriteRegs \/ WriteFails
           /\ id' = id /\ calibrated' = FALSE
           /\ TuneGoal \/ (WriteRegs /\ GoTo(next + 1))
  <1> DEFINE p == PorBegins
             m == Len(Stages[stage].steps)
  <1>1. Len(Stages) = 5 /\ Stages[stage].fail = "go on"
    BY AtRfCalInit
  <1>2. p \in Nat /\ p >= 2 /\ m = p + 4 /\ next = p + k
    BY AtRfCalInit
  <1> HIDE DEF p, m
  <1>3. next # 1 /\ next + 1 <= m
    BY <1>2
  <1>4. calibrated = FALSE
    BY <1>3 DEF TuneState, TypeOK
  <1>5. WriteRegs \/ WriteFails
    BY OnlyWrites
  <1>6. id' = id /\ calibrated' = FALSE
    BY <1>4, <1>5, WriteEffect
  <1>7. CASE WriteRegs /\ Advance(1)
    BY <1>3, <1>5, <1>6, <1>7 DEF Advance, m
  <1>8. CASE WriteFails /\ Fails
    <2>1. NextStage
      BY <1>1, <1>8 DEF Fails
    <2>2. NextBegins
      <3>1. Len(Stages) = 5
        BY <1>1
      <3>2. stage # Len(Stages)
        BY <3>1
      <3> QED
        BY <2>1, <3>2, NextStageMoves
    <2>3. Held'
      BY <1>6, HeldFree
    <2>4. TuneGoal
      BY <1>6, <2>2, <2>3, ToStage4
    <2> QED
      BY <1>5, <1>6, <2>4
  <1> QED
    BY <1>5, <1>7, <1>8, WriteControl

LEMMA WhatWritten ==
    ASSUME TypeOK, WriteRegs, NEW f \in Fields \ {"ID", "EP1"}
    PROVE  /\ shadow'[f] = IF f \in DOMAIN Now.edit THEN Now.edit[f] ELSE shadow[f]
           /\ f \in Now.range => chip'[f] = shadow'[f]
           /\ f \notin Now.range => chip'[f] = chip[f]
  BY WriteEffect

LEMMA CalFieldsAre ==
    CalFields \subseteq Fields \ {"ID", "EP1"}
  BY FieldsAre DEF CalFields

LEMMA PorRestored ==
    ASSUME TypeOK, TuneState, call = "tune", stage = 3, id = "C2", WriteRegs,
           NEW k \in 0..3, next = PorBegins + k, PorBegins \in Nat, PorBegins >= 2,
           next' = next + 1, Now = IF k = 0 THEN Por1 ELSE IF k = 1 THEN Por2
                                   ELSE IF k = 2 THEN Por3 ELSE Por4
    PROVE  Restored'
  <1> DEFINE p == PorBegins
  <1>1. p' = p
    BY DEF PorBegins
  <1>2. p \in Nat /\ p >= 2 /\ next = p + k /\ next' = p + k + 1
    OBVIOUS
  <1>3. Restored
    <2>1. next # 1
      BY <1>2
    <2> QED
      BY <2>1 DEF TuneState
  <1>4. \A f \in CalFields :
           /\ shadow'[f] = IF f \in DOMAIN Now.edit THEN Now.edit[f] ELSE shadow[f]
           /\ f \in Now.range => chip'[f] = shadow'[f]
           /\ f \notin Now.range => chip'[f] = chip[f]
    BY WhatWritten, CalFieldsAre
  <1>5. CalFields = {"EB12", "EB18_loop", "EB18_gain", "EB21", "EB23"}
    BY DEF CalFields
  <1>6. /\ k > 0 => chip["EB12"] = "up"
        /\ k > 1 => chip["EB18_loop"] = "on" /\ chip["EB18_gain"] = "6dB"
        /\ k > 2 => shadow["EB21"] = "-6dB"
    BY <1>2, <1>3 DEF Restored
  <1>7. SUFFICES /\ chip'["EB12"] = "up"
                 /\ k > 0 => chip'["EB18_loop"] = "on" /\ chip'["EB18_gain"] = "6dB"
                 /\ k > 1 => shadow'["EB21"] = "-6dB"
                 /\ k > 2 => chip'["EB21"] = "-6dB" /\ chip'["EB23"] = "off"
    <2> HIDE DEF p
    <2>1. /\ next' > p + 1 => k > 0
          /\ next' > p + 2 => k > 1
          /\ next' > p + 3 => k > 2
      BY <1>2
    <2> QED
      BY <1>1, <2>1 DEF Restored, p
  <1>8. CASE k = 0
    <2>1. Now.edit = [EB12 |-> "up"] /\ Now.range = {"EB12"}
      BY <1>8, Por
    <2> QED
      BY <1>4, <1>5, <1>8, <2>1
  <1>9. CASE k = 1
    <2>1. Now.edit = [EB18_loop |-> "on", EB18_gain |-> "6dB"] /\ Now.range = EB18
      BY <1>9, Por
    <2> QED
      BY <1>4, <1>5, <1>6, <1>9, <2>1 DEF EB18
  <1>10. CASE k = 2
    <2>1. Now.edit = [EB21 |-> "-6dB", EP3_sm |-> "on", EP3_lt |-> "off"] /\ Now.range = EP3
      BY <1>10, Por
    <2> QED
      BY <1>4, <1>5, <1>6, <1>10, <2>1 DEF EP3
  <1>11. CASE k = 3
    <2>1. Now.edit = [EB23 |-> "off"] /\ Now.range = {"EB21", "EB23"}
      BY <1>11, Por
    <2> QED
      BY <1>4, <1>5, <1>6, <1>11, <2>1
  <1> QED
    BY <1>8, <1>9, <1>10, <1>11

LEMMA AtStage3Por ==
    ASSUME TypeOK, CallState, call = "tune", stage = 3, id = "C2", TuneState, Sound,
           NEW k \in 0..3, next = PorBegins + k
    PROVE  TuneGoal
  <1>1. /\ PorBegins \in Nat /\ PorBegins >= 2
        /\ Now = IF k = 0 THEN Por1 ELSE IF k = 1 THEN Por2 ELSE IF k = 2 THEN Por3 ELSE Por4
    <2>1. /\ PorBegins \in Nat /\ PorBegins >= 2
          /\ next = PorBegins => Now = Por1
          /\ next = PorBegins + 1 => Now = Por2
          /\ next = PorBegins + 2 => Now = Por3
          /\ next = PorBegins + 3 => Now = Por4
      BY AtRfCalInit
    <2> DEFINE p == PorBegins
    <2> HIDE DEF p
    <2>2. /\ k = 0 => next = p
          /\ k \in {0, 1, 2, 3}
      BY <2>1 DEF p
    <2> QED
      BY <2>1, <2>2 DEF p
  <1>2. Now.op = "write" /\ Now.checked = TRUE
    BY <1>1, Por
  <1>3. /\ WriteRegs \/ WriteFails
        /\ id' = id /\ calibrated' = FALSE
        /\ TuneGoal \/ (WriteRegs /\ GoTo(next + 1))
    BY <1>2, PorMoves
  <1>4. CASE WriteRegs /\ GoTo(next + 1)
    <2>1. next' = next + 1
      BY <1>4 DEF GoTo
    <2>2. Restored'
      BY <1>1, <1>4, <2>1, PorRestored
    <2> DEFINE n == next + 1
    <2>3. n \in Nat \ {0}
      BY Position
    <2>4. GoTo(n)
      BY <1>4
    <2> HIDE DEF n
    <2> QED
      BY <1>3, <2>2, <2>3, <2>4, InStage3
  <1> QED
    BY <1>3, <1>4

LEMMA AtStage3Calibrated ==
    ASSUME TypeOK, CallState, call = "tune", stage = 3, id = "C2", TuneState, Sound,
           next = PorBegins + 4
    PROVE  TuneGoal
  <1> DEFINE p == PorBegins
             m == Len(Stages[stage].steps)
  <1>1. Len(Stages) = 5 /\ Now.op = "calibrated"
    BY AtRfCalInit, StepFields DEF Ops
  <1>2. p \in Nat /\ p >= 2 /\ m = p + 4 /\ next = p + 4
    BY AtRfCalInit
  <1> HIDE DEF p, m
  <1>3. next # 1 /\ next > p /\ next > p + 1 /\ next > p + 3 /\ ~(next + 1 <= m)
    BY <1>2
  <1>4. Restored
    BY <1>3 DEF TuneState
  <1>5. Released
    BY <1>3, <1>4 DEF Restored, Released, p
  <1>6. Calibrated
    BY <1>1 DEF Sound, Attach, Tune, WriteRegs, WriteFails, ReadRegs, ReadFails, Reads, Identify,
                IrTest, RfTest, Branch
  <1>7. Held' /\ id' = id
    BY <1>5, <1>6 DEF Calibrated, Held, Released
  <1>8. NextStage
    BY <1>3, <1>6 DEF Calibrated, Advance, m
  <1>9. NextBegins
    <2>1. Len(Stages) = 5
      BY <1>1
    <2>2. stage # Len(Stages)
      BY <2>1
    <2> QED
      BY <1>8, <2>2, NextStageMoves
  <1> QED
    BY <1>7, <1>9, ToStage4

LEMMA AtStage3C2 ==
    ASSUME TypeOK, CallState, call = "tune", stage = 3, id = "C2", TuneState, Sound
    PROVE  TuneGoal
  <1> DEFINE p == PorBegins
  <1>1. next \in Nat /\ next >= 1 /\ next <= Len(Stages[stage].steps)
    BY Position
  <1>2. p \in Nat /\ p >= 2 /\ Len(Stages[stage].steps) = p + 4
    BY AtRfCalInit
  <1> HIDE DEF p
  <1>3. \/ next = 1
        \/ next > 1 /\ next < p
        \/ \E k \in 0..3 : next = p + k
        \/ next = p + 4
    <2>1. next \in Nat /\ next >= 1 /\ next <= p + 4
      BY <1>1, <1>2
    <2>2. CASE next >= p /\ next < p + 4
      <3> DEFINE k == next - p
      <3>1. k \in 0..3 /\ next = p + k
        BY <1>2, <2>1, <2>2
      <3> QED
        BY <3>1
    <2> QED
      BY <1>2, <2>1, <2>2
  <1>4. CASE next = 1
    BY <1>4, AtStage3Test
  <1>5. CASE next > 1 /\ next < p
    BY <1>5, AtStage3Calc DEF p
  <1>6. CASE \E k \in 0..3 : next = p + k
    BY <1>6, AtStage3Por DEF p
  <1>7. CASE next = p + 4
    BY <1>7, AtStage3Calibrated DEF p
  <1> QED
    BY <1>3, <1>4, <1>5, <1>6, <1>7

\* tda18271c2_rf_tracking_filters_correction.
LEMMA AtStage4Standby ==
    ASSUME TypeOK, CallState, call = "tune", stage = 4, id = "C2", next = 1, TuneState, Sound
    PROVE  TuneGoal
  <1>1. Len(Stages) = 5 /\ Stages[stage].fail = "go on" /\ Len(Stages[stage].steps) = 8
        /\ Now = Standby1
    BY AtCorrection
  <1>2. /\ Now.op = "write" /\ Now.checked = TRUE /\ Now.range = EP3
        /\ Now.edit = [EP3_sm |-> "off", EP3_lt |-> "off"]
    BY <1>1, Standby
  <1>3. WriteRegs \/ WriteFails
    BY <1>2, OnlyWrites
  <1>4. Held' /\ id' = id
    <2>1. Held
      BY DEF TuneState
    <2>2. Now.range \cap CalFields = {}
      BY <1>2 DEF EP3, CalFields
    <2> QED
      BY <1>3, <2>1, <2>2, HeldKept, WriteEffect
  <1>5. \A f \in EP3 : f \in DOMAIN Now.edit /\ Now.edit[f] = "off"
    BY <1>2 DEF EP3
  <1>6. Off(shadow')
    BY <1>3, <1>5, OffSet
  <1>7. CASE WriteRegs /\ Advance(1)
    <2>1. Off(chip')
      <3>1. EP3 \subseteq Now.range
        BY <1>2
      <3> QED
        BY <1>3, <1>5, <1>7, <3>1, OffSet
    <2>2. stage' = 4 /\ next' = 2 /\ call' = "tune"
      <3>1. Len(Stages[stage].steps) = 8 /\ Advance(1)
        BY <1>1, <1>7
      <3>2. GoTo(2)
        BY <3>1 DEF Advance
      <3> QED
        BY <3>2 DEF GoTo
    <2> QED
      BY <1>4, <1>6, <2>1, <2>2 DEF TuneGoal, TuneState, Last
  <1>8. CASE WriteFails /\ Fails
    <2>1. NextStage
      BY <1>1, <1>2, <1>8 DEF Fails
    <2>2. NextBegins
      <3>1. Len(Stages) = 5
        BY <1>1
      <3>2. stage # Len(Stages)
        BY <3>1
      <3> QED
        BY <2>1, <3>2, NextStageMoves
    <2>3. stage + 1 = Last
      BY DEF Last
    <2> QED
      BY <1>4, <1>6, <2>2, <2>3, ToLast
  <1> QED
    BY <1>3, <1>7, <1>8, WriteControl

LEMMA OnlyTherm ==
    ASSUME Sound, call # "none", Now \in ThermStep
    PROVE  WriteRegs \/ WriteFails \/ ReadRegs \/ ReadFails \/ Branch
  BY DEF Sound, Attach, Tune, Identify, IrTest, RfTest, Calibrated, ThermStep

LEMMA AtStage4Therm ==
    ASSUME TypeOK, CallState, call = "tune", stage = 4, id = "C2", next > 1, TuneState, Sound
    PROVE  TuneGoal
  <1>1. Len(Stages) = 5 /\ Stages[stage].fail = "go on" /\ Now \in ThermStep
    BY AtCorrection
  <1>2. next \in Nat
    BY Position
  <1>3. Held /\ Off(chip) /\ Off(shadow)
    BY DEF TuneState
  <1>4. ASSUME NEW n \in Nat, Advance(n), id' = id, Held', Off(chip'), Off(shadow')
        PROVE  TuneGoal
    <2>1. \/ GoTo(next + n)
          \/ NextBegins
          \/ stage = Len(Stages)
      BY <1>4, AdvanceIs
    <2>2. CASE GoTo(next + n)
      <3>1. stage' = 4 /\ call' = "tune"
        BY <2>2 DEF GoTo
      <3> QED
        BY <1>4, <3>1 DEF TuneGoal, TuneState, Last
    <2>3. CASE NextBegins
      <3>1. stage + 1 = Last
        BY DEF Last
      <3> QED
        BY <1>4, <2>3, <3>1, ToLast
    <2>4. stage # Len(Stages)
      <3>1. Len(Stages) = 5
        BY <1>1
      <3> QED
        BY <3>1
    <2> QED
      BY <2>1, <2>2, <2>3, <2>4
  <1>5. ASSUME NextStage, id' = id, Held', Off(chip'), Off(shadow')
        PROVE  TuneGoal
    <2>1. NextBegins
      <3>1. Len(Stages) = 5
        BY <1>1
      <3>2. stage # Len(Stages)
        BY <3>1
      <3> QED
        BY <1>5, <3>2, NextStageMoves
    <2>2. stage + 1 = Last
      BY DEF Last
    <2> QED
      BY <1>5, <2>1, <2>2, ToLast
  <1>6. CASE WriteRegs \/ WriteFails
    <2>1. Now.range \cap CalFields = {} /\ DOMAIN Now.edit \cap EP3 = {}
      BY <1>1 DEF ThermStep
    <2>2. id' = id /\ Held' /\ Off(chip') /\ Off(shadow')
      BY <1>3, <1>6, <2>1, HeldKept, OffKept, WriteEffect
    <2>3. Advance(1) \/ NextStage
      BY <1>1, <1>6 DEF WriteRegs, WriteFails, Fails
    <2> QED
      BY <1>4, <1>5, <2>2, <2>3
  <1>7. CASE ReadRegs \/ ReadFails
    <2>1. Now.op = "read"
      BY <1>1, <1>7, ReadEffect DEF ThermStep
    <2>2. Off(chip') /\ Off(shadow')
      BY <1>3, <1>7, <2>1, OffRead
    <2>3. chip' = chip /\ calibrated' = calibrated /\ id' = id /\ lost' = lost
      BY <1>7, ReadEffect
    <2>4. Held'
      BY <1>3, <2>3, HeldSame
    <2>5. Advance(1) \/ NextStage
      BY <1>1, <1>7 DEF ReadRegs, ReadFails, Fails
    <2> QED
      BY <1>4, <1>5, <2>2, <2>3, <2>4, <2>5
  <1>8. CASE Branch
    <2>1. Now.op = "skip"
      BY <1>1, <1>8 DEF ThermStep, Branch
    <2>2. UNCHANGED <<chip, shadow, id, calibrated, lost>>
      BY <1>8 DEF Branch, Others
    <2>3. id' = id /\ Held' /\ Off(chip') /\ Off(shadow')
      BY <1>3, <2>2, HeldSame
    <2>4. Now.n \in Nat
      BY NowIs DEF AnyStep
    <2>5. Advance(1) \/ Advance(Now.n)
      BY <1>8, <2>1 DEF Branch
    <2> QED
      BY <1>4, <2>3, <2>4, <2>5
  <1> QED
    BY <1>1, <1>6, <1>7, <1>8, OnlyTherm

\* tda18271_channel_configuration.
InLast(k) ==
    /\ TypeOK /\ CallState /\ TuneState /\ Sound
    /\ call = "tune" /\ stage = Last /\ next = k

ChannelLength == IF id = "C2" THEN 7 ELSE 6

\* Whatever a step of the stage does, it keeps what the chip is held for, and
\* leads to an error, to the next step or to the end.
LEMMA LastMoves ==
    ASSUME NEW k \in 1..7, InLast(k), Now.op = "write", Now.range \cap CalFields = {},
           DOMAIN Now.edit \cap EP3 = {}
    PROVE  /\ WriteRegs \/ WriteFails
           /\ Held' /\ Off(shadow') /\ id' = id /\ freq' = freq
           /\ \/ TuneGoal
              \/ /\ Now.checked = TRUE => WriteRegs
                 /\ quiet' => quiet /\ WriteRegs
                 /\ \/ k < ChannelLength /\ GoTo(k + 1)
                    \/ k = ChannelLength /\ Return("ok")
  <1> DEFINE m == ChannelLength
  <1>1. /\ TypeOK /\ CallState /\ TuneState /\ Sound
        /\ call = "tune" /\ stage = Last /\ next = k
    BY DEF InLast
  <1>2. /\ Len(Stages) = Last /\ Stages[stage].fail = "fail"
        /\ Len(Stages[stage].steps) = m
    BY <1>1, AtChannel DEF ChannelLength
  <1>3. k \in 1..m
    BY <1>1, AtChannel DEF ChannelLength
  <1>4. m \in {6, 7}
    BY DEF ChannelLength
  <1>5. WriteRegs \/ WriteFails
    BY <1>1, OnlyWrites
  <1>6. Held /\ Off(shadow)
    BY <1>1 DEF TuneState, Configured
  <1>7. Held' /\ Off(shadow') /\ id' = id /\ freq' = freq
    BY <1>1, <1>5, <1>6, HeldKept, OffKept, WriteEffect
  <1> HIDE DEF m
  <1>8. ASSUME Advance(1)
        PROVE  (k < m /\ GoTo(k + 1)) \/ (k = m /\ Return("ok"))
    <2>1. CASE k < m
      <3>1. next + 1 <= Len(Stages[stage].steps)
        BY <1>1, <1>2, <1>3, <1>4, <2>1
      <3> QED
        BY <1>1, <1>8, <2>1, <3>1 DEF Advance
    <2>2. CASE k = m
      <3>1. ~(next + 1 <= Len(Stages[stage].steps))
        BY <1>1, <1>2, <1>4, <2>2
      <3>2. NextStage
        BY <1>8, <3>1 DEF Advance
      <3>3. stage = Len(Stages) /\ Last \in {4, 5}
        BY <1>1, <1>2 DEF Last
      <3>4. ~(stage < Len(Stages))
        BY <1>1, <3>3
      <3> QED
        BY <2>2, <3>2, <3>4 DEF NextStage
    <2> QED
      BY <1>3, <1>4, <2>1, <2>2
  <1>9. CASE WriteRegs /\ Advance(1) /\ quiet' = quiet
    BY <1>5, <1>7, <1>8, <1>9 DEF m
  <1>10. CASE WriteFails /\ Fails
    <2>1. CASE Now.checked
      <3>1. Return("error")
        BY <1>2, <1>10, <2>1 DEF Fails
      <3>2. TuneGoal
        BY <1>1, <1>7, <3>1, ErrorEnds
      <3> QED
        BY <1>5, <1>7, <3>2
    <2>2. CASE ~Now.checked
      <3>1. Advance(1) /\ ~quiet'
        BY <1>10, <2>2 DEF Fails
      <3> QED
        BY <1>5, <1>7, <1>8, <2>2, <3>1 DEF m
    <2> QED
      BY <2>1, <2>2
  <1> QED
    BY <1>5, <1>9, <1>10, WriteControl

LEMMA InLastStage ==
    ASSUME call = "tune", stage = Last, NEW k \in 1..7, GoTo(k), id' = id, Held', Configured'
    PROVE  TuneGoal
  <1>1. call' = "tune" /\ stage' = Last /\ Last' = Last
    BY DEF GoTo, Last
  <1>2. Last = IF id = "C2" THEN 5 ELSE 4
    BY DEF Last
  <1> HIDE DEF Last
  <1> QED
    BY <1>1, <1>2 DEF TuneGoal, TuneState

LEMMA LastEnds ==
    ASSUME call = "tune", Return("ok"), Held', Off(chip'), chip'["EP4"] = "normal",
           chip'["TM"] = "off",
           quiet' => chip'["EB4"] = "off" /\ (freq' = "inside" => chip'["PLL"] = "tuned")
    PROVE  TuneGoal
  BY DEF Return, TuneGoal, TuneLeavesNormal, Held, Released, Off

KeyFields == {"EP3_sm", "EP3_lt", "EP4", "TM", "PLL", "EB4"}

LEMMA LastWrites ==
    ASSUME TypeOK, WriteRegs \/ WriteFails, NEW f \in KeyFields
    PROVE  /\ shadow'[f] = IF f \in DOMAIN Now.edit THEN Now.edit[f] ELSE shadow[f]
           /\ f \notin Now.range => chip'[f] = chip[f]
           /\ chip'[f] = chip[f] \/ chip'[f] = shadow'[f]
           /\ WriteRegs /\ f \in Now.range => chip'[f] = shadow'[f]
  <1>1. f \in Fields \ {"ID", "EP1"}
    BY FieldsAre DEF KeyFields
  <1> QED
    BY <1>1, WriteEffect

LEMMA MainPllIs ==
    /\ DOMAIN MainPll \subseteq {"PLL"}
    /\ freq = "inside" => "PLL" \in DOMAIN MainPll /\ MainPll["PLL"] = "tuned"
  <1>1. CASE freq = "inside"
    BY <1>1 DEF MainPll
  <1>2. CASE freq # "inside"
    <2>1. DOMAIN << >> = {}
      OBVIOUS
    <2> QED
      BY <1>2, <2>1 DEF MainPll
  <1> QED
    BY <1>1, <1>2

LEMMA AtLast1 ==
    ASSUME InLast(1)
    PROVE  TuneGoal
  <1>1. /\ TypeOK /\ TuneState
        /\ call = "tune" /\ stage = Last /\ next = 1
    BY DEF InLast
  <1>2. /\ Now.op = "write" /\ Now.checked = TRUE
        /\ Now.edit = [EP4 |-> "normal"] /\ Now.range = {}
    BY <1>1, AtChannel, ChannelSteps
  <1>3. DOMAIN Now.edit = {"EP4"}
    BY <1>2
  <1>4. Now.range \cap CalFields = {} /\ DOMAIN Now.edit \cap EP3 = {}
    BY <1>2, <1>3 DEF EP3, CalFields
  <1>5. /\ WriteRegs \/ WriteFails
        /\ Held' /\ Off(shadow') /\ id' = id /\ freq' = freq
        /\ \/ TuneGoal
           \/ /\ Now.checked = TRUE => WriteRegs
              /\ quiet' => quiet /\ WriteRegs
              /\ \/ 1 < ChannelLength /\ GoTo(1 + 1)
                 \/ 1 = ChannelLength /\ Return("ok")
    <2>1. 1 \in 1..7
      OBVIOUS
    <2> QED
      BY <1>2, <1>4, <2>1, LastMoves
  <1>6. \A f \in KeyFields :
           /\ shadow'[f] = IF f \in DOMAIN Now.edit THEN Now.edit[f] ELSE shadow[f]
           /\ f \notin Now.range => chip'[f] = chip[f]
           /\ chip'[f] = chip[f] \/ chip'[f] = shadow'[f]
           /\ WriteRegs /\ f \in Now.range => chip'[f] = shadow'[f]
    BY <1>1, <1>5, LastWrites
  <1>7. /\ Off(shadow)
    BY <1>1 DEF TuneState, Configured
  <1>8. SUFFICES ASSUME WriteRegs, quiet' => quiet /\ WriteRegs,
                        \/ 1 < ChannelLength /\ GoTo(2)
                        \/ 1 = ChannelLength /\ Return("ok")
                 PROVE  TuneGoal
    BY <1>2, <1>5
  <1>9. /\ shadow'["EP4"] = "normal"
    BY <1>2, <1>3, <1>5, <1>6, <1>7, <1>8 DEF KeyFields
  <1>10. GoTo(2)
    BY <1>8 DEF ChannelLength
  <1>11. Configured'
    BY <1>5, <1>9, <1>10 DEF Configured, GoTo
  <1>12. 2 \in 1..7
    OBVIOUS
  <1> QED
    BY <1>1, <1>5, <1>10, <1>11, <1>12, InLastStage

LEMMA AtLast2 ==
    ASSUME InLast(2)
    PROVE  TuneGoal
  <1>1. /\ TypeOK /\ TuneState
        /\ call = "tune" /\ stage = Last /\ next = 2
    BY DEF InLast
  <1>2. /\ Now.op = "write" /\ Now.checked = TRUE
        /\ Now.edit = [TM |-> "off"] /\ Now.range = {}
    BY <1>1, AtChannel, ChannelSteps
  <1>3. DOMAIN Now.edit = {"TM"}
    BY <1>2
  <1>4. Now.range \cap CalFields = {} /\ DOMAIN Now.edit \cap EP3 = {}
    BY <1>2, <1>3 DEF EP3, CalFields
  <1>5. /\ WriteRegs \/ WriteFails
        /\ Held' /\ Off(shadow') /\ id' = id /\ freq' = freq
        /\ \/ TuneGoal
           \/ /\ Now.checked = TRUE => WriteRegs
              /\ quiet' => quiet /\ WriteRegs
              /\ \/ 2 < ChannelLength /\ GoTo(2 + 1)
                 \/ 2 = ChannelLength /\ Return("ok")
    <2>1. 2 \in 1..7
      OBVIOUS
    <2> QED
      BY <1>2, <1>4, <2>1, LastMoves
  <1>6. \A f \in KeyFields :
           /\ shadow'[f] = IF f \in DOMAIN Now.edit THEN Now.edit[f] ELSE shadow[f]
           /\ f \notin Now.range => chip'[f] = chip[f]
           /\ chip'[f] = chip[f] \/ chip'[f] = shadow'[f]
           /\ WriteRegs /\ f \in Now.range => chip'[f] = shadow'[f]
    BY <1>1, <1>5, LastWrites
  <1>7. /\ Off(shadow)
        /\ shadow["EP4"] = "normal"
    BY <1>1 DEF TuneState, Configured
  <1>8. SUFFICES ASSUME WriteRegs, quiet' => quiet /\ WriteRegs,
                        \/ 2 < ChannelLength /\ GoTo(3)
                        \/ 2 = ChannelLength /\ Return("ok")
                 PROVE  TuneGoal
    BY <1>2, <1>5
  <1>9. /\ shadow'["EP4"] = "normal"
        /\ shadow'["TM"] = "off"
    BY <1>2, <1>3, <1>5, <1>6, <1>7, <1>8 DEF KeyFields
  <1>10. GoTo(3)
    BY <1>8 DEF ChannelLength
  <1>11. Configured'
    BY <1>5, <1>9, <1>10 DEF Configured, GoTo
  <1>12. 3 \in 1..7
    OBVIOUS
  <1> QED
    BY <1>1, <1>5, <1>10, <1>11, <1>12, InLastStage

LEMMA AtLast3 ==
    ASSUME InLast(3)
    PROVE  TuneGoal
  <1>1. /\ TypeOK /\ TuneState
        /\ call = "tune" /\ stage = Last /\ next = 3
    BY DEF InLast
  <1>2. Now.op = "write" /\ Now.edit = MainPll /\ Now.range = {"PLL"}
    BY <1>1, AtChannel, ChannelSteps
  <1>3. DOMAIN Now.edit \subseteq {"PLL"}
    BY <1>2, MainPllIs
  <1>4. Now.range \cap CalFields = {} /\ DOMAIN Now.edit \cap EP3 = {}
    BY <1>2, <1>3 DEF EP3, CalFields
  <1>5. /\ WriteRegs \/ WriteFails
        /\ Held' /\ Off(shadow') /\ id' = id /\ freq' = freq
        /\ \/ TuneGoal
           \/ /\ Now.checked = TRUE => WriteRegs
              /\ quiet' => quiet /\ WriteRegs
              /\ \/ 3 < ChannelLength /\ GoTo(3 + 1)
                 \/ 3 = ChannelLength /\ Return("ok")
    <2>1. 3 \in 1..7
      OBVIOUS
    <2> QED
      BY <1>2, <1>4, <2>1, LastMoves
  <1>6. \A f \in KeyFields :
           /\ shadow'[f] = IF f \in DOMAIN Now.edit THEN Now.edit[f] ELSE shadow[f]
           /\ f \notin Now.range => chip'[f] = chip[f]
           /\ chip'[f] = chip[f] \/ chip'[f] = shadow'[f]
           /\ WriteRegs /\ f \in Now.range => chip'[f] = shadow'[f]
    BY <1>1, <1>5, LastWrites
  <1>7. /\ Off(shadow)
        /\ shadow["EP4"] = "normal"
        /\ shadow["TM"] = "off"
    BY <1>1 DEF TuneState, Configured
  <1>8. SUFFICES ASSUME quiet' => quiet /\ WriteRegs,
                        \/ 3 < ChannelLength /\ GoTo(4)
                        \/ 3 = ChannelLength /\ Return("ok")
                 PROVE  TuneGoal
    BY <1>2, <1>5
  <1>9. /\ shadow'["EP4"] = "normal"
        /\ shadow'["TM"] = "off"
        /\ quiet' /\ freq' = "inside" => shadow'["PLL"] = "tuned" /\ chip'["PLL"] = "tuned"
    BY <1>2, <1>3, <1>5, <1>6, <1>7, <1>8, MainPllIs DEF KeyFields
  <1>10. GoTo(4)
    BY <1>8 DEF ChannelLength
  <1>11. Configured'
    BY <1>5, <1>9, <1>10 DEF Configured, GoTo
  <1>12. 4 \in 1..7
    OBVIOUS
  <1> QED
    BY <1>1, <1>5, <1>10, <1>11, <1>12, InLastStage

LEMMA AtLast4 ==
    ASSUME InLast(4)
    PROVE  TuneGoal
  <1>1. /\ TypeOK /\ TuneState
        /\ call = "tune" /\ stage = Last /\ next = 4
    BY DEF InLast
  <1>2. /\ Now.op = "write" /\ Now.checked = TRUE
        /\ Now.edit = << >> /\ Now.range = EP3 \cup {"TM", "EP4"}
    BY <1>1, AtChannel, ChannelSteps
  <1>3. DOMAIN Now.edit = {}
    <2>1. DOMAIN << >> = {}
      OBVIOUS
    <2> QED
      BY <1>2, <2>1
  <1>4. Now.range \cap CalFields = {} /\ DOMAIN Now.edit \cap EP3 = {}
    BY <1>2, <1>3 DEF EP3, CalFields
  <1>5. /\ WriteRegs \/ WriteFails
        /\ Held' /\ Off(shadow') /\ id' = id /\ freq' = freq
        /\ \/ TuneGoal
           \/ /\ Now.checked = TRUE => WriteRegs
              /\ quiet' => quiet /\ WriteRegs
              /\ \/ 4 < ChannelLength /\ GoTo(4 + 1)
                 \/ 4 = ChannelLength /\ Return("ok")
    <2>1. 4 \in 1..7
      OBVIOUS
    <2> QED
      BY <1>2, <1>4, <2>1, LastMoves
  <1>6. \A f \in KeyFields :
           /\ shadow'[f] = IF f \in DOMAIN Now.edit THEN Now.edit[f] ELSE shadow[f]
           /\ f \notin Now.range => chip'[f] = chip[f]
           /\ chip'[f] = chip[f] \/ chip'[f] = shadow'[f]
           /\ WriteRegs /\ f \in Now.range => chip'[f] = shadow'[f]
    BY <1>1, <1>5, LastWrites
  <1>7. /\ Off(shadow)
        /\ shadow["EP4"] = "normal"
        /\ shadow["TM"] = "off"
        /\ quiet /\ freq = "inside" => shadow["PLL"] = "tuned" /\ chip["PLL"] = "tuned"
    BY <1>1 DEF TuneState, Configured
  <1>8. SUFFICES ASSUME WriteRegs, quiet' => quiet /\ WriteRegs,
                        \/ 4 < ChannelLength /\ GoTo(5)
                        \/ 4 = ChannelLength /\ Return("ok")
                 PROVE  TuneGoal
    BY <1>2, <1>5
  <1>9. /\ shadow'["EP4"] = "normal"
        /\ shadow'["TM"] = "off"
        /\ quiet' /\ freq' = "inside" => shadow'["PLL"] = "tuned" /\ chip'["PLL"] = "tuned"
        /\ Off(chip') /\ chip'["EP4"] = "normal" /\ chip'["TM"] = "off"
    BY <1>2, <1>3, <1>5, <1>6, <1>7, <1>8 DEF KeyFields, EP3, Off
  <1>10. GoTo(5)
    BY <1>8 DEF ChannelLength
  <1>11. Configured'
    BY <1>5, <1>9, <1>10 DEF Configured, GoTo
  <1>12. 5 \in 1..7
    OBVIOUS
  <1> QED
    BY <1>1, <1>5, <1>10, <1>11, <1>12, InLastStage

LEMMA AtLast5 ==
    ASSUME InLast(5)
    PROVE  TuneGoal
  <1>1. /\ TypeOK /\ TuneState
        /\ call = "tune" /\ stage = Last /\ next = 5
    BY DEF InLast
  <1>2. /\ Now.op = "write" /\ Now.range = {"EB4"}
        /\ Now.edit = [f \in {"EB4"} |-> "on"]
    BY <1>1, AtChannel
  <1>3. DOMAIN Now.edit = {"EB4"}
    BY <1>2
  <1>4. Now.range \cap CalFields = {} /\ DOMAIN Now.edit \cap EP3 = {}
    BY <1>2, <1>3 DEF EP3, CalFields
  <1>5. /\ WriteRegs \/ WriteFails
        /\ Held' /\ Off(shadow') /\ id' = id /\ freq' = freq
        /\ \/ TuneGoal
           \/ /\ Now.checked = TRUE => WriteRegs
              /\ quiet' => quiet /\ WriteRegs
              /\ \/ 5 < ChannelLength /\ GoTo(5 + 1)
                 \/ 5 = ChannelLength /\ Return("ok")
    <2>1. 5 \in 1..7
      OBVIOUS
    <2> QED
      BY <1>2, <1>4, <2>1, LastMoves
  <1>6. \A f \in KeyFields :
           /\ shadow'[f] = IF f \in DOMAIN Now.edit THEN Now.edit[f] ELSE shadow[f]
           /\ f \notin Now.range => chip'[f] = chip[f]
           /\ chip'[f] = chip[f] \/ chip'[f] = shadow'[f]
           /\ WriteRegs /\ f \in Now.range => chip'[f] = shadow'[f]
    BY <1>1, <1>5, LastWrites
  <1>7. /\ Off(shadow)
        /\ shadow["EP4"] = "normal"
        /\ shadow["TM"] = "off"
        /\ quiet /\ freq = "inside" => shadow["PLL"] = "tuned" /\ chip["PLL"] = "tuned"
        /\ Off(chip) /\ chip["EP4"] = "normal" /\ chip["TM"] = "off"
    BY <1>1 DEF TuneState, Configured
  <1>8. SUFFICES ASSUME quiet' => quiet /\ WriteRegs,
                        \/ 5 < ChannelLength /\ GoTo(6)
                        \/ 5 = ChannelLength /\ Return("ok")
                 PROVE  TuneGoal
    BY <1>2, <1>5
  <1>9. /\ shadow'["EP4"] = "normal"
        /\ shadow'["TM"] = "off"
        /\ quiet' /\ freq' = "inside" => shadow'["PLL"] = "tuned" /\ chip'["PLL"] = "tuned"
        /\ Off(chip') /\ chip'["EP4"] = "normal" /\ chip'["TM"] = "off"
    BY <1>2, <1>3, <1>5, <1>6, <1>7, <1>8 DEF KeyFields, Off
  <1>10. GoTo(6)
    BY <1>8 DEF ChannelLength
  <1>11. Configured'
    BY <1>5, <1>9, <1>10 DEF Configured, GoTo
  <1>12. 6 \in 1..7
    OBVIOUS
  <1> QED
    BY <1>1, <1>5, <1>10, <1>11, <1>12, InLastStage

LEMMA AtLast6 ==
    ASSUME InLast(6)
    PROVE  TuneGoal
  <1>1. /\ TypeOK /\ TuneState
        /\ call = "tune" /\ stage = Last /\ next = 6
    BY DEF InLast
  <1>2. /\ Now.op = "write" /\ Now.range = {"EB4"}
        /\ Now.edit = [f \in {"EB4"} |-> "off"]
    BY <1>1, AtChannel
  <1>3. DOMAIN Now.edit = {"EB4"}
    BY <1>2
  <1>4. Now.range \cap CalFields = {} /\ DOMAIN Now.edit \cap EP3 = {}
    BY <1>2, <1>3 DEF EP3, CalFields
  <1>5. /\ WriteRegs \/ WriteFails
        /\ Held' /\ Off(shadow') /\ id' = id /\ freq' = freq
        /\ \/ TuneGoal
           \/ /\ Now.checked = TRUE => WriteRegs
              /\ quiet' => quiet /\ WriteRegs
              /\ \/ 6 < ChannelLength /\ GoTo(6 + 1)
                 \/ 6 = ChannelLength /\ Return("ok")
    <2>1. 6 \in 1..7
      OBVIOUS
    <2> QED
      BY <1>2, <1>4, <2>1, LastMoves
  <1>6. \A f \in KeyFields :
           /\ shadow'[f] = IF f \in DOMAIN Now.edit THEN Now.edit[f] ELSE shadow[f]
           /\ f \notin Now.range => chip'[f] = chip[f]
           /\ chip'[f] = chip[f] \/ chip'[f] = shadow'[f]
           /\ WriteRegs /\ f \in Now.range => chip'[f] = shadow'[f]
    BY <1>1, <1>5, LastWrites
  <1>7. /\ Off(shadow)
        /\ shadow["EP4"] = "normal"
        /\ shadow["TM"] = "off"
        /\ quiet /\ freq = "inside" => shadow["PLL"] = "tuned" /\ chip["PLL"] = "tuned"
        /\ Off(chip) /\ chip["EP4"] = "normal" /\ chip["TM"] = "off"
    BY <1>1 DEF TuneState, Configured
  <1>8. SUFFICES ASSUME quiet' => quiet /\ WriteRegs,
                        \/ 6 < ChannelLength /\ GoTo(7)
                        \/ 6 = ChannelLength /\ Return("ok")
                 PROVE  TuneGoal
    BY <1>2, <1>5
  <1>9. /\ shadow'["EP4"] = "normal"
        /\ shadow'["TM"] = "off"
        /\ quiet' /\ freq' = "inside" => shadow'["PLL"] = "tuned" /\ chip'["PLL"] = "tuned"
        /\ Off(chip') /\ chip'["EP4"] = "normal" /\ chip'["TM"] = "off"
        /\ quiet' => chip'["EB4"] = "off"
    BY <1>2, <1>3, <1>5, <1>6, <1>7, <1>8 DEF KeyFields, Off
  <1>10. CASE GoTo(7)
    <2>1. Configured'
      BY <1>5, <1>9, <1>10 DEF Configured, GoTo
    <2>2. 7 \in 1..7
      OBVIOUS
    <2> QED
      BY <1>1, <1>5, <1>10, <2>1, <2>2, InLastStage
  <1>11. CASE Return("ok")
    <2>1. quiet' => chip'["EB4"] = "off" /\ (freq' = "inside" => chip'["PLL"] = "tuned")
      BY <1>9
    <2> QED
      BY <1>1, <1>5, <1>9, <1>11, <2>1, LastEnds
  <1> QED
    BY <1>8, <1>10, <1>11

LEMMA AtLast7 ==
    ASSUME InLast(7)
    PROVE  TuneGoal
  <1>1. /\ TypeOK /\ TuneState
        /\ call = "tune" /\ stage = Last /\ next = 7
    BY DEF InLast
  <1>2. /\ Now.op = "write" /\ Now.checked = TRUE
        /\ Now.edit = << >> /\ Now.range = EP3
    BY <1>1, AtChannel, ChannelSteps
  <1>3. DOMAIN Now.edit = {}
    <2>1. DOMAIN << >> = {}
      OBVIOUS
    <2> QED
      BY <1>2, <2>1
  <1>4. Now.range \cap CalFields = {} /\ DOMAIN Now.edit \cap EP3 = {}
    BY <1>2, <1>3 DEF EP3, CalFields
  <1>5. /\ WriteRegs \/ WriteFails
        /\ Held' /\ Off(shadow') /\ id' = id /\ freq' = freq
        /\ \/ TuneGoal
           \/ /\ Now.checked = TRUE => WriteRegs
              /\ quiet' => quiet /\ WriteRegs
              /\ \/ 7 < ChannelLength /\ GoTo(7 + 1)
                 \/ 7 = ChannelLength /\ Return("ok")
    <2>1. 7 \in 1..7
      OBVIOUS
    <2> QED
      BY <1>2, <1>4, <2>1, LastMoves
  <1>6. \A f \in KeyFields :
           /\ shadow'[f] = IF f \in DOMAIN Now.edit THEN Now.edit[f] ELSE shadow[f]
           /\ f \notin Now.range => chip'[f] = chip[f]
           /\ chip'[f] = chip[f] \/ chip'[f] = shadow'[f]
           /\ WriteRegs /\ f \in Now.range => chip'[f] = shadow'[f]
    BY <1>1, <1>5, LastWrites
  <1>7. /\ Off(shadow)
        /\ shadow["EP4"] = "normal"
        /\ shadow["TM"] = "off"
        /\ quiet /\ freq = "inside" => shadow["PLL"] = "tuned" /\ chip["PLL"] = "tuned"
        /\ Off(chip) /\ chip["EP4"] = "normal" /\ chip["TM"] = "off"
        /\ quiet => chip["EB4"] = "off"
    BY <1>1 DEF TuneState, Configured
  <1>8. SUFFICES ASSUME WriteRegs, quiet' => quiet /\ WriteRegs,
                        \/ 7 < ChannelLength /\ GoTo(8)
                        \/ 7 = ChannelLength /\ Return("ok")
                 PROVE  TuneGoal
    BY <1>2, <1>5
  <1>9. /\ shadow'["EP4"] = "normal"
        /\ shadow'["TM"] = "off"
        /\ quiet' /\ freq' = "inside" => shadow'["PLL"] = "tuned" /\ chip'["PLL"] = "tuned"
        /\ Off(chip') /\ chip'["EP4"] = "normal" /\ chip'["TM"] = "off"
        /\ quiet' => chip'["EB4"] = "off"
    BY <1>2, <1>3, <1>5, <1>6, <1>7, <1>8 DEF KeyFields, EP3, Off
  <1>10. Return("ok")
    BY <1>8 DEF ChannelLength
  <1>11. quiet' => chip'["EB4"] = "off" /\ (freq' = "inside" => chip'["PLL"] = "tuned")
    BY <1>9
  <1> QED
    BY <1>1, <1>5, <1>9, <1>10, <1>11, LastEnds

LEMMA AtLast ==
    ASSUME TypeOK, CallState, TuneState, Sound, call = "tune", stage = Last
    PROVE  TuneGoal
  <1>1. next \in 1..7
    <2>1. next \in 1..(IF id = "C2" THEN 7 ELSE 6)
      BY AtChannel
    <2> QED
      BY <2>1
  <1>2. InLast(next)
    BY DEF InLast
  <1>3. next = 1 \/ next = 2 \/ next = 3 \/ next = 4 \/ next = 5 \/ next = 6 \/ next = 7
    BY <1>1
  <1> QED
    BY <1>2, <1>3, AtLast1, AtLast2, AtLast3, AtLast4, AtLast5, AtLast6, AtLast7

-----------------------------------------------------------------------------
\* The induction.
LEMMA InTune ==
    ASSUME TypeOK, CallState, TuneState, call = "tune", Sound
    PROVE  TuneGoal
  <1>1. call # "none"
    OBVIOUS
  <1>2. CASE stage = 1
    BY <1>2, AtStage1
  <1>3. CASE stage = 2
    BY <1>3, AtStage2
  <1>4. CASE stage = 3 /\ id # "C2"
    BY <1>4, AtStage3C1
  <1>5. CASE stage = 3 /\ id = "C2"
    BY <1>5, AtStage3C2
  <1>6. CASE stage = 4 /\ id = "C2"
    <2>1. next \in Nat /\ next >= 1
      BY Position
    <2>2. next = 1 \/ next > 1
      BY <2>1
    <2> QED
      BY <1>6, <2>2, AtStage4Standby, AtStage4Therm
  <1>7. CASE stage = Last
    BY <1>7, AtLast
  <1> QED
    BY <1>1, <1>2, <1>3, <1>4, <1>5, <1>6, <1>7, WhereIs

LEMMA InAttach ==
    ASSUME TypeOK, CallState, call = "attach", Sound, TypeOK'
    PROVE  TuneGoal
  <1>1. Moves /\ ret = "none" /\ calibrated = FALSE
    BY SoundMoves DEF CallState, TypeOK
  <1>2. calibrated' = FALSE
    <2>1. CASE WriteRegs \/ WriteFails \/ ReadRegs \/ ReadFails \/ Identify
      BY <1>1, <2>1, WriteEffect, ReadEffect DEF Identify
    <2>2. CASE IrTest \/ RfTest \/ Branch \/ Calibrated
      <3>1. ~Calibrated
        BY OpsAre DEF Calibrated
      <3> QED
        BY <1>1, <2>2, <3>1, TestEffect
    <2> QED
      BY <2>1, <2>2 DEF Sound, Attach, Tune
  <1>3. Held'
    BY <1>2, HeldFree
  <1>4. call' = "attach" \/ (call' = "none" /\ ret' = "none")
    BY <1>1 DEF Moves, GoTo, NextBegins, Return
  <1> QED
    BY <1>3, <1>4 DEF TuneGoal, TuneLeavesNormal

LEMMA InNone ==
    ASSUME TypeOK, call = "none", Held, Sound
    PROVE  TuneGoal
  <1>1. CASE Attach
    BY <1>1 DEF Attach, TuneGoal
  <1>2. CASE Tune
    <2>1. /\ call' = "tune" /\ stage' = 1 /\ chip' = chip /\ calibrated' = calibrated
          /\ lost' = "none" => lost = "none"
      BY <1>2 DEF Tune
    <2>2. Held'
      BY <2>1, HeldSame
    <2>3. Last' # 1
      BY DEF Last
    <2> QED
      BY <2>1, <2>2, <2>3 DEF TuneGoal, TuneState
  <1> QED
    BY <1>1, <1>2 DEF Sound, WriteRegs, WriteFails, ReadRegs, ReadFails, Fails, Reads, Identify,
                      IrTest, RfTest, Calibrated, Branch

LEMMA InitHolds ==
    Init => IInv
  <1> SUFFICES ASSUME Init
               PROVE  IInv
    OBVIOUS
  <1>1. call = "none" /\ stage = 1 /\ next = 1 /\ calibrated = FALSE /\ ret = "none"
        /\ id = "none" /\ freq = "inside" /\ badReads = 0 /\ lost = "none"
    BY DEF Init
  <1>2. /\ chip \in [Fields -> Values] /\ shadow \in [Fields -> Values]
        /\ \A f \in Fields : chip[f] # "?"
    BY DEF Init, Values
  <1>3. stage \in 1..Len(Stages)
    <2>1. Len(Stages) \in {2, 4, 5}
      BY StageCount DEF Last
    <2> QED
      BY <1>1, <2>1
  <1>4. next \in 1..Len(Stages[stage].steps)
    <2> DEFINE m == Len(Stages[stage].steps)
    <2>1. m \in Nat \ {0}
      BY <1>3, StageCode
    <2> HIDE DEF m
    <2>2. next \in 1..m
      BY <1>1, <2>1
    <2> QED
      BY <2>2 DEF m
  <1>5. TypeOK
    BY <1>1, <1>2, <1>3, <1>4 DEF TypeOK
  <1>6. CallState /\ KnownState
    BY <1>1, <1>2 DEF CallState, KnownState, Known, Filled
  <1>7. Held /\ TuneLeavesNormal
    BY <1>1 DEF Held, TuneLeavesNormal
  <1> QED
    BY <1>1, <1>5, <1>6, <1>7 DEF IInv

\* Behind a lost transfer nothing is promised of the chip.
LEMMA LostEnds ==
    ASSUME lost' = "now"
    PROVE  /\ call' = "tune" /\ lost' # "now" => TuneState'
           /\ call' = "none" => Held' /\ TuneLeavesNormal'
  BY DEF Held, TuneLeavesNormal

LEMMA StepHolds ==
    IInv /\ [Next]_vars => IInv'
  <1> SUFFICES ASSUME IInv, [Next]_vars
               PROVE  IInv'
    OBVIOUS
  <1>1. TypeOK /\ CallState /\ KnownState
    BY DEF IInv
  <1>2. TypeOK'
    BY <1>1, TypeStep
  <1>3. CallState'
    BY <1>1, CallStep
  <1>4. KnownState'
    BY <1>1, KnownStep
  <1>5. CASE Sound
    <2>1. CASE call = "tune" /\ lost = "now"
      <3>1. lost' = "now"
        BY <1>1, <1>5, <2>1, SoundKeeps
      <3> QED
        BY <1>2, <1>3, <1>4, <3>1, LostEnds DEF IInv
    <2>2. CASE ~(call = "tune" /\ lost = "now")
      <3>1. TuneGoal
        <4>1. CASE call = "tune"
          BY <1>1, <1>5, <2>2, <4>1, InTune DEF IInv
        <4>2. CASE call = "attach"
          BY <1>1, <1>2, <1>5, <4>2, InAttach
        <4>3. CASE call = "none"
          BY <1>1, <1>5, <4>3, InNone DEF IInv
        <4> QED
          BY <1>1, <4>1, <4>2, <4>3 DEF TypeOK
      <3> QED
        BY <1>2, <1>3, <1>4, <3>1 DEF IInv, TuneGoal
    <2> QED
      BY <2>1, <2>2
  <1>6. CASE UNCHANGED vars
    <2>1. /\ call = "tune" /\ lost # "now" => TuneState
          /\ call = "none" => Held /\ TuneLeavesNormal
      BY DEF IInv
    <2>2. call' = "tune" /\ lost' # "now" => TuneState'
      <3> DEFINE p == PorBegins
      <3>1. p' = p
        BY DEF PorBegins
      <3> QED
        BY <1>6, <2>1, <3>1
           DEF vars, TuneState, Last, Held, Released, Off, Restored, Configured
    <2>3. call' = "none" => Held' /\ TuneLeavesNormal'
      BY <1>6, <2>1 DEF vars, Held, Released, TuneLeavesNormal
    <2> QED
      BY <1>2, <1>3, <1>4, <2>2, <2>3 DEF IInv
  <1>7. CASE WriteLost \/ ReadLost
    <2>1. lost' = "now"
      BY <1>7 DEF WriteLost, ReadLost, Lost
    <2> QED
      BY <1>2, <1>3, <1>4, <2>1, LostEnds DEF IInv
  <1> QED
    BY <1>5, <1>6, <1>7 DEF Next, Sound

\* The inductive invariant: what the running call has done so far, stage by stage.
THEOREM Inductive == Spec => []IInv
  BY InitHolds, StepHolds, PTL DEF Spec

\* Control of tda18271_attach and tda18271_tune stays at a step of the running
\* call, the registers keep to their values, and an attached tuner knows the
\* revision it drives; only a C2 is ever held for calibrated.
THEOREM TypeCorrect == Spec => []TypeOK
  <1>1. IInv => TypeOK
    BY DEF IInv
  <1> QED
    BY <1>1, Inductive, PTL

\* A tda18271_tune that returned 0, and of whose transfers the chip took every one
\* that was reported as done, leaves the chip out of standby, calibration and
\* temperature measurement, for both revisions, after any calls, any transfers
\* lost before it, and any failed before and during it; a chip held for calibrated
\* is out of the settings of the calibration, if no transfer was lost since the
\* attach; and without a failure in the call its main PLL is programmed and its
\* charge pump released.
THEOREM LeavesNormal == Spec => []TuneLeavesNormal
  <1>1. IInv => TuneLeavesNormal
    BY DEF IInv, TuneLeavesNormal
  <1> QED
    BY <1>1, Inductive, PTL

\* As long as no tda18271_read_extended failed, the chip never gets a value from
\* memory that malloc left uninitialised.
THEOREM NothingUnknown == Spec => []UnknownNeedsBadRead
  <1>1. IInv => UnknownNeedsBadRead
    BY DEF IInv, KnownState, Known, UnknownNeedsBadRead
  <1> QED
    BY <1>1, Inductive, PTL

-----------------------------------------------------------------------------
\* The arithmetic.  What is used of a table: its limits and values are numbers that fit the
\* code's types, and its limits rise.
IsTable(m) ==
    /\ Len(m) \in Nat \ {0}
    /\ \A i \in 1..Len(m) : m[i][1] \in Nat /\ m[i][2] \in Nat /\ m[i][2] < 256

Rises(m) == \A i, j \in 1..Len(m) : j = i + 1 => m[i][1] < m[j][1]

\* The product of limit in kHz and divider of an entry of a PLL's table keeps
\* the division ratio within 23 bits.
IsPll(m) == \A i \in 1..Len(m) : m[i][3] \in Nat /\ m[i][1] * m[i][3] < 8192000

LEMMA BpFilterTable == IsTable(tda18271_bp_filter) /\ Rises(tda18271_bp_filter)
  <1>1. IsTable(tda18271_bp_filter)
    BY DEF tda18271_bp_filter, IsTable
  <1>2. Rises(tda18271_bp_filter)
    BY DEF tda18271_bp_filter, Rises
  <1> QED
    BY <1>1, <1>2

LEMMA RfBandTable == IsTable(tda18271_rf_band) /\ Rises(tda18271_rf_band)
  <1>1. IsTable(tda18271_rf_band)
    BY DEF tda18271_rf_band, IsTable
  <1>2. Rises(tda18271_rf_band)
    BY DEF tda18271_rf_band, Rises
  <1> QED
    BY <1>1, <1>2

LEMMA GainTaperTable == IsTable(tda18271_gain_taper) /\ Rises(tda18271_gain_taper)
  <1> DEFINE m == tda18271_gain_taper
             n == 85
  <1>1. IsTable(m)
    BY SMTT(60) DEF tda18271_gain_taper, IsTable
  <1>2. Len(m) = n
    BY SMTT(60) DEF tda18271_gain_taper
  <1>3. \A i, j \in 1..n : j = i + 1 => m[i][1] < m[j][1]
    BY SMTT(60) DEF tda18271_gain_taper
  <1> HIDE DEF m, n
  <1>4. Rises(m)
    BY <1>2, <1>3 DEF Rises
  <1> QED
    BY <1>1, <1>4 DEF m

LEMMA IrMeasureTable == IsTable(tda18271_ir_measure) /\ Rises(tda18271_ir_measure)
  <1>1. IsTable(tda18271_ir_measure)
    BY DEF tda18271_ir_measure, IsTable
  <1>2. Rises(tda18271_ir_measure)
    BY DEF tda18271_ir_measure, Rises
  <1> QED
    BY <1>1, <1>2

LEMMA KmTables == IsTable(tda18271c1_km) /\ IsTable(tda18271c2_km)
  <1>1. IsTable(tda18271c1_km)
    BY DEF tda18271c1_km, IsTable
  <1>2. IsTable(tda18271c2_km)
    BY DEF tda18271c2_km, IsTable
  <1> QED
    BY <1>1, <1>2

LEMMA CalPllTables == IsTable(tda18271c1_cal_pll) /\ IsTable(tda18271c2_cal_pll)
  <1>1. IsTable(tda18271c1_cal_pll)
    BY SMTT(60) DEF tda18271c1_cal_pll, IsTable
  <1>2. IsTable(tda18271c2_cal_pll)
    BY SMTT(60) DEF tda18271c2_cal_pll, IsTable
  <1> QED
    BY <1>1, <1>2

LEMMA CalPllDividers == IsPll(tda18271c1_cal_pll) /\ IsPll(tda18271c2_cal_pll)
  <1>1. IsPll(tda18271c1_cal_pll)
    BY SMTT(60) DEF tda18271c1_cal_pll, IsPll
  <1>2. IsPll(tda18271c2_cal_pll)
    BY SMTT(60) DEF tda18271c2_cal_pll, IsPll
  <1> QED
    BY <1>1, <1>2

LEMMA MainPllTables ==
    /\ IsTable(tda18271c1_main_pll) /\ Rises(tda18271c1_main_pll) /\ IsPll(tda18271c1_main_pll)
    /\ IsTable(tda18271c2_main_pll) /\ Rises(tda18271c2_main_pll) /\ IsPll(tda18271c2_main_pll)
  <1>1. IsTable(tda18271c1_main_pll)
    BY SMTT(60) DEF tda18271c1_main_pll, IsTable
  <1>2. Rises(tda18271c1_main_pll)
    BY SMTT(60) DEF tda18271c1_main_pll, Rises
  <1>3. IsPll(tda18271c1_main_pll)
    BY SMTT(60) DEF tda18271c1_main_pll, IsPll
  <1>4. IsTable(tda18271c2_main_pll)
    BY SMTT(60) DEF tda18271c2_main_pll, IsTable
  <1>5. Rises(tda18271c2_main_pll)
    BY SMTT(60) DEF tda18271c2_main_pll, Rises
  <1>6. IsPll(tda18271c2_main_pll)
    BY SMTT(60) DEF tda18271c2_main_pll, IsPll
  <1> QED
    BY <1>1, <1>2, <1>3, <1>4, <1>5, <1>6

LEMMA C1RfCalTable == IsTable(tda18271c1_rf_cal) /\ Rises(tda18271c1_rf_cal)
  <1>1. IsTable(tda18271c1_rf_cal)
    BY DEF tda18271c1_rf_cal, IsTable
  <1>2. Rises(tda18271c1_rf_cal)
    BY DEF tda18271c1_rf_cal, Rises
  <1> QED
    BY <1>1, <1>2

\* The number of entries of the largest table.
C2Entries == 437

LEMMA C2RfCalTable ==
    /\ IsTable(tda18271c2_rf_cal) /\ Rises(tda18271c2_rf_cal)
    /\ tda18271c2_rf_cal[Len(tda18271c2_rf_cal)][1] >= 865000
  <1> DEFINE m == tda18271c2_rf_cal
  <1>1. m \in Seq(Nat \X Nat)
    BY SMTT(200) DEF tda18271c2_rf_cal
  <1>2. Len(m) = C2Entries /\ C2Entries > 0
    BY SMTT(200) DEF tda18271c2_rf_cal, C2Entries
  <1>3. m[C2Entries][1] >= 865000
    BY SMTT(200) DEF tda18271c2_rf_cal, C2Entries
  <1>4. \A i \in 1..C2Entries : m[i][2] < 256
    BY SMTT(200) DEF tda18271c2_rf_cal, C2Entries
  <1>5. \A i, j \in 1..C2Entries : j = i + 1 => m[i][1] < m[j][1]
    BY SMTT(400) DEF tda18271c2_rf_cal, C2Entries
  <1> HIDE DEF m
  <1>6. IsTable(m)
    BY <1>1, <1>2, <1>4 DEF IsTable
  <1>7. Rises(m)
    BY <1>2, <1>5 DEF Rises
  <1> QED
    BY <1>2, <1>3, <1>6, <1>7 DEF m

LEMMA DcOverDtTable ==
    /\ IsTable(tda18271_rf_cal_dc_over_dt)
    /\ \A i \in 1..Len(tda18271_rf_cal_dc_over_dt) : tda18271_rf_cal_dc_over_dt[i][2] <= 154
  <1> DEFINE m == tda18271_rf_cal_dc_over_dt
             n == 101
  <1>1. m \in Seq(Nat \X Nat)
    BY SMTT(100) DEF tda18271_rf_cal_dc_over_dt
  <1>2. Len(m) = n /\ n > 0
    BY SMTT(100) DEF tda18271_rf_cal_dc_over_dt
  <1>3. \A i \in 1..n : m[i][2] <= 154
    BY SMTT(100) DEF tda18271_rf_cal_dc_over_dt
  <1> HIDE DEF m, n
  <1>4. IsTable(m)
    BY <1>1, <1>2, <1>3 DEF IsTable
  <1> QED
    BY <1>2, <1>3, <1>4 DEF m

LEMMA CidTargetTable ==
    /\ Len(tda18271_cid_target) \in Nat \ {0}
    /\ \A i \in 1..Len(tda18271_cid_target) :
          /\ tda18271_cid_target[i][1] \in Nat
          /\ tda18271_cid_target[i][3] \in Nat
          /\ 200 <= tda18271_cid_target[i][3] /\ tda18271_cid_target[i][3] <= 4000
  BY DEF tda18271_cid_target

LEMMA ThermometerTable ==
    /\ Len(tda18271_thermometer) \in Nat \ {0}
    /\ \A i \in 1..Len(tda18271_thermometer) :
          /\ tda18271_thermometer[i][1] \in Nat
          /\ tda18271_thermometer[i][2] \in 0..255
          /\ tda18271_thermometer[i][3] \in 0..255
  BY DEF tda18271_thermometer

\* The points of a band are so far apart that a scan cannot bring them close.
LEMMA BandTemplate ==
    /\ Len(tda18271_rf_band_template) = 7
    /\ \A b \in 1..7 :
          /\ tda18271_rf_band_template[b][1] \in Nat
          /\ tda18271_rf_band_template[b][1] <= 865000
          /\ \A k \in 3..5 : tda18271_rf_band_template[b][k] \in Nat
          /\ \A k \in 4..5 : tda18271_rf_band_template[b][k] # 0 =>
                tda18271_rf_band_template[b][k] - tda18271_rf_band_template[b][k - 1] >= 60000
  <1>1. Len(tda18271_rf_band_template) = 7
    BY DEF tda18271_rf_band_template
  <1>2. ASSUME NEW b \in 1..7, NEW t, t = tda18271_rf_band_template[b]
        PROVE  /\ t[1] \in Nat /\ t[1] <= 865000
               /\ t[3] \in Nat /\ t[4] \in Nat /\ t[5] \in Nat
               /\ t[4] # 0 => t[4] - t[3] >= 60000
               /\ t[5] # 0 => t[5] - t[4] >= 60000
    BY <1>2 DEF tda18271_rf_band_template
  <1>3. ASSUME NEW b \in 1..7, NEW k \in 3..5
        PROVE  tda18271_rf_band_template[b][k] \in Nat
    <2>1. k = 3 \/ k = 4 \/ k = 5
      OBVIOUS
    <2> QED
      BY <1>2, <2>1
  <1>4. ASSUME NEW b \in 1..7, NEW k \in 4..5, tda18271_rf_band_template[b][k] # 0
        PROVE  tda18271_rf_band_template[b][k] - tda18271_rf_band_template[b][k - 1] >= 60000
    <2>1. (k = 4 /\ k - 1 = 3) \/ (k = 5 /\ k - 1 = 4)
      OBVIOUS
    <2> QED
      BY <1>2, <1>4, <2>1
  <1> QED
    BY <1>1, <1>2, <1>3, <1>4

-----------------------------------------------------------------------------
\* A set of naturals that is not empty has a least element.
LEMMA LeastNat ==
    ASSUME NEW T \in SUBSET Nat, T # {}
    PROVE  \E x \in T : \A y \in T : x <= y
  <1>1. \E x \in T : \A y \in T : ~(<<y, x>> \in OpToRel(<, Nat))
    BY NatLessThanWellFounded, WFMin
  <1>2. PICK x \in T : \A y \in T : ~(<<y, x>> \in OpToRel(<, Nat))
    BY <1>1
  <1>3. ASSUME NEW y \in T PROVE x <= y
    <2>1. <<y, x>> \in Nat \X Nat
      OBVIOUS
    <2>2. ~(y < x)
      BY <1>2, <2>1 DEF OpToRel
    <2> QED
      BY <2>2
  <1> QED
    BY <1>3

\* The search of the tables ends at the first entry that reaches the
\* frequency, or at the last one.
LEMMA FoundFacts ==
    ASSUME NEW m, Len(m) \in Nat \ {0}, NEW f
    PROVE  /\ Found(m, f) \in 1..Len(m)
           /\ Reaches(m[Found(m, f)], f) \/ Found(m, f) = Len(m)
           /\ \A j \in 1..Found(m, f) - 1 : ~Reaches(m[j], f)
  <1> DEFINE Stops(i) == Reaches(m[i], f) \/ i = Len(m)
             T == {i \in 1..Len(m) : Stops(i)}
  <1>1. T \in SUBSET Nat /\ Len(m) \in T
    OBVIOUS
  <1>2. T # {}
    BY <1>1
  <1>3. PICK x \in T : \A y \in T : x <= y
    BY <1>1, <1>2, LeastNat
  <1>4. ASSUME NEW j \in 1..x - 1
        PROVE  ~Reaches(m[j], f)
    <2>1. j \in 1..Len(m) /\ ~(x <= j)
      BY <1>1
    <2> QED
      BY <1>3, <2>1
  <1>5. x \in 1..Len(m) /\ (Reaches(m[x], f) \/ x = Len(m))
    OBVIOUS
  <1> QED
    BY <1>4, <1>5 DEF Found

\* A table that rises does so from any entry to any later one.
LEMMA RisesFar ==
    ASSUME NEW m, IsTable(m), Rises(m), NEW i \in 1..Len(m), NEW j \in 1..Len(m), i < j
    PROVE  m[i][1] < m[j][1]
  <1> DEFINE T == {k \in 1..Len(m) : i < k /\ ~(m[i][1] < m[k][1])}
  <1> SUFFICES ASSUME T # {} PROVE FALSE
    OBVIOUS
  <1>1. T \in SUBSET Nat
    OBVIOUS
  <1>2. PICK x \in T : \A y \in T : x <= y
    BY <1>1, LeastNat
  <1>3. x \in 1..Len(m) /\ i < x /\ ~(m[i][1] < m[x][1])
    OBVIOUS
  <1>4. x - 1 \in 1..Len(m) /\ (i = x - 1 \/ i < x - 1)
    BY <1>3 DEF IsTable
  <1>5. m[x - 1][1] < m[x][1]
    BY <1>3, <1>4 DEF Rises, IsTable
  <1>6. /\ m[i][1] \in Nat /\ m[x][1] \in Nat /\ m[x - 1][1] \in Nat
    BY <1>3, <1>4 DEF IsTable
  <1>7. i < x - 1 /\ ~(m[i][1] < m[x - 1][1])
    BY <1>3, <1>4, <1>5, <1>6
  <1>8. x - 1 \in T
    BY <1>4, <1>7
  <1> QED
    BY <1>2, <1>3, <1>8

\* If any entry reaches the frequency, the search finds one.
LEMMA CoveredInRange ==
    ASSUME NEW m, IsTable(m), NEW f \in Int, Covers(m, f)
    PROVE  InRange(m, f)
  <1>1. PICK i \in 1..Len(m) : m[i][1] * 1000 >= f
    BY DEF Covers
  <1>2. Reaches(m[i], f)
    BY <1>1 DEF Reaches
  <1>3. Len(m) \in Nat \ {0}
    BY DEF IsTable
  <1>4. /\ Found(m, f) \in 1..Len(m)
        /\ Reaches(m[Found(m, f)], f) \/ Found(m, f) = Len(m)
        /\ \A j \in 1..Found(m, f) - 1 : ~Reaches(m[j], f)
    BY <1>3, FoundFacts
  <1>5. CASE i = Len(m)
    BY <1>2, <1>4, <1>5 DEF InRange
  <1>6. CASE i # Len(m)
    <2>1. ~(i \in 1..Found(m, f) - 1)
      BY <1>2, <1>4
    <2>2. Found(m, f) # Len(m)
      BY <2>1, <1>3, <1>6
    <2> QED
      BY <2>2, <1>4 DEF InRange
  <1> QED
    BY <1>5, <1>6

\* In a table that rises it is the entry with the least limit that does.
LEMMA LookupIsReference ==
    ASSUME NEW m, IsTable(m), Rises(m), NEW f \in Int, Covers(m, f)
    PROVE  Reference(m, f) = Lookup(m, f)
  <1> DEFINE p == Found(m, f)
             IsLeast(e) == /\ e[1] * 1000 >= f
                           /\ \A i \in 1..Len(m) : m[i][1] * 1000 >= f => e[1] <= m[i][1]
  <1>1. Len(m) \in Nat \ {0} /\ \A i \in 1..Len(m) : m[i][1] \in Nat
    BY DEF IsTable
  <1>2. /\ p \in 1..Len(m) /\ m[p][1] * 1000 >= f
        /\ \A j \in 1..p - 1 : ~(m[j][1] * 1000 >= f)
    <2>1. InRange(m, f)
      BY CoveredInRange
    <2> QED
      BY <2>1, <1>1, FoundFacts DEF InRange, Reaches
  <1> HIDE DEF p
  <1>3. ASSUME NEW i \in 1..Len(m), m[i][1] * 1000 >= f
        PROVE  i = p \/ m[p][1] < m[i][1]
    <2>1. i = p \/ p < i
      BY <1>1, <1>2, <1>3
    <2> QED
      BY <2>1, <1>2, RisesFar
  <1>4. IsLeast(m[p])
    BY <1>1, <1>2, <1>3
  <1>5. ASSUME NEW e \in {m[i] : i \in 1..Len(m)}, IsLeast(e)
        PROVE  e = m[p]
    <2>1. PICK i \in 1..Len(m) : e = m[i]
      OBVIOUS
    <2>2. i = p \/ m[p][1] < m[i][1]
      BY <2>1, <1>3, <1>5
    <2>3. m[i][1] <= m[p][1]
      BY <2>1, <1>2, <1>5
    <2> QED
      BY <2>1, <2>2, <2>3, <1>1, <1>2
  <1>6. Reference(m, f) = CHOOSE e \in {m[i] : i \in 1..Len(m)} : IsLeast(e)
    BY DEF Reference
  <1>7. m[p] \in {m[i] : i \in 1..Len(m)}
    BY <1>2
  <1> HIDE DEF IsLeast
  <1>8. Reference(m, f) = m[p]
    BY <1>4, <1>5, <1>6, <1>7
  <1> QED
    BY <1>8 DEF p, Lookup

-----------------------------------------------------------------------------
\* The registers as the driver can hold them: bytes, and 23 bits of dividers.
Dividers == {"MD", "CD"}
RegNames == {"bp", "km", "band", "taper", "ir", "EB14", "MPD", "MD", "CPD", "CD"}
Registers ==
    {r \in [RegNames -> Nat] :
        /\ \A x \in RegNames \ Dividers : r[x] < 256
        /\ \A x \in Dividers : r[x] < 2^23}

Chips == {"C1", "C2"}
Names == {"bp_filter", "rf_band", "gain_taper", "ir_measure", "main_pll", "cal_pll",
          "rf_cal", "rf_cal_kmco"}
RisingNames == Names \ {"cal_pll", "rf_cal_kmco"}

\* The tables of either chip.
LEMMA MapsFacts ==
    ASSUME revision \in Chips
    PROVE  /\ \A t \in Names : IsTable(maps[t])
           /\ \A t \in RisingNames : Rises(maps[t])
           /\ IsPll(maps["main_pll"]) /\ IsPll(maps["cal_pll"])
           /\ revision = "C2" => /\ maps["rf_cal"] = tda18271c2_rf_cal
                           /\ maps["rf_cal_dc_over_dt"] = tda18271_rf_cal_dc_over_dt
  <1>1. CASE revision = "C1"
    <2>1. /\ maps["bp_filter"] = tda18271_bp_filter /\ maps["rf_band"] = tda18271_rf_band
          /\ maps["gain_taper"] = tda18271_gain_taper
          /\ maps["ir_measure"] = tda18271_ir_measure
          /\ maps["main_pll"] = tda18271c1_main_pll /\ maps["cal_pll"] = tda18271c1_cal_pll
          /\ maps["rf_cal"] = tda18271c1_rf_cal /\ maps["rf_cal_kmco"] = tda18271c1_km
      BY <1>1 DEF maps, tda18271_map_layout
    <2> HIDE DEF maps
    <2> QED
      BY <1>1, <2>1, BpFilterTable, RfBandTable, GainTaperTable, IrMeasureTable, KmTables,
         CalPllTables, CalPllDividers, MainPllTables, C1RfCalTable DEF Names, RisingNames
  <1>2. CASE revision = "C2"
    <2>1. /\ maps["bp_filter"] = tda18271_bp_filter /\ maps["rf_band"] = tda18271_rf_band
          /\ maps["gain_taper"] = tda18271_gain_taper
          /\ maps["ir_measure"] = tda18271_ir_measure
          /\ maps["main_pll"] = tda18271c2_main_pll /\ maps["cal_pll"] = tda18271c2_cal_pll
          /\ maps["rf_cal"] = tda18271c2_rf_cal /\ maps["rf_cal_kmco"] = tda18271c2_km
          /\ maps["rf_cal_dc_over_dt"] = tda18271_rf_cal_dc_over_dt
      BY <1>2 DEF maps, tda18271_map_layout
    <2> HIDE DEF maps
    <2> QED
      BY <2>1, BpFilterTable, RfBandTable, GainTaperTable, IrMeasureTable, KmTables,
         CalPllTables, CalPllDividers, MainPllTables, C2RfCalTable DEF Names, RisingNames
  <1> QED
    BY <1>1, <1>2 DEF Chips

\* The entry a search ends at has the fields that the table's entries have.
LEMMA LookupFacts ==
    ASSUME NEW m, IsTable(m), NEW f
    PROVE  /\ Lookup(m, f)[1] \in Nat
           /\ Lookup(m, f)[2] \in Nat /\ Lookup(m, f)[2] < 256
           /\ IsPll(m) => Lookup(m, f)[3] \in Nat /\ Lookup(m, f)[1] * Lookup(m, f)[3] < 8192000
  BY FoundFacts DEF IsTable, IsPll, Lookup

\* A byte that a table determines is set, or stays if the frequency is out of
\* range; no other register moves.
LEMMA CalcFacts ==
    ASSUME revision \in Chips, NEW r \in Registers, NEW x \in RegNames \ Dividers,
           NEW t \in Names, NEW f
    PROVE  /\ Calc(r, x, t, f) \in Registers
           /\ InRange(maps[t], f) => Calc(r, x, t, f)[x] = Lookup(maps[t], f)[2]
           /\ \A y \in RegNames \ {x} : Calc(r, x, t, f)[y] = r[y]
  <1>1. Lookup(maps[t], f)[2] \in Nat /\ Lookup(maps[t], f)[2] < 256
    BY MapsFacts, LookupFacts
  <1> DEFINE v == Lookup(maps[t], f)[2]
             s == [r EXCEPT ![x] = v]
  <1>2. r \in [RegNames -> Nat] /\ x \in RegNames /\ x \notin Dividers
    BY DEF Registers
  <1> HIDE DEF v
  <1>3. /\ s \in [RegNames -> Nat] /\ s[x] = v
        /\ \A y \in RegNames \ {x} : s[y] = r[y]
    BY <1>1, <1>2 DEF v
  <1>4. s \in Registers
    <2>1. \A y \in RegNames \ Dividers : s[y] < 256
      BY <1>1, <1>3 DEF v, Registers
    <2>2. Dividers \subseteq RegNames
      BY DEF Dividers, RegNames
    <2>3. \A y \in Dividers : s[y] < 2^23
      BY <1>2, <1>3, <2>2 DEF Registers
    <2> HIDE DEF s
    <2> QED
      BY <1>3, <2>1, <2>3 DEF Registers
  <1>5. Calc(r, x, t, f) = IF InRange(maps[t], f) THEN s ELSE r
    BY DEF Calc, v
  <1> HIDE DEF s
  <1> QED
    BY <1>3, <1>4, <1>5 DEF v

\* The dividers keep 23 bits of the division ratio.
LEMMA PllFacts ==
    ASSUME revision \in Chips, NEW r \in Registers, NEW p \in RegNames \ Dividers,
           NEW d \in Dividers, NEW t \in {"main_pll", "cal_pll"}, NEW f \in Int
    PROVE  /\ CalcPll(r, p, d, t, f) \in Registers
           /\ InRange(maps[t], f) =>
                 /\ CalcPll(r, p, d, t, f)[p] = Lookup(maps[t], f)[2]
                 /\ CalcPll(r, p, d, t, f)[d] = Div(Lookup(maps[t], f)[3], f) % 2^23
           /\ \A y \in RegNames \ {p, d} : CalcPll(r, p, d, t, f)[y] = r[y]
  <1> DEFINE e == Lookup(maps[t], f)
             q == Div(e[3], f) % 2^23
  <1>1. t \in Names /\ IsTable(maps[t]) /\ IsPll(maps[t])
    BY MapsFacts DEF Names
  <1>2. e[2] \in Nat /\ e[2] < 256 /\ e[3] \in Nat
    BY <1>1, LookupFacts
  <1> HIDE DEF e
  <1>3. Div(e[3], f) \in Int
    <2>1. f \div 1000 \in Int
      OBVIOUS
    <2>2. e[3] * (f \div 1000) \in Int
      BY <1>2, <2>1
    <2> QED
      BY <2>2 DEF Div
  <1>4. q \in Nat /\ q < 2^23
    BY <1>3
  <1> HIDE DEF q
  <1>5. r \in [RegNames -> Nat] /\ p \in RegNames /\ d \in RegNames /\ p # d
    BY DEF Registers, Dividers, RegNames
  <1> DEFINE s == [r EXCEPT ![p] = e[2], ![d] = q]
  <1>6. CalcPll(r, p, d, t, f) = IF InRange(maps[t], f) THEN s ELSE r
    BY DEF CalcPll, e, q
  <1>7. /\ s \in [RegNames -> Nat] /\ s[p] = e[2] /\ s[d] = q
        /\ \A y \in RegNames \ {p, d} : s[y] = r[y]
    BY <1>2, <1>4, <1>5
  <1>8. s \in Registers
    <2>1. Dividers \subseteq RegNames
      BY DEF Dividers, RegNames
    <2>2. \A y \in RegNames \ Dividers : s[y] < 256
      BY <1>2, <1>7 DEF Registers
    <2>3. \A y \in Dividers : s[y] < 2^23
      BY <1>4, <1>7, <2>1 DEF Registers
    <2> HIDE DEF s
    <2> QED
      BY <1>7, <2>2, <2>3 DEF Registers
  <1> HIDE DEF s
  <1> QED
    BY <1>6, <1>7, <1>8 DEF e, q

\* The divider of an entry that reaches the frequency loses no bit, and is the
\* ratio rounded down.
LEMMA DivExact ==
    ASSUME NEW d \in Nat, NEW limit \in Nat, limit * d < 8192000,
           NEW f \in Nat, f <= limit * 1000
    PROVE  LET exact == d * (f \div 1000) * 128
               q == Div(d, f) % 2^23
           IN  q * 125 <= exact /\ exact < (q + 1) * 125
  <1> DEFINE k == f \div 1000
             x == d * k
  <1>1. k \in Nat /\ k <= limit
    OBVIOUS
  <1>2. x \in Nat /\ x <= d * limit
    BY <1>1
  <1>3. d * limit = limit * d
    OBVIOUS
  <1>4. x \in Nat /\ x < 8192000
    BY <1>2, <1>3
  <1>5. Div(d, f) = (x * 128) \div 125
    BY DEF Div
  <1> HIDE DEF x
  <1>6. (x * 128) \div 125 \in Nat /\ (x * 128) \div 125 < 8388608
    BY <1>4
  <1>7. 2^23 = 8388608
    OBVIOUS
  <1>8. Div(d, f) % 2^23 = (x * 128) \div 125
    BY <1>5, <1>6, <1>7
  <1>9. /\ ((x * 128) \div 125) * 125 <= x * 128
        /\ x * 128 < ((x * 128) \div 125 + 1) * 125
    BY <1>4
  <1> QED
    BY <1>8, <1>9 DEF x

-----------------------------------------------------------------------------
\* The inductive invariant.
Curves == [rf1 : Int, rf2 : Int, rf3 : Int, a1 : Int, b1 : Int, a2 : Int, b2 : Int]

CalTypes ==
    /\ revision \in Chips /\ band \in 1..7
    /\ map \in Curves
    /\ tm_rfcal \in 0..255 /\ regs \in Registers
    /\ step \in {"point", "scan", "last", "tune", "tuned"}
    /\ rf \in 0..3 /\ freq_in \in Nat /\ sgn \in {1, -1} /\ count \in Nat /\ scan_freq \in Int
    /\ level \in BOOLEAN
    /\ rf_freq \in Seq(Int) /\ offset \in Seq(Int)
    /\ measured \in [1..3 -> SUBSET Int]

\* A scan belongs to a point of the band and is within the limit on either side.
ScanWindow ==
    /\ -Limit(freq_in) <= scan_freq - freq_in /\ scan_freq - freq_in <= Limit(freq_in)
    /\ step = "scan" => count <= Limit(freq_in)
    /\ step \in {"scan", "last"} => rf # 0 /\ freq_in = Default(rf) /\ Default(rf) # 0

\* The points done are those of the band, each within the limit.
Points ==
    /\ Len(offset) = Len(rf_freq)
    /\ Len(rf_freq) \in {rf - 1, rf}
    /\ step = "point" => Len(rf_freq) = rf
    /\ step \in {"scan", "last"} => Len(rf_freq) = rf - 1
    /\ \A k \in 1..Len(rf_freq) :
          /\ Default(k) # 0
          /\ -4000 <= rf_freq[k] - Default(k) /\ rf_freq[k] - Default(k) <= 4000
          /\ -255 <= offset[k] /\ offset[k] <= 255

\* The slopes are 0: the offsets of two points differ by less than the points
\* are apart in kHz, and the division truncates.  What the curve adds was measured
\* at its point, by this calibration or an earlier one.
FlatCurve ==
    /\ map.a1 = 0 /\ map.a2 = 0
    /\ map.b1 \in IF measured[1] = {} THEN {0} ELSE measured[1]
    /\ map.rf3 # 0 => map.b2 \in measured[2]
    /\ \A k \in 1..Len(offset) : offset[k] \in measured[k]

CalInv == CalTypes /\ ScanWindow /\ Points /\ FlatCurve /\ TunedRight

\* The limit of a scan, in Hz.
LEMMA LimitFacts ==
    ASSUME NEW f
    PROVE  Limit(f) \in Nat /\ 200 <= Limit(f) /\ Limit(f) <= 4000
  BY CidTargetTable, FoundFacts DEF Limit, Lookup

\* The points of a band are in Hz, and 60 MHz or more apart.
LEMMA DefaultFacts ==
    ASSUME band \in 1..7
    PROVE  /\ \A k \in 1..3 : Default(k) \in Nat
           /\ \A k \in 2..3 : Default(k) # 0 => Default(k) - Default(k - 1) >= 60000000
  <1> DEFINE t == tda18271_rf_band_template[band]
  <1>1. /\ \A k \in 3..5 : t[k] \in Nat
        /\ \A k \in 4..5 : t[k] # 0 => t[k] - t[k - 1] >= 60000
    BY BandTemplate
  <1> HIDE DEF t
  <1>2. \A k : Default(k) = t[k + 2] * 1000
    BY DEF Default, t
  <1>3. ASSUME NEW k \in 1..3
        PROVE  Default(k) \in Nat
    BY <1>1, <1>2
  <1>4. ASSUME NEW k \in 2..3, Default(k) # 0
        PROVE  Default(k) - Default(k - 1) >= 60000000
    <2>1. k + 2 \in 4..5 /\ k - 1 + 2 = (k + 2) - 1 /\ k + 2 \in 3..5 /\ (k + 2) - 1 \in 3..5
      OBVIOUS
    <2>2. t[k + 2] \in Nat /\ t[k + 2] # 0 /\ t[(k + 2) - 1] \in Nat
      BY <2>1, <1>1, <1>2, <1>4
    <2>3. t[k + 2] - t[(k + 2) - 1] >= 60000
      BY <2>1, <2>2, <1>1
    <2>4. Default(k) = t[k + 2] * 1000 /\ Default(k - 1) = t[(k + 2) - 1] * 1000
      BY <1>2, <2>1
    <2> QED
      BY <2>2, <2>3, <2>4
  <1> QED
    BY <1>3, <1>4

\* A measurement keeps the registers, and sets the frequency it is given.
LEMMA MeasureFacts ==
    ASSUME revision \in Chips, NEW r \in Registers, NEW f \in Int, NEW hit, Measure(r, f, hit)
    PROVE  regs' \in Registers /\ scan_freq' = f /\ level' \in BOOLEAN
  <1>1. "MPD" \in RegNames \ Dividers /\ "MD" \in Dividers /\ f + 1000000 \in Int
    BY DEF RegNames, Dividers
  <1>2. CalcPll(r, "MPD", "MD", "main_pll", f + 1000000) \in Registers
    BY <1>1, PllFacts
  <1>3. /\ lo' = f + 1000000 /\ scan_freq' = f
        /\ regs' = CalcPll(r, "MPD", "MD", "main_pll", f + 1000000)
    BY DEF Measure, tda18271_calc_main_pll
  <1>4. regs' \in Registers
    BY <1>2, <1>3
  <1>5. level' \in BOOLEAN
    <2>1. CASE hit
      BY <2>1, SMT DEF Measure
    <2>2. CASE ~hit
      BY <2>2, SMT DEF Measure
    <2> QED
      BY <2>1, <2>2
  <1> QED
    BY <1>3, <1>4, <1>5

\* What is used of RfAssumption, under a name, which keeps it out of the steps.
Inputs ==
    /\ Bytes \subseteq 0..255 /\ Temperatures \subseteq 0..15
    /\ \A b \in 1..7, k \in 0..3 : Frequencies(b, k) \subseteq Nat

LEMMA RfFacts == ASSUME Inputs PROVE Bytes \subseteq 0..255 /\ Temperatures \subseteq 0..15
  BY DEF Inputs

LEMMA InitCal == ASSUME Inputs, CalInit PROVE CalInv
  <1>1. regs = [f \in RegNames |-> 0]
    BY DEF CalInit, RegNames
  <1>2. regs \in Registers
    <2>1. regs \in [RegNames -> Nat] /\ \A x \in RegNames : regs[x] = 0
      BY <1>1
    <2>2. Dividers \subseteq RegNames /\ 2^23 = 8388608
      BY DEF Dividers, RegNames
    <2> QED
      BY <2>1, <2>2 DEF Registers
  <1>3. CalTypes
    <2>1. band \in 1..7
      BY BandTemplate DEF CalInit
    <2>2. tm_rfcal \in 0..255
      BY RfFacts DEF CalInit
    <2>3. map \in Curves
      BY DEF CalInit, Curves
    <2>4. rf_freq \in Seq(Int) /\ offset \in Seq(Int)
      BY DEF CalInit
    <2>5. revision \in Chips /\ step \in {"point", "scan", "last", "tune", "tuned"}
      BY DEF CalInit, Chips
    <2>6. rf \in 0..3 /\ freq_in \in Nat /\ sgn \in {1, -1} /\ count \in Nat /\ scan_freq \in Int
      BY DEF CalInit
    <2>7. level \in BOOLEAN
      BY DEF CalInit
    <2>8. measured \in [1..3 -> SUBSET Int]
      BY DEF CalInit
    <2> QED
      BY <1>2, <2>1, <2>2, <2>3, <2>4, <2>5, <2>6, <2>7, <2>8 DEF CalTypes
  <1>4. ScanWindow
    BY LimitFacts DEF CalInit, ScanWindow
  <1>5. Points /\ FlatCurve /\ TunedRight
    BY DEF CalInit, Points, FlatCurve, TunedRight
  <1> QED
    BY <1>3, <1>4, <1>5 DEF CalInv

LEMMA ScanPointCal == ASSUME CalInv, ScanPoint PROVE CalInv'
  <1> DEFINE f == Default(rf + 1)
  <1>1. /\ step = "point" /\ rf < 3 /\ f # 0 /\ step' = "scan" /\ rf' = rf + 1
        /\ freq_in' = f /\ sgn' = 1 /\ count' = 0
        /\ UNCHANGED <<revision, band, map, tm_rfcal, rf_freq, offset, tuned, measured>>
    BY DEF ScanPoint, MorePoints, history
  <1>2. CalTypes /\ rf \in 0..2 /\ f \in Nat /\ f \in Int /\ revision \in Chips
    <2>1. CalTypes /\ rf \in 0..2 /\ rf + 1 \in 1..3 /\ revision \in Chips
      BY <1>1 DEF CalInv, CalTypes
    <2> QED
      BY <2>1, DefaultFacts DEF CalTypes
  <1>3. regs' \in Registers /\ scan_freq' = f /\ level' \in BOOLEAN
    <2> DEFINE r1 == Calc(regs, "band", "rf_band", f)
               r2 == Calc(r1, "EB14", "rf_cal", f)
               r3 == Calc(r2, "taper", "gain_taper", f)
    <2>1. /\ "band" \in RegNames \ Dividers /\ "EB14" \in RegNames \ Dividers
          /\ "taper" \in RegNames \ Dividers
          /\ "rf_band" \in Names /\ "rf_cal" \in Names /\ "gain_taper" \in Names
      BY DEF RegNames, Dividers, Names
    <2>2. r1 \in Registers
      BY <1>2, <2>1, CalcFacts DEF CalTypes
    <2> HIDE DEF r1
    <2>3. r2 \in Registers
      BY <1>2, <2>1, <2>2, CalcFacts
    <2> HIDE DEF r2
    <2>4. r3 \in Registers
      BY <1>2, <2>1, <2>3, CalcFacts
    <2>5. Measure(r3, f, 0 \in Hits)
      BY DEF ScanPoint, r1, r2, tda18271_calc_rf_band, tda18271_calc_rf_cal,
             tda18271_calc_gain_taper
    <2> HIDE DEF r3
    <2> QED
      BY <1>2, <2>4, <2>5, MeasureFacts
  <1>4. CalTypes'
    BY <1>1, <1>2, <1>3 DEF CalTypes
  <1>5. ScanWindow'
    <2>1. Default(rf)' = f /\ Limit(freq_in)' = Limit(f)
      BY <1>1 DEF Default, Limit
    <2>2. Limit(f) \in Nat
      BY LimitFacts
    <2> QED
      BY <1>1, <1>2, <1>3, <2>1, <2>2 DEF ScanWindow
  <1>6. Points'
    <2>1. \A k : Default(k)' = Default(k)
      BY <1>1 DEF Default
    <2>2. Points
      BY DEF CalInv
    <2> QED
      BY <1>1, <1>2, <2>1, <2>2 DEF Points
  <1>7. FlatCurve' /\ TunedRight'
    BY <1>1 DEF CalInv, FlatCurve, TunedRight
  <1> QED
    BY <1>4, <1>5, <1>6, <1>7 DEF CalInv

LEMMA ScanOnCal == ASSUME CalInv, ScanOn PROVE CalInv'
  <1> DEFINE f == freq_in + sgn * count
             c == count + 200
  <1>1. /\ step = "scan" /\ Measure(regs, f, count \in Hits)
        /\ \/ c <= Limit(freq_in) /\ count' = c /\ sgn' = sgn /\ step' = step
           \/ c > Limit(freq_in) /\ sgn > 0 /\ sgn' = -1 /\ count' = 200 /\ step' = step
           \/ c > Limit(freq_in) /\ sgn <= 0 /\ count' = c /\ step' = "last" /\ sgn' = sgn
        /\ UNCHANGED <<revision, band, map, tm_rfcal, rf, freq_in, rf_freq, offset, tuned,
                       measured>>
    BY DEF ScanOn, Turned, history
  <1>2. /\ CalTypes /\ revision \in Chips /\ regs \in Registers
        /\ freq_in \in Nat /\ count \in Nat /\ (sgn = 1 \/ sgn = -1)
        /\ count <= Limit(freq_in)
    BY <1>1 DEF CalInv, CalTypes, ScanWindow
  <1>3. Limit(freq_in) \in Nat /\ 200 <= Limit(freq_in)
    BY LimitFacts
  <1>4. /\ f \in Int /\ -Limit(freq_in) <= f - freq_in /\ f - freq_in <= Limit(freq_in)
    BY <1>2, <1>3
  <1> HIDE DEF f
  <1>5. regs' \in Registers /\ scan_freq' = f /\ level' \in BOOLEAN
    BY <1>1, <1>2, <1>4, MeasureFacts
  <1>6. CalTypes'
    BY <1>1, <1>2, <1>4, <1>5 DEF CalTypes
  <1>7. ScanWindow'
    <2>1. Limit(freq_in)' = Limit(freq_in) /\ Default(rf)' = Default(rf)
      BY <1>1 DEF Limit, Default
    <2> QED
      BY <1>1, <1>3, <1>4, <1>5, <2>1 DEF CalInv, ScanWindow
  <1>8. Points'
    <2>1. \A k : Default(k)' = Default(k)
      BY <1>1 DEF Default
    <2>2. Points
      BY DEF CalInv
    <2> QED
      BY <1>1, <2>1, <2>2 DEF Points
  <1>9. FlatCurve' /\ TunedRight'
    BY <1>1 DEF CalInv, FlatCurve, TunedRight
  <1> QED
    BY <1>6, <1>7, <1>8, <1>9 DEF CalInv


\* The division rounds towards zero.
LEMMA QuotientZero ==
    ASSUME NEW a \in Int, NEW d \in Int, -510 <= a, a <= 510, d > 510
    PROVE  Quotient(a, d) = 0
  <1>1. CASE a >= 0
    <2>1. a \in Nat /\ d \in Nat /\ a < d
      BY <1>1
    <2>2. a \div d = 0
      BY <2>1
    <2> QED
      BY <1>1, <2>2 DEF Quotient
  <1>2. CASE a < 0
    <2> DEFINE c == -a
    <2>1. c \in Nat /\ d \in Nat /\ c < d
      BY <1>2
    <2> HIDE DEF c
    <2>2. c \div d = 0
      BY <2>1
    <2> QED
      BY <1>2, <2>2 DEF Quotient, c
  <1> QED
    BY <1>1, <1>2

\* The divisor of a slope between two points of a band.
LEMMA DivisorFacts ==
    ASSUME NEW freqs, NEW k \in Nat, freqs[k] \in Int, freqs[k - 1] \in Int,
           freqs[k] - freqs[k - 1] >= 59992000
    PROVE  Divisor(freqs, k) \in Int /\ Divisor(freqs, k) >= 59992
  <1> DEFINE x == freqs[k] - freqs[k - 1]
  <1>1. x \in Nat /\ x >= 59992000
    OBVIOUS
  <1> HIDE DEF x
  <1>2. x \div 1000 \in Nat /\ x \div 1000 >= 59992
    BY <1>1
  <1> QED
    BY <1>1, <1>2 DEF Divisor, Quotient, x

\* Points done one after the other are far apart.
LEMMA FarApart ==
    ASSUME CalTypes, NEW freqs \in Seq(Int), Len(freqs) \in 0..3,
           \A k \in 1..Len(freqs) : /\ Default(k) # 0
                                    /\ -4000 <= freqs[k] - Default(k)
                                    /\ freqs[k] - Default(k) <= 4000
    PROVE  \A k \in 2..Len(freqs) : Divisor(freqs, k) \in Int /\ Divisor(freqs, k) >= 59992
  <1> SUFFICES ASSUME NEW k \in 2..Len(freqs)
               PROVE  Divisor(freqs, k) \in Int /\ Divisor(freqs, k) >= 59992
    OBVIOUS
  <1>1. k \in 1..Len(freqs) /\ k - 1 \in 1..Len(freqs) /\ k \in 2..3 /\ k \in 1..3 /\ k - 1 \in 1..3
    OBVIOUS
  <1>2. Default(k) \in Nat /\ Default(k - 1) \in Nat /\ Default(k) - Default(k - 1) >= 60000000
    <2>1. band \in 1..7
      BY DEF CalTypes
    <2>2. Default(k) # 0
      BY <1>1
    <2> QED
      BY <1>1, <2>1, <2>2, DefaultFacts
  <1>3. freqs[k] \in Int /\ freqs[k - 1] \in Int
    BY <1>1
  <1>4. -4000 <= freqs[k] - Default(k) /\ freqs[k - 1] - Default(k - 1) <= 4000
    BY <1>1
  <1>5. freqs[k] - freqs[k - 1] >= 59992000
    <2> DEFINE x == freqs[k]  y == freqs[k - 1]
               a == Default(k)  b == Default(k - 1)
    <2>1. /\ x \in Int /\ y \in Int /\ a \in Int /\ b \in Int
          /\ a - b >= 60000000 /\ -4000 <= x - a /\ y - b <= 4000
      BY <1>2, <1>3, <1>4
    <2> HIDE DEF x, y, a, b
    <2>2. x - y >= 59992000
      BY <2>1
    <2> QED
      BY <2>2 DEF x, y
  <1> QED
    BY <1>1, <1>3, <1>5, DivisorFacts

LEMMA NameFacts ==
    /\ "bp" \in RegNames \ Dividers /\ "km" \in RegNames \ Dividers
    /\ "band" \in RegNames \ Dividers /\ "taper" \in RegNames \ Dividers
    /\ "ir" \in RegNames \ Dividers /\ "EB14" \in RegNames \ Dividers
    /\ "MPD" \in RegNames \ Dividers /\ "CPD" \in RegNames \ Dividers
    /\ "MD" \in Dividers /\ "CD" \in Dividers
    /\ "bp_filter" \in Names /\ "rf_band" \in Names /\ "gain_taper" \in Names
    /\ "ir_measure" \in Names /\ "rf_cal" \in Names /\ "rf_cal_kmco" \in Names
    /\ "main_pll" \in Names /\ "cal_pll" \in Names
  BY DEF RegNames, Dividers, Names

LEMMA CalibrateFacts ==
    ASSUME revision \in Chips, NEW r \in Registers, NEW f \in Int
    PROVE  calibrate_rf(r, f) \in Registers
  <1> DEFINE r1 == Calc(r, "bp", "bp_filter", f)
             r2 == Calc(r1, "taper", "gain_taper", f)
             r3 == Calc(r2, "band", "rf_band", f)
             r4 == Calc(r3, "km", "rf_cal_kmco", f)
             r5 == CalcPll(r4, "CPD", "CD", "cal_pll", f)
             r6 == CalcPll(r5, "MPD", "MD", "main_pll", f + 1000000)
  <1>1. r1 \in Registers
    BY NameFacts, CalcFacts
  <1> HIDE DEF r1
  <1>2. r2 \in Registers
    BY <1>1, NameFacts, CalcFacts
  <1> HIDE DEF r2
  <1>3. r3 \in Registers
    BY <1>2, NameFacts, CalcFacts
  <1> HIDE DEF r3
  <1>4. r4 \in Registers
    BY <1>3, NameFacts, CalcFacts
  <1> HIDE DEF r4
  <1>5. r5 \in Registers
    BY <1>4, NameFacts, PllFacts
  <1> HIDE DEF r5
  <1>6. f + 1000000 \in Int
    OBVIOUS
  <1>7. r6 \in Registers
    BY <1>5, <1>6, NameFacts, PllFacts
  <1>8. calibrate_rf(r, f) = r6
    BY DEF calibrate_rf, tda18271_calc_bp_filter, tda18271_calc_gain_taper,
           tda18271_calc_rf_band, tda18271_calc_km, tda18271_calc_cal_pll,
           tda18271_calc_main_pll, r1, r2, r3, r4, r5
  <1> QED
    BY <1>7, <1>8

\* What a point contributes to the curve.
SetsFirst(m, x, y, z) == [m EXCEPT !.a1 = x, !.b1 = y, !.rf1 = z]
SetsSecond(m, x, z) == [m EXCEPT !.a1 = x, !.rf2 = z]
SetsThird(m, x, y, z) == [m EXCEPT !.a2 = x, !.b2 = y, !.rf3 = z]

LEMMA SetFirst ==
    ASSUME NEW m \in Curves, NEW x \in Int, NEW y \in Int, NEW z \in Int
    PROVE  LET n == SetsFirst(m, x, y, z)
           IN  /\ n \in Curves /\ n.a1 = x /\ n.b1 = y
               /\ n.a2 = m.a2 /\ n.b2 = m.b2 /\ n.rf3 = m.rf3
  BY DEF Curves, SetsFirst

LEMMA SetSecond ==
    ASSUME NEW m \in Curves, NEW x \in Int, NEW z \in Int
    PROVE  LET n == SetsSecond(m, x, z)
           IN  /\ n \in Curves /\ n.a1 = x /\ n.b1 = m.b1
               /\ n.a2 = m.a2 /\ n.b2 = m.b2 /\ n.rf3 = m.rf3
  BY DEF Curves, SetsSecond

LEMMA SetThird ==
    ASSUME NEW m \in Curves, NEW x \in Int, NEW y \in Int, NEW z \in Int
    PROVE  LET n == SetsThird(m, x, y, z)
           IN  /\ n \in Curves /\ n.a1 = m.a1 /\ n.b1 = m.b1
               /\ n.a2 = x /\ n.b2 = y /\ n.rf3 = z
  BY DEF Curves, SetsThird

LEMMA CurveFirst ==
    ASSUME map \in Curves, NEW freqs, NEW offs,
           freqs[1] \div 1000 \in Int, offs[1] \in Int
    PROVE  LET n == BandCurve(1, freqs, offs)
           IN  /\ n \in Curves /\ n.a1 = 0 /\ n.b1 = offs[1]
               /\ n.a2 = map.a2 /\ n.b2 = map.b2 /\ n.rf3 = map.rf3
  <1>1. BandCurve(1, freqs, offs) = SetsFirst(map, 0, offs[1], freqs[1] \div 1000)
    BY DEF BandCurve, SetsFirst
  <1>2. 0 \in Int
    OBVIOUS
  <1> QED
    BY <1>1, <1>2, SetFirst

LEMMA CurveSecond ==
    ASSUME map \in Curves, NEW freqs, NEW offs, freqs[2] \div 1000 \in Int,
           Quotient(offs[2] - offs[1], Divisor(freqs, 2)) = 0
    PROVE  LET n == BandCurve(2, freqs, offs)
           IN  /\ n \in Curves /\ n.a1 = 0 /\ n.b1 = map.b1
               /\ n.a2 = map.a2 /\ n.b2 = map.b2 /\ n.rf3 = map.rf3
  <1> DEFINE q == Quotient(offs[2] - offs[1], Divisor(freqs, 2))
  <1>1. BandCurve(2, freqs, offs) = SetsSecond(map, q, freqs[2] \div 1000)
    <2>1. 2 - 1 = 1
      OBVIOUS
    <2> QED
      BY <2>1 DEF BandCurve, SetsSecond
  <1>2. q \in Int /\ q = 0
    OBVIOUS
  <1> HIDE DEF q
  <1> QED
    BY <1>1, <1>2, SetSecond

LEMMA CurveThird ==
    ASSUME map \in Curves, NEW freqs, NEW offs, freqs[3] \div 1000 \in Int, offs[2] \in Int,
           Quotient(offs[3] - offs[2], Divisor(freqs, 3)) = 0
    PROVE  LET n == BandCurve(3, freqs, offs)
           IN  /\ n \in Curves /\ n.a1 = map.a1 /\ n.b1 = map.b1
               /\ n.a2 = 0 /\ n.b2 = offs[2]
  <1> DEFINE q == Quotient(offs[3] - offs[2], Divisor(freqs, 3))
  <1>1. BandCurve(3, freqs, offs) = SetsThird(map, q, offs[2], freqs[3] \div 1000)
    <2>1. 3 - 1 = 2
      OBVIOUS
    <2> QED
      BY <2>1 DEF BandCurve, SetsThird
  <1>2. q \in Int /\ q = 0
    OBVIOUS
  <1> HIDE DEF q
  <1> QED
    BY <1>1, <1>2, SetThird

\* The end of a scan: the offset of the point is that of a byte, and a point in
\* the window of its scan is far from the one before.
LEMMA PointDoneCal == ASSUME Inputs, CalInv, PointDone PROVE CalInv'
  <1> DEFINE n == IF level THEN scan_freq ELSE freq_in
             tabbed == Calc(regs, "EB14", "rf_cal", n)
             after == calibrate_rf(tabbed, scan_freq)
  <1>1. /\ CalTypes /\ ScanWindow /\ Points /\ FlatCurve /\ TunedRight /\ revision \in Chips
        /\ regs \in Registers /\ scan_freq \in Int /\ freq_in \in Nat /\ n \in Int
        /\ rf_freq \in Seq(Int) /\ offset \in Seq(Int)
    BY DEF CalInv, CalTypes
  <1>2. /\ step \in {"scan", "last"} /\ step' = "point"
        /\ UNCHANGED <<revision, band, tm_rfcal, rf, freq_in, sgn, count, scan_freq, level, tuned>>
    BY DEF PointDone
  <1>3. /\ rf \in 1..3 /\ freq_in = Default(rf) /\ Default(rf) # 0
        /\ Len(rf_freq) = rf - 1 /\ Len(offset) = rf - 1
    BY <1>1, <1>2 DEF CalTypes, ScanWindow, Points
  <1>4. rf_freq' = Append(rf_freq, n)
    BY DEF PointDone
  <1>5. /\ rf_freq' \in Seq(Int) /\ Len(rf_freq') = rf /\ rf_freq'[rf] = n
        /\ \A k \in 1..rf - 1 : rf_freq'[k] = rf_freq[k]
    BY <1>1, <1>3, <1>4
  <1>6. -4000 <= n - Default(rf) /\ n - Default(rf) <= 4000
    BY <1>1, <1>3, LimitFacts DEF ScanWindow
  <1>7. \/ /\ level
           /\ \E cal \in Bytes : /\ offset' = Append(offset, cal - tabbed.EB14)
                                 /\ regs' = [after EXCEPT !.EB14 = cal]
        \/ ~level /\ offset' = Append(offset, 0) /\ regs' = tabbed
    BY DEF PointDone, tda18271_calc_rf_cal
  <1>8. tabbed \in Registers /\ after \in Registers
    BY <1>1, NameFacts, CalcFacts, CalibrateFacts
  <1> HIDE DEF n, tabbed, after
  <1>9. PICK o \in Int : -255 <= o /\ o <= 255 /\ offset' = Append(offset, o)
    <2>1. tabbed.EB14 \in Nat /\ tabbed.EB14 < 256
      BY <1>8 DEF Registers, RegNames, Dividers
    <2>2. \A cal \in Bytes : cal \in Nat /\ cal < 256
      BY RfFacts
    <2> QED
      BY <1>7, <2>1, <2>2
  <1>10. regs' \in Registers
    <2>1. ASSUME NEW cal \in Bytes
          PROVE  [after EXCEPT !.EB14 = cal] \in Registers
      <3>1. cal \in Nat /\ cal < 256
        BY RfFacts
      <3> QED
        BY <1>8, <3>1 DEF Registers, RegNames, Dividers
    <2> QED
      BY <1>7, <1>8, <2>1
  <1>11. /\ offset' \in Seq(Int) /\ Len(offset') = rf /\ offset'[rf] = o
         /\ \A k \in 1..rf - 1 : offset'[k] = offset[k]
    BY <1>1, <1>3, <1>9
  <1>12. /\ measured' \in [1..3 -> SUBSET Int] /\ o \in measured'[rf]
         /\ \A k \in 1..3 : measured[k] \subseteq measured'[k]
    <2>1. measured' = [measured EXCEPT ![rf] = measured[rf] \cup {o}]
      BY <1>11 DEF PointDone
    <2>2. measured \in [1..3 -> SUBSET Int]
      BY <1>1 DEF CalTypes
    <2> QED
      BY <1>3, <2>1, <2>2
  <1>13. /\ Points'
         /\ \A k \in 1..rf : /\ Default(k) # 0
                             /\ -4000 <= rf_freq'[k] - Default(k)
                             /\ rf_freq'[k] - Default(k) <= 4000
                             /\ -255 <= offset'[k] /\ offset'[k] <= 255
    <2>1. ASSUME NEW k \in 1..rf
          PROVE  /\ Default(k) # 0
                 /\ -4000 <= rf_freq'[k] - Default(k) /\ rf_freq'[k] - Default(k) <= 4000
                 /\ -255 <= offset'[k] /\ offset'[k] <= 255
      <3>1. CASE k = rf
        BY <1>3, <1>5, <1>6, <1>9, <1>11, <3>1
      <3>2. CASE k # rf
        <4>1. k \in 1..rf - 1 /\ k \in 1..Len(rf_freq)
          BY <1>3, <3>2
        <4>2. /\ Default(k) # 0
              /\ -4000 <= rf_freq[k] - Default(k) /\ rf_freq[k] - Default(k) <= 4000
              /\ -255 <= offset[k] /\ offset[k] <= 255
          BY <1>1, <4>1 DEF Points
        <4>3. rf_freq'[k] = rf_freq[k] /\ offset'[k] = offset[k]
          BY <1>5, <1>11, <4>1
        <4> QED
          BY <4>2, <4>3
      <3> QED
        BY <3>1, <3>2
    <2>2. \A k : Default(k)' = Default(k)
      BY <1>2 DEF Default
    <2> QED
      BY <1>2, <1>3, <1>5, <1>11, <2>1, <2>2 DEF Points
  <1>14. \A k \in 2..rf : Quotient(offset'[k] - offset'[k - 1], Divisor(rf_freq', k)) = 0
    <2> SUFFICES ASSUME NEW k \in 2..rf
                 PROVE  Quotient(offset'[k] - offset'[k - 1], Divisor(rf_freq', k)) = 0
      OBVIOUS
    <2> DEFINE freqs == rf_freq'
    <2>1. Divisor(freqs, k) \in Int /\ Divisor(freqs, k) >= 59992
      <3>1. /\ freqs \in Seq(Int) /\ Len(freqs) \in 0..3 /\ k \in 2..Len(freqs)
            /\ \A j \in 1..Len(freqs) : /\ Default(j) # 0
                                 /\ -4000 <= freqs[j] - Default(j)
                                 /\ freqs[j] - Default(j) <= 4000
        BY <1>3, <1>5, <1>13
      <3> HIDE DEF freqs
      <3>2. CalTypes
        BY <1>1
      <3> QED
        BY <3>1, <3>2, FarApart
    <2>2. k \in 1..rf /\ k - 1 \in 1..rf /\ offset'[k] \in Int /\ offset'[k - 1] \in Int
      BY <1>3, <1>11
    <2>3. /\ offset'[k] - offset'[k - 1] \in Int
          /\ -510 <= offset'[k] - offset'[k - 1] /\ offset'[k] - offset'[k - 1] <= 510
      BY <1>13, <2>2
    <2> QED
      BY <2>1, <2>3, QuotientZero
  <1>15. map' = BandCurve(rf, rf_freq', offset')
    BY DEF PointDone
  <1>16. /\ map' \in Curves
         /\ FlatCurve'
    <2> DEFINE freqs == rf_freq'
               offs == offset'
    <2>1. map \in Curves /\ map.a1 = 0 /\ map.a2 = 0
      BY <1>1 DEF CalTypes, FlatCurve
    <2>2. \A k \in 1..rf : freqs[k] \div 1000 \in Int /\ offs[k] \in Int
      <3>1. \A k \in 1..rf : freqs[k] \in Int /\ offs[k] \in Int
        BY <1>5, <1>11
      <3> HIDE DEF freqs, offs
      <3> QED
        BY <3>1
    <2>3. Len(offset) = rf - 1 /\ Len(offs) = rf /\ 0 \in Int
      BY <1>3, <1>11
    <2>4. map' = BandCurve(rf, freqs, offs)
      BY <1>15
    <2>5. \A k \in 1..rf - 1 : offs[k] = offset[k]
      BY <1>11
    <2>6. \A k \in 2..rf : Quotient(offs[k] - offs[k - 1], Divisor(freqs, k)) = 0
      BY <1>14
    <2> DEFINE seen == measured'
    <2>7. FlatCurve' = /\ map'.a1 = 0 /\ map'.a2 = 0
                       /\ map'.b1 \in IF seen[1] = {} THEN {0} ELSE seen[1]
                       /\ map'.rf3 # 0 => map'.b2 \in seen[2]
                       /\ \A k \in 1..Len(offs) : offs[k] \in seen[k]
      BY DEF FlatCurve
    <2>8. /\ offs[rf] \in seen[rf] /\ \A k \in 1..3 : measured[k] \subseteq seen[k]
          /\ \A k \in 1..rf - 1 : offset[k] \in measured[k]
          /\ map.rf3 # 0 => map.b2 \in measured[2]
          /\ map.b1 \in IF measured[1] = {} THEN {0} ELSE measured[1]
      BY <1>1, <1>11, <1>12, <2>3 DEF FlatCurve
    <2> HIDE DEF freqs, offs, seen
    <2>9. \A k \in 1..Len(offs) : offs[k] \in seen[k]
      <3> SUFFICES ASSUME NEW j \in 1..rf
                   PROVE  offs[j] \in seen[j]
        BY <2>3
      <3>1. CASE j = rf
        BY <2>8, <3>1
      <3>2. CASE j # rf
        <4>1. j \in 1..rf - 1 /\ j \in 1..3
          BY <1>3, <3>2
        <4> QED
          BY <2>5, <2>8, <4>1
      <3> QED
        BY <3>1, <3>2
    <2>10. map.rf3 # 0 => map.b2 \in seen[2]
      BY <2>8
    <2>11. CASE rf = 1
      <3>1. freqs[1] \div 1000 \in Int /\ offs[1] \in Int
        BY <2>2, <2>11
      <3>2. /\ map' \in Curves /\ map'.a1 = 0 /\ map'.b1 = offs[1] /\ map'.a2 = 0
            /\ map'.b2 = map.b2 /\ map'.rf3 = map.rf3
        BY <2>1, <2>4, <2>11, <3>1, CurveFirst
      <3>3. offs[1] \in seen[1]
        BY <2>11, <2>8
      <3> QED
        BY <2>7, <2>9, <2>10, <3>2, <3>3
    <2>12. CASE rf = 2
      <3>1. Quotient(offs[2] - offs[1], Divisor(freqs, 2)) = 0
        BY <2>6, <2>12
      <3>2. map.b1 \in seen[1]
        <4>1. 1 \in 1..rf - 1
          BY <2>12
        <4> QED
          BY <2>8, <4>1
      <3>3. freqs[2] \div 1000 \in Int
        BY <2>2, <2>12
      <3>4. /\ map' \in Curves /\ map'.a1 = 0 /\ map'.b1 = map.b1 /\ map'.a2 = 0
            /\ map'.b2 = map.b2 /\ map'.rf3 = map.rf3
        BY <2>1, <2>4, <2>12, <3>1, <3>3, CurveSecond
      <3> QED
        BY <2>7, <2>9, <2>10, <3>2, <3>4
    <2>13. CASE rf = 3
      <3>1. Quotient(offs[3] - offs[2], Divisor(freqs, 3)) = 0
        BY <2>6, <2>13
      <3>2. map.b1 \in seen[1] /\ offs[2] \in seen[2]
        <4>1. 1 \in 1..rf - 1 /\ 2 \in 1..rf - 1
          BY <2>13
        <4> QED
          BY <2>5, <2>8, <4>1
      <3>3. freqs[3] \div 1000 \in Int /\ offs[2] \in Int
        BY <2>2, <2>13
      <3>4. /\ map' \in Curves /\ map'.a1 = 0 /\ map'.b1 = map.b1 /\ map'.a2 = 0
            /\ map'.b2 = offs[2]
        BY <2>1, <2>4, <2>13, <3>1, <3>3, CurveThird
      <3> QED
        BY <2>7, <2>9, <3>2, <3>4
    <2> QED
      BY <1>3, <2>11, <2>12, <2>13
  <1>17. CalTypes'
    BY <1>1, <1>2, <1>5, <1>10, <1>11, <1>16, <1>12 DEF CalTypes
  <1>18. ScanWindow'
    <2>1. Limit(freq_in)' = Limit(freq_in)
      BY <1>2 DEF Limit
    <2> QED
      BY <1>1, <1>2, <2>1 DEF ScanWindow
  <1>19. TunedRight'
    BY <1>2 DEF TunedRight
  <1> QED
    BY <1>13, <1>16, <1>17, <1>18, <1>19 DEF CalInv

\* A temperature is a byte.
LEMMA ThermometerFacts ==
    ASSUME NEW bits \in Nat, NEW fast \in BOOLEAN
    PROVE  tda18271_lookup_thermometer(bits, fast) \in 0..255
  <1> DEFINE m == tda18271_thermometer
             Stops(i) == m[i][1] >= bits \/ i = Len(m)
             FirstOf(i) == Stops(i) /\ \A j \in 1..i - 1 : m[j][1] < bits
             T == {i \in 1..Len(m) : Stops(i)}
             found == CHOOSE i \in 1..Len(m) : FirstOf(i)
  <1>1. /\ Len(m) \in Nat \ {0}
        /\ \A i \in 1..Len(m) : m[i][1] \in Nat /\ m[i][2] \in 0..255 /\ m[i][3] \in 0..255
    BY ThermometerTable
  <1>2. tda18271_lookup_thermometer(bits, fast) = m[found][IF fast THEN 3 ELSE 2]
    BY DEF tda18271_lookup_thermometer
  <1> HIDE DEF m
  <1>3. T \in SUBSET Nat /\ Len(m) \in T
    BY <1>1
  <1>4. PICK x \in T : \A y \in T : x <= y
    BY <1>3, LeastNat
  <1>5. ASSUME NEW j \in 1..x - 1
        PROVE  m[j][1] < bits
    <2>1. j \in 1..Len(m) /\ ~(x <= j)
      BY <1>1
    <2>2. ~Stops(j)
      BY <1>4, <2>1
    <2> QED
      BY <1>1, <2>1, <2>2
  <1>6. x \in 1..Len(m) /\ FirstOf(x)
    BY <1>5
  <1>7. found \in 1..Len(m)
    BY <1>6
  <1> HIDE DEF found
  <1>8. CASE fast
    <2>1. tda18271_lookup_thermometer(bits, fast) = m[found][3]
      BY <1>2, <1>8
    <2> QED
      BY <1>1, <1>7, <2>1
  <1>9. CASE ~fast
    <2>1. tda18271_lookup_thermometer(bits, fast) = m[found][2]
      BY <1>2, <1>9
    <2> QED
      BY <1>1, <1>7, <2>1
  <1> QED
    BY <1>8, <1>9

LEMMA BandDoneCal == ASSUME Inputs, CalInv, BandDone PROVE CalInv'
  <1>1. /\ step = "point" /\ step' = "tune"
        /\ UNCHANGED <<revision, band, map, regs, rf, freq_in, sgn, count, scan_freq, level,
                       rf_freq, offset, measured>>
    BY DEF BandDone, history
  <1>2. PICK t \in Temperatures, fast \in BOOLEAN :
            tm_rfcal' = tda18271_lookup_thermometer(t, fast)
    BY DEF BandDone
  <1>3. t \in Nat
    BY RfFacts
  <1>4. tm_rfcal' \in 0..255
    BY <1>2, <1>3, ThermometerFacts
  <1>5. CalTypes'
    BY <1>1, <1>4 DEF CalInv, CalTypes
  <1>6. ScanWindow'
    BY <1>1 DEF CalInv, ScanWindow, Limit
  <1>7. Points'
    <2>1. \A k : Default(k)' = Default(k)
      BY <1>1 DEF Default
    <2>2. Points
      BY DEF CalInv
    <2> QED
      BY <1>1, <2>1, <2>2 DEF Points
  <1>8. FlatCurve' /\ TunedRight'
    BY <1>1 DEF CalInv, FlatCurve, TunedRight
  <1> QED
    BY <1>5, <1>6, <1>7, <1>8 DEF CalInv

LEMMA ScanFailsCal == ASSUME CalInv, ScanFails PROVE CalInv'
  <1>1. /\ step \in {"point", "scan"} /\ step' = "tune"
        /\ freq_in' = 0 /\ sgn' = 1 /\ count' = 0 /\ scan_freq' = 0
        /\ UNCHANGED <<revision, band, map, tm_rfcal, regs, rf, level, rf_freq, offset, measured>>
    BY DEF ScanFails, history
  <1>2. CalTypes'
    BY <1>1 DEF CalInv, CalTypes
  <1>3. ScanWindow'
    <2>1. Limit(freq_in)' = Limit(0) /\ Limit(0) \in Nat
      BY <1>1, LimitFacts DEF Limit
    <2> QED
      BY <1>1, <2>1 DEF ScanWindow
  <1>4. Points'
    <2>1. \A k : Default(k)' = Default(k)
      BY <1>1 DEF Default
    <2>2. Points
      BY DEF CalInv
    <2> QED
      BY <1>1, <2>1, <2>2 DEF Points
  <1>5. FlatCurve' /\ TunedRight'
    BY <1>1 DEF CalInv, FlatCurve, TunedRight
  <1> QED
    BY <1>2, <1>3, <1>4, <1>5 DEF CalInv

\* A later calibration begins with no points, over the curve of the earlier one.
LEMMA CalibrateAgainCal == ASSUME CalInv, CalibrateAgain PROVE CalInv'
  <1>1. /\ step' = "point" /\ rf' = 0
        /\ freq_in' = 0 /\ sgn' = 1 /\ count' = 0 /\ scan_freq' = 0 /\ level' = FALSE
        /\ rf_freq' = << >> /\ offset' = << >>
        /\ UNCHANGED <<revision, band, map, tm_rfcal, regs, measured>>
    BY DEF CalibrateAgain
  <1>2. CalTypes'
    <2>1. rf_freq' \in Seq(Int) /\ offset' \in Seq(Int)
      BY <1>1
    <2>2. CalTypes
      BY DEF CalInv
    <2>3. /\ rf' \in 0..3 /\ freq_in' \in Nat /\ sgn' \in {1, -1}
          /\ count' \in Nat /\ scan_freq' \in Int
      BY <1>1
    <2>4. step' \in {"point", "scan", "last", "tune", "tuned"} /\ level' \in BOOLEAN
      BY <1>1
    <2>5. /\ revision' \in Chips /\ band' \in 1..7 /\ map' \in Curves
          /\ tm_rfcal' \in 0..255 /\ regs' \in Registers /\ measured' \in [1..3 -> SUBSET Int]
      BY <1>1, <2>2 DEF CalTypes
    <2> QED
      BY <2>1, <2>3, <2>4, <2>5 DEF CalTypes
  <1>3. ScanWindow'
    <2>1. Limit(freq_in)' = Limit(0) /\ Limit(0) \in Nat
      BY <1>1, LimitFacts DEF Limit
    <2> QED
      BY <1>1, <2>1 DEF ScanWindow
  <1>4. Points' /\ FlatCurve' /\ TunedRight'
    BY <1>1 DEF CalInv, Points, FlatCurve, TunedRight
  <1> QED
    BY <1>2, <1>3, <1>4 DEF CalInv

-----------------------------------------------------------------------------
\* A tune.
LEMMA FrequencyFacts ==
    ASSUME Inputs, CalTypes, NEW f \in Frequencies(band, rf)
    PROVE  f \in Nat
  BY DEF Inputs, CalTypes

\* What tda18271_channel_configuration leaves in the registers.
LEMMA ChannelFacts ==
    ASSUME revision \in Chips, NEW r \in Registers, NEW f \in Int
    PROVE  LET s == channel_configuration(r, f)
           IN  /\ s \in Registers
               /\ InRange(maps["bp_filter"], f) => s["bp"] = Lookup(maps["bp_filter"], f)[2]
               /\ InRange(maps["rf_band"], f) => s["band"] = Lookup(maps["rf_band"], f)[2]
               /\ InRange(maps["gain_taper"], f) => s["taper"] = Lookup(maps["gain_taper"], f)[2]
               /\ InRange(maps["ir_measure"], f) => s["ir"] = Lookup(maps["ir_measure"], f)[2]
               /\ InRange(maps["main_pll"], f + 1250000) =>
                     LET e == Lookup(maps["main_pll"], f + 1250000)
                     IN  s["MPD"] = e[2] /\ s["MD"] = Div(e[3], f + 1250000) % 2^23
               /\ s["EB14"] = r["EB14"]
  <1> DEFINE r1 == Calc(r, "ir", "ir_measure", f)
             r2 == Calc(r1, "bp", "bp_filter", f)
             r3 == Calc(r2, "band", "rf_band", f)
             r4 == Calc(r3, "taper", "gain_taper", f)
             s == CalcPll(r4, "MPD", "MD", "main_pll", f + 1250000)
  <1>1. /\ r1 \in Registers
        /\ InRange(maps["ir_measure"], f) => r1["ir"] = Lookup(maps["ir_measure"], f)[2]
        /\ \A y \in RegNames \ {"ir"} : r1[y] = r[y]
    BY NameFacts, CalcFacts
  <1>2. channel_configuration(r, f) = s
    BY DEF channel_configuration, tda18271_calc_ir_measure, tda18271_calc_bp_filter,
           tda18271_calc_rf_band, tda18271_calc_gain_taper, tda18271_calc_main_pll
  <1> HIDE DEF r1
  <1>3. /\ r2 \in Registers
        /\ InRange(maps["bp_filter"], f) => r2["bp"] = Lookup(maps["bp_filter"], f)[2]
        /\ \A y \in RegNames \ {"bp"} : r2[y] = r1[y]
    BY <1>1, NameFacts, CalcFacts
  <1> HIDE DEF r2
  <1>4. /\ r3 \in Registers
        /\ InRange(maps["rf_band"], f) => r3["band"] = Lookup(maps["rf_band"], f)[2]
        /\ \A y \in RegNames \ {"band"} : r3[y] = r2[y]
    BY <1>3, NameFacts, CalcFacts
  <1> HIDE DEF r3
  <1>5. /\ r4 \in Registers
        /\ InRange(maps["gain_taper"], f) => r4["taper"] = Lookup(maps["gain_taper"], f)[2]
        /\ \A y \in RegNames \ {"taper"} : r4[y] = r3[y]
    BY <1>4, NameFacts, CalcFacts
  <1> HIDE DEF r4
  <1>6. /\ s \in Registers
        /\ InRange(maps["main_pll"], f + 1250000) =>
              /\ s["MPD"] = Lookup(maps["main_pll"], f + 1250000)[2]
              /\ s["MD"] = Div(Lookup(maps["main_pll"], f + 1250000)[3], f + 1250000) % 2^23
        /\ \A y \in RegNames \ {"MPD", "MD"} : s[y] = r4[y]
    <2> DEFINE g == f + 1250000
    <2>1. g \in Int
      OBVIOUS
    <2>2. "MPD" \in RegNames \ Dividers /\ "MD" \in Dividers /\ r4 \in Registers
      BY <1>5, NameFacts
    <2> HIDE DEF g
    <2>3. /\ CalcPll(r4, "MPD", "MD", "main_pll", g) \in Registers
          /\ InRange(maps["main_pll"], g) =>
                /\ CalcPll(r4, "MPD", "MD", "main_pll", g)["MPD"] = Lookup(maps["main_pll"], g)[2]
                /\ CalcPll(r4, "MPD", "MD", "main_pll", g)["MD"]
                      = Div(Lookup(maps["main_pll"], g)[3], g) % 2^23
          /\ \A y \in RegNames \ {"MPD", "MD"} :
                CalcPll(r4, "MPD", "MD", "main_pll", g)[y] = r4[y]
      BY <2>1, <2>2, PllFacts
    <2> QED
      BY <2>3 DEF g
  <1> HIDE DEF s
  <1>7. /\ s["ir"] = r1["ir"] /\ s["bp"] = r2["bp"] /\ s["band"] = r3["band"]
        /\ s["taper"] = r4["taper"] /\ s["EB14"] = r["EB14"]
    BY <1>1, <1>3, <1>4, <1>5, <1>6 DEF RegNames
  <1> QED
    BY <1>1, <1>2, <1>3, <1>4, <1>5, <1>6, <1>7

\* What the calibration of the filter by a C1 leaves.
LEMMA C1Facts ==
    ASSUME revision \in Chips, NEW r \in Registers, NEW f \in Int
    PROVE  c1_plls(r, f) \in Registers /\ c1_rf_tracking_filter_calibration(r, f) \in Registers
  <1> DEFINE r1 == Calc(r, "bp", "bp_filter", f)
             r2 == [r1 EXCEPT !.EB14 = 0]
             r3 == CalcPll(r2, "CPD", "CD", "cal_pll", f - 1250000)
             r4 == CalcPll(r3, "MPD", "MD", "main_pll", f - 250000)
             r5 == Calc(r4, "km", "rf_cal_kmco", f)
             r6 == Calc(r5, "band", "rf_band", f)
             r7 == Calc(r6, "taper", "gain_taper", f)
             r8 == Calc(r7, "EB14", "rf_cal", f)
  <1>1. r1 \in Registers
    BY NameFacts, CalcFacts
  <1>2. c1_plls(r, f) = r4 /\ c1_rf_tracking_filter_calibration(r, f) = r8
    BY DEF c1_plls, c1_rf_tracking_filter_calibration, tda18271_calc_bp_filter,
           tda18271_calc_cal_pll, tda18271_calc_main_pll, tda18271_calc_km,
           tda18271_calc_rf_band, tda18271_calc_gain_taper, tda18271_calc_rf_cal
  <1> HIDE DEF r1
  <1>3. r2 \in Registers
    BY <1>1 DEF Registers, RegNames, Dividers
  <1>4. f - 1250000 \in Int /\ f - 250000 \in Int
    OBVIOUS
  <1> HIDE DEF r2
  <1>5. r3 \in Registers
    BY <1>3, <1>4, NameFacts, PllFacts
  <1> HIDE DEF r3
  <1>6. r4 \in Registers
    BY <1>4, <1>5, NameFacts, PllFacts
  <1> HIDE DEF r4
  <1>7. r5 \in Registers
    BY <1>6, NameFacts, CalcFacts
  <1> HIDE DEF r5
  <1>8. r6 \in Registers
    BY <1>7, NameFacts, CalcFacts
  <1> HIDE DEF r6
  <1>9. r7 \in Registers
    BY <1>8, NameFacts, CalcFacts
  <1> HIDE DEF r7
  <1>10. r8 \in Registers
    BY <1>9, NameFacts, CalcFacts
  <1> QED
    BY <1>2, <1>6, <1>10

\* Bounds of the compensation: at most 154 for each degree, of at most 255.
LEMMA ProductBound ==
    ASSUME NEW a \in Nat, a <= 154, NEW d \in Nat, d <= 255
    PROVE  a * d \in Nat /\ a * d <= 39270
  <1>1. ASSUME NEW x \in Nat, NEW y \in Nat, NEW z \in Nat, x <= y
        PROVE  z * x <= z * y
    BY <1>1
  <1>2. a * d <= a * 255
    BY <1>1
  <1>3. a * 255 <= 39270
    OBVIOUS
  <1> QED
    BY <1>2, <1>3

LEMMA QuotientBound ==
    ASSUME NEW n \in Int, -39270 <= n, n <= 39270
    PROVE  Quotient(n, 1000) \in -39..39
  <1>1. ASSUME NEW m \in Nat, m <= 39270
        PROVE  m \div 1000 \in Nat /\ m \div 1000 <= 39
    BY <1>1
  <1>2. CASE n >= 0
    BY <1>1, <1>2 DEF Quotient
  <1>3. CASE n < 0
    <2> DEFINE m == -n
    <2>1. m \in Nat /\ m <= 39270
      BY <1>3
    <2>2. m \div 1000 \in Nat /\ m \div 1000 <= 39
      BY <1>1, <2>1
    <2> QED
      BY <1>3, <2>2 DEF Quotient
  <1> QED
    BY <1>2, <1>3

LEMMA CompensationBound ==
    ASSUME NEW a \in Nat, a <= 154, NEW d \in Int, -255 <= d, d <= 255, NEW n, n = a * d
    PROVE  Quotient(n, 1000) \in -39..39
  <1>1. CASE d >= 0
    <2>1. a * d \in Nat /\ a * d <= 39270
      BY <1>1, ProductBound
    <2> QED
      BY <2>1, QuotientBound
  <1>2. CASE d < 0
    <2> DEFINE c == -d
    <2>1. c \in Nat /\ c <= 255 /\ d = -c
      BY <1>2
    <2>2. a * c \in Nat /\ a * c <= 39270
      BY <2>1, ProductBound
    <2>3. ASSUME NEW x \in Nat, NEW y \in Int, NEW z \in Int, z = -y
          PROVE  x * z = -(x * y)
      BY <2>3
    <2>4. a * d = -(a * c)
      BY <2>1, <2>3
    <2> QED
      BY <2>2, <2>4, QuotientBound
  <1> QED
    BY <1>1, <1>2

\* The correction of the filter is an offset measured at a point around the
\* frequency: the curve is flat.
LEMMA ApproxFacts ==
    ASSUME CalTypes, Points, FlatCurve, NEW tab \in Nat, NEW f \in Nat
    PROVE  /\ \E o \in Around(f) : Approx(tab, f) = Clamp(tab + o)
           /\ Approx(tab, f) \in 0..255
  <1> DEFINE khz == f \div 1000
  <1>1. khz \in Int
    OBVIOUS
  <1> HIDE DEF khz
  <1>2. /\ map.a1 = 0 /\ map.a2 = 0 /\ map.rf1 \in Int /\ map.rf2 \in Int
        /\ map.b1 \in Int /\ map.b2 \in Int
    BY DEF CalTypes, Curves, FlatCurve
  <1>3. ASSUME NEW x \in Int
        PROVE  0 * x = 0
    OBVIOUS
  <1>4. map.a1 * (khz - map.rf1) = 0 /\ map.a2 * (khz - map.rf2) = 0
    BY <1>1, <1>2, <1>3
  <1>5. ASSUME NEW x \in Int
        PROVE  Clamp(x) \in 0..255
    BY DEF Clamp
  <1>6. /\ map.b1 \in IF measured[1] = {} THEN {0} ELSE measured[1]
        /\ map.rf3 # 0 => map.b2 \in measured[2]
        /\ map.rf3 \in Int
    BY DEF FlatCurve, CalTypes, Curves
  <1>7. CASE map.rf3 = 0 \/ khz < map.rf2
    <2>1. Approx(tab, f) = Clamp(map.b1 + tab)
      <3>1. Approx(tab, f) = Clamp(map.a1 * (khz - map.rf1) + map.b1 + tab)
        BY <1>7 DEF Approx, khz
      <3>2. map.a1 * (khz - map.rf1) + map.b1 + tab = map.b1 + tab
        BY <1>2, <1>4
      <3> QED
        BY <3>1, <3>2
    <2>2. map.b1 \in Around(f)
      <3>1. ~(map.rf3 # 0 /\ khz >= map.rf2)
        BY <1>1, <1>2, <1>7
      <3>2. Around(f) = IF measured[1] = {} THEN {0} ELSE measured[1] \cup measured[2]
        BY <3>1 DEF Around, khz
      <3> QED
        BY <1>6, <3>2
    <2>3. map.b1 + tab = tab + map.b1 /\ map.b1 + tab \in Int
      BY <1>2
    <2> QED
      BY <1>5, <2>1, <2>2, <2>3
  <1>8. CASE ~(map.rf3 = 0 \/ khz < map.rf2)
    <2>1. Approx(tab, f) = Clamp(map.b2 + tab)
      <3>1. Approx(tab, f) = Clamp(map.a2 * (khz - map.rf2) + map.b2 + tab)
        BY <1>8 DEF Approx, khz
      <3>2. map.a2 * (khz - map.rf2) + map.b2 + tab = map.b2 + tab
        BY <1>2, <1>4
      <3> QED
        BY <3>1, <3>2
    <2>2. map.b2 \in Around(f)
      <3>1. map.rf3 # 0 /\ khz >= map.rf2
        BY <1>1, <1>2, <1>8
      <3>2. Around(f) = measured[2] \cup measured[3]
        BY <3>1 DEF Around, khz
      <3> QED
        BY <1>6, <3>1, <3>2
    <2>3. map.b2 + tab = tab + map.b2 /\ map.b2 + tab \in Int
      BY <1>2
    <2> QED
      BY <1>5, <2>1, <2>2, <2>3
  <1> QED
    BY <1>7, <1>8

\* A frequency that the driver has a band for is in the table of the filter.
LEMMA BandCovered ==
    ASSUME NEW f \in Nat, HasBand(f)
    PROVE  Covers(tda18271c2_rf_cal, f)
  <1> DEFINE m == tda18271_rf_band_template
             p == Found(m, f)
             c == tda18271c2_rf_cal
  <1>1. Len(m) = 7 /\ \A b \in 1..7 : m[b][1] \in Nat /\ m[b][1] <= 865000
    BY BandTemplate
  <1>2. p \in 1..Len(m)
    <2>1. Len(m) \in Nat \ {0}
      BY <1>1
    <2> HIDE DEF m
    <2> QED
      BY <2>1, FoundFacts
  <1>3. m[p][1] * 1000 >= f
    BY DEF HasBand, InRange, Reaches
  <1> HIDE DEF m, p
  <1>4. f <= 865000000
    BY <1>1, <1>2, <1>3
  <1>5. c[Len(c)][1] >= 865000 /\ IsTable(c)
    BY C2RfCalTable
  <1> HIDE DEF c
  <1>6. Len(c) \in 1..Len(c) /\ c[Len(c)][1] \in Nat
    BY <1>5 DEF IsTable
  <1>7. c[Len(c)][1] * 1000 >= f
    BY <1>4, <1>5, <1>6
  <1> QED
    BY <1>6, <1>7 DEF Covers, c

\* An entry that is found is the one a frequency belongs to.
LEMMA CoveredFacts ==
    ASSUME revision \in Chips, NEW t \in RisingNames, NEW f \in Int, Covers(maps[t], f)
    PROVE  InRange(maps[t], f) /\ Reference(maps[t], f) = Lookup(maps[t], f)
  <1>1. IsTable(maps[t]) /\ Rises(maps[t])
    BY MapsFacts DEF RisingNames
  <1> QED
    BY <1>1, CoveredInRange, LookupIsReference

\* The correction leaves the byte close to the curve.
CloseTo(r, tab, approx) ==
    /\ tab \in Nat
    /\ approx \in 39..216 => r["EB14"] \in approx - 39..approx + 39

\* What the correction of the filter of a C2 leaves.
LEMMA C2Facts ==
    ASSUME CalTypes, Points, FlatCurve, revision = "C2", NEW r \in Registers, NEW f \in Nat,
           NEW tm \in 0..255
    PROVE  LET s == c2_rf_tracking_filters_correction(r, f, tm)
               tab == Reference(maps["rf_cal"], f)[2]
               approx == Approx(tab, f)
           IN  /\ s \in Registers
               /\ HasBand(f) => CloseTo(s, tab, approx)
  <1> DEFINE r1 == Calc(r, "EB14", "rf_cal", f)
             tab == Reference(maps["rf_cal"], f)[2]
             comp == Compensation(f, tm)
  <1>1. revision \in Chips /\ f \in Int
    BY DEF Chips
  <1>2. /\ r1 \in Registers
        /\ InRange(maps["rf_cal"], f) => r1["EB14"] = Lookup(maps["rf_cal"], f)[2]
    BY <1>1, NameFacts, CalcFacts
  <1> HIDE DEF r1
  <1>3. CASE ~HasBand(f)
    BY <1>2, <1>3 DEF c2_rf_tracking_filters_correction, tda18271_calc_rf_cal, r1
  <1>4. CASE HasBand(f)
    <2>1. c2_rf_tracking_filters_correction(r, f, tm)
            = [r1 EXCEPT !.EB14 = (Approx(r1.EB14, f) + comp) % 256]
      BY <1>4 DEF c2_rf_tracking_filters_correction, tda18271_calc_rf_cal, r1
    <2>2. "rf_cal" \in RisingNames /\ Covers(maps["rf_cal"], f) /\ IsTable(maps["rf_cal"])
      BY <1>1, <1>4, MapsFacts, BandCovered DEF RisingNames, Names
    <2>3. r1["EB14"] = tab /\ tab \in Nat /\ tab < 256
      BY <1>1, <1>2, <2>2, CoveredFacts, LookupFacts
    <2> HIDE DEF tab
    <2>4. comp \in -39..39
      <3> DEFINE m == tda18271_rf_cal_dc_over_dt
                 a == Lookup(m, f)[2]
                 d == tm - tm_rfcal
      <3>1. IsTable(m) /\ \A i \in 1..Len(m) : m[i][2] <= 154
        BY DcOverDtTable
      <3>2. maps["rf_cal_dc_over_dt"] = m
        BY <1>1, MapsFacts
      <3> HIDE DEF m
      <3>3. a \in Nat /\ a <= 154
        BY <3>1, LookupFacts, FoundFacts DEF IsTable, Lookup
      <3>4. d \in Int /\ -255 <= d /\ d <= 255
        BY DEF CalTypes
      <3> HIDE DEF a, d
      <3> DEFINE n == a * d
      <3>5. n = a * d
        OBVIOUS
      <3> HIDE DEF n
      <3>6. Quotient(n, 1000) \in -39..39
        BY <3>3, <3>4, <3>5, CompensationBound
      <3> QED
        BY <3>2, <3>6 DEF Compensation, a, d, n
    <2> HIDE DEF comp
    <2> DEFINE approx == Approx(tab, f)
               v == (approx + comp) % 256
    <2>5. approx \in 0..255
      BY <2>3, ApproxFacts
    <2> HIDE DEF approx
    <2>6. /\ v \in Nat /\ v < 256
          /\ approx \in 39..216 => v \in approx - 39..approx + 39
      BY <2>4, <2>5
    <2> HIDE DEF v
    <2> DEFINE s == [r1 EXCEPT !.EB14 = v]
    <2>7. s \in Registers /\ s["EB14"] = v
      BY <1>2, <2>6 DEF Registers, RegNames, Dividers
    <2>8. c2_rf_tracking_filters_correction(r, f, tm) = s
      <3>1. r1.EB14 = tab
        BY <2>3
      <3> QED
        BY <2>1, <3>1 DEF v, approx
    <2> HIDE DEF s
    <2> QED
      BY <1>4, <2>3, <2>6, <2>7, <2>8 DEF approx, tab, CloseTo
  <1> QED
    BY <1>3, <1>4

LEMMA TuneCal == ASSUME Inputs, CalInv, TuneIn PROVE CalInv'
  <1>1. /\ CalTypes /\ ScanWindow /\ Points /\ FlatCurve /\ revision \in Chips /\ regs \in Registers
    BY DEF CalInv, CalTypes
  <1>2. /\ step = "tune" /\ step' = "tuned"
        /\ UNCHANGED <<revision, band, map, tm_rfcal, rf, freq_in, sgn, count, scan_freq, level,
                       rf_freq, offset, measured>>
    BY DEF TuneIn, history
  <1>3. PICK f \in Frequencies(band, rf) :
            /\ tuned' = f /\ lo' = f + 1250000
            /\ \/ /\ revision = "C1"
                  /\ \/ regs' = channel_configuration(c1_plls(regs, f), f)
                     \/ regs' = channel_configuration(
                                    c1_rf_tracking_filter_calibration(regs, f), f)
               \/ /\ revision = "C2" /\ corrected' = FALSE
                  /\ regs' = channel_configuration(regs, f)
               \/ /\ revision = "C2"
                  /\ \E t \in Temperatures, fast \in BOOLEAN :
                        regs' = channel_configuration(
                                    c2_rf_tracking_filters_correction(
                                        regs, f, tda18271_lookup_thermometer(t, fast)), f)
    BY DEF TuneIn
  <1>4. f \in Nat /\ f \in Int
    BY <1>1, FrequencyFacts
  <1> DEFINE tab == Reference(maps["rf_cal"], f)[2]
             approx == Approx(tab, f)
  <1> DEFINE Right(r) == revision = "C2" /\ corrected' /\ HasBand(f) => CloseTo(r, tab, approx)
             Done(r) == regs' = channel_configuration(r, f)
             uncorrected == corrected' = FALSE
             c1(r) == c1_rf_tracking_filter_calibration(r, f)
             c2(r, tm) == c2_rf_tracking_filters_correction(r, f, tm)
  <1> HIDE DEF tab, approx
  <1>5. PICK r \in Registers : regs' = channel_configuration(r, f) /\ Right(r)
    <2>1. \/ revision = "C1" /\ (Done(c1_plls(regs, f)) \/ Done(c1(regs)))
          \/ revision = "C2" /\ uncorrected /\ Done(regs)
          \/ /\ revision = "C2"
             /\ \E t \in Temperatures, fast \in BOOLEAN :
                   Done(c2(regs, tda18271_lookup_thermometer(t, fast)))
      BY <1>3
    <2>2. ASSUME revision = "C1"
          PROVE  \A r : Right(r)
      BY <2>2
    <2>3. c1_plls(regs, f) \in Registers /\ c1(regs) \in Registers
      BY <1>1, <1>4, C1Facts
    <2>4. ASSUME uncorrected
          PROVE  Right(regs)
      <3>1. ~corrected'
        BY <2>4, Zenon
      <3> QED
        BY <3>1
    <2>5. ASSUME revision = "C2", NEW t \in Temperatures, NEW fast \in BOOLEAN
          PROVE  /\ c2(regs, tda18271_lookup_thermometer(t, fast)) \in Registers
                 /\ Right(c2(regs, tda18271_lookup_thermometer(t, fast)))
      <3> DEFINE tm == tda18271_lookup_thermometer(t, fast)
      <3>1. tm \in 0..255
        <4>1. t \in Nat
          BY RfFacts
        <4> QED
          BY <4>1, ThermometerFacts
      <3> HIDE DEF tm
      <3>2. c2(regs, tm) \in Registers /\ (HasBand(f) => CloseTo(c2(regs, tm), tab, approx))
        BY <1>1, <1>4, <2>5, <3>1, C2Facts DEF tab, approx
      <3> QED
        BY <3>2 DEF tm
    <2> HIDE DEF Right, Done, uncorrected, c1, c2
    <2>6. \E r \in Registers : Done(r) /\ Right(r)
      BY <1>1, <2>1, <2>2, <2>3, <2>4, <2>5
    <2> QED
      BY <2>6 DEF Done
  <1> HIDE DEF Done, uncorrected, c1, c2
  <1> DEFINE g == f + 1250000
  <1>6. g \in Int
    BY <1>4
  <1>7. /\ regs' \in Registers
        /\ InRange(maps["bp_filter"], f) => regs'["bp"] = Lookup(maps["bp_filter"], f)[2]
        /\ InRange(maps["rf_band"], f) => regs'["band"] = Lookup(maps["rf_band"], f)[2]
        /\ InRange(maps["gain_taper"], f) => regs'["taper"] = Lookup(maps["gain_taper"], f)[2]
        /\ InRange(maps["ir_measure"], f) => regs'["ir"] = Lookup(maps["ir_measure"], f)[2]
        /\ InRange(maps["main_pll"], g) =>
              /\ regs'["MPD"] = Lookup(maps["main_pll"], g)[2]
              /\ regs'["MD"] = Div(Lookup(maps["main_pll"], g)[3], g) % 2^23
        /\ regs'["EB14"] = r["EB14"]
    <2> DEFINE s == channel_configuration(r, f)
    <2>1. /\ s \in Registers
          /\ InRange(maps["bp_filter"], f) => s["bp"] = Lookup(maps["bp_filter"], f)[2]
          /\ InRange(maps["rf_band"], f) => s["band"] = Lookup(maps["rf_band"], f)[2]
          /\ InRange(maps["gain_taper"], f) => s["taper"] = Lookup(maps["gain_taper"], f)[2]
          /\ InRange(maps["ir_measure"], f) => s["ir"] = Lookup(maps["ir_measure"], f)[2]
          /\ InRange(maps["main_pll"], g) =>
                /\ s["MPD"] = Lookup(maps["main_pll"], g)[2]
                /\ s["MD"] = Div(Lookup(maps["main_pll"], g)[3], g) % 2^23
          /\ s["EB14"] = r["EB14"]
      BY <1>1, <1>4, ChannelFacts
    <2> HIDE DEF s
    <2>2. regs' = s
      BY <1>5 DEF s
    <2> HIDE DEF g
    <2> QED
      BY <2>1, <2>2
  <1> HIDE DEF g
  <1>8. tuned' = f /\ lo' = g /\ maps' = maps
    BY <1>2, <1>3 DEF maps, g
  <1>9. /\ \A t \in {"bp_filter", "rf_band", "gain_taper", "ir_measure", "main_pll"} :
              t \in RisingNames
    BY DEF RisingNames, Names
  <1>10. FieldsRight'
    <2> SUFFICES ASSUME NEW pair \in {<<"bp", "bp_filter">>, <<"band", "rf_band">>,
                                      <<"taper", "gain_taper">>, <<"ir", "ir_measure">>},
                        Covers(maps[pair[2]], f)
                 PROVE  regs'[pair[1]] = Reference(maps[pair[2]], f)[2]
      BY <1>8 DEF FieldsRight
    <2>1. pair[2] \in RisingNames
      BY <1>9
    <2>2. /\ InRange(maps[pair[2]], f)
          /\ Reference(maps[pair[2]], f) = Lookup(maps[pair[2]], f)
      BY <1>1, <1>4, <2>1, CoveredFacts
    <2> QED
      BY <1>7, <2>2
  <1>11. PllExact'
    <2> DEFINE m == maps["main_pll"]
               e == Lookup(m, g)
               exact == e[3] * (g \div 1000) * 128
               q == Div(e[3], g) % 2^23
    <2> SUFFICES ASSUME Covers(m, g)
                 PROVE  /\ Reference(m, g) = e
                        /\ regs'["MPD"] = e[2] /\ regs'["MD"] = q
                        /\ q * 125 <= exact /\ exact < (q + 1) * 125
      BY <1>8 DEF PllExact
    <2>1. InRange(m, g) /\ Reference(m, g) = e
      BY <1>1, <1>6, <1>9, CoveredFacts
    <2>2. regs'["MPD"] = e[2] /\ regs'["MD"] = q
      BY <1>7, <2>1
    <2>3. e[1] \in Nat /\ e[3] \in Nat /\ e[1] * e[3] < 8192000
      <3>1. IsTable(m) /\ IsPll(m)
        BY <1>1, MapsFacts DEF Names
      <3> HIDE DEF m
      <3> QED
        BY <3>1, LookupFacts
    <2>4. g <= e[1] * 1000
      BY <2>1, <1>6, <2>3 DEF InRange, Reaches, Lookup
    <2>5. g \in Nat
      BY <1>4 DEF g
    <2> HIDE DEF m, e
    <2>6. q * 125 <= exact /\ exact < (q + 1) * 125
      BY <2>3, <2>4, <2>5, DivExact
    <2> QED
      BY <2>1, <2>2, <2>6
  <1>12. CorrectionBetween'
    <2>1. \/ (\E o \in Around(f) : approx = Clamp(tab + o)) /\ approx \in 0..255
          \/ ~(revision = "C2" /\ corrected' /\ HasBand(f))
      BY <1>1, <1>4, <1>5, ApproxFacts DEF approx, CloseTo
    <2>2. revision = "C2" /\ corrected' /\ HasBand(f) =>
              /\ \E o \in Around(f) : Clamp(tab + o) <= approx
              /\ \E o \in Around(f) : approx <= Clamp(tab + o)
              /\ approx \in 39..216 => regs'["EB14"] \in approx - 39..approx + 39
      BY <1>5, <1>7, <2>1 DEF CloseTo
    <2>3. Around(tuned)' = Around(f)
      BY <1>2, <1>8 DEF Around
    <2>4. Reference(maps["rf_cal"], tuned)' = Reference(maps["rf_cal"], f)
      BY <1>8
    <2>5. /\ revision' = revision /\ HasBand(tuned)' = HasBand(f)
          /\ \A x : Approx(x, tuned)' = Approx(x, f)
      BY <1>2, <1>8 DEF Approx
    <2> QED
      BY <2>2, <2>3, <2>4, <2>5 DEF CorrectionBetween, tab, approx
  <1>13. TunedRight'
    BY <1>10, <1>11, <1>12 DEF TunedRight
  <1>14. CalTypes'
    BY <1>1, <1>2, <1>7 DEF CalTypes
  <1>15. ScanWindow'
    BY <1>1, <1>2 DEF ScanWindow, Limit
  <1>16. Points'
    BY <1>1, <1>2 DEF Points, Default
  <1>17. FlatCurve'
    BY <1>1, <1>2 DEF FlatCurve
  <1> QED
    BY <1>13, <1>14, <1>15, <1>16, <1>17 DEF CalInv

LEMMA OtherCal == ASSUME CalInv, UNCHANGED calVars PROVE CalInv'
  <1>1. UNCHANGED <<revision, band, map, tm_rfcal, regs, lo, step, rf, freq_in, sgn, count,
                    scan_freq, level, rf_freq, offset, tuned, corrected, measured>>
    BY DEF calVars, history
  <1>2. CalTypes' /\ FlatCurve'
    BY <1>1 DEF CalInv, CalTypes, FlatCurve
  <1>3. ScanWindow' /\ Points'
    BY <1>1 DEF CalInv, ScanWindow, Points, Limit, Default
  <1>4. TunedRight'
    <2>1. maps' = maps
      BY <1>1 DEF maps
    <2>2. FieldsRight = FieldsRight'
      BY <1>1, <2>1 DEF FieldsRight
    <2>3. PllExact = PllExact'
      BY <1>1, <2>1 DEF PllExact
    <2>4. CorrectionBetween = CorrectionBetween'
      BY <1>1, <2>1 DEF CorrectionBetween, Around, Approx
    <2> QED
      BY <1>1, <2>2, <2>3, <2>4 DEF CalInv, TunedRight
  <1> QED
    BY <1>2, <1>3, <1>4 DEF CalInv

LEMMA CalInductive == ASSUME RfAssumption PROVE CalSpec => []CalInv
  <1> Inputs
    BY DEF RfAssumption, Inputs
  <1>1. CalInit => CalInv
    BY InitCal
  <1>2. CalInv /\ [CalNext]_calVars => CalInv'
    BY ScanPointCal, ScanOnCal, PointDoneCal, BandDoneCal, ScanFailsCal, TuneCal,
       CalibrateAgainCal, OtherCal
       DEF CalNext
  <1> QED
    BY <1>1, <1>2, PTL DEF CalSpec

LEMMA CalImpliesTypes == ASSUME CalInv PROVE CalTypeOK
  <1>1. CalTypes /\ ScanWindow /\ Points
    BY DEF CalInv
  <1>2. /\ step \in {"point", "scan", "last", "tune", "tuned"}
        /\ rf \in 0..3 /\ tm_rfcal \in 0..255 /\ rf_freq \in Seq(Int)
    BY <1>1 DEF CalTypes
  <1>3. Len(rf_freq) \in {rf - 1, rf} /\ Len(offset) = Len(rf_freq)
    BY <1>1 DEF Points
  <1>4. /\ \A field \in DOMAIN regs \ {"MD", "CD"} : regs[field] \in 0..255
        /\ regs["MD"] \in 0..2^23 - 1 /\ regs["CD"] \in 0..2^23 - 1
    <2>1. /\ DOMAIN regs = RegNames /\ \A x \in RegNames : regs[x] \in Nat
          /\ \A x \in RegNames \ Dividers : regs[x] < 256
          /\ \A x \in Dividers : regs[x] < 2^23
      BY <1>1 DEF CalTypes, Registers
    <2>2. 2^23 = 8388608
      OBVIOUS
    <2>3. Dividers = {"MD", "CD"} /\ Dividers \subseteq RegNames
      BY DEF Dividers, RegNames
    <2>4. ASSUME NEW x \in Dividers
          PROVE  regs[x] \in 0..2^23 - 1
      <3> DEFINE n == regs[x]
      <3>1. n \in Nat /\ n < 8388608
        BY <2>1, <2>2, <2>3
      <3> HIDE DEF n
      <3>2. n \in 0..2^23 - 1
        BY <2>2, <3>1
      <3> QED
        BY <3>2 DEF n
    <2>5. ASSUME NEW x \in RegNames \ Dividers
          PROVE  regs[x] \in 0..255
      BY <2>1
    <2>6. "MD" \in Dividers /\ "CD" \in Dividers
      BY <2>3
    <2>7. \A field \in DOMAIN regs \ {"MD", "CD"} : field \in RegNames \ Dividers
      BY <2>1, <2>3
    <2> QED
      BY <2>4, <2>5, <2>6, <2>7
  <1>5. scan_freq - freq_in \in -Limit(freq_in)..Limit(freq_in)
    <2>1. Limit(freq_in) \in Nat /\ scan_freq - freq_in \in Int
      BY <1>1, LimitFacts DEF CalTypes
    <2> QED
      BY <1>1, <2>1 DEF ScanWindow
  <1>6. \A k \in 2..Len(rf_freq) : Divisor(rf_freq, k) > 0
    <2>1. Len(rf_freq) \in 0..3
      BY <1>2, <1>3, SMTT(30)
    <2>2. \A k \in 2..Len(rf_freq) : Divisor(rf_freq, k) \in Int /\ Divisor(rf_freq, k) >= 59992
      <3>1. \A k \in 1..Len(rf_freq) : /\ Default(k) # 0
                                        /\ -4000 <= rf_freq[k] - Default(k)
                                        /\ rf_freq[k] - Default(k) <= 4000
        BY <1>1 DEF Points
      <3>2. CalTypes /\ rf_freq \in Seq(Int)
        BY <1>1, <1>2
      <3> DEFINE freqs == rf_freq
      <3>3. /\ freqs \in Seq(Int) /\ Len(freqs) \in 0..3
            /\ \A k \in 1..Len(freqs) : /\ Default(k) # 0
                                        /\ -4000 <= freqs[k] - Default(k)
                                        /\ freqs[k] - Default(k) <= 4000
        BY <2>1, <3>1, <3>2
      <3> HIDE DEF freqs
      <3>4. \A k \in 2..Len(freqs) : Divisor(freqs, k) \in Int /\ Divisor(freqs, k) >= 59992
        BY <3>2, <3>3, FarApart
      <3> QED
        BY <3>4 DEF freqs
    <2> QED
      BY <2>2
  <1> QED
    BY <1>2, <1>3, <1>4, <1>5, <1>6 DEF CalTypeOK

\* For all bytes that the calibration may return, all counts, all temperatures and
\* any number of calibrations: the registers hold bytes and 23 bits of dividers, a scan stays
\* within its limit, and no slope is divided by zero.
THEOREM CalTypeCorrect == ASSUME RfAssumption PROVE CalSpec => []CalTypeOK
  BY CalInductive, CalImpliesTypes, PTL

\* And after a tune every register holds the value that its table has for the
\* frequency, the divider is exact, and the filter, where the chip could be taken out
\* of standby to correct it, is corrected by an offset that one of the calibrations
\* measured, and by at most 39 for the temperature.
THEOREM TuneIsRight == ASSUME RfAssumption PROVE CalSpec => []TunedRight
  <1>1. CalInv => TunedRight
    BY DEF CalInv
  <1> QED
    BY <1>1, CalInductive, PTL

=============================================================================
