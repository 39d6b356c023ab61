--------------------------- MODULE RfCalibration ---------------------------
(***************************************************************************)
(* The arithmetic of the TDA18271 driver, on the tables of TunerTables:    *)
(* the power scan and the calibration of the tracking filter of one band   *)
(* (tda18271_rf_tracking_filters_init), then tda18271_tune with its        *)
(* correction of the filter and its PLL settings.  A later tune may try    *)
(* the calibration again, over the entry that the earlier one left.  The   *)
(* order of transfers and what becomes of the other registers is in Tuner. *)
(*                                                                         *)
(* External: the power that the chip measures, what its calibration        *)
(* returns, and its temperature.                                           *)
(***************************************************************************)
EXTENDS TunerTables

CONSTANTS
    Bytes,              \* bytes that the chip's calibration or uninitialised memory holds
    HitCounts(_),       \* bound: counts of the scan at which power is found or a read fails,
                        \* by calibration
    Temperatures,       \* bound: the low bits of the register TM
    Frequencies(_, _),  \* bound: what a band is tuned to, after so many points
    MaxCalibrations,    \* bound: calibrations of the band
    Retried(_, _)       \* bound: entries of rf_cal_state and frequencies tuned to behind
                        \* which the calibration is tried again

\* The last table ends at 865 MHz; below 1250 kHz the PLLs' frequencies would wrap.
ASSUME RfAssumption ==
    /\ Bytes \subseteq 0..255 /\ Temperatures \subseteq 0..15
    /\ \A b \in 1..7, k \in 0..3 : \A f \in Frequencies(b, k) :
           f \in Nat /\ 1250000 <= f /\ f < 2^30
    /\ MaxCalibrations \in Nat

VARIABLES
    revision,   \* priv->id
    band,       \* the band that is calibrated or tuned in
    map,        \* its entry of priv->rf_cal_state
    tm_rfcal,   \* priv->tm_rfcal
    regs,       \* the registers that the tables determine
    lo,         \* the frequency that the main PLL was last to be set to
    step,       \* "point", "scan", "last", "tune", "tuned"
    rf,         \* the point in hand, of RF1..RF3, or the last one done
    freq_in, sgn, count,   \* of the scan
    scan_freq,  \* freq of the scan, without the conversion by 1 MHz
    level,      \* the power in EB10 is at cid_target
    rf_freq, offset,   \* frequency of each point done, and its prog_cal - prog_tab
    tuned,      \* the frequency of the tune
    corrected,  \* it has corrected the tracking filter
    calibrations,   \* number of calibrations
    measured    \* the offsets found at each point by all of them

history == <<calibrations, measured>>

calVars == <<revision, band, map, tm_rfcal, regs, lo, step, rf, freq_in, sgn, count, scan_freq,
             level, rf_freq, offset, tuned, corrected, history>>

-----------------------------------------------------------------------------
\* C division: it truncates towards zero.
Quotient(a, b) == IF a < 0 THEN -((-a) \div b) ELSE a \div b

Clamp(n) == IF n < 0 THEN 0 ELSE IF n > 255 THEN 255 ELSE n

maps == tda18271_map_layout[revision]   \* priv->maps

\* A field that a table determines keeps its value for a frequency out of range.
Calc(r, field, table, f) ==
    IF InRange(maps[table], f) THEN [r EXCEPT ![field] = Lookup(maps[table], f)[2]] ELSE r

tda18271_calc_bp_filter(r, f) == Calc(r, "bp", "bp_filter", f)
tda18271_calc_km(r, f) == Calc(r, "km", "rf_cal_kmco", f)
tda18271_calc_rf_band(r, f) == Calc(r, "band", "rf_band", f)
tda18271_calc_gain_taper(r, f) == Calc(r, "taper", "gain_taper", f)
tda18271_calc_ir_measure(r, f) == Calc(r, "ir", "ir_measure", f)
tda18271_calc_rf_cal(r, f) == Calc(r, "EB14", "rf_cal", f)

\* The divider is stored in 7 + 8 + 8 bits.
Div(d, f) == (d * (f \div 1000) * 128) \div 125
CalcPll(r, post, div, table, f) ==
    IF ~InRange(maps[table], f) THEN r
    ELSE LET entry == Lookup(maps[table], f)
         IN  [r EXCEPT ![post] = entry[2], ![div] = Div(entry[3], f) % 2^23]

tda18271_calc_main_pll(r, f) == CalcPll(r, "MPD", "MD", "main_pll", f)
tda18271_calc_cal_pll(r, f) == CalcPll(r, "CPD", "CD", "cal_pll", f)

Default(k) == tda18271_rf_band_template[band][k + 2] * 1000
Limit(f) == Lookup(tda18271_cid_target, f)[3]

CalInit ==
    /\ revision \in {"C1", "C2"}
    /\ band \in 1..Len(tda18271_rf_band_template)
    /\ map = [rf1 |-> 0, rf2 |-> 0, rf3 |-> 0, a1 |-> 0, b1 |-> 0, a2 |-> 0, b2 |-> 0]
    /\ tm_rfcal \in Bytes
    /\ regs = [f \in {"bp", "km", "band", "taper", "ir", "EB14", "MPD", "MD", "CPD", "CD"} |-> 0]
    /\ lo = 0
    /\ step = IF revision = "C2" THEN "point" ELSE "tune"
    /\ rf = 0
    /\ freq_in = 0 /\ sgn = 1 /\ count = 0 /\ scan_freq = 0
    /\ level = FALSE
    /\ rf_freq = << >> /\ offset = << >>
    /\ tuned = 0 /\ corrected = FALSE
    /\ calibrations = 1
    /\ measured = [k \in 1..3 |-> {}]

-----------------------------------------------------------------------------
\* A measurement: the main PLL is set 1 MHz above, the power read.
Measure(r, f, hit) ==
    /\ lo' = f + 1000000
    /\ regs' = tda18271_calc_main_pll(r, f + 1000000)
    /\ scan_freq' = f
    /\ level' \in IF hit THEN BOOLEAN ELSE {FALSE}

Hits == HitCounts(calibrations)

MorePoints == rf < 3 /\ Default(rf + 1) # 0

\* tda18271_powerscan up to its loop.
ScanPoint ==
    /\ step = "point" /\ MorePoints
    /\ step' = "scan"
    /\ rf' = rf + 1
    /\ freq_in' = Default(rf + 1)
    /\ sgn' = 1 /\ count' = 0
    /\ LET f == Default(rf + 1)
           banded == tda18271_calc_rf_band(regs, f)
       IN  Measure(tda18271_calc_gain_taper(tda18271_calc_rf_cal(banded, f), f), f, 0 \in Hits)
    /\ UNCHANGED <<revision, band, map, tm_rfcal, rf_freq, offset, tuned, corrected, history>>

\* Mutant of Turned: the count goes on from the other side.
TurnedOnly(c) == c

\* The first count on the other side.
Turned(c) == 200

\* One turn of the loop; it ends below the frequency, after it has passed the
\* limit on both sides.
ScanOn ==
    /\ step = "scan" /\ ~level
    /\ Measure(regs, freq_in + sgn * count, count \in Hits)
    /\ LET c == count + 200
       IN  \/ c <= Limit(freq_in) /\ count' = c /\ UNCHANGED <<sgn, step>>
           \/ c > Limit(freq_in) /\ sgn > 0 /\ sgn' = -1 /\ count' = Turned(c) /\ UNCHANGED step
           \/ c > Limit(freq_in) /\ sgn <= 0 /\ count' = c /\ step' = "last" /\ UNCHANGED sgn
    /\ UNCHANGED <<revision, band, map, tm_rfcal, rf, freq_in, rf_freq, offset, tuned, corrected,
                   history>>

\* tda18271_calibrate_rf up to its result.
calibrate_rf(r, f) ==
    LET filtered == tda18271_calc_gain_taper(tda18271_calc_bp_filter(r, f), f)
        banded == tda18271_calc_km(tda18271_calc_rf_band(filtered, f), f)
    IN  tda18271_calc_main_pll(tda18271_calc_cal_pll(banded, f), f + 1000000)

\* Mutant of Divisor: in MHz.
DivisorMHz(freqs, k) == Quotient(freqs[k] - freqs[k - 1], 1000000)

\* The divisor of the slope between a point and the one before it.
Divisor(freqs, k) == Quotient(freqs[k] - freqs[k - 1], 1000)

\* What the point contributes to the curve of the band.
BandCurve(k, freqs, offs) ==
    LET slope == IF k = 1 THEN 0 ELSE Quotient(offs[k] - offs[k - 1], Divisor(freqs, k))
        at == freqs[k] \div 1000
    IN  CASE k = 1 -> [map EXCEPT !.a1 = 0, !.b1 = offs[1], !.rf1 = at]
          [] k = 2 -> [map EXCEPT !.a1 = slope, !.rf2 = at]
          [] k = 3 -> [map EXCEPT !.a2 = slope, !.b2 = offs[2], !.rf3 = at]

\* The end of the scan, and the calibration if it found the power.
PointDone ==
    /\ (step = "scan" /\ level) \/ step = "last"
    /\ step' = "point"
    /\ LET point == IF level THEN scan_freq ELSE freq_in
           tabbed == tda18271_calc_rf_cal(regs, point)
           after == calibrate_rf(tabbed, scan_freq)
       IN  /\ rf_freq' = Append(rf_freq, point)
           /\ \/ /\ level
                 /\ \E cal \in Bytes : /\ offset' = Append(offset, cal - tabbed.EB14)
                                       /\ regs' = [after EXCEPT !.EB14 = cal]
                 /\ lo' = scan_freq + 1000000
              \/ ~level /\ offset' = Append(offset, 0) /\ regs' = tabbed /\ UNCHANGED lo
    /\ map' = BandCurve(rf, rf_freq', offset')
    /\ measured' = [measured EXCEPT ![rf] = @ \cup {offset'[rf]}]
    /\ UNCHANGED <<revision, band, tm_rfcal, rf, freq_in, sgn, count, scan_freq, level, tuned,
                   corrected, calibrations>>

\* tda18271_calc_rf_filter_curve after its loop over the bands.
BandDone ==
    /\ step = "point" /\ ~MorePoints
    /\ step' = "tune"
    /\ \E t \in Temperatures, fast \in BOOLEAN : tm_rfcal' = tda18271_lookup_thermometer(t, fast)
    /\ UNCHANGED <<revision, band, map, regs, lo, rf, freq_in, sgn, count, scan_freq, level,
                   rf_freq, offset, tuned, corrected, history>>

\* The read of a measurement fails, in this band or in one behind it: the calibration
\* ends, which tda18271_init ignores.  What the read leaves in the registers (Tuner)
\* is left out: the tune determines them anew.  The variables of the scan are gone.
ScanFails ==
    /\ \/ step = "point" /\ (MorePoints \/ band < Len(tda18271_rf_band_template))
       \/ step = "scan" /\ ~level /\ count \in Hits
    /\ step' = "tune"
    /\ freq_in' = 0 /\ sgn' = 1 /\ count' = 0 /\ scan_freq' = 0
    /\ UNCHANGED <<revision, band, map, tm_rfcal, regs, lo, rf, level, rf_freq, offset, tuned,
                   corrected, history>>

-----------------------------------------------------------------------------
\* tda18271c2_rf_tracking_filters_correction: the byte of the table, the curve's
\* offset, and the compensation of the temperature.
Approx(rf_tab, f) ==
    LET khz == f \div 1000
    IN  Clamp(IF map.rf3 = 0 \/ khz < map.rf2 THEN map.a1 * (khz - map.rf1) + map.b1 + rf_tab
                                              ELSE map.a2 * (khz - map.rf2) + map.b2 + rf_tab)

Compensation(f, tm) ==
    Quotient(Lookup(maps["rf_cal_dc_over_dt"], f)[2] * (tm - tm_rfcal), 1000)

c2_rf_tracking_filters_correction(r, f, tm) ==
    LET tabbed == tda18271_calc_rf_cal(r, f)
    IN  IF ~HasBand(f) THEN tabbed
        ELSE [tabbed EXCEPT !.EB14 = (Approx(tabbed.EB14, f) + Compensation(f, tm)) % 256]

\* tda18271c1_rf_tracking_filter_calibration up to the write whose failure ends it,
\* and behind it.
c1_plls(r, f) ==
    tda18271_calc_main_pll(
        tda18271_calc_cal_pll([tda18271_calc_bp_filter(r, f) EXCEPT !.EB14 = 0], f - 1250000),
        f - 250000)

c1_rf_tracking_filter_calibration(r, f) ==
    LET banded == tda18271_calc_rf_band(tda18271_calc_km(c1_plls(r, f), f), f)
    IN  tda18271_calc_rf_cal(tda18271_calc_gain_taper(banded, f), f)

\* The standard is that of FM radio, whose intermediate frequency is 1250 kHz.
channel_configuration(r, f) ==
    LET filtered == tda18271_calc_bp_filter(tda18271_calc_ir_measure(r, f), f)
        banded == tda18271_calc_gain_taper(tda18271_calc_rf_band(filtered, f), f)
    IN  tda18271_calc_main_pll(banded, f + 1250000)

\* tda18271_tune.  It ignores that the calibration or the correction of the filter
\* ended early, the correction before it has touched the register: then the chip
\* could not be taken out of standby.
TuneIn ==
    /\ step = "tune"
    /\ step' = "tuned"
    /\ \E f \in Frequencies(band, rf) :
          /\ tuned' = f
          /\ lo' = f + 1250000
          /\ \/ /\ revision = "C1"
                /\ \/ regs' = channel_configuration(c1_plls(regs, f), f)
                   \/ regs' = channel_configuration(
                                  c1_rf_tracking_filter_calibration(regs, f), f)
                /\ corrected' = FALSE
             \/ /\ revision = "C2"
                /\ \E t \in Temperatures, fast \in BOOLEAN :
                      regs' = channel_configuration(
                                  c2_rf_tracking_filters_correction(
                                      regs, f, tda18271_lookup_thermometer(t, fast)), f)
                /\ corrected' = TRUE
             \/ /\ revision = "C2"
                /\ regs' = channel_configuration(regs, f)
                /\ corrected' = FALSE
    /\ UNCHANGED <<revision, band, map, tm_rfcal, rf, freq_in, sgn, count, scan_freq, level,
                   rf_freq, offset, history>>

\* The next tda18271_tune finds the calibration undone, or RF_CAL_OK clear: it is
\* tried again, with new locals.  The entry and the temperature persist.
CalibrateAgain ==
    /\ step = "tuned" /\ revision = "C2"
    /\ calibrations < MaxCalibrations /\ Retried(map, tuned)
    /\ calibrations' = calibrations + 1
    /\ step' = "point"
    /\ rf' = 0
    /\ freq_in' = 0 /\ sgn' = 1 /\ count' = 0 /\ scan_freq' = 0
    /\ level' = FALSE
    /\ rf_freq' = << >> /\ offset' = << >>
    /\ UNCHANGED <<revision, band, map, tm_rfcal, regs, lo, tuned, corrected, measured>>

CalNext ==
    ScanPoint \/ ScanOn \/ PointDone \/ BandDone \/ ScanFails \/ TuneIn \/ CalibrateAgain

CalSpec == CalInit /\ [][CalNext]_calVars

-----------------------------------------------------------------------------
\* Type invariant: the registers hold bytes, and the 23 bits of the dividers.  A
\* scan, whichever way it has turned, measures no farther from the point than the
\* limit of tda18271_cid_target, so that the points of a band stay apart and the
\* slope of its curve is never divided by zero.
CalTypeOK ==
    /\ step \in {"point", "scan", "last", "tune", "tuned"}
    /\ rf \in 0..3 /\ Len(rf_freq) \in {rf - 1, rf} /\ Len(offset) = Len(rf_freq)
    /\ \A field \in DOMAIN regs \ {"MD", "CD"} : regs[field] \in 0..255
    /\ regs["MD"] \in 0..2^23 - 1 /\ regs["CD"] \in 0..2^23 - 1
    /\ tm_rfcal \in 0..255
    /\ rf > 0 => scan_freq - freq_in \in -Limit(freq_in)..Limit(freq_in)
    /\ \A k \in 2..Len(rf_freq) : Divisor(rf_freq, k) > 0

\* The entry a frequency belongs to: the one with the least limit that reaches it.
Reference(m, f) ==
    CHOOSE e \in {m[i] : i \in 1..Len(m)} :
        /\ e[1] * 1000 >= f
        /\ \A i \in 1..Len(m) : m[i][1] * 1000 >= f => e[1] <= m[i][1]

Covers(m, f) == \E i \in 1..Len(m) : m[i][1] * 1000 >= f

FieldsRight ==
    \A pair \in {<<"bp", "bp_filter">>, <<"band", "rf_band">>, <<"taper", "gain_taper">>,
                  <<"ir", "ir_measure">>} :
        Covers(maps[pair[2]], tuned) => regs[pair[1]] = Reference(maps[pair[2]], tuned)[2]

PllExact ==
    Covers(maps["main_pll"], lo) =>
        LET e == Reference(maps["main_pll"], lo)
            exact == e[3] * (lo \div 1000) * 128
        IN  /\ regs["MPD"] = e[2]
            /\ regs["MD"] * 125 <= exact /\ exact < (regs["MD"] + 1) * 125

\* The offsets found on both sides of a frequency, at points of the band: those of
\* an earlier calibration count where the last one has not come.
Around(f) ==
    IF map.rf3 # 0 /\ f \div 1000 >= map.rf2 THEN measured[2] \cup measured[3]
    ELSE IF measured[1] = {} THEN {0} ELSE measured[1] \cup measured[2]

\* 39 is the most that the temperature can move the byte: 0x9a * 255 / 1000.
CorrectionBetween ==
    revision = "C2" /\ corrected /\ HasBand(tuned) =>
        LET tab == Reference(maps["rf_cal"], tuned)[2]
            approx == Approx(tab, tuned)
        IN  /\ \E o \in Around(tuned) : Clamp(tab + o) <= approx
            /\ \E o \in Around(tuned) : approx <= Clamp(tab + o)
            /\ approx \in 39..216 => regs["EB14"] \in approx - 39..approx + 39

\* After a tune each of the driver's registers holds the value of the entry that the
\* frequency belongs to, and the divider of the main PLL is exact to its last bit,
\* with nothing lost of its upper byte.  The correction of the tracking filter, where
\* the chip could be taken out of standby for it, does not overshoot: before
\* temperature it lies between the offsets measured around the frequency, by
\* whichever calibrations, and temperature moves it by so little that the byte wraps
\* only from a value close to its ends.
TunedRight == step = "tuned" => FieldsRight /\ PllExact /\ CorrectionBetween

=============================================================================
