--------------------------- MODULE MCRfCalibration ---------------------------
(***************************************************************************)
(* Each band on its own.  Power is measured at the point itself, 4000 Hz   *)
(* from it on either side, or never.  The calibration is tried again       *)
(* behind a tune to the end of the band if the power was at the points and *)
(* the first two offsets differ in sign; then power is at a point or never.*)
(***************************************************************************)
EXTENDS RfCalibration

\* Frequencies at which a table goes over to its next entry.
Tables == {tda18271_bp_filter, tda18271_gain_taper, tda18271_ir_measure, tda18271c1_rf_cal,
           tda18271c2_rf_cal, tda18271_rf_cal_dc_over_dt, tda18271_rf_band_template}
Edges == UNION {{m[i][1] * 1000 : i \in 1..Len(m)}
                   \cup {m[i][1] * 1000 + 1 : i \in 1..Len(m)} :
                    m \in Tables}

\* The points of a band and its ends; the first band begins below the tables'
\* first entries.
Marks(b) ==
    LET below == IF b = 1 THEN 41000000 ELSE tda18271_rf_band_template[b - 1][1] * 1000 + 1
    IN  {below} \cup ({tda18271_rf_band_template[b][i] * 1000 : i \in {1, 3, 4, 5}} \ {0})

\* A tune without a calibration meets every edge in the band, one after it the
\* marks.  The last band is given what is out of range, too.
MCFrequencies(b, k) ==
    IF k = 0 THEN {f \in Edges : tda18271_lookup_rf_band(f) = b} ELSE Marks(b)

MCHitCounts(n) == IF n = 1 THEN {0, 4000} ELSE {0}

MCRetried(m, f) ==
    /\ \E b \in 1..Len(tda18271_rf_band_template) :
          LET t == tda18271_rf_band_template[b]
          IN  f = t[1] * 1000 /\ m.rf1 = t[3] /\ m.rf2 = t[4] /\ m.rf3 = t[5]
    /\ m.b1 > 0 /\ m.b2 < 0

=============================================================================
