----------------------------- MODULE MCDeframer -----------------------------
(***************************************************************************)
(* Model checking of Deframer, and the reference definition of the         *)
(* sections of a stream that the incremental scan is compared with.        *)
(***************************************************************************)
EXTENDS Deframer, FiniteSetsExt

\* Position m of s begins a section iff it holds a Mark and is not a byte of
\* an earlier section: a definition over the whole stream, with no scan.
Starts(s) ==
    LET start[m \in 1..Len(s)] ==
            /\ s[m] = Mark
            /\ \A k \in 1..(m - 1) : start[k] => k + SectionLen <= m
    IN  {m \in 1..Len(s) : start[m]}

\* The complete sections of s with the length of the frame before each.
Sections(s) ==
    LET S == Starts(s)
        EndBefore(m) == Max({0} \cup {k + SectionLen - 1 : k \in {j \in S : j < m}})
    IN  {<<m, m - 1 - EndBefore(m)>> : m \in {k \in S : k + SectionLen - 1 <= Len(s)}}

\* The callbacks of tvwsdr_deframe_isoch_data depend on the bytes received and
\* not on how they were cut into packets: between calls they are the sections
\* of the whole stream, each with the length of its frame.
PacketisationFree == pc = "idle" => calls = Sections(stream)

=============================================================================
