----------------------------- MODULE Py32Volume -----------------------------
(***************************************************************************)
(* The two volume conversions of system_app_py32_uart.c: the scroll wheel  *)
(* of the PY32 speaks in percent, the audio policy in levels 0..max.  Both *)
(* directions interpolate linearly between eleven anchor points, rounding  *)
(* half up, and scale when the policy's maximum is not the 16 the table    *)
(* was drawn for.                                                          *)
(***************************************************************************)
EXTENDS Naturals, Sequences

pct_anchor   == <<0, 10, 20, 30, 40, 50, 60, 70, 80, 90, 100>>

\* Mutant: two anchors swapped.
level_anchor_mutant == <<0, 3, 6, 8, 10, 11, 13, 12, 14, 15, 16>>

level_anchor == <<0, 3, 6, 8, 10, 11, 12, 13, 14, 15, 16>>

TABLE_MAX == 16

Clip(x, hi) == IF x > hi THEN hi ELSE x

\* The search loop of both functions: the first segment i (between anchors
\* i-1 and i) whose upper end is not below x.
Segment(x, anchor) ==
    CHOOSE i \in 2..11 : /\ x <= anchor[i]
                         /\ \A j \in 2..10 : j < i => anchor[j] < x

\* Mutant: cut off instead of rounded half up.
InterpolateMutant(x, from, to) ==
    LET i   == Segment(x, from)
        run == from[i] - from[i - 1]
    IN  to[i - 1] + ((x - from[i - 1]) * (to[i] - to[i - 1])) \div run

\* Position x on the "from" axis, read off on the "to" axis.
Interpolate(x, from, to) ==
    LET i   == Segment(x, from)
        run == from[i] - from[i - 1]
    IN  to[i - 1] + ((x - from[i - 1]) * (to[i] - to[i - 1]) + run \div 2) \div run

\* py32_volume_pct_to_level: percent to a system volume level of 0..max.
pct_to_level(pct, max) ==
    IF max = 0 THEN 0
    ELSE LET level == Interpolate(Clip(pct, 100), pct_anchor, level_anchor)
         IN  Clip(IF max = TABLE_MAX THEN level
                                     ELSE (level * max + 8) \div TABLE_MAX, max)

\* Mutant: the mapped level is clipped one below the end of the table.
level_to_pct_mutant(level, max) ==
    IF max = 0 THEN 0
    ELSE LET l == Clip(level, max)
             mapped == Clip((l * TABLE_MAX + max \div 2) \div max, TABLE_MAX - 1)
         IN  Interpolate(mapped, level_anchor, pct_anchor)

\* py32_volume_level_to_pct: the percent reported for a system volume level.
level_to_pct(level, max) ==
    IF max = 0 THEN 0
    ELSE LET l == Clip(level, max)
             mapped == Clip(IF max = TABLE_MAX THEN l
                            ELSE (l * TABLE_MAX + max \div 2) \div max, TABLE_MAX)
         IN  Interpolate(mapped, level_anchor, pct_anchor)
=============================================================================
