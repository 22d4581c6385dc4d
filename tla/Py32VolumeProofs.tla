-------------------------- MODULE Py32VolumeProofs --------------------------
(***************************************************************************)
(* What the conversions of Py32Volume return, for every argument and every *)
(* maximum level of the audio policy, and what that means for the wheel.   *)
(***************************************************************************)
EXTENDS Py32Wheel, TLAPS

\* The search loop stops: a percentage has a segment, the first that reaches it.
LEMMA PctSegment ==
  ASSUME NEW x \in 0..100
  PROVE  LET i == Segment(x, pct_anchor)
         IN  /\ i \in 2..11
             /\ x <= pct_anchor[i]
             /\ pct_anchor[i - 1] <= x
<1> DEFINE P(i) == /\ x <= pct_anchor[i]
                   /\ \A j \in 2..10 : j < i => pct_anchor[j] < x
<1>1. \E i \in 2..11 : P(i)
  <2>1. CASE x <= 10
    BY <2>1 DEF pct_anchor
  <2>2. CASE x \in 11..20
    BY <2>2 DEF pct_anchor
  <2>3. CASE x \in 21..30
    BY <2>3 DEF pct_anchor
  <2>4. CASE x \in 31..40
    BY <2>4 DEF pct_anchor
  <2>5. CASE x \in 41..50
    BY <2>5 DEF pct_anchor
  <2>6. CASE x \in 51..60
    BY <2>6 DEF pct_anchor
  <2>7. CASE x \in 61..70
    BY <2>7 DEF pct_anchor
  <2>8. CASE x \in 71..80
    BY <2>8 DEF pct_anchor
  <2>9. CASE x \in 81..90
    BY <2>9 DEF pct_anchor
  <2>10. CASE x \in 91..100
    BY <2>10 DEF pct_anchor
  <2> QED
    BY <2>1, <2>2, <2>3, <2>4, <2>5, <2>6, <2>7, <2>8, <2>9, <2>10
<1>2. Segment(x, pct_anchor) \in 2..11 /\ P(Segment(x, pct_anchor))
  BY <1>1 DEF Segment
<1> QED
  BY <1>2 DEF pct_anchor

\* The same for a level of the table.
LEMMA LevelSegment ==
  ASSUME NEW x \in 0..16
  PROVE  LET i == Segment(x, level_anchor)
         IN  /\ i \in 2..11
             /\ x <= level_anchor[i]
             /\ level_anchor[i - 1] <= x
<1> DEFINE P(i) == /\ x <= level_anchor[i]
                   /\ \A j \in 2..10 : j < i => level_anchor[j] < x
<1>1. \E i \in 2..11 : P(i)
  <2>1. CASE x <= 3
    BY <2>1 DEF level_anchor
  <2>2. CASE x \in 4..6
    BY <2>2 DEF level_anchor
  <2>3. CASE x \in 7..8
    BY <2>3 DEF level_anchor
  <2>4. CASE x \in 9..10
    BY <2>4 DEF level_anchor
  <2>5. CASE x = 11
    BY <2>5 DEF level_anchor
  <2>6. CASE x = 12
    BY <2>6 DEF level_anchor
  <2>7. CASE x = 13
    BY <2>7 DEF level_anchor
  <2>8. CASE x = 14
    BY <2>8 DEF level_anchor
  <2>9. CASE x = 15
    BY <2>9 DEF level_anchor
  <2>10. CASE x = 16
    BY <2>10 DEF level_anchor
  <2> QED
    BY <2>1, <2>2, <2>3, <2>4, <2>5, <2>6, <2>7, <2>8, <2>9, <2>10
<1>2. Segment(x, level_anchor) \in 2..11 /\ P(Segment(x, level_anchor))
  BY <1>1 DEF Segment
<1> QED
  BY <1>2 DEF level_anchor

\* Interpolating between the anchors stays between the anchors' ends.
LEMMA PctInterpolates ==
  ASSUME NEW x \in 0..100
  PROVE  Interpolate(x, pct_anchor, level_anchor) \in 0..16
<1> DEFINE i == Segment(x, pct_anchor)
<1>1. i \in 2..11 /\ x <= pct_anchor[i] /\ pct_anchor[i - 1] <= x
  BY PctSegment
<1> HIDE DEF i
<1>2. SUFFICES
        level_anchor[i - 1]
          + ((x - pct_anchor[i - 1]) * (level_anchor[i] - level_anchor[i - 1])
             + (pct_anchor[i] - pct_anchor[i - 1]) \div 2)
            \div (pct_anchor[i] - pct_anchor[i - 1]) \in 0..16
  BY DEF Interpolate, i
<1>3. CASE i = 2
  BY <1>1, <1>3 DEF pct_anchor, level_anchor
<1>4. CASE i = 3
  BY <1>1, <1>4 DEF pct_anchor, level_anchor
<1>5. CASE i = 4
  BY <1>1, <1>5 DEF pct_anchor, level_anchor
<1>6. CASE i = 5
  BY <1>1, <1>6 DEF pct_anchor, level_anchor
<1>7. CASE i = 6
  BY <1>1, <1>7 DEF pct_anchor, level_anchor
<1>8. CASE i = 7
  BY <1>1, <1>8 DEF pct_anchor, level_anchor
<1>9. CASE i = 8
  BY <1>1, <1>9 DEF pct_anchor, level_anchor
<1>10. CASE i = 9
  BY <1>1, <1>10 DEF pct_anchor, level_anchor
<1>11. CASE i = 10
  BY <1>1, <1>11 DEF pct_anchor, level_anchor
<1>12. CASE i = 11
  BY <1>1, <1>12 DEF pct_anchor, level_anchor
<1>13. \/ i = 2 \/ i = 3 \/ i = 4 \/ i = 5 \/ i = 6
       \/ i = 7 \/ i = 8 \/ i = 9 \/ i = 10 \/ i = 11
  <2>1. i \in 2..11
    BY <1>1
  <2> QED
    BY <2>1
<1> QED
  BY <1>3, <1>4, <1>5, <1>6, <1>7, <1>8, <1>9, <1>10, <1>11, <1>12, <1>13, ZenonT(30)

\* The same from levels to percentages.
LEMMA LevelInterpolates ==
  ASSUME NEW x \in 0..16
  PROVE  Interpolate(x, level_anchor, pct_anchor) \in 0..100
<1> DEFINE i == Segment(x, level_anchor)
<1>1. i \in 2..11 /\ x <= level_anchor[i] /\ level_anchor[i - 1] <= x
  BY LevelSegment
<1> HIDE DEF i
<1>2. SUFFICES
        pct_anchor[i - 1]
          + ((x - level_anchor[i - 1]) * (pct_anchor[i] - pct_anchor[i - 1])
             + (level_anchor[i] - level_anchor[i - 1]) \div 2)
            \div (level_anchor[i] - level_anchor[i - 1]) \in 0..100
  BY DEF Interpolate, i
<1>3. CASE i = 2
  BY <1>1, <1>3 DEF pct_anchor, level_anchor
<1>4. CASE i = 3
  BY <1>1, <1>4 DEF pct_anchor, level_anchor
<1>5. CASE i = 4
  BY <1>1, <1>5 DEF pct_anchor, level_anchor
<1>6. CASE i = 5
  BY <1>1, <1>6 DEF pct_anchor, level_anchor
<1>7. CASE i = 6
  BY <1>1, <1>7 DEF pct_anchor, level_anchor
<1>8. CASE i = 7
  BY <1>1, <1>8 DEF pct_anchor, level_anchor
<1>9. CASE i = 8
  BY <1>1, <1>9 DEF pct_anchor, level_anchor
<1>10. CASE i = 9
  BY <1>1, <1>10 DEF pct_anchor, level_anchor
<1>11. CASE i = 10
  BY <1>1, <1>11 DEF pct_anchor, level_anchor
<1>12. CASE i = 11
  BY <1>1, <1>12 DEF pct_anchor, level_anchor
<1>13. \/ i = 2 \/ i = 3 \/ i = 4 \/ i = 5 \/ i = 6
       \/ i = 7 \/ i = 8 \/ i = 9 \/ i = 10 \/ i = 11
  <2>1. i \in 2..11
    BY <1>1
  <2> QED
    BY <2>1
<1> QED
  BY <1>3, <1>4, <1>5, <1>6, <1>7, <1>8, <1>9, <1>10, <1>11, <1>12, <1>13, ZenonT(30)

\* py32_volume_pct_to_level returns a level of the audio policy, for every
\* percentage the host can send (even beyond 100) and every maximum.
THEOREM PctToLevelInRange ==
  ASSUME NEW pct \in Nat, NEW top \in Nat
  PROVE  pct_to_level(pct, top) \in 0..top
<1> DEFINE lvl == Interpolate(Clip(pct, 100), pct_anchor, level_anchor)
<1>1. lvl \in 0..16
  BY PctInterpolates DEF Clip
<1> HIDE DEF lvl
<1>2. (lvl * top + 8) \div 16 \in Nat
  <2>1. lvl * top \in Nat
    BY <1>1
  <2> QED
    BY <2>1
<1>3. pct_to_level(pct, top) =
        IF top = 0 THEN 0
        ELSE Clip(IF top = 16 THEN lvl ELSE (lvl * top + 8) \div 16, top)
  BY DEF pct_to_level, TABLE_MAX, lvl
<1> QED
  BY <1>1, <1>2, <1>3 DEF Clip

\* py32_volume_level_to_pct returns a percentage, for every level and maximum:
\* DATA[0] of a status frame is within the 0..100 the host expects.
THEOREM LevelToPctInRange ==
  ASSUME NEW lvl \in Nat, NEW top \in Nat
  PROVE  level_to_pct(lvl, top) \in 0..100
<1> DEFINE l == Clip(lvl, top)
           m == IF top = 16 THEN l ELSE (l * 16 + top \div 2) \div top
<1>1. CASE top = 0
  BY <1>1 DEF level_to_pct
<1>2. CASE top # 0
  <2>1. l \in Nat
    BY DEF Clip
  <2> HIDE DEF l
  <2>2. (l * 16 + top \div 2) \div top \in Nat
    <3>1. top \div 2 \in Nat
      OBVIOUS
    <3>2. l * 16 + top \div 2 \in Nat
      BY <2>1, <3>1
    <3> QED
      BY <3>2, <1>2
  <2>3. m \in Nat
    BY <2>1, <2>2
  <2> HIDE DEF m
  <2>4. Clip(m, 16) \in 0..16
    BY <2>3 DEF Clip
  <2>5. level_to_pct(lvl, top) = Interpolate(Clip(m, 16), level_anchor, pct_anchor)
    BY <1>2 DEF level_to_pct, TABLE_MAX, m, l
  <2> QED
    BY <2>4, <2>5, LevelInterpolates
<1> QED
  BY <1>1, <1>2

-----------------------------------------------------------------------------
(* The curves piece by piece.  Segments of the same slope are one piece.   *)

\* y is the table's level for the percentage x.
OnLevelCurve(x, y) ==
    \/ x \in 0..20   /\ y = (x * 3 + 5) \div 10
    \/ x \in 20..40  /\ y = 6 + ((x - 20) * 2 + 5) \div 10
    \/ x \in 40..100 /\ y = 10 + (x - 40 + 5) \div 10

\* y is the percentage for the table's level x.
OnPctCurve(x, y) ==
    \/ x \in 0..6   /\ y = (x * 10 + 1) \div 3
    \/ x \in 6..10  /\ y = 20 + (x - 6) * 5
    \/ x \in 10..16 /\ y = 40 + (x - 10) * 10

\* Interpolating in the anchor tables is walking on these curves.
LEMMA PctCurve ==
  ASSUME NEW x \in 0..100
  PROVE  OnLevelCurve(x, Interpolate(x, pct_anchor, level_anchor))
<1> DEFINE i == Segment(x, pct_anchor)
<1>1. i \in 2..11 /\ x <= pct_anchor[i] /\ pct_anchor[i - 1] <= x
  BY PctSegment
<1> HIDE DEF i
<1>2. SUFFICES OnLevelCurve(x,
        level_anchor[i - 1]
          + ((x - pct_anchor[i - 1]) * (level_anchor[i] - level_anchor[i - 1])
             + (pct_anchor[i] - pct_anchor[i - 1]) \div 2)
            \div (pct_anchor[i] - pct_anchor[i - 1]))
  BY DEF Interpolate, i
<1>3. CASE i = 2
  BY <1>1, <1>3 DEF pct_anchor, level_anchor, OnLevelCurve
<1>4. CASE i = 3
  BY <1>1, <1>4 DEF pct_anchor, level_anchor, OnLevelCurve
<1>5. CASE i = 4
  BY <1>1, <1>5 DEF pct_anchor, level_anchor, OnLevelCurve
<1>6. CASE i = 5
  BY <1>1, <1>6 DEF pct_anchor, level_anchor, OnLevelCurve
<1>7. CASE i = 6
  BY <1>1, <1>7 DEF pct_anchor, level_anchor, OnLevelCurve
<1>8. CASE i = 7
  BY <1>1, <1>8 DEF pct_anchor, level_anchor, OnLevelCurve
<1>9. CASE i = 8
  BY <1>1, <1>9 DEF pct_anchor, level_anchor, OnLevelCurve
<1>10. CASE i = 9
  BY <1>1, <1>10 DEF pct_anchor, level_anchor, OnLevelCurve
<1>11. CASE i = 10
  BY <1>1, <1>11 DEF pct_anchor, level_anchor, OnLevelCurve
<1>12. CASE i = 11
  BY <1>1, <1>12 DEF pct_anchor, level_anchor, OnLevelCurve
<1>13. \/ i = 2 \/ i = 3 \/ i = 4 \/ i = 5 \/ i = 6
       \/ i = 7 \/ i = 8 \/ i = 9 \/ i = 10 \/ i = 11
  <2>1. i \in 2..11
    BY <1>1
  <2> QED
    BY <2>1
<1> QED
  BY <1>3, <1>4, <1>5, <1>6, <1>7, <1>8, <1>9, <1>10, <1>11, <1>12, <1>13, ZenonT(30)

\* The same for the way back.
LEMMA LevelCurve ==
  ASSUME NEW x \in 0..16
  PROVE  OnPctCurve(x, Interpolate(x, level_anchor, pct_anchor))
<1> DEFINE i == Segment(x, level_anchor)
<1>1. i \in 2..11 /\ x <= level_anchor[i] /\ level_anchor[i - 1] <= x
  BY LevelSegment
<1> HIDE DEF i
<1>2. SUFFICES OnPctCurve(x,
        pct_anchor[i - 1]
          + ((x - level_anchor[i - 1]) * (pct_anchor[i] - pct_anchor[i - 1])
             + (level_anchor[i] - level_anchor[i - 1]) \div 2)
            \div (level_anchor[i] - level_anchor[i - 1]))
  BY DEF Interpolate, i
<1>3. CASE i = 2
  BY <1>1, <1>3 DEF pct_anchor, level_anchor, OnPctCurve
<1>4. CASE i = 3
  BY <1>1, <1>4 DEF pct_anchor, level_anchor, OnPctCurve
<1>5. CASE i = 4
  BY <1>1, <1>5 DEF pct_anchor, level_anchor, OnPctCurve
<1>6. CASE i = 5
  BY <1>1, <1>6 DEF pct_anchor, level_anchor, OnPctCurve
<1>7. CASE i = 6
  BY <1>1, <1>7 DEF pct_anchor, level_anchor, OnPctCurve
<1>8. CASE i = 7
  BY <1>1, <1>8 DEF pct_anchor, level_anchor, OnPctCurve
<1>9. CASE i = 8
  BY <1>1, <1>9 DEF pct_anchor, level_anchor, OnPctCurve
<1>10. CASE i = 9
  BY <1>1, <1>10 DEF pct_anchor, level_anchor, OnPctCurve
<1>11. CASE i = 10
  BY <1>1, <1>11 DEF pct_anchor, level_anchor, OnPctCurve
<1>12. CASE i = 11
  BY <1>1, <1>12 DEF pct_anchor, level_anchor, OnPctCurve
<1>13. \/ i = 2 \/ i = 3 \/ i = 4 \/ i = 5 \/ i = 6
       \/ i = 7 \/ i = 8 \/ i = 9 \/ i = 10 \/ i = 11
  <2>1. i \in 2..11
    BY <1>1
  <2> QED
    BY <2>1
<1> QED
  BY <1>3, <1>4, <1>5, <1>6, <1>7, <1>8, <1>9, <1>10, <1>11, <1>12, <1>13, ZenonT(30)

\* The curves undo each other on the table's own levels.
LEMMA CurvesUndo ==
  ASSUME NEW m \in 0..16, NEW p \in 0..100, NEW l \in 0..16,
         OnPctCurve(m, p), OnLevelCurve(p, l)
  PROVE  l = m
BY DEF OnPctCurve, OnLevelCurve

\* One percent more is the same level of the table or the next.
LEMMA CurveIsSmooth ==
  ASSUME NEW x \in 0..99, NEW l \in 0..16, NEW m \in 0..16,
         OnLevelCurve(x, l), OnLevelCurve(x + 1, m)
  PROVE  m = l \/ m = l + 1
BY DEF OnLevelCurve

-----------------------------------------------------------------------------
(* Scaling from the table's 16 levels to those of the policy and back.     *)

\* With more than 16 levels, a level of the table is found again.
LEMMA ScaleUp ==
  ASSUME NEW l \in 0..16, NEW top \in Nat, top > 16
  PROVE  (((l * top + 8) \div 16) * 16 + top \div 2) \div top = l
OBVIOUS

\* With at most 16 levels, a level of the policy is found again.
LEMMA ScaleDown ==
  ASSUME NEW top \in 1..16, NEW l \in 0..top
  PROVE  LET m == (l * 16 + top \div 2) \div top
         IN  m \in 0..16 /\ (m * top + 8) \div 16 = l
OBVIOUS

\* Every level is reached from the table by one rounding; nothing is clipped.
LEMMA PctToLevelIs ==
  ASSUME NEW pct \in Nat, NEW top \in Nat \ {0}
  PROVE  \E l \in 0..16 : /\ OnLevelCurve(Clip(pct, 100), l)
                          /\ pct_to_level(pct, top) = (l * top + 8) \div 16
<1> DEFINE l == Interpolate(Clip(pct, 100), pct_anchor, level_anchor)
<1>1. Clip(pct, 100) \in 0..100
  BY DEF Clip
<1>2. l \in 0..16 /\ OnLevelCurve(Clip(pct, 100), l)
  BY <1>1, PctInterpolates, PctCurve
<1>3. pct_to_level(pct, top) = Clip(IF top = 16 THEN l ELSE (l * top + 8) \div 16, top)
  BY DEF pct_to_level, TABLE_MAX
<1> HIDE DEF l
<1>4. top = 16 => (l * top + 8) \div 16 = l
  BY <1>2
<1>5. (l * top + 8) \div 16 \in 0..top
  BY <1>2
<1>6. pct_to_level(pct, top) = (l * top + 8) \div 16
  BY <1>3, <1>4, <1>5 DEF Clip
<1> QED
  BY <1>2, <1>6

\* The same for the way back, from a level the policy has.
LEMMA LevelToPctIs ==
  ASSUME NEW top \in Nat \ {0}, NEW l \in 0..top
  PROVE  LET m == (l * 16 + top \div 2) \div top
         IN  m \in 0..16 /\ OnPctCurve(m, level_to_pct(l, top))
<1> DEFINE m == (l * 16 + top \div 2) \div top
<1>1. m \in 0..16
  OBVIOUS
<1>2. top = 16 => m = l
  OBVIOUS
<1>3. Clip(l, top) = l
  BY DEF Clip
<1>4. level_to_pct(l, top) =
        Interpolate(Clip(IF top = 16 THEN l ELSE m, 16), level_anchor, pct_anchor)
  BY <1>3 DEF level_to_pct, TABLE_MAX
<1> HIDE DEF m
<1>5. level_to_pct(l, top) = Interpolate(m, level_anchor, pct_anchor)
  BY <1>1, <1>2, <1>4 DEF Clip
<1> QED
  BY <1>1, <1>5, LevelCurve DEF m

\* Reporting a level and setting what was reported gives the level again: for
\* every level of a policy with at most the 16 levels the table was drawn for.
THEOREM LevelSurvivesEcho ==
  ASSUME NEW top \in 0..16, NEW l \in 0..top
  PROVE  pct_to_level(level_to_pct(l, top), top) = l
<1>1. CASE top = 0
  BY <1>1 DEF pct_to_level
<1>2. CASE top # 0
  <2> DEFINE m == (l * 16 + top \div 2) \div top
             p == level_to_pct(l, top)
  <2>0. top \in Nat \ {0} /\ top \in Nat /\ l \in Nat
    BY <1>2
  <2>1. m \in 0..16 /\ OnPctCurve(m, p)
    BY <2>0, LevelToPctIs
  <2>2. p \in 0..100
    BY <2>0, LevelToPctInRange
  <2>3. (m * top + 8) \div 16 = l
    BY <1>2, ScaleDown
  <2> HIDE DEF m, p
  <2>4. PICK k \in 0..16 : /\ OnLevelCurve(Clip(p, 100), k)
                           /\ pct_to_level(p, top) = (k * top + 8) \div 16
    <3>1. p \in Nat
      BY <2>2
    <3> QED
      BY <3>1, <2>0, PctToLevelIs
  <2>5. Clip(p, 100) = p
    BY <2>2 DEF Clip
  <2>6. k = m
    BY <2>1, <2>2, <2>4, <2>5, CurvesUndo
  <2>7. pct_to_level(p, top) = l
    BY <2>3, <2>4, <2>6
  <2> QED
    BY <2>7 DEF p
<1> QED
  BY <1>1, <1>2

\* With more levels than 16 not every level has a percentage of its own, but a
\* level that was set by percentage is found again.
LEMMA SetLevelSurvivesEcho ==
  ASSUME NEW top \in Nat, top > 16, NEW pct \in Nat
  PROVE  LET l == pct_to_level(pct, top)
         IN  pct_to_level(level_to_pct(l, top), top) = l
<1> DEFINE l == pct_to_level(pct, top)
           p == level_to_pct(l, top)
<1>1. l \in 0..top
  BY PctToLevelInRange
<1>2. PICK k \in 0..16 : l = (k * top + 8) \div 16
  BY PctToLevelIs
<1>3. (l * 16 + top \div 2) \div top = k
  BY <1>2, ScaleUp
<1>4. OnPctCurve(k, p) /\ p \in 0..100
  <2>1. top \in Nat \ {0} /\ l \in Nat
    BY <1>1
  <2> HIDE DEF l
  <2> QED
    BY <2>1, <1>1, <1>3, LevelToPctIs, LevelToPctInRange
<1> HIDE DEF l, p
<1>5. PICK j \in 0..16 : /\ OnLevelCurve(Clip(p, 100), j)
                         /\ pct_to_level(p, top) = (j * top + 8) \div 16
  BY <1>4, PctToLevelIs
<1>6. Clip(p, 100) = p
  BY <1>4 DEF Clip
<1>7. j = k
  BY <1>4, <1>5, <1>6, CurvesUndo
<1> QED
  BY <1>2, <1>5, <1>7 DEF l, p

-----------------------------------------------------------------------------
(* The wheel.                                                              *)

\* One end of the wheel.
LEMMA AtZero ==
  ASSUME NEW top \in Nat PROVE pct_to_level(0, top) = 0 /\ level_to_pct(0, top) = 0
<1>1. CASE top = 0
  BY <1>1 DEF pct_to_level, level_to_pct
<1>2. CASE top # 0
  <2>1. PICK l \in 0..16 : /\ OnLevelCurve(Clip(0, 100), l)
                           /\ pct_to_level(0, top) = (l * top + 8) \div 16
    BY <1>2, PctToLevelIs
  <2>2. l = 0
    BY <2>1 DEF Clip, OnLevelCurve
  <2>3. (0 * 16 + top \div 2) \div top = 0
    BY <1>2
  <2>4. OnPctCurve(0, level_to_pct(0, top))
    BY <1>2, <2>3, LevelToPctIs
  <2> QED
    BY <2>1, <2>2, <2>4 DEF OnPctCurve
<1> QED
  BY <1>1, <1>2

\* The other end.
LEMMA AtHundred ==
  ASSUME NEW top \in Nat
  PROVE  /\ pct_to_level(100, top) = top
         /\ level_to_pct(top, top) = (IF top = 0 THEN 0 ELSE 100)
<1>1. CASE top = 0
  BY <1>1 DEF pct_to_level, level_to_pct
<1>2. CASE top # 0
  <2>1. PICK l \in 0..16 : /\ OnLevelCurve(Clip(100, 100), l)
                           /\ pct_to_level(100, top) = (l * top + 8) \div 16
    BY <1>2, PctToLevelIs
  <2>2. l = 16
    BY <2>1 DEF Clip, OnLevelCurve
  <2>3. (16 * top + 8) \div 16 = top
    OBVIOUS
  <2>4. (top * 16 + top \div 2) \div top = 16
    BY <1>2
  <2>5. OnPctCurve(16, level_to_pct(top, top))
    <3>1. top \in Nat \ {0} /\ top \in 0..top
      BY <1>2
    <3> QED
      BY <3>1, <2>4, LevelToPctIs
  <2>6. level_to_pct(top, top) = 100
    BY <2>5 DEF OnPctCurve
  <2> QED
    BY <1>2, <2>1, <2>2, <2>3, <2>6
<1> QED
  BY <1>1, <1>2

\* For every maximum of the policy: a host that sets its wheel to what it is told
\* does not move the volume (py32_apply_volume after py32_sync_status_for_response).
THEOREM EchoNeverMovesVolume == EchoIsStable
<1> SUFFICES ASSUME NEW max \in Maxima, NEW pct \in 0..100
             PROVE  pct_to_level(Told(pct, max), max) = pct_to_level(pct, max)
  BY DEF EchoIsStable, Wheel
<1>0. max \in Nat
  BY MaximaAssumption
<1>1. CASE max \in 0..16
  <2>1. pct_to_level(pct, max) \in 0..max
    BY <1>0, PctToLevelInRange
  <2> QED
    BY <1>1, <2>1, LevelSurvivesEcho DEF Told
<1>2. CASE max > 16
  BY <1>0, <1>2, SetLevelSurvivesEcho DEF Told
<1> QED
  BY <1>0, <1>1, <1>2

\* For every maximum: the ends of the wheel are the ends of the volume
\* (py32_volume_pct_to_level, py32_volume_level_to_pct).
THEOREM WheelSpansVolume == FullRange
BY MaximaAssumption, AtZero, AtHundred DEF FullRange, Told

\* One percent is at most one level of a policy with at most 16 levels.
LEMMA OnePercent ==
  ASSUME NEW top \in 0..16, NEW x \in 0..99
  PROVE  pct_to_level(x + 1, top) - pct_to_level(x, top) \in 0..1
<1>1. CASE top = 0
  BY <1>1 DEF pct_to_level
<1>2. CASE top # 0
  <2>0. top \in Nat \ {0} /\ x \in Nat /\ x + 1 \in Nat
    BY <1>2
  <2>1. PICK l \in 0..16 : /\ OnLevelCurve(Clip(x, 100), l)
                           /\ pct_to_level(x, top) = (l * top + 8) \div 16
    BY <2>0, PctToLevelIs
  <2>2. PICK m \in 0..16 : /\ OnLevelCurve(Clip(x + 1, 100), m)
                           /\ pct_to_level(x + 1, top) = (m * top + 8) \div 16
    BY <2>0, PctToLevelIs
  <2>3. Clip(x, 100) = x /\ Clip(x + 1, 100) = x + 1
    BY DEF Clip
  <2>4. m = l \/ m = l + 1
    BY <2>1, <2>2, <2>3, CurveIsSmooth
  <2>5. (m * top + 8) \div 16 - (l * top + 8) \div 16 \in 0..1
    BY <2>4
  <2> QED
    BY <2>1, <2>2, <2>5
<1> QED
  BY <1>1, <1>2

\* With at most the 16 levels of the table (the product has exactly 16), one percent
\* of the wheel moves the volume its way and by one level at most, across all
\* joints of the anchor tables.
THEOREM WheelTurnsSmoothly ==
  ASSUME Maxima \subseteq 0..16
  PROVE  TurnsSmoothly
<1> SUFFICES ASSUME NEW max \in Maxima, NEW pct \in Wheel \ {100}
             PROVE  pct_to_level(pct + 1, max) - pct_to_level(pct, max) \in 0..1
  BY DEF TurnsSmoothly
<1>1. max \in 0..16 /\ pct \in 0..99
  BY DEF Wheel
<1> QED
  BY <1>1, OnePercent
=============================================================================
