-------------------------- MODULE SppBridgeProofs ---------------------------
(***************************************************************************)
(* The accumulator of the serial-port bridge, for every frame size, slack, *)
(* packet size and set of messages: the loop of spp_process_accumulator    *)
(* leaves less than a frame in it, packets no longer than it stay inside   *)
(* it, the bytes of a closed connection leave it with the disconnect, and  *)
(* the commands of a peer that keeps to the protocol are dispatched once   *)
(* and in order.                                                           *)
(***************************************************************************)
EXTENDS SppBridge, SequenceTheorems, WellFoundedInduction, TLAPS

\* A set of numbers has a least one: what the inductions below come down to.
LEMMA LeastOf ==
  ASSUME NEW T, T \subseteq Nat, T # {}
  PROVE  \E x \in T : \A y \in T : x <= y
<1> DEFINE R == OpToRel(<, Nat)
<1>1. IsWellFoundedOn(R, Nat)
  BY NatLessThanWellFounded
<1>2. \A x, y \in Nat : y < x => <<y, x>> \in R
  BY DEF OpToRel
<1> HIDE DEF R
<1>3. PICK x \in T : \A y \in T : ~ (<<y, x>> \in R)
  BY <1>1, WFMin
<1>4. \A y \in T : ~(y < x)
  BY <1>2, <1>3
<1>5. \A y \in T : x \in Nat /\ y \in Nat
  OBVIOUS
<1> QED
  BY <1>4, <1>5

-----------------------------------------------------------------------------
(* The loop.                                                               *)

\* g is what the loop does from each index from lo on.
Loop(acc, g, lo) == g = [i \in lo..Len(acc) + 1 |-> ScanAt(acc, g, i)]

\* What a round needs to know of the constants.
LEMMA Sizes == FRAME_HDR = 4 /\ MAX_PAYLOAD \in Nat /\ SLACK \in Nat
               /\ ACC_CAP \in Nat /\ ACC_CAP >= 4 + MAX_PAYLOAD
BY SppAssumption DEF FRAME_HDR, ACC_CAP

\* The length field of a header that is all there.
LEMMA LengthField ==
  ASSUME NEW acc \in Seq(Nat), NEW i \in Nat \ {0}, i + 3 <= Len(acc)
  PROVE  acc[i + 2] * 256 + acc[i + 3] \in Nat
<1>1. i + 2 \in 1..Len(acc) /\ i + 3 \in 1..Len(acc)
  OBVIOUS
<1>2. acc[i + 2] \in Nat /\ acc[i + 3] \in Nat
  BY <1>1
<1> QED
  BY <1>2

\* The loop only moves forward, and not beyond the end: a round depends on no
\* index but later ones.
LEMMA MovesForward ==
  ASSUME NEW acc \in Seq(Nat), NEW i \in 1..Len(acc) + 1, NEW g, NEW h,
         \A j \in i + 1..Len(acc) + 1 : g[j] = h[j]
  PROVE  ScanAt(acc, g, i) = ScanAt(acc, h, i)
<1> DEFINE plen == acc[i + 2] * 256 + acc[i + 3]
           next == i + FRAME_HDR + plen
<1>1. PICK n \in Nat : n = Len(acc)
  OBVIOUS
<1>2. CASE i + 3 > n
  BY <1>1, <1>2, Sizes DEF ScanAt
<1>3. CASE i + 3 <= n
  <2>1. plen \in Nat
    BY <1>1, <1>3, LengthField
  <2> HIDE DEF plen
  <2>2. g[i + 1] = h[i + 1] /\ g[i + 2] = h[i + 2]
    BY <1>1, <1>3
  <2>3. ~(next - 1 > n) => g[next] = h[next]
    BY <1>1, <1>3, <2>1, Sizes
  <2>4. \A f : ScanAt(acc, f, i) =
          IF acc[i] # SYNC0 \/ acc[i + 1] # SYNC1 THEN f[i + 1]
          ELSE IF plen > MAX_PAYLOAD THEN f[i + 2]
          ELSE IF next - 1 > n THEN [rest |-> i, cmds |-> <<>>]
          ELSE [f[next] EXCEPT
                  !.cmds = Dispatched(SubSeq(acc, i + FRAME_HDR, next - 1)) \o @]
    BY <1>1, <1>3, Sizes DEF ScanAt, plen
  <2> HIDE DEF next
  <2> QED
    BY <2>2, <2>3, <2>4
<1> QED
  BY <1>1, <1>2, <1>3

\* If the loop is known from lo + 1 on, it is known from lo on.
LEMMA OneRoundMore ==
  ASSUME NEW acc \in Seq(Nat), NEW lo \in 1..Len(acc), NEW g, Loop(acc, g, lo + 1)
  PROVE  \E h : Loop(acc, h, lo)
<1> DEFINE h == [i \in lo..Len(acc) + 1 |-> IF i = lo THEN ScanAt(acc, g, lo) ELSE g[i]]
<1>1. PICK n \in Nat : n = Len(acc)
  OBVIOUS
<1>2. ASSUME NEW i \in lo..Len(acc) + 1
      PROVE  h[i] = ScanAt(acc, h, i)
  <2>1. \A j \in i + 1..Len(acc) + 1 : g[j] = h[j]
    BY <1>1
  <2> HIDE DEF h
  <2>2. i \in 1..Len(acc) + 1
    BY <1>1
  <2>3. ScanAt(acc, g, i) = ScanAt(acc, h, i)
    BY <2>1, <2>2, MovesForward
  <2>4. h[i] = ScanAt(acc, g, i)
    <3>1. CASE i = lo
      BY <3>1 DEF h
    <3>2. CASE i # lo
      <4>1. i \in lo + 1..Len(acc) + 1
        BY <1>1, <3>2
      <4>2. g[i] = ScanAt(acc, g, i)
        BY <4>1 DEF Loop
      <4> QED
        BY <3>2, <4>2 DEF h
    <3> QED
      BY <3>1, <3>2
  <2> QED
    BY <2>3, <2>4
<1>3. h = [i \in lo..Len(acc) + 1 |-> h[i]]
  OBVIOUS
<1> HIDE DEF h
<1>4. [i \in lo..Len(acc) + 1 |-> h[i]] = [i \in lo..Len(acc) + 1 |-> ScanAt(acc, h, i)]
  BY <1>2
<1> QED
  BY <1>3, <1>4 DEF Loop

\* The loop ends: there is such a function for the whole accumulator.
LEMMA LoopExists ==
  ASSUME NEW acc \in Seq(Nat)
  PROVE  \E g : Loop(acc, g, 1)
<1> DEFINE From(lo) == \E g : Loop(acc, g, lo)
           Bad == {k \in Nat : k <= Len(acc) /\ ~From(Len(acc) + 1 - k)}
<1>1. PICK n \in Nat : n = Len(acc)
  OBVIOUS
<1>2. From(n + 1)
  <2> DEFINE g == [i \in n + 1..n + 1 |-> [rest |-> i, cmds |-> <<>>]]
  <2>1. \A i \in n + 1..n + 1 : ScanAt(acc, g, i) = [rest |-> i, cmds |-> <<>>]
    BY <1>1, Sizes DEF ScanAt
  <2>2. Loop(acc, g, n + 1)
    BY <1>1, <2>1 DEF Loop
  <2> QED
    BY <2>2
<1>3. ASSUME NEW k \in Nat, k \in Bad
      PROVE  k - 1 \in Bad
  <2>1. k <= n /\ ~From(n + 1 - k)
    BY <1>1, <1>3
  <2>2. k # 0
    BY <1>2, <2>1
  <2>3. n + 1 - k \in 1..Len(acc) /\ (n + 1 - k) + 1 = n + 1 - (k - 1)
    BY <1>1, <2>1, <2>2
  <2>4. ~From(n + 1 - (k - 1))
    BY <2>1, <2>3, OneRoundMore
  <2> QED
    BY <1>1, <2>1, <2>2, <2>4
<1>4. Bad = {}
  <2>1. SUFFICES ASSUME Bad # {} PROVE FALSE
    OBVIOUS
  <2>2. PICK k \in Bad : \A y \in Bad : k <= y
    BY <2>1, LeastOf
  <2>3. k - 1 \in Bad
    BY <1>3
  <2>4. k \in Nat
    OBVIOUS
  <2> HIDE DEF Bad
  <2> QED
    BY <2>2, <2>3, <2>4
<1>5. From(1)
  BY <1>1, <1>4
<1> QED
  BY <1>5

\* Scan is the loop from the first index on.
LEMMA ScanIsLoop ==
  ASSUME NEW acc \in Seq(Nat)
  PROVE  \E g : Loop(acc, g, 1) /\ Scan(acc) = g[1]
<1> DEFINE g == CHOOSE f : Loop(acc, f, 1)
<1>1. Loop(acc, g, 1)
  BY LoopExists
<1>2. Scan(acc) = g[1]
  BY DEF Scan, Loop
<1> QED
  BY <1>1, <1>2

\* What the loop yields from index i on: it ends at or after i with less than a
\* frame left, and what it dispatches are commands.
Ends(acc, r, i) ==
    /\ r \in [rest : Nat, cmds : Seq(Seq(Nat))]
    /\ i <= r.rest /\ r.rest <= Len(acc) + 1
    /\ Len(acc) + 1 - r.rest < FRAME_HDR + MAX_PAYLOAD

\* One payload gives at most one command.
LEMMA DispatchedType ==
  ASSUME NEW p \in Seq(Nat)
  PROVE  Dispatched(p) \in Seq(Seq(Nat))
BY DEF Dispatched

\* A payload inside the accumulator.
LEMMA PayloadType ==
  ASSUME NEW acc \in Seq(Nat), NEW a \in Nat, NEW b \in Nat, a >= 1, b <= Len(acc)
  PROVE  SubSeq(acc, a, b) \in Seq(Nat)
OBVIOUS

\* The commands of a payload go before those that follow.
LEMMA CommandsBefore ==
  ASSUME NEW r \in [rest : Nat, cmds : Seq(Seq(Nat))], NEW d \in Seq(Seq(Nat))
  PROVE  /\ [r EXCEPT !.cmds = d \o @] \in [rest : Nat, cmds : Seq(Seq(Nat))]
         /\ [r EXCEPT !.cmds = d \o @].rest = r.rest
<1>1. r.cmds \in Seq(Seq(Nat)) /\ r.rest \in Nat
  OBVIOUS
<1>2. d \o r.cmds \in Seq(Seq(Nat))
  BY <1>1
<1> QED
  BY <1>1, <1>2

\* One round, if the later ones end well.
LEMMA RoundEnds ==
  ASSUME NEW acc \in Seq(Nat), NEW i \in 1..Len(acc) + 1, NEW g,
         \A j \in i + 1..Len(acc) + 1 : Ends(acc, g[j], j)
  PROVE  Ends(acc, ScanAt(acc, g, i), i)
<1> DEFINE plen == acc[i + 2] * 256 + acc[i + 3]
           next == i + FRAME_HDR + plen
           here == [rest |-> i, cmds |-> <<>>]
<1>1. PICK n \in Nat : n = Len(acc)
  OBVIOUS
<1>2. here \in [rest : Nat, cmds : Seq(Seq(Nat))] /\ here.rest = i
  BY <1>1
<1>3. CASE i + 3 > n
  <2>1. ScanAt(acc, g, i) = here
    BY <1>1, <1>3, Sizes DEF ScanAt
  <2> HIDE DEF here
  <2> QED
    BY <1>1, <1>2, <1>3, <2>1, Sizes DEF Ends
<1>4. CASE i + 3 <= n
  <2>1. plen \in Nat
    BY <1>1, <1>4, LengthField
  <2>2. ScanAt(acc, g, i) =
          IF acc[i] # SYNC0 \/ acc[i + 1] # SYNC1 THEN g[i + 1]
          ELSE IF plen > MAX_PAYLOAD THEN g[i + 2]
          ELSE IF next - 1 > n THEN here
          ELSE [g[next] EXCEPT
                  !.cmds = Dispatched(SubSeq(acc, i + FRAME_HDR, next - 1)) \o @]
    BY <1>1, <1>4, Sizes DEF ScanAt
  <2> HIDE DEF plen
  <2>3. Ends(acc, g[i + 1], i) /\ Ends(acc, g[i + 2], i)
    <3>1. i + 1 \in i + 1..Len(acc) + 1 /\ i + 2 \in i + 1..Len(acc) + 1
      BY <1>1, <1>4
    <3>2. Ends(acc, g[i + 1], i + 1) /\ Ends(acc, g[i + 2], i + 2)
      BY <3>1
    <3>3. g[i + 1].rest \in Nat /\ g[i + 2].rest \in Nat
      BY <3>2 DEF Ends
    <3>4. i <= g[i + 1].rest /\ i <= g[i + 2].rest
      <4>1. i + 1 <= g[i + 1].rest /\ i + 2 <= g[i + 2].rest /\ i \in Nat
        BY <1>1, <3>2 DEF Ends
      <4> QED
        BY <3>3, <4>1
    <3> QED
      BY <3>2, <3>4 DEF Ends
  <2>4. ASSUME ~(plen > MAX_PAYLOAD), next - 1 > n
        PROVE  Ends(acc, here, i)
    <3> HIDE DEF here
    <3> QED
      BY <1>1, <1>2, <2>1, <2>4, Sizes DEF Ends
  <2>5. ASSUME ~(next - 1 > n)
        PROVE  Ends(acc, [g[next] EXCEPT
                  !.cmds = Dispatched(SubSeq(acc, i + FRAME_HDR, next - 1)) \o @], i)
    <3> DEFINE d == Dispatched(SubSeq(acc, i + FRAME_HDR, next - 1))
    <3>1. /\ next \in i + 1..Len(acc) + 1
          /\ i + FRAME_HDR \in Nat /\ next - 1 \in Nat
          /\ i + FRAME_HDR >= 1 /\ next - 1 <= Len(acc)
      BY <1>1, <2>1, <2>5, Sizes
    <3> HIDE DEF next
    <3>2. d \in Seq(Seq(Nat))
      BY <3>1, PayloadType, DispatchedType
    <3>3. Ends(acc, g[next], next)
      BY <3>1
    <3> HIDE DEF d
    <3>4. /\ [g[next] EXCEPT !.cmds = d \o @] \in [rest : Nat, cmds : Seq(Seq(Nat))]
          /\ [g[next] EXCEPT !.cmds = d \o @].rest = g[next].rest
      BY <3>2, <3>3, CommandsBefore DEF Ends
    <3>5. i <= g[next].rest
      BY <1>1, <3>1, <3>3 DEF Ends
    <3>6. Ends(acc, [g[next] EXCEPT !.cmds = d \o @], i)
      BY <3>3, <3>4, <3>5 DEF Ends
    <3> QED
      BY <3>6 DEF d
  <2> HIDE DEF next, here
  <2> QED
    BY <2>2, <2>3, <2>4, <2>5
<1> QED
  BY <1>1, <1>3, <1>4

\* The loop from every index on.
LEMMA LoopEnds ==
  ASSUME NEW acc \in Seq(Nat), NEW g, Loop(acc, g, 1)
  PROVE  \A i \in 1..Len(acc) + 1 : Ends(acc, g[i], i)
<1>1. PICK n \in Nat : n = Len(acc)
  OBVIOUS
<1>2. \A i \in 1..n + 1 : g[i] = ScanAt(acc, g, i)
  BY <1>1 DEF Loop
<1> DEFINE Bad == {k \in 0..n : ~Ends(acc, g[n + 1 - k], n + 1 - k)}
<1>3. Bad = {}
  <2>1. SUFFICES ASSUME Bad # {} PROVE FALSE
    OBVIOUS
  <2>2. PICK k \in Bad : \A y \in Bad : k <= y
    <3>1. Bad \subseteq Nat
      OBVIOUS
    <3> HIDE DEF Bad
    <3> QED
      BY <2>1, <3>1, LeastOf
  <2>3. k \in 0..n /\ ~Ends(acc, g[n + 1 - k], n + 1 - k)
    OBVIOUS
  <2>4. ASSUME NEW j \in (n + 1 - k) + 1..Len(acc) + 1
        PROVE  Ends(acc, g[j], j)
    <3>1. n + 1 - j \in 0..n /\ n + 1 - j < k /\ n + 1 - (n + 1 - j) = j
      BY <1>1, <2>3
    <3>2. n + 1 - j \notin Bad
      <4> HIDE DEF Bad
      <4> QED
        BY <2>2, <2>3, <3>1
    <3> QED
      BY <3>1, <3>2
  <2>5. n + 1 - k \in 1..Len(acc) + 1 /\ n + 1 - k \in 1..n + 1
    BY <1>1, <2>3
  <2>6. Ends(acc, ScanAt(acc, g, n + 1 - k), n + 1 - k)
    BY <2>4, <2>5, RoundEnds
  <2> QED
    BY <1>2, <2>3, <2>5, <2>6
<1>4. ASSUME NEW i \in 1..Len(acc) + 1
      PROVE  Ends(acc, g[i], i)
  <2>1. n + 1 - i \in 0..n /\ n + 1 - (n + 1 - i) = i
    BY <1>1
  <2> QED
    BY <1>3, <2>1
<1> QED
  BY <1>4

\* The loop as a whole: where it ends and what it dispatches.
LEMMA ScanEnds ==
  ASSUME NEW acc \in Seq(Nat)
  PROVE  Ends(acc, Scan(acc), 1)
<1>1. PICK g : Loop(acc, g, 1) /\ Scan(acc) = g[1]
  BY ScanIsLoop
<1>2. 1 \in 1..Len(acc) + 1
  OBVIOUS
<1> QED
  BY <1>1, <1>2, LoopEnds

\* What stays in the accumulator after the loop is less than a frame.
LEMMA KeptIsShort ==
  ASSUME NEW acc \in Seq(Nat), NEW i \in Nat, 1 <= i, i <= Len(acc) + 1,
         Len(acc) + 1 - i < FRAME_HDR + MAX_PAYLOAD
  PROVE  Kept(acc, i) \in Seq(Nat) /\ Len(Kept(acc, i)) < FRAME_HDR + MAX_PAYLOAD
<1>1. PICK n \in Nat : n = Len(acc)
  OBVIOUS
<1>2. CASE 1 < i /\ i <= n
  <2>1. Kept(acc, i) = SubSeq(acc, i, n)
    BY <1>1, <1>2 DEF Kept
  <2>2. SubSeq(acc, i, n) \in Seq(Nat) /\ Len(SubSeq(acc, i, n)) = n + 1 - i
    BY <1>1, <1>2, SubSeqProperties
  <2> QED
    BY <1>1, <2>1, <2>2
<1>3. CASE ~(1 < i /\ i <= n) /\ (i > n \/ n >= ACC_CAP)
  <2>1. Kept(acc, i) = <<>>
    BY <1>1, <1>3 DEF Kept
  <2> QED
    BY <2>1, Sizes
<1>4. CASE ~(1 < i /\ i <= n) /\ ~(i > n \/ n >= ACC_CAP)
  <2>1. Kept(acc, i) = acc
    BY <1>1, <1>4 DEF Kept
  <2> QED
    BY <1>1, <1>4, <2>1, Sizes
<1> QED
  BY <1>2, <1>3, <1>4

-----------------------------------------------------------------------------
(* The invariant.                                                          *)

\* What the peer means by a byte on the line.
Marked == [byte : Nat, bare : BOOLEAN, first : BOOLEAN, last : BOOLEAN, cmd : Seq(Nat)]

LineTypeOK == line \in Seq(Marked)

\* The type of the line is what makes the packets bytes.
SppInv == SppTypeOK /\ LineTypeOK /\ LeavesLessThanFrame

\* The fields of a byte on the line.
LEMMA FieldTypes ==
  ASSUME NEW p \in Seq(Marked), NEW i \in 1..Len(p)
  PROVE  /\ p[i].byte \in Nat /\ p[i].cmd \in Seq(Nat)
         /\ p[i].bare \in BOOLEAN /\ p[i].first \in BOOLEAN /\ p[i].last \in BOOLEAN
<1>1. p[i] \in Marked
  OBVIOUS
<1> QED
  BY <1>1 DEF Marked

\* A packet is a sequence of bytes.
LEMMA DataType ==
  ASSUME NEW p \in Seq(Marked)
  PROVE  DataOf(p) \in Seq(Nat) /\ Len(DataOf(p)) = Len(p)
<1>1. \A i \in 1..Len(p) : p[i].byte \in Nat
  BY FieldTypes
<1>2. Len(p) \in Nat
  OBVIOUS
<1> QED
  BY <1>1, <1>2, IsASeq DEF DataOf

\* The bytes of a message on the line.
LEMMA OnLineType ==
  ASSUME NEW m \in Messages
  PROVE  OnLine(m) \in Seq(Marked)
<1>1. m.bytes \in Seq(Nat) /\ m.bare \in BOOLEAN /\ m.cmd \in Seq(Nat)
  BY SppAssumption
<1>2. \A i \in 1..Len(m.bytes) : m.bytes[i] \in Nat
  BY <1>1
<1>3. \A i \in 1..Len(m.bytes) :
        [byte |-> m.bytes[i], bare |-> m.bare, first |-> i = 1,
         last |-> i = Len(m.bytes), cmd |-> m.cmd] \in Marked
  BY <1>1, <1>2 DEF Marked
<1>4. Len(m.bytes) \in Nat
  BY <1>1
<1> QED
  BY <1>3, <1>4, IsASeq DEF OnLine

\* The commands that a packet completes from index i on, and e for all indices.
TallyAt(p, e, i) ==
    IF i > Len(p) THEN <<>>
    ELSE IF p[i].last /\ p[i].cmd # <<>> THEN <<p[i].cmd>> \o e[i + 1]
    ELSE e[i + 1]

Tally(p, e, lo) == e = [i \in lo..Len(p) + 1 |-> TallyAt(p, e, i)]

\* One index more, as in OneRoundMore.
LEMMA OneByteMore ==
  ASSUME NEW p \in Seq(Marked), NEW lo \in 1..Len(p), NEW e, Tally(p, e, lo + 1)
  PROVE  \E h : Tally(p, h, lo)
<1> DEFINE h == [i \in lo..Len(p) + 1 |-> IF i = lo THEN TallyAt(p, e, lo) ELSE e[i]]
<1>1. PICK n \in Nat : n = Len(p)
  OBVIOUS
<1>2. ASSUME NEW i \in lo..Len(p) + 1
      PROVE  h[i] = TallyAt(p, h, i)
  <2>1. i <= n => e[i + 1] = h[i + 1]
    BY <1>1
  <2> HIDE DEF h
  <2>2. TallyAt(p, e, i) = TallyAt(p, h, i)
    BY <1>1, <2>1 DEF TallyAt
  <2>3. CASE i = lo
    BY <2>2, <2>3 DEF h
  <2>4. CASE i # lo
    <3>1. i \in lo + 1..Len(p) + 1
      BY <1>1, <2>4
    <3>2. e[i] = TallyAt(p, e, i)
      BY <3>1 DEF Tally
    <3> QED
      BY <2>2, <2>4, <3>2 DEF h
  <2> QED
    BY <2>3, <2>4
<1>3. h = [i \in lo..Len(p) + 1 |-> h[i]]
  OBVIOUS
<1> HIDE DEF h
<1>4. [i \in lo..Len(p) + 1 |-> h[i]] = [i \in lo..Len(p) + 1 |-> TallyAt(p, h, i)]
  BY <1>2
<1> QED
  BY <1>3, <1>4 DEF Tally

\* Completed is the tally from the first byte on.
LEMMA CompletedIsTally ==
  ASSUME NEW p \in Seq(Marked)
  PROVE  \E e : Tally(p, e, 1) /\ Completed(p) = e[1]
<1> DEFINE From(lo) == \E e : Tally(p, e, lo)
           Bad == {k \in Nat : k <= Len(p) /\ ~From(Len(p) + 1 - k)}
<1>1. PICK n \in Nat : n = Len(p)
  OBVIOUS
<1>2. From(n + 1)
  <2> DEFINE e == [i \in n + 1..n + 1 |-> <<>>]
  <2>1. \A i \in n + 1..n + 1 : TallyAt(p, e, i) = <<>>
    BY <1>1 DEF TallyAt
  <2>2. Tally(p, e, n + 1)
    BY <1>1, <2>1 DEF Tally
  <2> QED
    BY <2>2
<1>3. ASSUME NEW k \in Nat, k \in Bad
      PROVE  k - 1 \in Bad
  <2>1. k <= n /\ ~From(n + 1 - k)
    BY <1>1, <1>3
  <2>2. k # 0
    BY <1>2, <2>1
  <2>3. n + 1 - k \in 1..Len(p) /\ (n + 1 - k) + 1 = n + 1 - (k - 1)
    BY <1>1, <2>1, <2>2
  <2>4. ~From(n + 1 - (k - 1))
    BY <2>1, <2>3, OneByteMore
  <2> QED
    BY <1>1, <2>1, <2>2, <2>4
<1>4. Bad = {}
  <2>1. SUFFICES ASSUME Bad # {} PROVE FALSE
    OBVIOUS
  <2>2. PICK k \in Bad : \A y \in Bad : k <= y
    BY <2>1, LeastOf
  <2>3. k - 1 \in Bad
    BY <1>3
  <2>4. k \in Nat
    OBVIOUS
  <2> HIDE DEF Bad
  <2> QED
    BY <2>2, <2>3, <2>4
<1>5. From(1)
  BY <1>1, <1>4
<1> DEFINE e == CHOOSE f : Tally(p, f, 1)
<1>6. Tally(p, e, 1)
  BY <1>5
<1>7. Completed(p) = e[1]
  BY DEF Completed, Tally, TallyAt
<1> QED
  BY <1>6, <1>7

\* What a packet completes is a sequence of commands.
LEMMA CompletedType ==
  ASSUME NEW p \in Seq(Marked)
  PROVE  Completed(p) \in Seq(Seq(Nat))
<1>1. PICK e : Tally(p, e, 1) /\ Completed(p) = e[1]
  BY CompletedIsTally
<1>2. PICK n \in Nat : n = Len(p)
  OBVIOUS
<1>3. \A i \in 1..n + 1 : e[i] = TallyAt(p, e, i)
  BY <1>1, <1>2 DEF Tally
<1>4. \A i \in 1..n : p[i].cmd \in Seq(Nat)
  BY <1>2, FieldTypes
<1> DEFINE Bad == {k \in 0..n : e[n + 1 - k] \notin Seq(Seq(Nat))}
<1>5. Bad = {}
  <2>1. SUFFICES ASSUME Bad # {} PROVE FALSE
    OBVIOUS
  <2>2. PICK k \in Bad : \A y \in Bad : k <= y
    <3>1. Bad \subseteq Nat
      OBVIOUS
    <3> HIDE DEF Bad
    <3> QED
      BY <2>1, <3>1, LeastOf
  <2> DEFINE i == n + 1 - k
  <2>3. k \in 0..n /\ e[i] \notin Seq(Seq(Nat)) /\ i \in 1..n + 1
    BY <2>2
  <2>4. i <= n => e[i + 1] \in Seq(Seq(Nat))
    <3>1. SUFFICES ASSUME i <= n PROVE e[i + 1] \in Seq(Seq(Nat))
      OBVIOUS
    <3>2. k - 1 \in 0..n /\ n + 1 - (k - 1) = i + 1 /\ k - 1 < k
      BY <2>3, <3>1
    <3>3. k - 1 \notin Bad
      <4> HIDE DEF Bad
      <4> QED
        BY <2>2, <2>3, <3>2
    <3> QED
      BY <3>2, <3>3
  <2>5. e[i] = TallyAt(p, e, i)
    BY <1>3, <2>3
  <2> HIDE DEF i
  <2>6. i <= n => p[i].cmd \in Seq(Nat)
    BY <1>4, <2>3
  <2>7. i <= n => <<p[i].cmd>> \o e[i + 1] \in Seq(Seq(Nat))
    BY <2>4, <2>6
  <2> QED
    BY <1>2, <2>3, <2>4, <2>5, <2>7 DEF TallyAt
<1>6. n \in 0..n /\ n + 1 - n = 1
  OBVIOUS
<1>7. e[1] \in Seq(Seq(Nat))
  BY <1>5, <1>6
<1> QED
  BY <1>1, <1>7

-----------------------------------------------------------------------------
(* The steps.                                                              *)

\* The state before the first connection.
LEMMA SppInitEstablishes == SppInit => SppInv
<1> SUFFICES ASSUME SppInit PROVE SppInv
  OBVIOUS
<1>1. rx_acc = <<>> /\ Len(rx_acc) = 0 /\ rx_acc \in Seq(Nat)
  BY DEF SppInit
<1>2. line \in Seq(Marked) /\ events \in Seq(Events)
  BY DEF SppInit
<1>3. 0 \in 0..MaxMessages /\ 0 \in 0..MaxConnects /\ 0 \in 0..0
  BY SppAssumption
<1>4. out \in Seq(Seq(Nat)) /\ whole \in Seq(Seq(Nat))
  BY DEF SppInit
<1>5. Len(rx_acc) < FRAME_HDR + MAX_PAYLOAD
  BY <1>1, Sizes
<1> QED
  BY <1>1, <1>2, <1>3, <1>4, <1>5
     DEF SppInit, SppInv, SppTypeOK, LineTypeOK, LeavesLessThanFrame

\* The books stay sequences of commands.
LEMMA NoteTypes ==
  ASSUME SppInv, NEW p \in Seq(Marked), NEW cmds \in Seq(Seq(Nat)), Note(p, cmds)
  PROVE  out' \in Seq(Seq(Nat)) /\ whole' \in Seq(Seq(Nat)) /\ mixed' \subseteq Misreadings
<1>1. Completed(p) \in Seq(Seq(Nat))
  BY CompletedType
<1>2. out \in Seq(Seq(Nat)) /\ whole \in Seq(Seq(Nat)) /\ mixed \subseteq Misreadings
  BY DEF SppInv, SppTypeOK
<1>3. out \o cmds \in Seq(Seq(Nat)) /\ whole \o Completed(p) \in Seq(Seq(Nat))
  BY <1>1, <1>2
<1>4. Misread(p) \subseteq Misreadings
  BY DEF Misread
<1> QED
  BY <1>2, <1>3, <1>4 DEF Note

\* The loop never adds bytes.
LEMMA KeptIsNoLonger ==
  ASSUME NEW acc \in Seq(Nat), NEW i \in Nat, 1 <= i, i <= Len(acc) + 1
  PROVE  Len(Kept(acc, i)) \in Nat /\ Len(Kept(acc, i)) <= Len(acc)
<1>1. PICK n \in Nat : n = Len(acc)
  OBVIOUS
<1>2. CASE 1 < i /\ i <= n
  <2>1. Kept(acc, i) = SubSeq(acc, i, n)
    BY <1>1, <1>2 DEF Kept
  <2>2. Len(SubSeq(acc, i, n)) = n + 1 - i
    BY <1>1, <1>2, SubSeqProperties
  <2> QED
    BY <1>1, <1>2, <2>1, <2>2
<1>3. CASE ~(1 < i /\ i <= n) /\ (i > n \/ n >= ACC_CAP)
  <2>1. Kept(acc, i) = <<>>
    BY <1>1, <1>3 DEF Kept
  <2> QED
    BY <1>1, <2>1
<1>4. CASE ~(1 < i /\ i <= n) /\ ~(i > n \/ n >= ACC_CAP)
  <2>1. Kept(acc, i) = acc
    BY <1>1, <1>4 DEF Kept
  <2> QED
    BY <1>1, <2>1
<1> QED
  BY <1>2, <1>3, <1>4

\* bridge_spp_receive_data_cb, and what it leaves in the accumulator.
LEMMA ReceiveKeeps ==
  ASSUME SppInv, NEW n \in 1..Len(line), ReceiveData(n)
  PROVE  /\ SppInv'
         /\ \/ UNCHANGED <<rx_acc, owner>>
            \/ rx_acc' = <<>>
            \/ owner' = session
            \/ owner' = owner /\ rx_acc # <<>>
<1> DEFINE packet == SubSeq(line, 1, n)
           data == DataOf(packet)
           acc == Fed(data)
<1>1. line \in Seq(Marked) /\ rx_acc \in Seq(Nat)
  BY DEF SppInv, SppTypeOK, LineTypeOK
<1>2. PICK k \in Nat : k = Len(line)
  BY <1>1
<1>3. packet \in Seq(Marked) /\ Len(packet) = n
  BY <1>1, <1>2, SubSeqProperties
<1>4. line' \in Seq(Marked)
  <2>1. SubSeq(line, n + 1, Len(line)) \in Seq(Marked)
    BY <1>1, <1>2, SubSeqProperties
  <2> QED
    BY <2>1 DEF ReceiveData
<1> HIDE DEF packet
<1>5. data \in Seq(Nat) /\ Len(data) = n
  BY <1>3, DataType
<1> HIDE DEF data
<1>6. acc \in Seq(Nat) /\ (rx_acc = <<>> => Len(acc) = n)
  <2>1. <<>> \o data = data /\ rx_acc \o data \in Seq(Nat)
    BY <1>1, <1>5
  <2> QED
    BY <1>5, <2>1 DEF Fed
<1> HIDE DEF acc
<1>7. Ends(acc, Scan(acc), 1)
  BY <1>6, ScanEnds
<1> DEFINE kept == Kept(acc, Scan(acc).rest)
<1>8. \/ UNCHANGED <<rx_acc, owner, out, whole, mixed>>
      \/ Note(packet, <<data>>) /\ UNCHANGED <<rx_acc, owner>>
      \/ /\ Note(packet, Scan(acc).cmds)
         /\ rx_acc' = kept
         /\ owner' = IF rx_acc' = <<>> THEN 0 ELSE IF Len(rx_acc') > n THEN owner ELSE session
      \/ /\ Len(acc) > ACC_CAP /\ rx_acc' = acc /\ owner' = session
         /\ UNCHANGED <<out, whole, mixed>>
  BY DEF ReceiveData, bookVars, packet, data, acc
<1>9. out' \in Seq(Seq(Nat)) /\ whole' \in Seq(Seq(Nat)) /\ mixed' \subseteq Misreadings
  <2>1. <<data>> \in Seq(Seq(Nat)) /\ Scan(acc).cmds \in Seq(Seq(Nat))
    BY <1>5, <1>7 DEF Ends
  <2>2. CASE UNCHANGED <<out, whole, mixed>>
    BY <2>2 DEF SppInv, SppTypeOK
  <2>3. CASE Note(packet, <<data>>) \/ Note(packet, Scan(acc).cmds)
    BY <1>3, <2>1, <2>3, NoteTypes
  <2> QED
    BY <1>8, <2>2, <2>3
<1>10. /\ kept \in Seq(Nat) /\ Len(kept) < FRAME_HDR + MAX_PAYLOAD
       /\ Len(kept) \in Nat /\ Len(kept) <= Len(acc)
  <2>1. Scan(acc).rest \in Nat
    BY <1>7 DEF Ends
  <2> QED
    BY <1>6, <1>7, <2>1, KeptIsShort, KeptIsNoLonger DEF Ends
<1> HIDE DEF kept
<1>11. rx_acc' \in Seq(Nat)
  BY <1>1, <1>6, <1>8, <1>10
<1>12. owner' \in 0..session'
  <2>1. session' = session /\ session \in Nat /\ owner \in 0..session
    BY SppAssumption DEF ReceiveData, SppInv, SppTypeOK
  <2> QED
    BY <1>8, <2>1
<1>13. LeavesLessThanFrame'
  <2>1. CASE rx_acc' = rx_acc
    BY <2>1 DEF SppInv, LeavesLessThanFrame, Overrun
  <2>2. CASE rx_acc' = kept
    BY <1>10, <2>2 DEF LeavesLessThanFrame
  <2>3. CASE Len(acc) > ACC_CAP /\ rx_acc' = acc
    BY <2>3 DEF LeavesLessThanFrame, Overrun
  <2> QED
    BY <1>8, <2>1, <2>2, <2>3
<1>14. UNCHANGED <<spp_channel, registered, connected, events, link, sent, session>>
  BY DEF ReceiveData
<1>15. SppInv'
  BY <1>4, <1>9, <1>11, <1>12, <1>13, <1>14 DEF SppInv, SppTypeOK, LineTypeOK
<1>16. CASE rx_acc' = kept /\ rx_acc' # <<>> /\ Len(rx_acc') > n
  <2>1. rx_acc # <<>>
    BY <1>6, <1>10, <1>16
  <2> QED
    BY <1>8, <1>15, <1>16, <2>1
<1> QED
  BY <1>8, <1>15, <1>16

\* The peer and the connection.
LEMMA LinkKeeps ==
  ASSUME SppInv, (\E m \in Messages : PeerSends(m)) \/ LinkUp \/ LinkDown \/ LinkFails
  PROVE  SppInv'
<1>1. line' \in Seq(Marked)
  <2>1. CASE \E m \in Messages : PeerSends(m)
    <3>1. PICK m \in Messages : PeerSends(m)
      BY <2>1
    <3>2. line \o OnLine(m) \in Seq(Marked)
      BY OnLineType DEF SppInv, LineTypeOK
    <3> QED
      BY <3>1, <3>2 DEF PeerSends
  <2>2. CASE LinkUp \/ LinkDown \/ LinkFails
    <3>1. line' = line \/ line' = <<>>
      BY <2>2 DEF LinkUp, LinkDown, LinkFails
    <3>2. line \in Seq(Marked) /\ <<>> \in Seq(Marked)
      BY DEF SppInv, LineTypeOK
    <3> QED
      BY <3>1, <3>2
  <2> QED
    BY <2>1, <2>2
<1>2. events' \in Seq(Events) /\ link' \in BOOLEAN
  <2>1. events \in Seq(Events) /\ link \in BOOLEAN
    BY DEF SppInv, SppTypeOK
  <2>2. \A e \in Events : Append(events, e) \in Seq(Events)
    BY <2>1
  <2> QED
    BY <2>1, <2>2 DEF PeerSends, LinkUp, LinkDown, LinkFails, Events
<1>3. sent' \in 0..MaxMessages /\ session' \in 0..MaxConnects /\ owner' \in 0..session'
  <2>1. /\ sent \in 0..MaxMessages /\ session \in 0..MaxConnects /\ owner \in 0..session
        /\ MaxMessages \in Nat /\ MaxConnects \in Nat
    BY SppAssumption DEF SppInv, SppTypeOK
  <2> QED
    BY <2>1 DEF PeerSends, LinkUp, LinkDown, LinkFails, bookVars
<1>4. UNCHANGED <<rx_acc, spp_channel, registered, connected, out, whole, mixed>>
  BY DEF PeerSends, LinkUp, LinkDown, LinkFails, bookVars
<1> QED
  BY <1>1, <1>2, <1>3, <1>4
     DEF SppInv, SppTypeOK, LineTypeOK, LeavesLessThanFrame, Overrun

\* The messages of btsrv.
LEMMA HandlerKeeps ==
  ASSUME SppInv, Connected \/ ConnectFailed \/ Disconnected
  PROVE  SppInv'
<1>1. UNCHANGED <<line, sent, session, link, out, whole>>
  BY DEF Connected, ConnectFailed, Disconnected, Handles
<1>2. events' \in Seq(Events)
  <2>1. events # <<>> /\ events' = Tail(events) /\ events \in Seq(Events)
    BY DEF Connected, ConnectFailed, Disconnected, Handles, SppInv, SppTypeOK
  <2> QED
    BY <2>1
<1>3. /\ spp_channel' \in {0, APP_ID} /\ registered' \in BOOLEAN /\ connected' \in BOOLEAN
      /\ mixed' \subseteq Misreadings
  BY DEF Connected, ConnectFailed, Disconnected, SppInv, SppTypeOK, Misreadings
<1>4. UNCHANGED <<rx_acc, owner>> \/ (rx_acc' = <<>> /\ owner' \in {0, owner})
  BY DEF Connected, ConnectFailed, Disconnected
<1>5. rx_acc' \in Seq(Nat) /\ (rx_acc' = rx_acc \/ Len(rx_acc') = 0)
  <2>1. rx_acc \in Seq(Nat) /\ <<>> \in Seq(Nat) /\ Len(<<>>) = 0
    BY DEF SppInv, SppTypeOK
  <2>2. rx_acc' = rx_acc \/ rx_acc' = <<>>
    BY <1>4
  <2> QED
    BY <2>1, <2>2
<1>6. owner' \in 0..session'
  <2>1. owner \in 0..session /\ session \in Nat
    BY SppAssumption DEF SppInv, SppTypeOK
  <2> QED
    BY <1>1, <1>4, <2>1
<1>7. LeavesLessThanFrame'
  BY <1>5, Sizes DEF SppInv, LeavesLessThanFrame, Overrun
<1> QED
  BY <1>1, <1>2, <1>3, <1>5, <1>6, <1>7 DEF SppInv, SppTypeOK, LineTypeOK

\* Every step of the bridge keeps the invariant.
LEMMA SppNextKeeps == SppInv /\ [SppNext]_sppVars => SppInv'
<1> SUFFICES ASSUME SppInv, [SppNext]_sppVars PROVE SppInv'
  OBVIOUS
<1>1. CASE SppNext
  BY <1>1, ReceiveKeeps, LinkKeeps, HandlerKeeps DEF SppNext
<1>2. CASE UNCHANGED sppVars
  BY <1>2 DEF sppVars, bookVars, SppInv, SppTypeOK, LineTypeOK, LeavesLessThanFrame, Overrun
<1> QED
  BY <1>1, <1>2

\* The invariant holds in every reachable state.
LEMMA SppInvariance == SppSpec => []SppInv
BY SppInitEstablishes, SppNextKeeps, PTL DEF SppSpec

-----------------------------------------------------------------------------
\* spp_process_accumulator leaves less than one frame behind, whatever a packet that
\* fits made of the accumulator: a header that announces too much, sync bytes inside
\* a payload or plain noise can not make it stand full, so its overflow branch is
\* dead code.
THEOREM AccumulatorDrains == SppSpec => []LeavesLessThanFrame
<1>1. SppInv => LeavesLessThanFrame
  BY DEF SppInv
<1> QED
  BY <1>1, SppInvariance, PTL

\* A packet that fits into an empty accumulator is copied inside it.
LEMMA SmallPacketFits ==
  ASSUME MAX_PACKET <= ACC_CAP, SppInv, CopyStaysInside, NEW n \in 1..Len(line), ReceiveData(n)
  PROVE  CopyStaysInside'
<1> DEFINE packet == SubSeq(line, 1, n)
           data == DataOf(packet)
           acc == Fed(data)
<1>1. line \in Seq(Marked) /\ rx_acc \in Seq(Nat)
  BY DEF SppInv, SppTypeOK, LineTypeOK
<1>2. PICK k \in Nat : k = Len(line)
  BY <1>1
<1>3. packet \in Seq(Marked) /\ Len(packet) = n
  BY <1>1, <1>2, SubSeqProperties
<1>4. n \in Nat /\ n <= ACC_CAP
  BY <1>2, SppAssumption, Sizes DEF ReceiveData, ACC_CAP
<1> HIDE DEF packet
<1>5. data \in Seq(Nat) /\ Len(data) = n
  BY <1>3, DataType
<1> HIDE DEF data
<1>6. Len(acc) <= ACC_CAP
  <2>1. CASE Flushes(data)
    <3>1. acc = <<>> \o data /\ <<>> \o data = data
      BY <1>5, <2>1 DEF Fed
    <3> QED
      BY <1>4, <1>5, <3>1
  <2>2. CASE ~Flushes(data)
    <3>1. acc = rx_acc \o data /\ Len(rx_acc \o data) = Len(rx_acc) + Len(data)
      BY <1>1, <1>5, <2>2 DEF Fed
    <3>2. Len(rx_acc) + Len(data) \in Nat /\ ACC_CAP \in Nat
      BY <1>1, <1>5, Sizes DEF ACC_CAP
    <3> QED
      BY <2>2, <3>1, <3>2 DEF Flushes
  <2> QED
    BY <2>1, <2>2
<1>7. acc \in Seq(Nat)
  <2>1. <<>> \o data = data /\ rx_acc \o data \in Seq(Nat)
    BY <1>1, <1>5
  <2> QED
    BY <1>5, <2>1 DEF Fed
<1> HIDE DEF acc
<1>8. ~(Len(acc) > ACC_CAP)
  BY <1>6, <1>7, Sizes DEF ACC_CAP
<1>9. rx_acc' = rx_acc \/ rx_acc' = Kept(acc, Scan(acc).rest)
  BY <1>8 DEF ReceiveData, packet, data, acc
<1>10. Len(Kept(acc, Scan(acc).rest)) \in Nat /\ Len(Kept(acc, Scan(acc).rest)) <= Len(acc)
  <2>1. Ends(acc, Scan(acc), 1) /\ Scan(acc).rest \in Nat
    BY <1>7, ScanEnds DEF Ends
  <2> QED
    BY <1>7, <2>1, KeptIsNoLonger DEF Ends
<1>11. ~(Len(Kept(acc, Scan(acc).rest)) > ACC_CAP)
  <2>1. Len(acc) \in Nat /\ ACC_CAP \in Nat
    BY <1>7, Sizes DEF ACC_CAP
  <2> QED
    BY <1>6, <1>10, <2>1
<1> QED
  BY <1>9, <1>11 DEF CopyStaysInside, Overrun

\* What it takes for the copy of spp_feed_accumulator to stay inside rx_acc: an RFCOMM
\* that delivers no packet longer than SPP_ACC_CAP.  The product's delivers longer ones.
THEOREM SmallPacketsStayInside ==
  ASSUME MAX_PACKET <= ACC_CAP
  PROVE  SppSpec => []CopyStaysInside
<1>1. SppInit => CopyStaysInside
  <2> SUFFICES ASSUME SppInit PROVE CopyStaysInside
    OBVIOUS
  <2>1. Len(rx_acc) = 0
    BY DEF SppInit
  <2> QED
    BY <2>1, Sizes DEF CopyStaysInside, Overrun, ACC_CAP
<1>2. SppInv /\ CopyStaysInside /\ [SppNext]_sppVars => CopyStaysInside'
  <2> SUFFICES ASSUME SppInv, CopyStaysInside, [SppNext]_sppVars PROVE CopyStaysInside'
    OBVIOUS
  <2>1. CASE \E n \in 1..Len(line) : ReceiveData(n)
    BY <2>1, SmallPacketFits
  <2>2. CASE rx_acc' = rx_acc
    BY <2>2 DEF CopyStaysInside, Overrun
  <2>3. CASE rx_acc' = <<>>
    <3>1. Len(rx_acc') = 0
      BY <2>3
    <3> QED
      BY <3>1, Sizes DEF CopyStaysInside, Overrun, ACC_CAP
  <2>4. (\E n \in 1..Len(line) : ReceiveData(n)) \/ rx_acc' = rx_acc \/ rx_acc' = <<>>
    BY DEF SppNext, PeerSends, LinkUp, LinkDown, LinkFails, Connected, ConnectFailed,
           Disconnected, sppVars
  <2> QED
    BY <2>1, <2>2, <2>3, <2>4
<1> QED
  BY <1>1, <1>2, SppInvariance, PTL DEF SppSpec

-----------------------------------------------------------------------------
(* The bytes of a closed connection.                                       *)

\* When btsrv comes to message i it takes the service for connected.
UpAt(i) ==
    \/ \E j \in 1..i - 1 : /\ events[j] = "connected"
                          /\ \A k \in j + 1..i - 1 : events[k] = "failed"
    \/ connected /\ \A k \in 1..i - 1 : events[k] = "failed"

\* What makes btsrv pass on every disconnect: none finds the service disconnected.
EventInv ==
    /\ \A i \in 1..Len(events) : events[i] = "disconnected" => UpAt(i)
    /\ link => UpAt(Len(events) + 1)

\* A message is added to the queue.
LEMMA QueuedAfter ==
  ASSUME SppTypeOK, NEW e \in Events, events' = Append(events, e), connected' = connected
  PROVE  /\ Len(events') = Len(events) + 1 /\ events'[Len(events) + 1] = e
         /\ \A i \in 1..Len(events) : events'[i] = events[i]
         /\ \A i \in 1..Len(events) + 1 : UpAt(i) => UpAt(i)'
<1>1. events \in Seq(Events)
  BY DEF SppTypeOK
<1>2. PICK n \in Nat : n = Len(events)
  BY <1>1
<1>3. /\ Len(events') = n + 1 /\ events'[n + 1] = e
      /\ \A i \in 1..n : events'[i] = events[i]
  BY <1>1, <1>2
<1>4. ASSUME NEW i \in 1..n + 1, UpAt(i) PROVE UpAt(i)'
  <2>1. \A k \in 1..i - 1 : events'[k] = events[k]
    BY <1>2, <1>3
  <2>2. CASE \E j \in 1..i - 1 : /\ events[j] = "connected"
                               /\ \A k \in j + 1..i - 1 : events[k] = "failed"
    <3>1. PICK j \in 1..i - 1 : /\ events[j] = "connected"
                              /\ \A k \in j + 1..i - 1 : events[k] = "failed"
      BY <2>2
    <3>2. \A k \in j + 1..i - 1 : k \in 1..i - 1
      BY <1>2
    <3>3. events'[j] = "connected" /\ \A k \in j + 1..i - 1 : events'[k] = "failed"
      BY <2>1, <3>1, <3>2
    <3> QED
      BY <3>3 DEF UpAt
  <2>3. CASE connected /\ \A k \in 1..i - 1 : events[k] = "failed"
    BY <2>1, <2>3 DEF UpAt
  <2> QED
    BY <1>4, <2>2, <2>3 DEF UpAt
<1> QED
  BY <1>2, <1>3, <1>4

\* The first message is handled.
LEMMA HandledAfter ==
  ASSUME SppTypeOK, events # <<>>, events' = Tail(events),
         Head(events) = "connected" => connected',
         Head(events) = "failed" => connected' = connected
  PROVE  /\ Len(events) \in Nat \ {0} /\ Len(events') = Len(events) - 1
         /\ \A i \in 1..Len(events) - 1 : events'[i] = events[i + 1]
         /\ \A i \in 1..Len(events) : UpAt(i + 1) => UpAt(i)'
<1>1. events \in Seq(Events)
  BY DEF SppTypeOK
<1>2. PICK n \in Nat \ {0} : n = Len(events)
  BY <1>1
<1>3. /\ Len(events') = n - 1 /\ Head(events) = events[1]
      /\ \A i \in 1..n - 1 : events'[i] = events[i + 1]
  BY <1>1, <1>2
<1>4. ASSUME NEW i \in 1..n, UpAt(i + 1) PROVE UpAt(i)'
  <2>1. \A k \in 1..i - 1 : events'[k] = events[k + 1] /\ k + 1 \in 2..i
    BY <1>2, <1>3
  <2>2. (i + 1) - 1 = i /\ 1 \in 1..i
    BY <1>2
  <2>3. CASE \E j \in 1..i : events[j] = "connected" /\ \A k \in j + 1..i : events[k] = "failed"
    <3>1. PICK j \in 1..i : events[j] = "connected" /\ \A k \in j + 1..i : events[k] = "failed"
      BY <2>3
    <3>2. CASE j = 1
      <4>1. connected' /\ \A k \in 1..i - 1 : events'[k] = "failed"
        BY <1>3, <2>1, <3>1, <3>2
      <4> QED
        BY <4>1 DEF UpAt
    <3>3. CASE j # 1
      <4>1. j - 1 \in 1..i - 1 /\ (j - 1) + 1 = j
        BY <1>2, <3>3
      <4>2. \A k \in (j - 1) + 1..i - 1 : k \in 1..i - 1 /\ k + 1 \in j + 1..i
        BY <1>2, <3>3
      <4>3. events'[j - 1] = "connected" /\ \A k \in (j - 1) + 1..i - 1 : events'[k] = "failed"
        BY <2>1, <3>1, <4>1, <4>2
      <4> QED
        BY <4>1, <4>3 DEF UpAt
    <3> QED
      BY <3>2, <3>3
  <2>4. CASE connected /\ \A k \in 1..i : events[k] = "failed"
    <3>1. connected'
      BY <1>3, <2>2, <2>4
    <3>2. \A k \in 1..i - 1 : k + 1 \in 1..i
      BY <1>2
    <3>3. \A k \in 1..i - 1 : events'[k] = "failed"
      BY <2>1, <2>4, <3>2
    <3> QED
      BY <3>1, <3>3 DEF UpAt
  <2>5. \/ \E j \in 1..i : events[j] = "connected" /\ \A k \in j + 1..i : events[k] = "failed"
        \/ connected /\ \A k \in 1..i : events[k] = "failed"
    BY <1>4, <2>2 DEF UpAt
  <2> QED
    BY <2>3, <2>4, <2>5
<1> QED
  BY <1>2, <1>3, <1>4

OldInv == EventInv /\ OldBytesAwaitDisconnect

\* A packet: its bytes are of this connection.
LEMMA ReceiveKeepsOld ==
  ASSUME SppInv, OldInv, NEW n \in 1..Len(line), ReceiveData(n)
  PROVE  OldInv'
<1>1. UNCHANGED <<registered, connected, events, link, session>> /\ link
  BY DEF ReceiveData
<1>2. \/ UNCHANGED <<rx_acc, owner>>
      \/ rx_acc' = <<>>
      \/ owner' = session
      \/ owner' = owner /\ rx_acc # <<>>
  BY ReceiveKeeps
<1>3. OldBytesAwaitDisconnect'
  BY <1>1, <1>2 DEF OldInv, OldBytesAwaitDisconnect
<1>4. EventInv'
  BY <1>1 DEF OldInv, EventInv, UpAt
<1> QED
  BY <1>3, <1>4 DEF OldInv

\* The connection comes and goes.
LEMMA LinkKeepsOld ==
  ASSUME SppInv, OldInv, LinkUp \/ LinkDown \/ LinkFails
  PROVE  OldInv'
<1>1. UNCHANGED <<rx_acc, registered, connected, owner>>
  BY DEF LinkUp, LinkDown, LinkFails, bookVars
<1>2. PICK e \in Events : /\ events' = Append(events, e)
                          /\ e = "connected" \/ (~link' /\ (e = "disconnected" => link))
                          /\ ~link \/ e = "disconnected"
  BY DEF LinkUp, LinkDown, LinkFails, Events
<1>3. PICK n \in Nat : n = Len(events)
  BY DEF SppInv, SppTypeOK
<1>4. /\ Len(events') = n + 1 /\ events'[n + 1] = e
      /\ \A i \in 1..n : events'[i] = events[i]
      /\ \A i \in 1..n + 1 : UpAt(i) => UpAt(i)'
  BY <1>1, <1>2, <1>3, QueuedAfter DEF SppInv
<1>5. ASSUME NEW i \in 1..n + 1, events'[i] = "disconnected" PROVE UpAt(i)'
  <2>1. CASE i = n + 1
    <3>1. link
      BY <1>2, <1>4, <1>5, <2>1
    <3> QED
      BY <1>3, <1>4, <2>1, <3>1 DEF OldInv, EventInv
  <2>2. CASE i # n + 1
    <3>1. i \in 1..n
      BY <1>3, <2>2
    <3> QED
      BY <1>3, <1>4, <1>5, <3>1 DEF OldInv, EventInv
  <2> QED
    BY <2>1, <2>2
<1>6. ASSUME link' PROVE UpAt(n + 2)'
  <2>1. n + 1 \in 1..(n + 2) - 1 /\ (n + 1) + 1..(n + 2) - 1 = {}
    BY <1>3
  <2>2. events'[n + 1] = "connected"
    BY <1>2, <1>4, <1>6
  <2> QED
    BY <2>1, <2>2 DEF UpAt
<1>7. EventInv'
  <2>1. Len(events') + 1 = n + 2
    BY <1>3, <1>4
  <2> QED
    BY <1>4, <1>5, <1>6, <2>1 DEF EventInv
<1>8. OldBytesAwaitDisconnect'
  <2>1. SUFFICES ASSUME registered, rx_acc # <<>>
                 PROVE  \E i \in 1..n + 1 : events'[i] = "disconnected"
    BY <1>1, <1>4 DEF OldBytesAwaitDisconnect
  <2>2. CASE e = "disconnected"
    BY <1>3, <1>4, <2>2
  <2>3. CASE e # "disconnected"
    <3>1. PICK i \in 1..n : events[i] = "disconnected"
      BY <1>2, <1>3, <2>1, <2>3 DEF OldInv, OldBytesAwaitDisconnect
    <3>2. i \in 1..n + 1
      BY <1>3
    <3> QED
      BY <1>4, <3>1, <3>2
  <2> QED
    BY <2>2, <2>3
<1> QED
  BY <1>7, <1>8 DEF OldInv

\* A message is handled: a disconnect finds the service connected, so the bridge is
\* told and drops what is there.
LEMMA HandlerKeepsOld ==
  ASSUME SppInv, OldInv, Connected \/ ConnectFailed \/ Disconnected
  PROVE  OldInv'
<1>1. /\ events # <<>> /\ events' = Tail(events) /\ UNCHANGED <<link, session>>
      /\ Head(events) = "connected" => connected'
      /\ Head(events) = "failed" => connected' = connected
  BY DEF Connected, ConnectFailed, Disconnected, Handles
<1>2. PICK n \in Nat \ {0} : n = Len(events)
  BY <1>1, HandledAfter DEF SppInv
<1>3. /\ Len(events') = n - 1
      /\ \A i \in 1..n - 1 : events'[i] = events[i + 1]
      /\ \A i \in 1..n : UpAt(i + 1) => UpAt(i)'
  BY <1>1, <1>2, HandledAfter DEF SppInv
<1>4. EventInv'
  <2>1. ASSUME NEW i \in 1..n - 1, events'[i] = "disconnected" PROVE UpAt(i)'
    <3>1. i + 1 \in 1..n /\ i \in 1..n
      BY <1>2
    <3> QED
      BY <1>2, <1>3, <2>1, <3>1 DEF OldInv, EventInv
  <2>2. ASSUME link' PROVE UpAt(n)'
    <3>1. n \in 1..n /\ UpAt(n + 1)
      BY <1>1, <1>2, <2>2 DEF OldInv, EventInv
    <3> QED
      BY <1>3, <3>1
  <2>3. Len(events') + 1 = n
    BY <1>2, <1>3
  <2> QED
    BY <1>3, <2>1, <2>2, <2>3 DEF EventInv
<1>5. OldBytesAwaitDisconnect'
  <2>1. CASE ConnectFailed
    BY <2>1 DEF ConnectFailed, OldBytesAwaitDisconnect
  <2>2. CASE Connected
    <3>1. /\ UNCHANGED <<rx_acc, registered, owner>> /\ events[1] = "connected"
      BY <1>1, <2>2 DEF Connected, Handles, SppInv, SppTypeOK
    <3>2. SUFFICES ASSUME registered, rx_acc # <<>>, ~(link /\ owner = session)
                   PROVE  \E i \in 1..n - 1 : events'[i] = "disconnected"
      BY <1>1, <1>3, <3>1 DEF OldBytesAwaitDisconnect
    <3>3. PICK i \in 1..n : events[i] = "disconnected"
      BY <1>2, <3>2 DEF OldInv, OldBytesAwaitDisconnect
    <3>4. i # 1
      BY <3>1, <3>3
    <3>5. i - 1 \in 1..n - 1 /\ (i - 1) + 1 = i
      BY <1>2, <3>4
    <3> QED
      BY <1>3, <3>3, <3>5
  <2>3. CASE Disconnected
    <3>1. events[1] = "disconnected" /\ 1 \in 1..n
      BY <1>2, <2>3 DEF Disconnected, Handles, SppInv, SppTypeOK
    <3>2. UpAt(1)
      BY <1>2, <3>1 DEF OldInv, EventInv
    <3>3. 1..1 - 1 = {}
      OBVIOUS
    <3>4. connected
      BY <3>2, <3>3 DEF UpAt
    <3>5. registered' => rx_acc' = <<>>
      BY <2>3, <3>4 DEF Disconnected
    <3> QED
      BY <3>5 DEF OldBytesAwaitDisconnect
  <2> QED
    BY <2>1, <2>2, <2>3
<1> QED
  BY <1>4, <1>5 DEF OldInv

\* Bytes of a closed connection are in the accumulator only as long as a disconnect
\* waits for btsrv, however many connections came and went, and however their
\* messages and packets interleave.
THEOREM OldBytesCleared == SppSpec => []OldBytesAwaitDisconnect
<1>1. SppInit => OldInv
  <2> SUFFICES ASSUME SppInit PROVE OldInv
    OBVIOUS
  <2>1. events = <<>> /\ 1..Len(events) = {} /\ ~link /\ rx_acc = <<>>
    BY DEF SppInit
  <2> QED
    BY <2>1 DEF OldInv, EventInv, OldBytesAwaitDisconnect
<1>2. SppInv /\ OldInv /\ [SppNext]_sppVars => OldInv'
  <2> SUFFICES ASSUME SppInv, OldInv, [SppNext]_sppVars PROVE OldInv'
    OBVIOUS
  <2>1. CASE \E n \in 1..Len(line) : ReceiveData(n)
    BY <2>1, ReceiveKeepsOld
  <2>2. CASE LinkUp \/ LinkDown \/ LinkFails
    BY <2>2, LinkKeepsOld
  <2>3. CASE Connected \/ ConnectFailed \/ Disconnected
    BY <2>3, HandlerKeepsOld
  <2>4. CASE UNCHANGED <<rx_acc, registered, connected, events, link, session, owner>>
    <3>1. EventInv'
      BY <2>4 DEF OldInv, EventInv, UpAt
    <3> QED
      BY <2>4, <3>1 DEF OldInv, OldBytesAwaitDisconnect
  <2>5. \/ \E n \in 1..Len(line) : ReceiveData(n)
        \/ LinkUp \/ LinkDown \/ LinkFails
        \/ Connected \/ ConnectFailed \/ Disconnected
        \/ UNCHANGED <<rx_acc, registered, connected, events, link, session, owner>>
    BY DEF SppNext, PeerSends, sppVars, bookVars
  <2> QED
    BY <2>1, <2>2, <2>3, <2>4, <2>5
<1>3. OldInv => OldBytesAwaitDisconnect
  BY DEF OldInv
<1> QED
  BY <1>1, <1>2, <1>3, SppInvariance, PTL DEF SppSpec

-----------------------------------------------------------------------------
(* Every command once and in order.  What the loop makes of the bytes and  *)
(* what the peer means by them is compared message by message, from the    *)
(* end of the accumulator to its start.                                    *)

\* A frame as spp_process_accumulator expects it, with the command in it, if any.
FrameOk(m) ==
    /\ ~m.bare
    /\ Len(m.bytes) >= FRAME_HDR
    /\ m.bytes[1] = SYNC0 /\ m.bytes[2] = SYNC1
    /\ m.bytes[3] * 256 + m.bytes[4] = Len(m.bytes) - FRAME_HDR
    /\ Len(m.bytes) <= FRAME_HDR + MAX_PAYLOAD
    /\ m.cmd = IF Len(m.bytes) >= FRAME_HDR + 2 /\ m.bytes[FRAME_HDR + 1] = CMD
                 THEN SubSeq(m.bytes, FRAME_HDR + 1, Len(m.bytes)) ELSE <<>>

\* The peers keep to the protocol: frames of at most SPP_MAX_PAYLOAD, and bare
\* commands.
WellFormed == \A m \in Messages : FrameOk(m) \/ (m.bare /\ m.cmd = m.bytes)

\* From index i on, as far as s goes, s is the message m.
Begins(s, i, m) ==
    \A j \in i..Len(s) : j < i + Len(m.bytes) => s[j] = OnLine(m)[j - i + 1]

\* s is message after message, the last one perhaps cut off.
Flow(s) ==
    /\ s # <<>> => s[1].first
    /\ \A i \in 1..Len(s) : s[i].first => \E m \in Messages : Begins(s, i, m)
    /\ \A i \in 1..Len(s) - 1 : s[i].last => s[i + 1].first

\* It is not cut off.
Complete(s) == s # <<>> => s[Len(s)].last

\* The bytes of a message, one by one.
LEMMA OnLineAt ==
  ASSUME NEW m \in Messages
  PROVE  /\ m.bytes \in Seq(Nat) /\ Len(m.bytes) \in Nat \ {0}
         /\ OnLine(m) \in Seq(Marked) /\ Len(OnLine(m)) = Len(m.bytes)
         /\ \A i \in 1..Len(m.bytes) :
              OnLine(m)[i] = [byte |-> m.bytes[i], bare |-> m.bare, first |-> i = 1,
                              last |-> i = Len(m.bytes), cmd |-> m.cmd]
<1>1. m.bytes \in Seq(Nat) /\ m.bytes # <<>>
  BY SppAssumption
<1>2. Len(m.bytes) \in Nat \ {0}
  BY <1>1
<1>3. Len(OnLine(m)) = Len(m.bytes)
  BY <1>2 DEF OnLine
<1> QED
  BY <1>1, <1>2, <1>3, OnLineType DEF OnLine

\* A byte of a message in s.
LEMMA InMessage ==
  ASSUME NEW s \in Seq(Marked), NEW i \in 1..Len(s), NEW m \in Messages, Begins(s, i, m),
         NEW j \in i..Len(s), j < i + Len(m.bytes)
  PROVE  /\ s[j].byte = m.bytes[j - i + 1] /\ s[j].cmd = m.cmd
         /\ s[j].bare <=> m.bare
         /\ s[j].first <=> j = i
         /\ s[j].last <=> j = i + Len(m.bytes) - 1
<1>1. PICK n \in Nat, l \in Nat : n = Len(s) /\ l = Len(m.bytes)
  BY OnLineAt
<1>2. j - i + 1 \in 1..Len(m.bytes)
  BY <1>1
<1>3. s[j] = [byte |-> m.bytes[j - i + 1], bare |-> m.bare, first |-> j - i + 1 = 1,
              last |-> j - i + 1 = Len(m.bytes), cmd |-> m.cmd]
  <2> DEFINE k == j - i + 1
  <2>1. s[j] = OnLine(m)[k]
    BY DEF Begins
  <2>2. k \in 1..Len(m.bytes)
    BY <1>2
  <2> HIDE DEF k
  <2>3. OnLine(m)[k] = [byte |-> m.bytes[k], bare |-> m.bare, first |-> k = 1,
                        last |-> k = Len(m.bytes), cmd |-> m.cmd]
    BY <2>2, OnLineAt
  <2>4. s[j] = [byte |-> m.bytes[k], bare |-> m.bare, first |-> k = 1,
                last |-> k = Len(m.bytes), cmd |-> m.cmd]
    BY <2>1, <2>3
  <2> QED
    BY <2>4 DEF k
<1>4. /\ j - i + 1 = 1 <=> j = i
      /\ j - i + 1 = Len(m.bytes) <=> j = i + Len(m.bytes) - 1
  BY <1>1
<1>5. /\ s[j].byte = m.bytes[j - i + 1] /\ s[j].cmd = m.cmd /\ s[j].bare = m.bare
      /\ s[j].first = (j - i + 1 = 1) /\ s[j].last = (j - i + 1 = Len(m.bytes))
  <2> DEFINE begin == (j - i + 1 = 1)
             end == (j - i + 1 = Len(m.bytes))
  <2>1. s[j] = [byte |-> m.bytes[j - i + 1], bare |-> m.bare, first |-> begin,
                last |-> end, cmd |-> m.cmd]
    BY <1>3
  <2> HIDE DEF begin, end
  <2>2. /\ s[j].byte = m.bytes[j - i + 1] /\ s[j].cmd = m.cmd /\ s[j].bare = m.bare
        /\ s[j].first = begin /\ s[j].last = end
    BY <2>1
  <2> QED
    BY <2>2 DEF begin, end
<1> QED
  BY <1>4, <1>5

\* Where no command ends there is nothing to tally.
LEMMA TallySkips ==
  ASSUME NEW p \in Seq(Marked), NEW e, Tally(p, e, 1),
         NEW j \in 1..Len(p) + 1, NEW i \in 1..j, \A k \in i..j - 1 : ~p[k].last
  PROVE  e[i] = e[j]
<1>1. PICK n \in Nat : n = Len(p)
  OBVIOUS
<1> DEFINE Bad == {k \in Nat : k <= j - i /\ e[j - k] # e[j]}
<1>2. Bad = {}
  <2>1. SUFFICES ASSUME Bad # {} PROVE FALSE
    OBVIOUS
  <2>2. PICK k \in Bad : \A y \in Bad : k <= y
    BY <2>1, LeastOf
  <2>3. k \in Nat /\ k <= j - i /\ e[j - k] # e[j]
    BY <2>2
  <2>4. k # 0
    BY <1>1, <2>3
  <2>5. k - 1 \in Nat /\ k - 1 <= j - i /\ k - 1 < k /\ j - (k - 1) = (j - k) + 1
    BY <1>1, <2>3, <2>4
  <2>6. k - 1 \notin Bad
    <3> HIDE DEF Bad
    <3> QED
      BY <2>2, <2>3, <2>5
  <2>7. e[(j - k) + 1] = e[j]
    BY <2>5, <2>6
  <2>8. j - k \in i..j - 1 /\ j - k \in 1..Len(p) + 1 /\ ~(j - k > Len(p))
    BY <1>1, <2>3, <2>4
  <2>9. e[j - k] = TallyAt(p, e, j - k)
    BY <2>8 DEF Tally
  <2>10. TallyAt(p, e, j - k) = e[(j - k) + 1]
    BY <2>8 DEF TallyAt
  <2> QED
    BY <2>3, <2>7, <2>9, <2>10
<1>3. j - i \in Nat /\ j - (j - i) = i /\ j - i <= j - i
  BY <1>1
<1>4. e[j - (j - i)] = e[j]
  BY <1>2, <1>3
<1> QED
  BY <1>3, <1>4

\* What comes before is of no consequence for the tally.
LEMMA TallyShifts ==
  ASSUME NEW p \in Seq(Marked), NEW q \in Seq(Marked), NEW d, NEW e,
         Tally(p \o q, e, 1), Tally(q, d, 1)
  PROVE  e[Len(p) + 1] = d[1]
<1>1. PICK a \in Nat, b \in Nat : a = Len(p) /\ b = Len(q)
  OBVIOUS
<1>2. /\ p \o q \in Seq(Marked) /\ Len(p \o q) = a + b
      /\ \A i \in 1..b : (p \o q)[a + i] = q[i]
  <2>1. /\ p \o q \in Seq(Marked) /\ Len(p \o q) = a + b
        /\ \A i \in 1..a + b : (p \o q)[i] = IF i <= a THEN p[i] ELSE q[i - a]
    BY <1>1, ConcatProperties
  <2>2. \A i \in 1..b : a + i \in 1..a + b /\ ~(a + i <= a) /\ (a + i) - a = i
    BY <1>1
  <2> QED
    BY <2>1, <2>2
<1> DEFINE Bad == {k \in Nat : k <= b /\ e[a + (b + 1 - k)] # d[b + 1 - k]}
<1>3. Bad = {}
  <2>1. SUFFICES ASSUME Bad # {} PROVE FALSE
    OBVIOUS
  <2>2. PICK k \in Bad : \A y \in Bad : k <= y
    BY <2>1, LeastOf
  <2> DEFINE i == b + 1 - k
  <2>3. k \in Nat /\ k <= b /\ e[a + i] # d[i]
    BY <2>2
  <2>4. i \in 1..b + 1 /\ a + i \in 1..(a + b) + 1 /\ (a + i > a + b <=> i > b)
    BY <1>1, <2>3
  <2>5. i <= b => e[(a + i) + 1] = d[i + 1]
    <3>1. SUFFICES ASSUME i <= b PROVE e[(a + i) + 1] = d[i + 1]
      OBVIOUS
    <3>2. /\ k - 1 \in Nat /\ k - 1 <= b /\ k - 1 < k /\ b + 1 - (k - 1) = i + 1
          /\ a + (i + 1) = (a + i) + 1
      BY <1>1, <2>3, <3>1
    <3>3. k - 1 \notin Bad
      <4> HIDE DEF Bad
      <4> QED
        BY <2>2, <2>3, <3>2
    <3> QED
      BY <3>2, <3>3
  <2>6. e[a + i] = TallyAt(p \o q, e, a + i) /\ d[i] = TallyAt(q, d, i)
    BY <1>1, <1>2, <2>4 DEF Tally
  <2> HIDE DEF i
  <2>7. i <= b => (p \o q)[a + i] = q[i]
    <3>1. i <= b => i \in 1..b
      BY <1>1, <2>4
    <3> QED
      BY <1>2, <3>1, Zenon
  <2>8. TallyAt(p \o q, e, a + i) = TallyAt(q, d, i)
    <3>1. CASE i > b
      BY <1>1, <1>2, <2>4, <3>1 DEF TallyAt
    <3>2. CASE ~(i > b)
      <4>1. /\ (p \o q)[a + i] = q[i] /\ e[(a + i) + 1] = d[i + 1]
            /\ ~(a + i > Len(p \o q)) /\ ~(i > Len(q))
        BY <1>1, <1>2, <2>4, <2>5, <2>7, <3>2
      <4> QED
        BY <4>1 DEF TallyAt
    <3> QED
      BY <3>1, <3>2
  <2> QED
    BY <2>3, <2>6, <2>8
<1>4. b \in Nat /\ b <= b /\ b + 1 - b = 1
  BY <1>1
<1>5. e[a + 1] = d[1]
  BY <1>3, <1>4
<1> QED
  BY <1>1, <1>5

\* Bytes before which no command ends complete no command.
LEMMA CompletedBehind ==
  ASSUME NEW p \in Seq(Marked), NEW q \in Seq(Marked),
         \A i \in 1..Len(p) : ~p[i].last
  PROVE  Completed(p \o q) = Completed(q)
<1>1. PICK a \in Nat, b \in Nat : a = Len(p) /\ b = Len(q)
  OBVIOUS
<1>2. /\ p \o q \in Seq(Marked) /\ Len(p \o q) = a + b
      /\ \A i \in 1..a + b : (p \o q)[i] = IF i <= a THEN p[i] ELSE q[i - a]
  BY <1>1, ConcatProperties
<1>3. PICK e : Tally(p \o q, e, 1) /\ Completed(p \o q) = e[1]
  BY <1>2, CompletedIsTally
<1>4. PICK d : Tally(q, d, 1) /\ Completed(q) = d[1]
  BY CompletedIsTally
<1>5. e[a + 1] = d[1]
  BY <1>1, <1>3, <1>4, TallyShifts
<1>6. e[1] = e[a + 1]
  <2>1. a + 1 \in 1..Len(p \o q) + 1 /\ 1 \in 1..a + 1 /\ (a + 1) - 1 = a
    BY <1>1, <1>2
  <2>2. \A k \in 1..a : ~(p \o q)[k].last
    BY <1>1, <1>2
  <2> QED
    BY <1>2, <1>3, <2>1, <2>2, TallySkips
<1> QED
  BY <1>3, <1>4, <1>5, <1>6

\* The bytes of a packet, one by one.
LEMMA DataAt ==
  ASSUME NEW s \in Seq(Marked)
  PROVE  /\ DataOf(s) \in Seq(Nat) /\ Len(DataOf(s)) = Len(s)
         /\ \A i \in 1..Len(s) : DataOf(s)[i] = s[i].byte
BY DataType DEF DataOf

\* What is dispatched for a frame is the command in it.
LEMMA FrameDispatched ==
  ASSUME NEW m \in Messages, FrameOk(m)
  PROVE  Dispatched(SubSeq(m.bytes, 5, Len(m.bytes)))
           = IF m.cmd # <<>> THEN <<m.cmd>> ELSE <<>>
<1> DEFINE p == SubSeq(m.bytes, 5, Len(m.bytes))
<1>1. PICK l \in Nat : l = Len(m.bytes) /\ l >= 4
  BY OnLineAt, Sizes DEF FrameOk
<1>2. \A i \in 5..l : m.bytes[i] \in Nat
  BY <1>1, OnLineAt
<1>3. /\ Len(p) = IF 5 <= l THEN l - 5 + 1 ELSE 0
      /\ \A i \in 1..l - 5 + 1 : p[i] = m.bytes[5 + i - 1]
  BY <1>1, <1>2, SubSeqProperties
<1> HIDE DEF p
<1>4. m.cmd = IF l >= 6 /\ m.bytes[5] = CMD THEN p ELSE <<>>
  BY <1>1, Sizes DEF FrameOk, p
<1>5. CASE l >= 6
  <2>1. Len(p) >= 2
    BY <1>1, <1>3, <1>5
  <2>2. p[1] = m.bytes[5]
    <3>1. 1 \in 1..l - 5 + 1 /\ 5 + 1 - 1 = 5
      BY <1>1, <1>5
    <3> QED
      BY <1>3, <3>1
  <2>3. p # <<>>
    BY <2>1
  <2> QED
    BY <1>4, <1>5, <2>1, <2>2, <2>3 DEF Dispatched, p
<1>6. CASE ~(l >= 6)
  <2>1. ~(Len(p) >= 2)
    BY <1>1, <1>3, <1>6
  <2> QED
    BY <1>4, <1>6, <2>1 DEF Dispatched, p
<1> QED
  BY <1>5, <1>6

\* The commands d, then those of r.
Before(d, r) == [r EXCEPT !.cmds = d \o @]

\* A round of the loop at the start of a frame: it waits for the rest, or takes
\* the whole frame and goes on behind it.
LEMMA RoundAtFrame ==
  ASSUME NEW s \in Seq(Marked), NEW i \in 1..Len(s), NEW m \in Messages, FrameOk(m),
         Begins(s, i, m), NEW g
  PROVE  ScanAt(DataOf(s), g, i) =
           IF i + Len(m.bytes) - 1 > Len(s) THEN [rest |-> i, cmds |-> <<>>]
           ELSE Before(IF m.cmd # <<>> THEN <<m.cmd>> ELSE <<>>, g[i + Len(m.bytes)])
<1> DEFINE acc == DataOf(s)
           plen == acc[i + 2] * 256 + acc[i + 3]
<1>1. PICK n \in Nat, l \in Nat : n = Len(s) /\ l = Len(m.bytes) /\ l >= 4
  BY OnLineAt, Sizes DEF FrameOk
<1>2. acc \in Seq(Nat) /\ Len(acc) = n /\ \A j \in 1..n : acc[j] = s[j].byte
  BY <1>1, DataAt
<1> HIDE DEF acc
<1>3. ASSUME NEW j \in i..n, j < i + l PROVE acc[j] = m.bytes[j - i + 1]
  <2>1. j \in 1..n
    BY <1>1
  <2>2. s[j].byte = m.bytes[j - i + 1]
    BY <1>1, <1>3, InMessage
  <2> QED
    BY <1>2, <2>1, <2>2
<1>4. CASE i + 3 > n
  <2>1. i + l - 1 > n /\ i + 4 - 1 > n
    BY <1>1, <1>4
  <2>2. ScanAt(acc, g, i) = [rest |-> i, cmds |-> <<>>]
    BY <1>2, <2>1, Sizes DEF ScanAt
  <2> QED
    BY <1>1, <2>1, <2>2 DEF acc
<1>5. CASE i + 3 <= n
  <2>1. /\ acc[i] = m.bytes[1] /\ acc[i + 1] = m.bytes[2]
        /\ acc[i + 2] = m.bytes[3] /\ acc[i + 3] = m.bytes[4]
    <3>1. /\ i \in i..n /\ i + 1 \in i..n /\ i + 2 \in i..n /\ i + 3 \in i..n
          /\ i < i + l /\ i + 1 < i + l /\ i + 2 < i + l /\ i + 3 < i + l
          /\ i - i + 1 = 1 /\ (i + 1) - i + 1 = 2 /\ (i + 2) - i + 1 = 3
          /\ (i + 3) - i + 1 = 4
      BY <1>1, <1>5
    <3>2. acc[i] = m.bytes[i - i + 1] /\ acc[i + 1] = m.bytes[(i + 1) - i + 1]
      BY <1>3, <3>1
    <3>3. acc[i + 2] = m.bytes[(i + 2) - i + 1] /\ acc[i + 3] = m.bytes[(i + 3) - i + 1]
      BY <1>3, <3>1
    <3> QED
      BY <3>1, <3>2, <3>3
  <2>2. plen = l - 4 /\ acc[i] = SYNC0 /\ acc[i + 1] = SYNC1 /\ l <= 4 + MAX_PAYLOAD
    BY <1>1, <2>1, Sizes DEF FrameOk
  <2>3. /\ ~(plen > MAX_PAYLOAD) /\ i + FRAME_HDR + plen = i + l
        /\ ~(i + FRAME_HDR - 1 > n) /\ ~(acc[i] # SYNC0 \/ acc[i + 1] # SYNC1)
    BY <1>1, <1>5, <2>2, Sizes
  <2> DEFINE wait == [rest |-> i, cmds |-> <<>>]
             take(k) == Before(Dispatched(SubSeq(acc, i + FRAME_HDR, k - 1)), g[k])
  <2> HIDE DEF wait, take
  <2>4. ScanAt(acc, g, i) = IF i + l - 1 > n THEN wait ELSE take(i + l)
    <3> DEFINE next == i + FRAME_HDR + plen
    <3>1. ScanAt(acc, g, i) =
            IF i + FRAME_HDR - 1 > n THEN [rest |-> i, cmds |-> <<>>]
            ELSE IF acc[i] # SYNC0 \/ acc[i + 1] # SYNC1 THEN g[i + 1]
            ELSE IF plen > MAX_PAYLOAD THEN g[i + 2]
            ELSE IF next - 1 > n THEN [rest |-> i, cmds |-> <<>>]
            ELSE [g[next] EXCEPT
                    !.cmds = Dispatched(SubSeq(acc, i + FRAME_HDR, next - 1)) \o @]
      BY <1>2 DEF ScanAt
    <3>2. next = i + l
      BY <2>3
    <3> HIDE DEF plen, next
    <3>3. ScanAt(acc, g, i) =
            IF i + FRAME_HDR - 1 > n THEN wait
            ELSE IF acc[i] # SYNC0 \/ acc[i + 1] # SYNC1 THEN g[i + 1]
            ELSE IF plen > MAX_PAYLOAD THEN g[i + 2]
            ELSE IF next - 1 > n THEN wait ELSE take(next)
      BY <3>1 DEF wait, take, Before
    <3>4. ScanAt(acc, g, i) = IF next - 1 > n THEN wait ELSE take(next)
      BY <2>3, <3>3
    <3> QED
      BY <3>2, <3>4
  <2>5. CASE i + l - 1 > n
    BY <1>1, <2>4, <2>5 DEF acc, wait
  <2>6. CASE ~(i + l - 1 > n)
    <3> DEFINE p == SubSeq(acc, i + 4, i + l - 1)
               q == SubSeq(m.bytes, 5, l)
    <3>1. \A j \in i + 4..i + l - 1 : acc[j] \in Nat
      <4>1. \A j \in i + 4..i + l - 1 : j \in 1..n
        BY <1>1, <2>6
      <4>2. \A j \in 1..n : acc[j] \in Nat
        BY ONLY <1>2
      <4> QED
        BY <4>1, <4>2, Zenon
    <3>2. \A j \in 5..l : m.bytes[j] \in Nat
      BY <1>1, OnLineAt
    <3>3. /\ p \in Seq(Nat)
          /\ Len(p) = IF i + 4 <= i + l - 1 THEN (i + l - 1) - (i + 4) + 1 ELSE 0
          /\ \A j \in 1..(i + l - 1) - (i + 4) + 1 : p[j] = acc[(i + 4) + j - 1]
      <4> DEFINE u == i + 4
                 v == i + l - 1
      <4>1. u \in Int /\ v \in Int
        BY <1>1
      <4>2. \A j \in u..v : acc[j] \in Nat
        BY <3>1
      <4> HIDE DEF acc, u, v
      <4>3. /\ SubSeq(acc, u, v) \in Seq(Nat)
            /\ Len(SubSeq(acc, u, v)) = IF u <= v THEN v - u + 1 ELSE 0
            /\ \A j \in 1..v - u + 1 : SubSeq(acc, u, v)[j] = acc[u + j - 1]
        BY ONLY <4>1, <4>2, SubSeqProperties
      <4> QED
        BY <4>3 DEF u, v
    <3>4. /\ q \in Seq(Nat)
          /\ Len(q) = IF 5 <= l THEN l - 5 + 1 ELSE 0
          /\ \A j \in 1..l - 5 + 1 : q[j] = m.bytes[5 + j - 1]
      BY <1>1, <3>2, SubSeqProperties
    <3> HIDE DEF p, q
    <3>5. Len(p) = l - 4 /\ Len(q) = l - 4
      BY <1>1, <3>3, <3>4
    <3>6. ASSUME NEW j \in 1..l - 4 PROVE p[j] = q[j]
      <4>1. /\ j \in 1..(i + l - 1) - (i + 4) + 1 /\ j \in 1..l - 5 + 1
            /\ (i + 4) + j - 1 \in i..n /\ (i + 4) + j - 1 < i + l
            /\ ((i + 4) + j - 1) - i + 1 = 5 + j - 1
        BY <1>1, <2>6
      <4>2. acc[(i + 4) + j - 1] = m.bytes[((i + 4) + j - 1) - i + 1]
        BY <1>3, <4>1
      <4> QED
        BY <3>3, <3>4, <4>1, <4>2
    <3>7. p = q
      BY <3>3, <3>4, <3>5, <3>6, SeqEqual
    <3>8. SubSeq(acc, i + FRAME_HDR, i + l - 1) = SubSeq(m.bytes, 5, Len(m.bytes))
      BY <1>1, <3>7, Sizes DEF p, q
    <3>9. ScanAt(acc, g, i) = take(i + l)
      BY <2>4, <2>6
    <3> DEFINE d == IF m.cmd # <<>> THEN <<m.cmd>> ELSE <<>>
    <3>10. Dispatched(SubSeq(acc, i + FRAME_HDR, i + l - 1)) = d
      BY <3>8, FrameDispatched
    <3> HIDE DEF d
    <3>11. take(i + l) = Before(d, g[i + l])
      BY <3>10 DEF take
    <3> QED
      BY <1>1, <2>6, <3>9, <3>11 DEF acc, d
  <2> QED
    BY <2>5, <2>6
<1>6. i + 3 > n \/ i + 3 <= n
  BY <1>1
<1> QED
  BY <1>4, <1>5, <1>6

\* From a place between two messages on the loop and the tally agree: the same
\* commands, and the loop ends behind the last byte of the last whole message.
Agree(s, r, t, i) ==
    /\ r.cmds = t
    /\ r.rest = i \/ s[r.rest - 1].last
    /\ \A j \in r.rest..Len(s) : ~s[j].last

\* One frame more.
LEMMA AgreeBefore ==
  ASSUME WellFormed, NEW s \in Seq(Marked), Flow(s), \A i \in 1..Len(s) : ~s[i].bare,
         NEW g, Loop(DataOf(s), g, 1), NEW e, Tally(s, e, 1),
         NEW i \in 1..Len(s), s[i].first,
         \A j \in i + 1..Len(s) + 1 :
            (j = Len(s) + 1 \/ s[j].first) => Agree(s, g[j], e[j], j)
  PROVE  Agree(s, g[i], e[i], i)
<1>1. PICK m \in Messages : Begins(s, i, m)
  BY DEF Flow
<1>2. PICK n \in Nat, l \in Nat \ {0} : n = Len(s) /\ l = Len(m.bytes)
  BY OnLineAt
<1>3. FrameOk(m)
  <2>1. i \in i..Len(s) /\ i < i + Len(m.bytes)
    BY <1>2
  <2>2. s[i].bare <=> m.bare
    BY <1>1, <2>1, InMessage
  <2> QED
    BY <2>2 DEF WellFormed
<1>4. DataOf(s) \in Seq(Nat) /\ Len(DataOf(s)) = n
  BY <1>2, DataAt
<1>5. \A j \in 1..n + 1 : Ends(DataOf(s), g[j], j)
  BY <1>4, LoopEnds
<1>6. /\ g[i] = ScanAt(DataOf(s), g, i)
      /\ \A j \in 1..n + 1 : e[j] = TallyAt(s, e, j)
  <2>1. i \in 1..Len(DataOf(s)) + 1
    BY <1>2, <1>4
  <2>2. g[i] = ScanAt(DataOf(s), g, i)
    BY <2>1 DEF Loop
  <2> QED
    BY <1>2, <2>2 DEF Tally
<1>7. \A j \in i..n : j < i + l => (s[j].last <=> j = i + l - 1) /\ s[j].cmd = m.cmd
  BY <1>1, <1>2, InMessage
<1>8. CASE i + l - 1 > n
  <2>1. g[i] = [rest |-> i, cmds |-> <<>>]
    BY <1>1, <1>2, <1>3, <1>6, <1>8, RoundAtFrame
  <2>2. \A j \in i..n : ~s[j].last
    BY <1>2, <1>7, <1>8
  <2>3. e[i] = e[n + 1]
    <3>1. n + 1 \in 1..Len(s) + 1 /\ i \in 1..n + 1 /\ \A k \in i..(n + 1) - 1 : ~s[k].last
      BY <1>2, <2>2
    <3> QED
      BY <3>1, TallySkips
  <2>4. e[n + 1] = <<>>
    <3>1. n + 1 \in 1..n + 1 /\ n + 1 > Len(s)
      BY <1>2
    <3> QED
      BY <1>6, <3>1 DEF TallyAt
  <2> QED
    BY <1>2, <2>1, <2>2, <2>3, <2>4 DEF Agree
<1>9. CASE ~(i + l - 1 > n)
  <2> DEFINE d == IF m.cmd # <<>> THEN <<m.cmd>> ELSE <<>>
  <2>1. PICK k \in i + 1..n + 1 : k = i + l
    BY <1>2, <1>9
  <2>2. g[i] = Before(d, g[k])
    BY <1>1, <1>2, <1>3, <1>6, <1>9, <2>1, RoundAtFrame
  <2>3. k - 1 \in i..n /\ s[k - 1].last /\ s[k - 1].cmd = m.cmd
        /\ \A j \in i..k - 2 : ~s[j].last
    <3>1. k - 1 \in i..n /\ k - 1 < i + l /\ k - 1 = i + l - 1
      BY <1>2, <1>9, <2>1
    <3>2. \A j \in i..k - 2 : j \in i..n /\ j < i + l /\ j # i + l - 1
      BY <1>2, <1>9, <2>1
    <3> QED
      BY <1>7, <3>1, <3>2
  <2>4. k = n + 1 \/ s[k].first
    <3>1. SUFFICES ASSUME k # n + 1 PROVE s[k].first
      OBVIOUS
    <3>2. k - 1 \in 1..n - 1 /\ (k - 1) + 1 = k
      <4>1. k \in Nat /\ k >= 2 /\ k <= n + 1
        BY <1>2, <2>1
      <4>2. k <= n
        BY <1>2, <3>1, <4>1
      <4> QED
        BY <4>1, <4>2
    <3> QED
      BY <1>2, <2>3, <3>2 DEF Flow
  <2>5. Agree(s, g[k], e[k], k)
    BY <1>2, <2>1, <2>4
  <2>6. Ends(DataOf(s), g[k], k)
    <3>1. k \in 1..n + 1
      BY <1>2, <2>1
    <3> QED
      BY <1>5, <3>1
  <2>7. d \in Seq(Seq(Nat))
    <3>1. m.cmd \in Seq(Nat)
      BY SppAssumption
    <3> QED
      BY <3>1
  <2>8. e[i] = d \o e[k]
    <3>1. e[i] = e[k - 1]
      <4>1. k - 1 \in 1..Len(s) + 1 /\ i \in 1..k - 1
            /\ \A j \in i..(k - 1) - 1 : ~s[j].last
        <5>1. (k - 1) - 1 = k - 2
          BY <2>1
        <5> QED
          BY <1>2, <2>1, <2>3, <5>1
      <4> QED
        BY <4>1, TallySkips
    <3>2. k - 1 \in 1..n + 1 /\ ~(k - 1 > Len(s)) /\ (k - 1) + 1 = k
      BY <1>2, <2>1
    <3>3. e[k - 1] = IF m.cmd # <<>> THEN <<m.cmd>> \o e[k] ELSE e[k]
      BY <1>6, <2>3, <3>2 DEF TallyAt
    <3>4. e[k] \in Seq(Seq(Nat))
      BY <2>5, <2>6 DEF Agree, Ends
    <3>5. <<>> \o e[k] = e[k]
      BY <3>4, ConcatEmptySeq
    <3> QED
      BY <3>1, <3>3, <3>5
  <2> HIDE DEF d
  <2>9. g[i].rest = g[k].rest /\ g[i].cmds = d \o g[k].cmds
    BY <2>2, <2>6 DEF Before, Ends
  <2>10. g[i].cmds = e[i]
    BY <2>5, <2>8, <2>9 DEF Agree
  <2>11. s[g[i].rest - 1].last
    BY <2>3, <2>5, <2>9 DEF Agree
  <2>12. \A j \in g[i].rest..Len(s) : ~s[j].last
    BY <2>5, <2>9 DEF Agree
  <2> QED
    BY <2>10, <2>11, <2>12 DEF Agree
<1> QED
  BY <1>8, <1>9

\* A part of a sequence of marked bytes.
LEMMA Part ==
  ASSUME NEW s \in Seq(Marked), NEW a \in Nat \ {0}, NEW b \in Nat,
         a <= b + 1, b <= Len(s)
  PROVE  /\ SubSeq(s, a, b) \in Seq(Marked) /\ Len(SubSeq(s, a, b)) = b - a + 1
         /\ \A i \in 1..b - a + 1 : SubSeq(s, a, b)[i] = s[a + i - 1]
<1>1. \A i \in a..b : s[i] \in Marked
  <2>1. \A i \in a..b : i \in 1..Len(s)
    OBVIOUS
  <2> QED
    BY <2>1
<1>2. /\ SubSeq(s, a, b) \in Seq(Marked)
      /\ Len(SubSeq(s, a, b)) = IF a <= b THEN b - a + 1 ELSE 0
      /\ \A i \in 1..b - a + 1 : SubSeq(s, a, b)[i] = s[a + i - 1]
  BY <1>1, SubSeqProperties
<1>3. (IF a <= b THEN b - a + 1 ELSE 0) = b - a + 1
  OBVIOUS
<1> QED
  BY <1>2, <1>3

\* The loop dispatches exactly the commands that are complete.
LEMMA ScanAgrees ==
  ASSUME WellFormed, NEW s \in Seq(Marked), Flow(s), \A i \in 1..Len(s) : ~s[i].bare
  PROVE  Agree(s, Scan(DataOf(s)), Completed(s), 1)
<1>1. DataOf(s) \in Seq(Nat) /\ Len(DataOf(s)) = Len(s)
  BY DataAt
<1>2. PICK g : Loop(DataOf(s), g, 1) /\ Scan(DataOf(s)) = g[1]
  BY <1>1, ScanIsLoop
<1>3. PICK e : Tally(s, e, 1) /\ Completed(s) = e[1]
  BY CompletedIsTally
<1>4. PICK n \in Nat : n = Len(s)
  OBVIOUS
<1> DEFINE Start(i) == i = n + 1 \/ s[i].first
           Bad == {k \in Nat : k <= n /\ Start(n + 1 - k)
                               /\ ~Agree(s, g[n + 1 - k], e[n + 1 - k], n + 1 - k)}
<1>5. Agree(s, g[n + 1], e[n + 1], n + 1)
  <2>1. n + 1 \in 1..Len(DataOf(s)) + 1 /\ n + 1 \in 1..Len(s) + 1
    BY <1>1, <1>4
  <2>2. g[n + 1] = ScanAt(DataOf(s), g, n + 1) /\ e[n + 1] = TallyAt(s, e, n + 1)
    BY <1>2, <1>3, <2>1 DEF Loop, Tally
  <2>3. n + 1 > Len(s) /\ (n + 1) + FRAME_HDR - 1 > Len(DataOf(s))
    BY <1>1, <1>4, Sizes
  <2>4. g[n + 1] = [rest |-> n + 1, cmds |-> <<>>] /\ e[n + 1] = <<>>
    BY <2>2, <2>3 DEF ScanAt, TallyAt
  <2>5. \A j \in n + 1..Len(s) : ~s[j].last
    BY <1>4
  <2> QED
    BY <2>4, <2>5 DEF Agree
<1>6. Bad = {}
  <2>1. SUFFICES ASSUME Bad # {} PROVE FALSE
    OBVIOUS
  <2>2. PICK k \in Bad : \A y \in Bad : k <= y
    <3>1. Bad \subseteq Nat
      OBVIOUS
    <3> HIDE DEF Bad
    <3> QED
      BY <2>1, <3>1, LeastOf
  <2>3. k \in Nat /\ k <= n /\ Start(n + 1 - k)
        /\ ~Agree(s, g[n + 1 - k], e[n + 1 - k], n + 1 - k)
    BY <2>2
  <2>4. k # 0
    BY <1>4, <1>5, <2>3
  <2>5. n + 1 - k \in 1..Len(s) /\ n + 1 - k # n + 1
    BY <1>4, <2>3, <2>4
  <2>6. s[n + 1 - k].first
    BY <2>3, <2>5
  <2>7. ASSUME NEW j \in (n + 1 - k) + 1..Len(s) + 1, j = Len(s) + 1 \/ s[j].first
        PROVE  Agree(s, g[j], e[j], j)
    <3>1. n + 1 - j \in Nat /\ n + 1 - j <= n /\ n + 1 - j < k /\ n + 1 - (n + 1 - j) = j
      BY <1>4, <2>3
    <3>2. n + 1 - j \notin Bad
      <4> HIDE DEF Bad
      <4> QED
        BY <2>2, <2>3, <3>1
    <3>3. Start(j)
      BY <1>4, <2>7
    <3> HIDE DEF Start
    <3> QED
      BY <3>1, <3>2, <3>3
  <2> QED
    BY <1>2, <1>3, <2>3, <2>5, <2>6, <2>7, AgreeBefore
<1>7. n \in Nat /\ n <= n /\ n + 1 - n = 1
  BY <1>4
<1>8. Start(1)
  <2>1. n # 0 => s # <<>>
    BY <1>4
  <2> QED
    BY <2>1 DEF Flow
<1> HIDE DEF Start
<1>9. Agree(s, g[1], e[1], 1)
  BY <1>6, <1>7, <1>8
<1> QED
  BY <1>2, <1>3, <1>9

-----------------------------------------------------------------------------
(* The line: what a peer adds to it and what RFCOMM takes off it.          *)

\* Bytes up to some place.
LEMMA FlowPrefix ==
  ASSUME NEW s \in Seq(Marked), Flow(s), NEW k \in 0..Len(s)
  PROVE  Flow(SubSeq(s, 1, k))
<1> DEFINE t == SubSeq(s, 1, k)
<1>1. PICK n \in Nat : n = Len(s)
  OBVIOUS
<1>2. t \in Seq(Marked) /\ Len(t) = k /\ \A i \in 1..k : t[i] = s[i]
  <2>1. /\ t \in Seq(Marked) /\ Len(t) = k - 1 + 1
        /\ \A i \in 1..k - 1 + 1 : t[i] = s[1 + i - 1]
    <3>1. k \in Nat /\ 1 <= k + 1 /\ k <= Len(s) /\ 1 \in Nat \ {0}
      BY <1>1
    <3> QED
      BY <3>1, Part
  <2>2. k - 1 + 1 = k /\ \A i \in 1..k : 1 + i - 1 = i
    BY <1>1
  <2> QED
    BY <2>1, <2>2
<1> HIDE DEF t
<1>3. t # <<>> => t[1].first
  <2>1. SUFFICES ASSUME t # <<>> PROVE t[1].first
    OBVIOUS
  <2>2. k # 0
    BY <1>2, <2>1
  <2>3. 1 \in 1..k /\ n # 0
    BY <1>1, <2>2
  <2>4. s # <<>>
    BY <1>1, <2>3
  <2> QED
    BY <1>2, <2>3, <2>4 DEF Flow
<1>4. ASSUME NEW i \in 1..Len(t), t[i].first
      PROVE  \E m \in Messages : Begins(t, i, m)
  <2>1. i \in 1..Len(s) /\ i \in 1..k
    BY <1>1, <1>2
  <2>2. PICK m \in Messages : Begins(s, i, m)
    BY <1>2, <1>4, <2>1 DEF Flow
  <2>3. ASSUME NEW j \in i..Len(t) PROVE j \in i..Len(s) /\ j \in 1..k
    BY <1>1, <1>2, <2>1
  <2>4. Begins(t, i, m)
    BY <1>2, <2>2, <2>3 DEF Begins
  <2> QED
    BY <2>4
<1>5. ASSUME NEW i \in 1..Len(t) - 1, t[i].last
      PROVE  t[i + 1].first
  <2>1. i \in 1..Len(s) - 1 /\ i \in 1..k /\ i + 1 \in 1..k
    BY <1>1, <1>2
  <2> QED
    BY <1>2, <1>5, <2>1 DEF Flow
<1>6. Flow(t)
  BY <1>3, <1>4, <1>5 DEF Flow
<1> QED
  BY <1>6 DEF t

\* Bytes from a place between two messages on.
LEMMA FlowDrop ==
  ASSUME NEW s \in Seq(Marked), Flow(s), Complete(s), NEW k \in 0..Len(s),
         k = 0 \/ s[k].last
  PROVE  Flow(SubSeq(s, k + 1, Len(s))) /\ Complete(SubSeq(s, k + 1, Len(s)))
<1> DEFINE t == SubSeq(s, k + 1, Len(s))
<1>1. PICK n \in Nat : n = Len(s)
  OBVIOUS
<1>2. t \in Seq(Marked) /\ Len(t) = n - k /\ \A i \in 1..n - k : t[i] = s[k + i]
  <2>1. /\ t \in Seq(Marked) /\ Len(t) = n - (k + 1) + 1
        /\ \A i \in 1..n - (k + 1) + 1 : t[i] = s[(k + 1) + i - 1]
    <3>1. k + 1 \in Nat \ {0} /\ k + 1 <= n + 1 /\ n <= Len(s)
      BY <1>1
    <3> QED
      BY <1>1, <3>1, Part
  <2>2. n - (k + 1) + 1 = n - k /\ \A i \in 1..n - k : (k + 1) + i - 1 = k + i
    BY <1>1
  <2> QED
    BY <2>1, <2>2
<1> HIDE DEF t
<1>3. t # <<>> => t[1].first /\ t[Len(t)].last
  <2>1. SUFFICES ASSUME t # <<>> PROVE t[1].first /\ t[Len(t)].last
    OBVIOUS
  <2>2. n - k # 0
    BY <1>2, <2>1
  <2>3. 1 \in 1..n - k /\ n - k \in 1..n - k /\ k + (n - k) = n /\ n # 0
    BY <1>1, <2>2
  <2>4. s # <<>>
    BY <1>1, <2>3
  <2>5. s[k + 1].first
    <3>1. CASE k = 0
      BY <2>4, <3>1 DEF Flow
    <3>2. CASE k # 0
      <4>1. k \in 1..n - 1
        BY <1>1, <2>2, <3>2
      <4> QED
        BY <1>1, <3>2, <4>1 DEF Flow
    <3> QED
      BY <3>1, <3>2
  <2>6. s[n].last
    BY <1>1, <2>4 DEF Complete
  <2> QED
    BY <1>2, <2>3, <2>5, <2>6
<1>4. ASSUME NEW i \in 1..Len(t), t[i].first
      PROVE  \E m \in Messages : Begins(t, i, m)
  <2>1. k + i \in 1..Len(s) /\ i \in 1..n - k
    BY <1>1, <1>2
  <2>2. PICK m \in Messages : Begins(s, k + i, m)
    BY <1>2, <1>4, <2>1 DEF Flow
  <2>3. Len(m.bytes) \in Nat
    BY OnLineAt
  <2>4. ASSUME NEW j \in i..Len(t), j < i + Len(m.bytes)
        PROVE  t[j] = OnLine(m)[j - i + 1]
    <3>1. /\ j \in 1..n - k /\ k + j \in k + i..Len(s)
          /\ k + j < (k + i) + Len(m.bytes) /\ (k + j) - (k + i) + 1 = j - i + 1
      <4>1. k \in Nat /\ i \in Nat \ {0} /\ j \in i..n - k
        BY <1>1, <1>2, <2>1
      <4>2. j \in Nat \ {0} /\ i <= j /\ j <= n - k
        BY <1>1, <4>1
      <4>3. j \in 1..n - k /\ k + j \in k + i..Len(s)
        BY <1>1, <4>1, <4>2
      <4>4. k + j < (k + i) + Len(m.bytes)
        <5>1. PICK l \in Nat : l = Len(m.bytes)
          BY <2>3
        <5>2. j < i + l
          BY <2>4, <5>1
        <5>3. k + j < (k + i) + l
          BY <4>1, <4>2, <5>2
        <5> QED
          BY <5>1, <5>3
      <4>5. (k + j) - (k + i) + 1 = j - i + 1
        BY <4>1, <4>2
      <4> QED
        BY <4>3, <4>4, <4>5
    <3>2. s[k + j] = OnLine(m)[(k + j) - (k + i) + 1]
      BY <2>2, <3>1 DEF Begins
    <3> QED
      BY <1>2, <3>1, <3>2
  <2>5. Begins(t, i, m)
    BY <2>4 DEF Begins
  <2> QED
    BY <2>5
<1>5. ASSUME NEW i \in 1..Len(t) - 1, t[i].last
      PROVE  t[i + 1].first
  <2>1. /\ k + i \in 1..Len(s) - 1 /\ i \in 1..n - k /\ i + 1 \in 1..n - k
        /\ k + (i + 1) = (k + i) + 1
    BY <1>1, <1>2
  <2>2. t[i] = s[k + i] /\ t[i + 1] = s[(k + i) + 1]
    BY <1>2, <2>1
  <2>3. s[(k + i) + 1].first
    BY <1>5, <2>1, <2>2 DEF Flow
  <2> QED
    BY <2>2, <2>3
<1>6. Flow(t) /\ Complete(t)
  BY <1>3, <1>4, <1>5 DEF Flow, Complete
<1> QED
  BY <1>6 DEF t

\* Whole messages and one more.
LEMMA FlowAppend ==
  ASSUME NEW s \in Seq(Marked), Flow(s), Complete(s), NEW m \in Messages
  PROVE  Flow(s \o OnLine(m)) /\ Complete(s \o OnLine(m))
<1> DEFINE t == s \o OnLine(m)
<1>1. PICK a \in Nat, l \in Nat \ {0} : a = Len(s) /\ l = Len(m.bytes) /\ l = Len(OnLine(m))
  BY OnLineAt
<1>2. /\ t \in Seq(Marked) /\ Len(t) = a + l
      /\ \A i \in 1..a : t[i] = s[i]
      /\ \A i \in a + 1..a + l : t[i] = OnLine(m)[i - a]
  <2>1. /\ t \in Seq(Marked) /\ Len(t) = a + l
        /\ \A i \in 1..a + l : t[i] = IF i <= a THEN s[i] ELSE OnLine(m)[i - a]
    BY <1>1, OnLineAt, ConcatProperties
  <2>2. \A i \in 1..a : i \in 1..a + l /\ i <= a
    BY <1>1
  <2>3. \A i \in a + 1..a + l : i \in 1..a + l /\ ~(i <= a)
    BY <1>1
  <2> QED
    BY <2>1, <2>2, <2>3
<1> HIDE DEF t
<1>3. Begins(t, a + 1, m)
  <2>1. ASSUME NEW j \in a + 1..Len(t) PROVE t[j] = OnLine(m)[j - (a + 1) + 1]
    <3>1. j \in a + 1..a + l /\ j - (a + 1) + 1 = j - a
      BY <1>1, <1>2
    <3> QED
      BY <1>2, <3>1
  <2> QED
    BY <2>1 DEF Begins
<1>4. ASSUME NEW j \in a + 1..a + l
      PROVE  (t[j].first <=> j = a + 1) /\ (t[j].last <=> j = a + l)
  <2>1. /\ a + 1 \in 1..Len(t) /\ j \in a + 1..Len(t) /\ j < (a + 1) + Len(m.bytes)
        /\ (a + 1) + Len(m.bytes) - 1 = a + l
    BY <1>1, <1>2
  <2>2. PICK i \in 1..Len(t) : i = a + 1
    BY <2>1
  <2>3. Begins(t, i, m) /\ j \in i..Len(t) /\ j < i + Len(m.bytes)
    BY <1>3, <2>1, <2>2
  <2>4. t \in Seq(Marked)
    BY <1>2
  <2>5. t[j].first <=> j = i
    BY <2>3, <2>4, InMessage
  <2>6. t[j].last <=> j = i + Len(m.bytes) - 1
    BY <2>3, <2>4, InMessage
  <2> QED
    BY <2>1, <2>2, <2>5, <2>6
<1>5. t # <<>> => t[1].first /\ t[Len(t)].last
  <2>1. t[a + l].last
    <3>1. a + l \in a + 1..a + l
      BY <1>1
    <3> QED
      BY <1>4, <3>1
  <2>2. t[1].first
    <3>1. CASE a = 0
      <4>1. 1 \in a + 1..a + l /\ 1 = a + 1
        BY <1>1, <3>1
      <4> QED
        BY <1>4, <4>1
    <3>2. CASE a # 0
      <4>1. 1 \in 1..a
        BY <1>1, <3>2
      <4>2. s # <<>>
        BY <1>1, <3>2
      <4> QED
        BY <1>2, <4>1, <4>2 DEF Flow
    <3> QED
      BY <3>1, <3>2
  <2> QED
    BY <1>2, <2>1, <2>2
<1>6. ASSUME NEW i \in 1..Len(t), t[i].first
      PROVE  \E x \in Messages : Begins(t, i, x)
  <2>1. CASE i <= a
    <3>1. i \in 1..Len(s) /\ i \in 1..a
      BY <1>1, <1>2, <2>1
    <3>2. PICK x \in Messages : Begins(s, i, x)
      BY <1>2, <1>6, <3>1 DEF Flow
    <3>3. PICK y \in Nat \ {0} : y = Len(x.bytes)
      BY OnLineAt
    <3>4. i + y - 1 <= a
      <4>1. SUFFICES ASSUME ~(i + y - 1 <= a) PROVE FALSE
        OBVIOUS
      <4>2. a \in i..Len(s) /\ a < i + Len(x.bytes) /\ a # i + Len(x.bytes) - 1
        BY <1>1, <3>1, <3>3, <4>1
      <4>3. ~s[a].last
        BY <3>1, <3>2, <4>2, InMessage
      <4>4. s # <<>>
        BY <3>1
      <4> QED
        BY <1>1, <4>3, <4>4 DEF Complete
    <3>5. ASSUME NEW j \in i..Len(t), j < i + Len(x.bytes)
          PROVE  t[j] = OnLine(x)[j - i + 1]
      <4>1. j \in i..Len(s) /\ j \in 1..a
        BY <1>1, <1>2, <3>1, <3>3, <3>4, <3>5
      <4> QED
        BY <1>2, <3>2, <3>5, <4>1 DEF Begins
    <3>6. Begins(t, i, x)
      BY <3>5 DEF Begins
    <3> QED
      BY <3>6
  <2>2. CASE ~(i <= a)
    <3>1. i \in a + 1..a + l
      BY <1>1, <1>2, <2>2
    <3>2. i = a + 1
      BY <1>4, <1>6, <3>1
    <3> QED
      BY <1>3, <3>2
  <2> QED
    BY <2>1, <2>2
<1>7. ASSUME NEW i \in 1..Len(t) - 1, t[i].last
      PROVE  t[i + 1].first
  <2>1. i \in Nat /\ i >= 1 /\ i < a + l
    BY <1>1, <1>2
  <2>2. CASE i < a
    <3>1. i \in 1..Len(s) - 1 /\ i \in 1..a /\ i + 1 \in 1..a
      BY <1>1, <2>1, <2>2
    <3> QED
      BY <1>2, <1>7, <3>1 DEF Flow
  <2>3. CASE i = a
    <3>1. a + 1 \in a + 1..a + l
      BY <1>1
    <3> QED
      BY <1>4, <2>3, <3>1
  <2>4. CASE i > a
    <3>1. i \in a + 1..a + l /\ i # a + l
      BY <1>1, <2>1, <2>4
    <3> QED
      BY <1>4, <1>7, <3>1
  <2> QED
    BY <1>1, <2>1, <2>2, <2>3, <2>4
<1>8. Flow(t) /\ Complete(t)
  BY <1>5, <1>6, <1>7 DEF Flow, Complete
<1> QED
  BY <1>8 DEF t

-----------------------------------------------------------------------------
(* The books.                                                              *)

\* What the accumulator holds of this connection.
Held == IF owner = session THEN rx_acc ELSE <<>>

\* s is what the peer has sent since its last whole message, and the bridge has the
\* first a bytes of it.
Pending(s, a) ==
    /\ line = SubSeq(s, a + 1, Len(s))
    /\ Held = DataOf(SubSeq(s, 1, a))
    /\ \A i \in 1..a : ~s[i].last /\ ~s[i].bare
    /\ Flow(s) /\ Complete(s)

Underway == \E s \in Seq(Marked) : \E a \in 0..Len(s) : Pending(s, a)

\* The strengthening of CommandsOnceInOrder that every step keeps: as long as nothing
\* is misread, what the accumulator holds of this connection is the start of one
\* frame, and the line goes on with the rest of it.
BookInv ==
    /\ ~link => line = <<>>
    /\ mixed = {} /\ ~Overrun => out = whole /\ (registered /\ link => Underway)

\* No bytes are whole messages.
LEMMA EmptyFlow ==
  /\ <<>> \in Seq(Marked) /\ Len(<<>>) = 0
  /\ Flow(<<>>) /\ Complete(<<>>)
  /\ DataOf(<<>>) = <<>>
  /\ \A a, b \in Nat : b < a => SubSeq(<<>>, a, b) = <<>>
<1>1. <<>> \in Seq(Marked) /\ Len(<<>>) = 0
  OBVIOUS
<1>2. Flow(<<>>) /\ Complete(<<>>)
  <2>1. 1..Len(<<>>) = {} /\ 1..Len(<<>>) - 1 = {}
    BY <1>1
  <2> QED
    BY <2>1 DEF Flow, Complete
<1>3. DataOf(<<>>) = <<>>
  <2>1. DataOf(<<>>) \in Seq(Nat) /\ Len(DataOf(<<>>)) = 0
    BY <1>1, DataAt
  <2> QED
    BY <2>1, EmptySeq
<1> QED
  BY <1>1, <1>2, <1>3, SubSeqEmpty

\* Nothing is under way.
LEMMA NothingPendingNext ==
  ASSUME line' = <<>>, Held' = <<>>
  PROVE  Underway'
<1>1. 0 \in 0..Len(<<>>) /\ 0 + 1 = 1 /\ 1..0 = {}
  BY EmptyFlow
<1>2. SubSeq(<<>>, 1, 0) = <<>> /\ SubSeq(<<>>, 1, Len(<<>>)) = <<>>
  BY EmptyFlow
<1>3. Pending(<<>>, 0)'
  BY <1>1, <1>2, EmptyFlow DEF Pending
<1> QED
  BY <1>1, <1>3, EmptyFlow DEF Underway

\* The bytes of a part are a part of the bytes.
LEMMA DataOfPart ==
  ASSUME NEW s \in Seq(Marked), NEW a \in Nat \ {0}, NEW b \in Nat, a <= b + 1, b <= Len(s)
  PROVE  DataOf(SubSeq(s, a, b)) = SubSeq(DataOf(s), a, b)
<1> DEFINE p == SubSeq(s, a, b)
           q == SubSeq(DataOf(s), a, b)
<1>1. PICK n \in Nat : n = Len(s)
  OBVIOUS
<1>2. DataOf(s) \in Seq(Nat) /\ Len(DataOf(s)) = n /\ \A i \in 1..n : DataOf(s)[i] = s[i].byte
  BY <1>1, DataAt
<1>3. /\ p \in Seq(Marked) /\ Len(p) = b - a + 1
      /\ \A i \in 1..b - a + 1 : p[i] = s[a + i - 1]
  BY Part
<1>4. \A i \in a..b : DataOf(s)[i] \in Nat
  <2>1. \A i \in a..b : i \in 1..n
    BY <1>1
  <2>2. \A i \in 1..n : DataOf(s)[i] \in Nat
    BY <1>2
  <2> QED
    BY <2>1, <2>2
<1>5. /\ q \in Seq(Nat) /\ Len(q) = IF a <= b THEN b - a + 1 ELSE 0
      /\ \A i \in 1..b - a + 1 : q[i] = DataOf(s)[a + i - 1]
  BY <1>4, SubSeqProperties
<1>6. Len(q) = b - a + 1
  BY <1>5
<1> HIDE DEF p, q
<1>7. /\ DataOf(p) \in Seq(Nat) /\ Len(DataOf(p)) = b - a + 1
      /\ \A i \in 1..b - a + 1 : DataOf(p)[i] = p[i].byte
  BY <1>3, DataAt
<1>8. ASSUME NEW i \in 1..b - a + 1 PROVE DataOf(p)[i] = q[i]
  <2>1. a + i - 1 \in 1..n
    BY <1>1
  <2> QED
    BY <1>2, <1>3, <1>5, <1>7, <2>1
<1>9. DataOf(p) = q
  BY <1>5, <1>6, <1>7, <1>8, SeqEqual
<1> QED
  BY <1>9 DEF p, q

\* What the loop leaves is what it did not go over: the overflow branch of
\* spp_process_accumulator is never taken.
LEMMA KeptIsTail ==
  ASSUME NEW acc \in Seq(Nat), NEW i \in Nat, 1 <= i, i <= Len(acc) + 1,
         Len(acc) + 1 - i < FRAME_HDR + MAX_PAYLOAD
  PROVE  Kept(acc, i) = SubSeq(acc, i, Len(acc))
<1>1. PICK n \in Nat : n = Len(acc)
  OBVIOUS
<1>2. CASE 1 < i /\ i <= n
  BY <1>1, <1>2 DEF Kept
<1>3. CASE i = n + 1
  <2>1. ~(1 < i /\ i <= n) /\ i > n /\ n < i /\ n \in Int /\ i \in Int
    BY <1>1, <1>3
  <2>2. Kept(acc, i) = <<>>
    BY <1>1, <2>1 DEF Kept
  <2>3. SubSeq(acc, i, n) = <<>>
    BY <2>1, SubSeqEmpty
  <2> QED
    BY <1>1, <2>2, <2>3
<1>4. CASE i = 1 /\ i <= n
  <2>1. ~(1 < i /\ i <= n) /\ ~(i > n \/ n >= ACC_CAP)
    BY <1>1, <1>4, Sizes
  <2>2. Kept(acc, i) = acc
    BY <1>1, <2>1 DEF Kept
  <2>3. SubSeq(acc, 1, Len(acc)) = acc
    BY SubSeqFull
  <2> QED
    BY <1>4, <2>2, <2>3
<1>5. (1 < i /\ i <= n) \/ i = n + 1 \/ (i = 1 /\ i <= n)
  BY <1>1
<1> QED
  BY <1>2, <1>3, <1>4, <1>5

\* A part of what follows.
LEMMA PartOfRest ==
  ASSUME NEW s \in Seq(Marked), NEW r \in Nat \ {0}, r <= Len(s) + 1,
         NEW x \in Nat \ {0}, NEW y \in Nat, x <= y + 1, r + y - 1 <= Len(s),
         NEW v \in Nat \ {0}, v = r + x - 1, NEW w \in Nat, w = r + y - 1
  PROVE  SubSeq(SubSeq(s, r, Len(s)), x, y) = SubSeq(s, v, w)
<1> DEFINE t == SubSeq(s, r, Len(s))
           p == SubSeq(t, x, y)
           q == SubSeq(s, v, w)
<1>1. PICK n \in Nat : n = Len(s)
  OBVIOUS
<1>2. t \in Seq(Marked) /\ Len(t) = n - r + 1 /\ \A i \in 1..n - r + 1 : t[i] = s[r + i - 1]
  BY <1>1, Part
<1> HIDE DEF t
<1>3. /\ p \in Seq(Marked) /\ Len(p) = y - x + 1
      /\ \A i \in 1..y - x + 1 : p[i] = t[x + i - 1]
  <2>1. y <= Len(t)
    BY <1>1, <1>2
  <2> QED
    BY <1>2, <2>1, Part
<1>4. /\ q \in Seq(Marked) /\ Len(q) = w - v + 1
      /\ \A i \in 1..w - v + 1 : q[i] = s[v + i - 1]
  <2>1. v <= w + 1 /\ w <= Len(s)
    BY <1>1
  <2> QED
    BY <2>1, Part
<1> HIDE DEF p, q
<1>5. w - v + 1 = y - x + 1
  OBVIOUS
<1>6. ASSUME NEW i \in 1..y - x + 1 PROVE p[i] = q[i]
  <2>1. x + i - 1 \in 1..n - r + 1 /\ r + (x + i - 1) - 1 = v + i - 1 /\ i \in 1..w - v + 1
    BY <1>1
  <2>2. p[i] = t[x + i - 1] /\ q[i] = s[v + i - 1]
    BY <1>3, <1>4, <2>1
  <2>3. t[x + i - 1] = s[r + (x + i - 1) - 1]
    BY <1>2, <2>1
  <2> QED
    BY <2>1, <2>2, <2>3
<1>7. p = q
  BY <1>3, <1>4, <1>5, <1>6, SeqEqual
<1> QED
  BY <1>7 DEF p, q, t

\* RFCOMM is about to deliver n bytes.
Ready(s, a, n) ==
    /\ s \in Seq(Marked) /\ a \in 0..Len(s) /\ Pending(s, a)
    /\ n \in 1..Len(line)

PacketAt(n) == SubSeq(line, 1, n)

LineAfter(n) == SubSeq(line, n + 1, Len(line))

\* The packet, and what stays on the line.
LEMMA PacketOf ==
  ASSUME NEW s, NEW a, NEW n, Ready(s, a, n)
  PROVE  /\ s \in Seq(Marked) /\ a \in Nat /\ a \in 0..Len(s) /\ n \in Nat \ {0}
         /\ a + n \in 1..Len(s)
         /\ PacketAt(n) = SubSeq(s, a + 1, a + n)
         /\ LineAfter(n) = SubSeq(s, a + n + 1, Len(s))
<1> DEFINE t == line
<1> USE DEF Ready
<1>1. PICK k \in Nat : k = Len(s)
  OBVIOUS
<1>2. t = SubSeq(s, a + 1, Len(s))
  BY DEF Pending
<1>3. a + 1 \in Nat \ {0} /\ a + 1 <= k + 1 /\ k - (a + 1) + 1 = k - a /\ a \in Nat
  BY <1>1
<1>4. Len(t) = k - a
  BY <1>1, <1>2, <1>3, Part
<1>5. n \in Nat \ {0} /\ a + n \in 1..k /\ n <= k - a /\ k - a \in Nat
  BY <1>1, <1>3, <1>4
<1> HIDE DEF t
<1>6. SubSeq(t, 1, n) = SubSeq(s, a + 1, a + n)
  <2>1. /\ 1 \in Nat \ {0} /\ 1 <= n + 1 /\ (a + 1) + n - 1 <= Len(s) /\ a + n \in Nat
        /\ a + 1 = (a + 1) + 1 - 1 /\ a + n = (a + 1) + n - 1 /\ n \in Nat
    BY <1>1, <1>3, <1>5
  <2> QED
    BY <1>1, <1>2, <1>3, <2>1, PartOfRest
<1>7. SubSeq(t, n + 1, k - a) = SubSeq(s, a + n + 1, k)
  <2>1. /\ n + 1 \in Nat \ {0} /\ n + 1 <= (k - a) + 1 /\ (a + 1) + (k - a) - 1 <= Len(s)
        /\ a + n + 1 \in Nat \ {0} /\ a + n + 1 = (a + 1) + (n + 1) - 1
        /\ k = (a + 1) + (k - a) - 1
    BY <1>1, <1>3, <1>5
  <2> QED
    BY <1>1, <1>2, <1>3, <1>5, <2>1, PartOfRest
<1> QED
  BY <1>1, <1>3, <1>4, <1>5, <1>6, <1>7 DEF t, PacketAt, LineAfter

\* Between two messages only: no frame can be under way when the
\* first byte of a message is next.
LEMMA FirstIsNext ==
  ASSUME NEW s \in Seq(Marked), NEW a \in 0..Len(s), Pending(s, a),
         a + 1 <= Len(s), s[a + 1].first
  PROVE  a = 0
<1>1. SUFFICES ASSUME a # 0 PROVE FALSE
  OBVIOUS
<1>2. PICK n \in Nat : n = Len(s)
  OBVIOUS
<1>3. s # <<>> /\ 1 \in 1..n /\ a \in Nat /\ a >= 1 /\ a + 1 <= n
  BY <1>1, <1>2
<1>4. PICK m \in Messages : Begins(s, 1, m)
  BY <1>2, <1>3 DEF Pending, Flow
<1>5. PICK l \in Nat \ {0} : l = Len(m.bytes)
  BY OnLineAt
<1>6. CASE l <= a
  <2>1. l \in 1..Len(s) /\ l < 1 + Len(m.bytes) /\ l = 1 + Len(m.bytes) - 1 /\ l \in 1..a
    BY <1>2, <1>3, <1>5, <1>6
  <2>2. s[l].last
    BY <1>2, <1>3, <1>4, <2>1, InMessage
  <2> QED
    BY <2>1, <2>2 DEF Pending
<1>7. CASE ~(l <= a)
  <2>1. a + 1 \in 1..Len(s) /\ a + 1 < 1 + Len(m.bytes) /\ a + 1 # 1
    BY <1>2, <1>3, <1>5, <1>7
  <2>2. ~s[a + 1].first
    BY <1>2, <1>3, <1>4, <2>1, InMessage
  <2> QED
    BY <2>2
<1> QED
  BY <1>6, <1>7

\* A bare command in a packet of its own: it is all there is, and
\* what is dispatched is that command.
LEMMA BareTaken ==
  ASSUME WellFormed, NEW s, NEW a, NEW n, Ready(s, a, n),
         WholeBare(PacketAt(n))
  PROVE  a = 0 /\ s[n].last /\ Completed(PacketAt(n)) = <<DataOf(PacketAt(n))>>
<1> DEFINE p == PacketAt(n)
<1>0. s \in Seq(Marked) /\ a \in 0..Len(s) /\ Pending(s, a)
  BY DEF Ready
<1>1. PICK k \in Nat : k = Len(s)
  BY <1>0
<1>2. n \in Nat \ {0} /\ a + n \in 1..k /\ p = SubSeq(s, a + 1, a + n) /\ a \in Nat
  BY <1>1, PacketOf
<1>3. WholeBare(p)
  OBVIOUS
<1> HIDE DEF p
<1>4. p \in Seq(Marked) /\ Len(p) = n /\ \A i \in 1..n : p[i] = s[a + i]
  <2>1. /\ a + 1 \in Nat \ {0} /\ a + n \in Nat /\ a + 1 <= (a + n) + 1 /\ a + n <= Len(s)
        /\ (a + n) - (a + 1) + 1 = n /\ \A i \in 1..n : (a + 1) + i - 1 = a + i
    BY <1>1, <1>2
  <2>2. /\ p \in Seq(Marked) /\ Len(p) = n
        /\ \A i \in 1..n : p[i] = s[(a + 1) + i - 1]
    BY <1>0, <1>2, <2>1, Part
  <2> QED
    BY <2>1, <2>2
<1>5. 1 \in 1..n /\ n \in 1..n /\ a + 1 <= Len(s)
  BY <1>1, <1>2
<1>6. s[a + 1].first /\ s[a + 1].bare
  BY <1>3, <1>4, <1>5 DEF WholeBare
<1>7. a = 0
  BY <1>0, <1>5, <1>6, FirstIsNext
<1>8. \A i \in 1..n : p[i] = s[i]
  <2>1. \A i \in 1..n : a + i = i
    BY <1>7
  <2> QED
    BY <1>4, <2>1
<1>9. s[n].last /\ \A i \in 1..n - 1 : ~p[i].last
  BY <1>3, <1>4, <1>5, <1>8 DEF WholeBare
<1>10. PICK m \in Messages : Begins(s, 1, m)
  <2>1. 1 \in 1..Len(s) /\ s[1].first
    BY <1>1, <1>2, <1>6, <1>7
  <2> QED
    BY <1>0, <2>1 DEF Pending, Flow
<1>11. PICK l \in Nat \ {0} : l = Len(m.bytes)
  BY OnLineAt
<1>12. l = n
  <2>1. 1 \in 1..Len(s) /\ n \in 1..Len(s)
    BY <1>1, <1>2, <1>7
  <2>2. CASE n < l
    <3>1. n < 1 + Len(m.bytes) /\ n # 1 + Len(m.bytes) - 1
      BY <1>2, <1>11, <2>2
    <3>2. ~s[n].last
      BY <1>0, <1>10, <2>1, <3>1, InMessage
    <3> QED
      BY <1>9, <3>2
  <2>3. CASE l < n
    <3>1. l \in 1..Len(s) /\ l < 1 + Len(m.bytes) /\ l = 1 + Len(m.bytes) - 1
          /\ l \in 1..n - 1 /\ l \in 1..n
      BY <1>1, <1>2, <1>11, <2>1, <2>3
    <3>2. s[l].last
      BY <1>0, <1>10, <2>1, <3>1, InMessage
    <3> QED
      BY <1>8, <1>9, <3>1, <3>2
  <2> QED
    BY <1>2, <1>11, <2>2, <2>3
<1>13. \A i \in 1..n : s[i].byte = m.bytes[i] /\ s[i].cmd = m.cmd /\ (s[i].bare <=> m.bare)
  <2>1. 1 \in 1..Len(s)
    BY <1>1, <1>2, <1>7
  <2>2. ASSUME NEW i \in 1..n
        PROVE  s[i].byte = m.bytes[i] /\ s[i].cmd = m.cmd /\ (s[i].bare <=> m.bare)
    <3>1. i \in 1..Len(s) /\ i < 1 + Len(m.bytes) /\ i - 1 + 1 = i
      BY <1>1, <1>2, <1>7, <1>11, <1>12
    <3>2. s[i].byte = m.bytes[i - 1 + 1] /\ s[i].cmd = m.cmd
      BY <1>0, <1>10, <2>1, <3>1, InMessage
    <3>3. s[i].bare <=> m.bare
      BY <1>0, <1>10, <2>1, <3>1, InMessage
    <3> QED
      BY <3>1, <3>2, <3>3
  <2> QED
    BY <2>2
<1>14. m.cmd = m.bytes /\ m.bytes # <<>> /\ m.bytes \in Seq(Nat)
  <2>1. m.bare
    BY <1>5, <1>6, <1>7, <1>13
  <2> QED
    BY <2>1, SppAssumption DEF WellFormed, FrameOk
<1>15. DataOf(p) = m.bytes
  <2>1. /\ DataOf(p) \in Seq(Nat) /\ Len(DataOf(p)) = n
        /\ \A i \in 1..n : DataOf(p)[i] = p[i].byte
    BY <1>4, DataAt
  <2>2. \A i \in 1..n : DataOf(p)[i] = m.bytes[i]
    BY <1>8, <1>13, <2>1
  <2> QED
    BY <1>11, <1>12, <1>14, <2>1, <2>2, SeqEqual
<1>16. Completed(p) = <<m.cmd>>
  <2>1. PICK e : Tally(p, e, 1) /\ Completed(p) = e[1]
    BY <1>4, CompletedIsTally
  <2>2. e[1] = e[n]
    <3>1. n \in 1..Len(p) + 1 /\ 1 \in 1..n
      BY <1>2, <1>4
    <3> QED
      BY <1>4, <1>9, <2>1, <3>1, TallySkips
  <2>3. /\ n \in 1..Len(p) + 1 /\ n + 1 \in 1..Len(p) + 1
        /\ ~(n > Len(p)) /\ n + 1 > Len(p)
    BY <1>2, <1>4
  <2>4. e[n] = TallyAt(p, e, n) /\ e[n + 1] = TallyAt(p, e, n + 1)
    BY <2>1, <2>3 DEF Tally
  <2>5. p[n].last /\ p[n].cmd = m.cmd /\ m.cmd # <<>>
    BY <1>5, <1>8, <1>9, <1>13, <1>14
  <2>6. e[n + 1] = <<>> /\ e[n] = <<m.cmd>> \o e[n + 1]
    BY <2>3, <2>4, <2>5 DEF TallyAt
  <2>7. <<m.cmd>> \o <<>> = <<m.cmd>>
    <3>1. <<m.cmd>> \in Seq(Seq(Nat))
      BY <1>14
    <3> QED
      BY <3>1, ConcatEmptySeq
  <2> QED
    BY <2>1, <2>2, <2>6, <2>7
<1> QED
  BY <1>7, <1>9, <1>14, <1>15, <1>16 DEF p

\* The packet is of frames only, and can join what is in the accumulator.
Joins(packet) ==
    /\ \A i \in 1..Len(packet) : ~packet[i].bare
    /\ rx_acc = <<>> \/ (owner = session /\ ~Flushes(DataOf(packet)))

\* What the accumulator holds and the packet, one behind the other.
LEMMA FedIsPrefix ==
  ASSUME NEW s, NEW a, NEW n, Ready(s, a, n), rx_acc \in Seq(Nat),
         Joins(PacketAt(n))
  PROVE  Fed(DataOf(PacketAt(n))) = DataOf(SubSeq(s, 1, a + n))
<1> DEFINE p == SubSeq(s, 1, a)
           q == SubSeq(s, a + 1, a + n)
           t == SubSeq(s, 1, a + n)
<1>0. s \in Seq(Marked) /\ Pending(s, a)
  BY DEF Ready
<1>1. PICK k \in Nat : k = Len(s)
  BY <1>0
<1>2. n \in Nat \ {0} /\ a + n \in 1..Len(s) /\ PacketAt(n) = q /\ a \in Nat
  BY PacketOf
<1>3. a \in Nat /\ a + n \in Nat /\ a + n <= k
  BY <1>1, <1>2
<1>4. p \in Seq(Marked) /\ q \in Seq(Marked) /\ p \o q = t
  <2>1. p \in Seq(Marked)
    <3>1. 1 \in Nat \ {0} /\ 1 <= a + 1 /\ a <= Len(s)
      BY <1>1, <1>2, <1>3
    <3> QED
      BY <1>0, <1>3, <3>1, Part
  <2>2. q \in Seq(Marked)
    <3>1. a + 1 \in Nat \ {0} /\ a + 1 <= (a + n) + 1
      BY <1>2, <1>3
    <3> QED
      BY <1>0, <1>1, <1>3, <3>1, Part
  <2>3. p \o q = t
    <3>1. 1 \in 1..Len(s) + 1 /\ a \in 1 - 1..Len(s) /\ a + n \in a..Len(s)
      BY <1>1, <1>2, <1>3
    <3> QED
      BY <1>0, <3>1, ConcatAdjacentSubSeq
  <2> QED
    BY <2>1, <2>2, <2>3
<1>5. Fed(DataOf(q)) = DataOf(p) \o DataOf(q)
  <2>1. Held = DataOf(p)
    BY <1>0 DEF Pending
  <2>2. CASE rx_acc = <<>>
    BY <2>1, <2>2 DEF Fed, Held
  <2>3. CASE rx_acc # <<>>
    BY <1>2, <2>1, <2>3 DEF Fed, Held, Joins
  <2> QED
    BY <2>2, <2>3
<1>6. DataOf(p) \o DataOf(q) = DataOf(p \o q)
  <2> HIDE DEF p, q
  <2> DEFINE u == DataOf(p) \o DataOf(q)
             v == DataOf(p \o q)
  <2>1. PICK x \in Nat, y \in Nat : x = Len(p) /\ y = Len(q)
    BY <1>4
  <2>2. /\ DataOf(p) \in Seq(Nat) /\ Len(DataOf(p)) = x
        /\ \A i \in 1..x : DataOf(p)[i] = p[i].byte
    BY <1>4, <2>1, DataAt
  <2>3. /\ DataOf(q) \in Seq(Nat) /\ Len(DataOf(q)) = y
        /\ \A i \in 1..y : DataOf(q)[i] = q[i].byte
    BY <1>4, <2>1, DataAt
  <2>4. /\ p \o q \in Seq(Marked) /\ Len(p \o q) = x + y
        /\ \A i \in 1..x + y : (p \o q)[i] = IF i <= x THEN p[i] ELSE q[i - x]
    BY <1>4, <2>1, ConcatProperties
  <2>5. /\ u \in Seq(Nat) /\ Len(u) = x + y
        /\ \A i \in 1..x + y : u[i] = IF i <= x THEN DataOf(p)[i] ELSE DataOf(q)[i - x]
    BY <2>2, <2>3, ConcatProperties
  <2>6. v \in Seq(Nat) /\ Len(v) = x + y /\ \A i \in 1..x + y : v[i] = (p \o q)[i].byte
    BY <2>4, DataAt
  <2> HIDE DEF u, v
  <2>7. ASSUME NEW i \in 1..x + y PROVE u[i] = v[i]
    <3>1. CASE i <= x
      <4>1. i \in 1..x
        BY <2>1, <3>1
      <4>2. u[i] = DataOf(p)[i] /\ v[i] = p[i].byte
        BY <2>4, <2>5, <2>6, <3>1
      <4> QED
        BY <2>2, <4>1, <4>2
    <3>2. CASE ~(i <= x)
      <4>1. i - x \in 1..y
        BY <2>1, <3>2
      <4>2. u[i] = DataOf(q)[i - x] /\ v[i] = q[i - x].byte
        BY <2>4, <2>5, <2>6, <3>2
      <4> QED
        BY <2>3, <4>1, <4>2
    <3> QED
      BY <3>1, <3>2
  <2>8. u = v
    BY <2>5, <2>6, <2>7, SeqEqual
  <2> QED
    BY <2>8 DEF u, v
<1> QED
  BY <1>2, <1>4, <1>5, <1>6

\* Frames, and parts of frames: the commands that the packet completes are
\* dispatched, and the accumulator keeps the start of the one that is cut off.
LEMMA FramesTaken ==
  ASSUME WellFormed, NEW s, NEW a, NEW n, Ready(s, a, n), rx_acc \in Seq(Nat),
         Joins(PacketAt(n)), NEW acc, acc = Fed(DataOf(PacketAt(n)))
  PROVE  /\ Scan(acc).cmds = Completed(PacketAt(n))
         /\ \E r \in 1..a + n + 1 :
              /\ Kept(acc, Scan(acc).rest) = DataOf(SubSeq(s, r, a + n))
              /\ r = 1 \/ s[r - 1].last
              /\ \A i \in r..a + n : ~s[i].last /\ ~s[i].bare
<1> DEFINE p == SubSeq(s, 1, a)
           q == SubSeq(s, a + 1, a + n)
           t == SubSeq(s, 1, a + n)
           r == Scan(acc).rest
<1>0. s \in Seq(Marked) /\ Pending(s, a)
  BY DEF Ready
<1>1. PICK k \in Nat : k = Len(s)
  BY <1>0
<1>2. n \in Nat \ {0} /\ a + n \in 1..Len(s) /\ PacketAt(n) = q /\ a \in Nat
  BY PacketOf
<1>3. PICK b \in Nat : b = a + n /\ b <= k /\ b >= a /\ a \in Nat /\ b - a = n
  BY <1>1, <1>2
<1>4. t \in Seq(Marked) /\ Len(t) = b /\ \A i \in 1..b : t[i] = s[i]
  <2>1. 1 \in Nat \ {0} /\ 1 <= b + 1 /\ b - 1 + 1 = b /\ \A i \in 1..b : 1 + i - 1 = i
    BY <1>3
  <2>2. /\ t \in Seq(Marked) /\ Len(t) = b - 1 + 1
        /\ \A i \in 1..b - 1 + 1 : t[i] = s[1 + i - 1]
    BY <1>0, <1>1, <1>3, <2>1, Part
  <2> HIDE DEF t
  <2> QED
    BY <2>1, <2>2
<1>5. p \in Seq(Marked) /\ Len(p) = a /\ \A i \in 1..a : p[i] = s[i]
  <2>1. /\ 1 \in Nat \ {0} /\ 1 <= a + 1 /\ a <= Len(s) /\ a - 1 + 1 = a
        /\ \A i \in 1..a : 1 + i - 1 = i
    BY <1>1, <1>3
  <2>2. /\ p \in Seq(Marked) /\ Len(p) = a - 1 + 1
        /\ \A i \in 1..a - 1 + 1 : p[i] = s[1 + i - 1]
    BY <1>0, <1>3, <2>1, Part
  <2> HIDE DEF p
  <2> QED
    BY <2>1, <2>2
<1>6. q \in Seq(Marked) /\ Len(q) = n /\ \A i \in 1..n : q[i] = s[a + i]
  <2>1. /\ a + 1 \in Nat \ {0} /\ a + 1 <= b + 1 /\ b <= Len(s) /\ b - (a + 1) + 1 = n
        /\ \A i \in 1..n : (a + 1) + i - 1 = a + i
    BY <1>1, <1>2, <1>3
  <2>2. /\ q \in Seq(Marked) /\ Len(q) = b - (a + 1) + 1
        /\ \A i \in 1..b - (a + 1) + 1 : q[i] = s[(a + 1) + i - 1]
    BY <1>0, <1>3, <2>1, Part
  <2> HIDE DEF q
  <2> QED
    BY <2>1, <2>2
<1>7. p \o q = t
  <2>1. 1 \in 1..Len(s) + 1 /\ a \in 1 - 1..Len(s) /\ a + n \in a..Len(s)
    BY <1>1, <1>2, <1>3
  <2> QED
    BY <1>0, <2>1, ConcatAdjacentSubSeq
<1>8. acc = DataOf(t)
  BY FedIsPrefix
<1>9. Flow(t)
  <2>1. a + n \in 0..Len(s)
    BY <1>1, <1>3
  <2> QED
    BY <1>0, <2>1, FlowPrefix DEF Pending
<1>10. \A i \in 1..n : ~q[i].bare
  BY <1>2, <1>6 DEF Joins
<1> HIDE DEF p, q, t
<1>11. \A i \in 1..b : ~s[i].bare
  <2>1. ASSUME NEW i \in 1..b PROVE ~s[i].bare
    <3>1. CASE i <= a
      <4>1. i \in 1..a
        BY <1>3, <3>1
      <4> QED
        BY <1>0, <4>1 DEF Pending
    <3>2. CASE ~(i <= a)
      <4>1. i - a \in 1..n /\ a + (i - a) = i
        BY <1>2, <1>3, <3>2
      <4> QED
        BY <1>6, <1>10, <4>1
    <3> QED
      BY <3>1, <3>2
  <2> QED
    BY <2>1
<1>12. Agree(t, Scan(acc), Completed(t), 1)
  BY <1>4, <1>8, <1>9, <1>11, ScanAgrees
<1>13. Completed(t) = Completed(q)
  <2>1. \A i \in 1..a : ~p[i].last
    BY <1>0, <1>5 DEF Pending
  <2> QED
    BY <1>5, <1>6, <1>7, <2>1, CompletedBehind
<1>14. Scan(acc).cmds = Completed(q)
  BY <1>12, <1>13 DEF Agree
<1>15. acc \in Seq(Nat) /\ Len(acc) = b
  BY <1>4, <1>8, DataAt
<1>16. r \in Nat /\ 1 <= r /\ r <= b + 1 /\ Len(acc) + 1 - r < FRAME_HDR + MAX_PAYLOAD
  BY <1>15, ScanEnds DEF Ends
<1> HIDE DEF r
<1>17. Kept(acc, r) = SubSeq(acc, r, b)
  BY <1>15, <1>16, KeptIsTail
<1>18. SubSeq(acc, r, b) = DataOf(SubSeq(t, r, b))
  <2>1. r \in Nat \ {0} /\ r <= b + 1 /\ b <= Len(t)
    BY <1>3, <1>4, <1>16
  <2>2. t \in Seq(Marked)
    BY <1>4
  <2>3. DataOf(SubSeq(t, r, b)) = SubSeq(DataOf(t), r, b)
    BY <2>1, <2>2, DataOfPart
  <2> QED
    BY <1>8, <2>3
<1>19. SubSeq(t, r, b) = SubSeq(s, r, b)
  <2> DEFINE u == SubSeq(t, r, b)
             v == SubSeq(s, r, b)
  <2>1. r \in Nat \ {0} /\ b <= Len(s)
    BY <1>1, <1>3, <1>16
  <2>2. u \in Seq(Marked) /\ Len(u) = b - r + 1 /\ \A i \in 1..b - r + 1 : u[i] = t[r + i - 1]
    BY <1>0, <1>4, <1>16, <2>1, Part
  <2>3. v \in Seq(Marked) /\ Len(v) = b - r + 1 /\ \A i \in 1..b - r + 1 : v[i] = s[r + i - 1]
    BY <1>0, <1>16, <2>1, Part
  <2> HIDE DEF u, v
  <2>4. ASSUME NEW i \in 1..b - r + 1 PROVE u[i] = v[i]
    <3>1. r + i - 1 \in 1..b
      BY <1>3, <1>16
    <3> QED
      BY <1>4, <2>2, <2>3, <3>1
  <2>5. u = v
    BY <2>2, <2>3, <2>4, SeqEqual
  <2> QED
    BY <2>5 DEF u, v
<1>20. r = 1 \/ s[r - 1].last
  <2>1. SUFFICES ASSUME r # 1 PROVE s[r - 1].last
    OBVIOUS
  <2>2. r - 1 \in 1..b
    BY <1>3, <1>16, <2>1
  <2> QED
    BY <1>4, <1>12, <2>1, <2>2 DEF Agree, r
<1>21. ASSUME NEW i \in r..b PROVE ~s[i].last /\ ~s[i].bare
  <2>1. i \in 1..b
    BY <1>3, <1>16
  <2>2. ~t[i].last
    BY <1>4, <1>12 DEF Agree, r
  <2> QED
    BY <1>4, <1>11, <2>1, <2>2
<1>22. r \in 1..a + n + 1
  BY <1>3, <1>16
<1>23. Kept(acc, r) = DataOf(SubSeq(s, r, a + n))
  BY <1>3, <1>17, <1>18, <1>19
<1>24. \A i \in r..a + n : ~s[i].last /\ ~s[i].bare
  BY <1>3, <1>21
<1>25. \E x \in 1..a + n + 1 :
         /\ Kept(acc, Scan(acc).rest) = DataOf(SubSeq(s, x, a + n))
         /\ x = 1 \/ s[x - 1].last
         /\ \A i \in x..a + n : ~s[i].last /\ ~s[i].bare
  <2>1. Kept(acc, Scan(acc).rest) = DataOf(SubSeq(s, r, a + n))
    BY <1>23 DEF r
  <2> QED
    BY <1>20, <1>22, <1>24, <2>1
<1> QED
  BY <1>2, <1>14, <1>25

\* The connection after the packet, of which everything before r is done with.
LEMMA PendingAfter ==
  ASSUME NEW s \in Seq(Marked), Flow(s), Complete(s), NEW b \in Nat, b <= Len(s),
         NEW r \in 1..b + 1, r = 1 \/ s[r - 1].last,
         \A i \in r..b : ~s[i].last /\ ~s[i].bare,
         line' = SubSeq(s, b + 1, Len(s)), Held' = DataOf(SubSeq(s, r, b))
  PROVE  Underway'
<1> DEFINE t == SubSeq(s, r, Len(s))
           y == b + 1 - r
<1>1. PICK k \in Nat : k = Len(s)
  OBVIOUS
<1>2. r \in Nat \ {0} /\ r <= b + 1 /\ r <= k + 1 /\ r - 1 \in 0..Len(s) /\ (r - 1) + 1 = r
  BY <1>1
<1>3. y \in Nat /\ y = b + 1 - r
  BY <1>2
<1>4. t \in Seq(Marked) /\ Len(t) = k - r + 1 /\ \A i \in 1..k - r + 1 : t[i] = s[r + i - 1]
  BY <1>1, <1>2, Part
<1>5. Flow(t) /\ Complete(t)
  <2>1. r - 1 = 0 \/ s[r - 1].last
    BY <1>2
  <2>2. Flow(SubSeq(s, (r - 1) + 1, Len(s))) /\ Complete(SubSeq(s, (r - 1) + 1, Len(s)))
    BY <1>2, <2>1, FlowDrop
  <2> QED
    BY <1>2, <2>2
<1> HIDE DEF y
<1>6. SubSeq(t, 1, y) = SubSeq(s, r, b)
  <2>1. /\ 1 \in Nat \ {0} /\ 1 <= y + 1 /\ r + y - 1 <= Len(s)
        /\ r = r + 1 - 1 /\ b = r + y - 1
    BY <1>1, <1>2, <1>3
  <2> QED
    BY <1>1, <1>2, <1>3, <2>1, PartOfRest
<1>7. SubSeq(t, y + 1, Len(t)) = SubSeq(s, b + 1, k)
  <2>1. k - r + 1 \in Nat
    BY <1>1, <1>2
  <2> DEFINE l == k - r + 1
             v == b + 1
             x == y + 1
  <2>2. /\ x \in Nat \ {0} /\ x <= l + 1 /\ r + l - 1 <= Len(s) /\ l \in Nat
        /\ v \in Nat \ {0} /\ v = r + x - 1 /\ k = r + l - 1
    BY <1>1, <1>2, <1>3, <2>1
  <2> HIDE DEF l, v, x
  <2>3. SubSeq(t, x, l) = SubSeq(s, v, k)
    BY <1>1, <1>2, <2>2, PartOfRest
  <2> QED
    BY <1>4, <2>3 DEF l, v, x
<1>8. y \in 0..Len(t)
  BY <1>1, <1>2, <1>3, <1>4
<1>9. ASSUME NEW i \in 1..y PROVE ~t[i].last /\ ~t[i].bare
  <2>1. i \in 1..k - r + 1 /\ r + i - 1 \in r..b
    BY <1>1, <1>2, <1>3
  <2>2. t[i] = s[r + i - 1]
    BY <1>4, <2>1
  <2> QED
    BY <2>1, <2>2
<1> HIDE DEF t
<1>10. line' = SubSeq(t, y + 1, Len(t)) /\ Held' = DataOf(SubSeq(t, 1, y))
  BY <1>1, <1>6, <1>7
<1>11. Pending(t, y)'
  BY <1>5, <1>9, <1>10 DEF Pending
<1> QED
  BY <1>4, <1>8, <1>11 DEF Underway

\* A step that does not concern what is under way.
LEMMA UnderwayStays ==
  ASSUME Underway, line' = line, Held' = Held
  PROVE  Underway'
<1>1. PICK s \in Seq(Marked) : \E a \in 0..Len(s) : Pending(s, a)
  BY DEF Underway
<1>2. PICK a \in 0..Len(s) : Pending(s, a)
  BY <1>1
<1>3. Pending(s, a)'
  BY <1>2 DEF Pending
<1> QED
  BY <1>3 DEF Underway

\* What is not misread is a bare command alone, or joins what is in the accumulator.
LEMMA ReadRight ==
  ASSUME NEW packet, Misread(packet) = {}
  PROVE  /\ IsBare(DataOf(packet)) => WholeBare(packet)
         /\ ~IsBare(DataOf(packet)) => Joins(packet)
<1>1. \A w \in Misreadings : w \notin Misread(packet)
  OBVIOUS
<1>2. {"piece", "bare", "joined", "flushed"} \subseteq Misreadings
  BY DEF Misreadings
<1>3. CASE IsBare(DataOf(packet))
  <2>1. packet[1].bare
    BY <1>1, <1>2, <1>3 DEF Misread
  <2>2. WholeBare(packet) \/ ~\E i \in 1..Len(packet) : packet[i].bare
    BY <1>1, <1>2 DEF Misread
  <2>3. 1 \in 1..Len(packet)
    BY <1>3 DEF IsBare, DataOf
  <2> QED
    BY <1>3, <2>1, <2>2, <2>3
<1>4. CASE ~IsBare(DataOf(packet))
  <2>1. ~WholeBare(packet)
    BY <1>1, <1>2, <1>4 DEF Misread
  <2>2. \A i \in 1..Len(packet) : ~packet[i].bare
    BY <1>1, <1>2, <2>1 DEF Misread
  <2>3. rx_acc # <<>> => owner = session
    BY <1>1, <1>2, <1>4 DEF Misread
  <2>4. rx_acc # <<>> => ~Flushes(DataOf(packet))
    BY <1>1, <1>2, <1>4 DEF Misread
  <2> QED
    BY <1>4, <2>2, <2>3, <2>4 DEF Joins
<1> QED
  BY <1>3, <1>4

\* A packet that is read for what it is.
LEMMA ReceiveBooks ==
  ASSUME WellFormed, SppInv, BookInv, ~Overrun, NEW n \in 1..Len(line), ReceiveData(n),
         registered, mixed' = {}, ~Overrun'
  PROVE  (out = whole /\ Underway)'
<1> DEFINE packet == PacketAt(n)
           data == DataOf(packet)
           acc == Fed(data)
<1>0. /\ link /\ line' = LineAfter(n)
      /\ \/ /\ IsBare(data) /\ Note(packet, <<data>>) /\ UNCHANGED <<rx_acc, owner>>
         \/ /\ ~IsBare(data) /\ Note(packet, Scan(acc).cmds)
            /\ rx_acc' = Kept(acc, Scan(acc).rest)
            /\ owner' = IF rx_acc' = <<>> THEN 0
                        ELSE IF Len(rx_acc') > n THEN owner ELSE session
  BY DEF ReceiveData, PacketAt, LineAfter, Overrun
<1>1. mixed = {} /\ Misread(packet) = {}
  BY <1>0 DEF Note
<1>2. out = whole /\ Underway
  BY <1>0, <1>1 DEF BookInv
<1>3. PICK s \in Seq(Marked) : \E a \in 0..Len(s) : Pending(s, a)
  BY <1>2 DEF Underway
<1>4. PICK a \in 0..Len(s) : Pending(s, a)
  BY <1>3
<1>5. session' = session
  BY DEF ReceiveData
<1>6. Ready(s, a, n)
  BY <1>4 DEF Ready
<1>7. /\ n \in Nat \ {0} /\ a + n \in 1..Len(s)
      /\ LineAfter(n) = SubSeq(s, a + n + 1, Len(s))
      /\ PacketAt(n) = SubSeq(s, a + 1, a + n)
  BY <1>6, PacketOf
<1>8. PICK b \in Nat : b = a + n /\ b <= Len(s) /\ line' = SubSeq(s, b + 1, Len(s))
  BY <1>0, <1>7
<1>9. Flow(s) /\ Complete(s)
  BY <1>4 DEF Pending
<1>10. CASE IsBare(data)
  <2>1. WholeBare(packet)
    BY <1>1, <1>10, ReadRight
  <2>2. Note(packet, <<data>>) /\ UNCHANGED <<rx_acc, owner>>
    BY <1>0, <1>10
  <2>3. a = 0 /\ s[n].last /\ Completed(packet) = <<data>>
    BY <1>6, <2>1, BareTaken
  <2>4. (out = whole)'
    BY <1>2, <2>2, <2>3 DEF Note
  <2>5. Held' = Held
    BY <1>5, <2>2 DEF Held
  <2>6. PICK r \in 1..b + 1 : r = n + 1 /\ r - 1 = n /\ b = n /\ n < r
    BY <1>7, <1>8, <2>3
  <2>7. Held' = DataOf(SubSeq(s, r, b))
    <3>1. 1 \in Int /\ 0 \in Int /\ 0 < 1 /\ r \in Int /\ n \in Int
      BY <1>7, <2>6
    <3>2. SubSeq(s, 1, 0) = <<>> /\ SubSeq(s, r, n) = <<>>
      BY <2>6, <3>1, SubSeqEmpty
    <3>3. Held = DataOf(<<>>)
      BY <1>4, <2>3, <3>2 DEF Pending
    <3> QED
      BY <2>5, <2>6, <3>2, <3>3
  <2>8. \A i \in r..b : ~s[i].last /\ ~s[i].bare
    BY <2>6
  <2>9. Underway'
    BY <1>8, <1>9, <2>3, <2>6, <2>7, <2>8, PendingAfter
  <2> QED
    BY <2>4, <2>9
<1>11. CASE ~IsBare(data)
  <2>1. Joins(packet)
    BY <1>1, <1>11, ReadRight
  <2>2. /\ Note(packet, Scan(acc).cmds)
        /\ rx_acc' = Kept(acc, Scan(acc).rest)
        /\ owner' = IF rx_acc' = <<>> THEN 0 ELSE IF Len(rx_acc') > n THEN owner ELSE session
    BY <1>0, <1>11
  <2>3. rx_acc \in Seq(Nat) /\ acc = Fed(DataOf(packet))
    BY DEF SppInv, SppTypeOK
  <2>a. rx_acc = <<>> => ~(Len(rx_acc') > n)
    <3> SUFFICES ASSUME rx_acc = <<>> PROVE ~(Len(rx_acc') > n)
      OBVIOUS
    <3>1. packet \in Seq(Marked) /\ Len(packet) = n
      <4>1. line \in Seq(Marked) /\ PacketAt(n) = SubSeq(line, 1, n) /\ Len(line) \in Nat
        BY DEF SppInv, LineTypeOK, PacketAt
      <4> QED
        BY <1>7, <4>1, SubSeqProperties
    <3> HIDE DEF packet
    <3>2. data \in Seq(Nat) /\ Len(data) = n
      BY <3>1, DataType
    <3> HIDE DEF data
    <3>3. acc = <<>> \o data /\ <<>> \o data = data
      BY <3>2 DEF Fed
    <3> HIDE DEF acc
    <3>4. acc \in Seq(Nat) /\ Len(acc) = n
      BY <3>2, <3>3
    <3>5. Ends(acc, Scan(acc), 1) /\ Scan(acc).rest \in Nat
      BY <3>4, ScanEnds DEF Ends
    <3>6. Len(Kept(acc, Scan(acc).rest)) \in Nat /\ Len(Kept(acc, Scan(acc).rest)) <= n
      BY <3>4, <3>5, KeptIsNoLonger DEF Ends
    <3> QED
      BY <1>7, <2>2, <3>6
  <2> HIDE DEF acc
  <2>4. Scan(acc).cmds = Completed(packet)
    BY <1>6, <2>1, <2>3, FramesTaken
  <2>5. PICK r \in 1..a + n + 1 :
             /\ Kept(acc, Scan(acc).rest) = DataOf(SubSeq(s, r, a + n))
             /\ r = 1 \/ s[r - 1].last
             /\ \A i \in r..a + n : ~s[i].last /\ ~s[i].bare
    BY <1>6, <2>1, <2>3, FramesTaken
  <2>6. (out = whole)'
    BY <1>2, <2>2, <2>4 DEF Note
  <2>7. Held' = rx_acc'
    BY <1>5, <2>1, <2>2, <2>a DEF Held, Joins
  <2>8. Underway'
    <3>1. /\ r \in 1..b + 1 /\ rx_acc' = DataOf(SubSeq(s, r, b))
          /\ \A i \in r..b : ~s[i].last /\ ~s[i].bare
      BY <1>8, <2>2, <2>5
    <3> QED
      BY <1>8, <1>9, <2>5, <2>7, <3>1, PendingAfter
  <2> QED
    BY <2>6, <2>8
<1> QED
  BY <1>10, <1>11

\* bridge_spp_receive_data_cb.
LEMMA ReceiveKeepsBooks ==
  ASSUME WellFormed, SppInv, BookInv, ~Overrun, NEW n \in 1..Len(line), ReceiveData(n)
  PROVE  BookInv'
<1>1. link' /\ registered' = registered
  BY DEF ReceiveData
<1>2. ASSUME mixed' = {}, ~Overrun' PROVE (out = whole /\ (registered /\ link => Underway))'
  <2>1. CASE registered
    BY <1>2, <2>1, ReceiveBooks
  <2>2. CASE ~registered
    <3>1. UNCHANGED <<out, whole, mixed>>
      BY <2>2 DEF ReceiveData, bookVars
    <3> QED
      BY <1>1, <1>2, <2>2, <3>1 DEF BookInv
  <2> QED
    BY <2>1, <2>2
<1> QED
  BY <1>1, <1>2 DEF BookInv

\* The peer sends.
LEMMA SendsKeepsBooks ==
  ASSUME SppInv, BookInv, NEW m \in Messages, PeerSends(m)
  PROVE  BookInv'
<1>1. /\ UNCHANGED <<rx_acc, registered, link, session, out, whole, owner, mixed>> /\ link
      /\ line' = line \o OnLine(m)
  BY DEF PeerSends, bookVars
<1>2. Held' = Held
  BY <1>1 DEF Held
<1>3. ASSUME Underway PROVE Underway'
  <2>1. PICK s \in Seq(Marked) : \E a \in 0..Len(s) : Pending(s, a)
    BY <1>3 DEF Underway
  <2>2. PICK a \in 0..Len(s) : Pending(s, a)
    BY <2>1
  <2> DEFINE o == OnLine(m)
             t == s \o o
  <2>3. PICK k \in Nat, l \in Nat : k = Len(s) /\ l = Len(o)
    BY OnLineAt
  <2>4. o \in Seq(Marked) /\ a \in Nat /\ a <= k
    BY <2>3, OnLineAt
  <2>5. Flow(t) /\ Complete(t)
    BY <2>2, FlowAppend DEF Pending
  <2> HIDE DEF o
  <2>6. /\ t \in Seq(Marked) /\ Len(t) = k + l
        /\ \A i \in 1..k + l : t[i] = IF i <= k THEN s[i] ELSE o[i - k]
    BY <2>3, <2>4, ConcatProperties
  <2> HIDE DEF t
  <2>7. \A i \in 1..k : t[i] = s[i]
    <3>1. \A i \in 1..k : i \in 1..k + l /\ i <= k
      BY <2>3
    <3> QED
      BY <2>6, <3>1
  <2>8. SubSeq(t, 1, a) = SubSeq(s, 1, a)
    <3> DEFINE u == SubSeq(t, 1, a)
               v == SubSeq(s, 1, a)
    <3>1. 1 \in Nat \ {0} /\ 1 <= a + 1 /\ a <= Len(t) /\ a <= Len(s)
      BY <2>3, <2>4, <2>6
    <3>2. u \in Seq(Marked) /\ Len(u) = a - 1 + 1 /\ \A i \in 1..a - 1 + 1 : u[i] = t[1 + i - 1]
      BY <2>4, <2>6, <3>1, Part
    <3>3. v \in Seq(Marked) /\ Len(v) = a - 1 + 1 /\ \A i \in 1..a - 1 + 1 : v[i] = s[1 + i - 1]
      BY <2>4, <3>1, Part
    <3> HIDE DEF u, v
    <3>4. ASSUME NEW i \in 1..a - 1 + 1 PROVE u[i] = v[i]
      <4>1. 1 + i - 1 \in 1..k
        BY <2>3, <2>4
      <4> QED
        BY <2>7, <3>2, <3>3, <4>1
    <3>5. u = v
      BY <3>2, <3>3, <3>4, SeqEqual
    <3> QED
      BY <3>5 DEF u, v
  <2>9. SubSeq(t, a + 1, Len(t)) = line'
    <3> DEFINE p == SubSeq(s, a + 1, k)
               u == SubSeq(t, a + 1, k + l)
               v == p \o o
               x == k - a
    <3>1. /\ a + 1 \in Nat \ {0} /\ a + 1 <= k + 1 /\ k <= Len(s) /\ k - (a + 1) + 1 = x
          /\ k + l \in Nat /\ a + 1 <= (k + l) + 1 /\ k + l <= Len(t)
          /\ (k + l) - (a + 1) + 1 = x + l /\ x \in Nat
      BY <2>3, <2>4, <2>6
    <3>2. p \in Seq(Marked) /\ Len(p) = k - (a + 1) + 1
          /\ \A i \in 1..k - (a + 1) + 1 : p[i] = s[(a + 1) + i - 1]
      BY <2>3, <3>1, Part
    <3>3. u \in Seq(Marked) /\ Len(u) = (k + l) - (a + 1) + 1
          /\ \A i \in 1..(k + l) - (a + 1) + 1 : u[i] = t[(a + 1) + i - 1]
      BY <2>6, <3>1, Part
    <3> HIDE DEF p, u
    <3>4. /\ v \in Seq(Marked) /\ Len(v) = x + l
          /\ \A i \in 1..x + l : v[i] = IF i <= x THEN p[i] ELSE o[i - x]
      <4>1. Len(p) = x
        BY <3>1, <3>2
      <4>2. /\ v \in Seq(Marked) /\ Len(v) = Len(p) + Len(o)
            /\ \A i \in 1..Len(p) + Len(o) : v[i] = IF i <= Len(p) THEN p[i] ELSE o[i - Len(p)]
        BY <2>4, <3>2, ConcatProperties
      <4> HIDE DEF x, v
      <4> QED
        BY <2>3, <4>1, <4>2
    <3> HIDE DEF v
    <3>5. ASSUME NEW i \in 1..x + l PROVE u[i] = v[i]
      <4>1. u[i] = t[(a + 1) + i - 1]
        BY <3>1, <3>3
      <4>2. CASE i <= x
        <5>1. /\ i \in 1..k - (a + 1) + 1 /\ (a + 1) + i - 1 \in 1..k
          BY <2>3, <2>4, <4>2
        <5>2. t[(a + 1) + i - 1] = s[(a + 1) + i - 1] /\ p[i] = s[(a + 1) + i - 1]
          BY <2>7, <3>2, <5>1
        <5>3. v[i] = p[i]
          BY <3>4, <4>2
        <5> QED
          BY <4>1, <5>2, <5>3
      <4>3. CASE ~(i <= x)
        <5>1. /\ (a + 1) + i - 1 \in 1..k + l /\ ~((a + 1) + i - 1 <= k)
              /\ ((a + 1) + i - 1) - k = i - x
          BY <2>3, <2>4, <4>3
        <5>2. t[(a + 1) + i - 1] = o[((a + 1) + i - 1) - k]
          BY <2>6, <5>1
        <5>3. v[i] = o[i - x]
          BY <3>4, <4>3
        <5> QED
          BY <4>1, <5>1, <5>2, <5>3
      <4> QED
        BY <4>2, <4>3
    <3>6. Len(u) = x + l
      BY <3>1, <3>3
    <3> HIDE DEF x
    <3>7. u = v
      BY <3>3, <3>4, <3>5, <3>6, SeqEqual
    <3>8. line = p
      BY <2>2, <2>3 DEF Pending, p
    <3> QED
      BY <1>1, <2>6, <3>7, <3>8 DEF u, v, o
  <2>10. \A i \in 1..a : ~t[i].last /\ ~t[i].bare
    <3>1. \A i \in 1..a : i \in 1..k
      BY <2>3, <2>4
    <3> QED
      BY <2>2, <2>7, <3>1 DEF Pending
  <2>11. Held' = DataOf(SubSeq(t, 1, a))
    BY <1>2, <2>2, <2>8 DEF Pending
  <2>12. Pending(t, a)' /\ a \in 0..Len(t)
    <3>1. a \in 0..Len(t)
      BY <2>3, <2>4, <2>6
    <3> QED
      BY <2>5, <2>9, <2>10, <2>11, <3>1 DEF Pending
  <2> QED
    BY <2>6, <2>12 DEF Underway
<1> QED
  BY <1>1, <1>3 DEF BookInv, Overrun

\* The connection comes, goes, or fails: nothing is on the line then.
LEMMA LinkKeepsBooks ==
  ASSUME SppInv, BookInv, LinkUp \/ LinkDown \/ LinkFails
  PROVE  BookInv'
<1>1. UNCHANGED <<rx_acc, registered, out, whole, owner, mixed>>
  BY DEF LinkUp, LinkDown, LinkFails, bookVars
<1>2. line' = <<>>
  BY DEF LinkUp, LinkDown, LinkFails, BookInv
<1>3. ASSUME link' PROVE Underway'
  <2>1. session' = session + 1 /\ session \in Nat /\ owner \in 0..session
    <3>1. LinkUp
      BY <1>3, Zenon DEF LinkDown, LinkFails
    <3>2. session' = session + 1
      BY <3>1 DEF LinkUp
    <3>3. session \in Nat /\ owner \in 0..session
      BY SppAssumption DEF SppInv, SppTypeOK
    <3> QED
      BY <3>2, <3>3
  <2>2. owner' # session'
    BY <1>1, <2>1
  <2>3. Held' = <<>>
    BY <2>2 DEF Held
  <2> QED
    BY <1>2, <2>3, NothingPendingNext
<1> QED
  BY <1>1, <1>2, <1>3 DEF BookInv, Overrun

\* The messages of btsrv: what a disconnect drops is not of this connection.
LEMMA HandlerKeepsBooks ==
  ASSUME BookInv, ~Overrun, Connected \/ ConnectFailed \/ Disconnected
  PROVE  BookInv'
<1>1. UNCHANGED <<link, line, session, out, whole>> /\ (registered' => registered)
  BY DEF Connected, ConnectFailed, Disconnected, Handles
<1>2. ASSUME mixed' = {} PROVE mixed = {} /\ (link => Held' = Held)
  <2>1. CASE UNCHANGED <<rx_acc, owner, mixed>>
    BY <1>1, <1>2, <2>1 DEF Held
  <2>2. CASE /\ rx_acc' = <<>> /\ owner' = 0
             /\ mixed' = IF link /\ rx_acc # <<>> /\ owner = session
                         THEN mixed \cup {"cleared"} ELSE mixed
    <3>1. mixed = {} /\ ~(link /\ rx_acc # <<>> /\ owner = session)
      BY <1>2, <2>2
    <3> QED
      BY <1>1, <2>2, <3>1 DEF Held
  <2> QED
    BY <2>1, <2>2 DEF Connected, ConnectFailed, Disconnected
<1>3. ASSUME mixed' = {}, registered', link' PROVE Underway'
  <2>1. Underway
    BY <1>1, <1>2, <1>3 DEF BookInv
  <2> QED
    BY <1>1, <1>2, <1>3, <2>1, UnderwayStays
<1> QED
  BY <1>1, <1>2, <1>3 DEF BookInv

\* Before the first connection.
LEMMA BookInit == SppInit => BookInv
BY DEF SppInit, BookInv

\* Every step of the bridge keeps the books.
LEMMA BookNextKeeps ==
  ASSUME WellFormed
  PROVE  SppInv /\ BookInv /\ [SppNext]_sppVars => BookInv'
<1> SUFFICES ASSUME SppInv, BookInv, [SppNext]_sppVars PROVE BookInv'
  OBVIOUS
<1>1. CASE SppNext
  <2>1. ~Overrun
    BY <1>1 DEF SppNext
  <2>2. CASE \E n \in 1..Len(line) : ReceiveData(n)
    BY <2>1, <2>2, ReceiveKeepsBooks
  <2>3. CASE \E m \in Messages : PeerSends(m)
    BY <2>3, SendsKeepsBooks
  <2>4. CASE LinkUp \/ LinkDown \/ LinkFails
    BY <2>4, LinkKeepsBooks
  <2>5. CASE Connected \/ ConnectFailed \/ Disconnected
    BY <2>1, <2>5, HandlerKeepsBooks
  <2> QED
    BY <1>1, <2>2, <2>3, <2>4, <2>5 DEF SppNext
<1>2. CASE UNCHANGED sppVars
  <2>1. Held' = Held /\ line' = line
    BY <1>2 DEF sppVars, bookVars, Held
  <2>2. Underway => Underway'
    BY <2>1, UnderwayStays
  <2> QED
    BY <1>2, <2>2 DEF sppVars, bookVars, BookInv, Overrun
<1> QED
  BY <1>1, <1>2

\* However RFCOMM cuts and joins the bytes, however many connections come and go, and
\* whenever btsrv comes to handle that, the bridge dispatches every command that a
\* peer keeping to the protocol sends, once, in order and with its last byte, and
\* nothing else, as long as nothing is misread and no packet overruns the accumulator
\* (spp_feed_accumulator, spp_process_accumulator, spp_try_bare_cmd).
THEOREM CommandsOnce ==
  ASSUME WellFormed
  PROVE  SppSpec => []CommandsOnceInOrder
<1>1. BookInv => CommandsOnceInOrder
  BY DEF BookInv, CommandsOnceInOrder
<1>2. SppInit => BookInv
  BY BookInit
<1>3. SppInv /\ BookInv /\ [SppNext]_sppVars => BookInv'
  BY BookNextKeeps
<1>4. SppSpec => []SppInv
  BY SppInvariance
<1> QED
  BY <1>1, <1>2, <1>3, <1>4, PTL DEF SppSpec
=============================================================================
