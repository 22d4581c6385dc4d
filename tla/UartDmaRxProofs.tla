--------------------------- MODULE UartDmaRxProofs ---------------------------
(***************************************************************************)
(* The DMA receiver hands over bytes in order, and loses them only in the  *)
(* window of its restart, for every size of the buffer and any number of   *)
(* bytes.                                                                  *)
(***************************************************************************)
EXTENDS UartDmaRx, SequenceTheorems, TLAPS

-----------------------------------------------------------------------------
(* The inductive invariant.                                                *)

\* The driver is not between its look at the pending bits and the restart.
Serving == pc \in {"idle", "isr", "check"}

\* At most one interrupt is pending, and the DMA is in the other half; the steps
\* of the restart see at most the one that has just come.
Flags ==
    /\ ~(hf /\ tc)
    /\ Serving => /\ pos < Size
                  /\ hf => Half <= pos
                  /\ tc => pos < Half
    /\ pc = "reload" => pos < Size
    /\ pc \in {"reload", "halt"} /\ (hf \/ tc) => moved
    /\ pc = "hand" => /\ ~hf /\ ~tc
                      /\ pos = 0 \/ (pos = 1 /\ moved)

\* Since the DMA was last at 0 it has filled the buffer with the newest bytes.
Filled == \A i \in 0..Size - 1 : i < pos => buf[i] + pos = sent + i + 1

\* The second half while its interrupt is pending.
SecondHalf ==
    Serving /\ tc => \A k \in 0..Half - 1 : buf[Half + k] + pos + Half = sent + k + 1

\* The part the timeout callback is about to get.
PartReady ==
    pc = "hand" => \A k \in 0..Half - 1 : k < len => buf[Half + k] + pos + len = sent + k + 1

\* What has been handed over is older than what will be.
Older == \A i \in DOMAIN rcvd : rcvd[i] + InBuffer <= sent

Ordered == HandedInOrder /\ Older

DmaInv ==
    /\ RxTypeOK /\ Flags /\ OnlyWindowLoses
    /\ Filled /\ SecondHalf /\ PartReady /\ Ordered

-----------------------------------------------------------------------------
(* Handing over.                                                           *)

\* A function on 1..n is a sequence.
LEMMA FunctionIsSeq ==
    ASSUME NEW S, NEW n \in Nat, NEW s \in [1..n -> S]
    PROVE  s \in Seq(S) /\ Len(s) = n
  OBVIOUS

\* A run of n consecutive bytes after b goes to the end of an increasing sequence
\* of bytes up to b.
LEMMA AppendRun ==
    ASSUME NEW r \in Seq(1..MaxBytes), NEW b \in Nat, NEW n \in Nat,
           NEW s \in [1..n -> Nat],
           \A k \in 1..n : s[k] = b + k,
           b + n <= MaxBytes,
           \A i \in DOMAIN r : r[i] <= b,
           \A i, j \in DOMAIN r : i < j => r[i] < r[j]
    PROVE  /\ r \o s \in Seq(1..MaxBytes)
           /\ Len(r \o s) = Len(r) + n
           /\ \A i \in DOMAIN (r \o s) : (r \o s)[i] <= b + n
           /\ \A i, j \in DOMAIN (r \o s) : i < j => (r \o s)[i] < (r \o s)[j]
  <1>0. MaxBytes \in Nat
    BY DmaAssumption
  <1>1. s \in [1..n -> 1..MaxBytes]
    BY <1>0
  <1>2. s \in Seq(1..MaxBytes) /\ Len(s) = n
    BY <1>1, FunctionIsSeq
  <1>3. /\ r \o s \in Seq(1..MaxBytes)
        /\ Len(r \o s) = Len(r) + n
        /\ \A i \in 1..Len(r) + n :
             (r \o s)[i] = IF i <= Len(r) THEN r[i] ELSE s[i - Len(r)]
    BY <1>2, ConcatProperties
  <1> DEFINE t == r \o s
  <1>4. DOMAIN t = 1..Len(r) + n /\ DOMAIN r = 1..Len(r) /\ Len(r) \in Nat
    BY <1>3
  <1>5. \A i \in 1..Len(r) + n : i <= Len(r) =>
          i \in DOMAIN r /\ t[i] = r[i] /\ r[i] <= b /\ r[i] \in Nat
    <2> SUFFICES ASSUME NEW i \in 1..Len(r) + n, i <= Len(r)
                 PROVE  i \in DOMAIN r /\ t[i] = r[i] /\ r[i] <= b /\ r[i] \in Nat
      OBVIOUS
    <2>1. i \in 1..Len(r)
      BY <1>4
    <2>2. r[i] \in 1..MaxBytes
      BY <2>1, ElementOfSeq
    <2>3. t[i] = r[i]
      BY <1>3
    <2>4. i \in DOMAIN r
      BY <2>1, <1>4
    <2>5. r[i] <= b
      BY <2>4
    <2>6. r[i] \in Nat
      BY <2>2, <1>0
    <2> QED
      BY <2>3, <2>4, <2>5, <2>6
  <1>6. \A i \in 1..Len(r) + n : i > Len(r) => t[i] = b + (i - Len(r))
    <2> SUFFICES ASSUME NEW i \in 1..Len(r) + n, i > Len(r)
                 PROVE  t[i] = b + (i - Len(r))
      OBVIOUS
    <2>1. i - Len(r) \in 1..n
      BY <1>4
    <2> QED
      BY <2>1, <1>3, <1>4
  <1> HIDE DEF t
  <1>7. \A i \in DOMAIN t : t[i] <= b + n
    BY <1>4, <1>5, <1>6
  <1>8. \A i, j \in DOMAIN t : i < j => t[i] < t[j]
    <2> SUFFICES ASSUME NEW i \in 1..Len(r) + n, NEW j \in 1..Len(r) + n, i < j
                 PROVE  t[i] < t[j]
      BY <1>4
    <2>1. CASE j <= Len(r)
      <3>1. i <= Len(r)
        BY <2>1, <1>4
      <3>2. /\ i \in DOMAIN r /\ t[i] = r[i]
            /\ j \in DOMAIN r /\ t[j] = r[j]
        BY <2>1, <3>1, <1>5
      <3> QED
        BY <3>2
    <2>2. CASE i > Len(r)
      BY <2>2, <1>4, <1>6
    <2>3. CASE i <= Len(r) /\ j > Len(r)
      BY <2>3, <1>4, <1>5, <1>6
    <2> QED
      BY <2>1, <2>2, <2>3, <1>4
  <1> QED
    BY <1>3, <1>7, <1>8 DEF t

-----------------------------------------------------------------------------
(* What is in the buffer.                                                  *)

BufTypes ==
    /\ pos \in Nat /\ len \in Nat
    /\ hf \in BOOLEAN /\ tc \in BOOLEAN

InBufferIs ==
    /\ pc = "hand" => InBuffer = len + pos
    /\ Serving /\ hf => InBuffer = pos
    /\ Serving /\ ~hf /\ tc => InBuffer = Half + pos
    /\ pc # "hand" /\ ~(Serving /\ (hf \/ tc)) =>
            InBuffer = IF pos < Half THEN pos ELSE pos - Half
    /\ InBuffer \in Nat

\* The cases of InBuffer.
LEMMA InBufferCases == BufTypes => InBufferIs
  <1> SUFFICES ASSUME BufTypes PROVE InBufferIs
    OBVIOUS
  <1>1. Half \in Nat /\ pos \in Nat /\ len \in Nat
    BY DmaAssumption DEF BufTypes
  <1>2. hf \in BOOLEAN /\ tc \in BOOLEAN
    BY DEF BufTypes
  <1>3. CASE pc = "hand"
    BY <1>1, <1>3 DEF InBuffer, InBufferIs, Serving
  <1>4. CASE Serving /\ hf
    BY <1>1, <1>4 DEF InBuffer, InBufferIs, Serving
  <1>5. CASE Serving /\ ~hf /\ tc
    BY <1>1, <1>5 DEF InBuffer, InBufferIs, Serving
  <1>6. CASE pc # "hand" /\ ~(Serving /\ (hf \/ tc))
    BY <1>1, <1>6 DEF InBuffer, InBufferIs, Serving
  <1> QED
    BY <1>2, <1>3, <1>4, <1>5, <1>6

\* RxTypeOK has the types of the buffer.
LEMMA TypesOfBuffer == RxTypeOK => BufTypes
  BY DmaAssumption DEF RxTypeOK, BufTypes, Size

\* Sizes as numbers.
LEMMA Sizes == Half \in Nat /\ Half > 1 /\ Size = Half + Half /\ MaxBytes \in Nat
  BY DmaAssumption DEF Size

\* What one more byte adds to the buffer, lost ones not decreasing.
LEMMA AtMostOneMore ==
    ASSUME NEW l \in Nat, NEW m \in Nat, NEW b \in Nat, NEW c \in Nat,
           l <= m, m + c = l + b + 1
    PROVE  c <= b + 1
  OBVIOUS

-----------------------------------------------------------------------------
(* The steps.                                                              *)

\* Nothing is pending and nothing in the buffer at first.
LEMMA InitKeeps == DmaInit => DmaInv
  <1> SUFFICES ASSUME DmaInit PROVE DmaInv
    OBVIOUS
  <1>1. RxTypeOK
    <2>1. buf \in [0..Size - 1 -> 0..MaxBytes]
      BY Sizes DEF DmaInit
    <2>2. rcvd \in Seq(1..MaxBytes)
      BY DEF DmaInit
    <2> QED
      <3>1. /\ pos \in 0..Size /\ last \in 0..Size /\ len \in 0..Half
            /\ sent \in 0..MaxBytes /\ lost \in 0..MaxBytes
        BY Sizes DEF DmaInit
      <3> QED
        BY <2>1, <2>2, <3>1 DEF DmaInit, RxTypeOK
  <1>2. InBuffer = 0
    BY <1>1, TypesOfBuffer, InBufferCases, Sizes DEF InBufferIs, DmaInit, Serving
  <1>3. Flags /\ Filled /\ SecondHalf /\ PartReady
    BY Sizes DEF DmaInit, Flags, Filled, SecondHalf, PartReady, Serving
  <1>4. OnlyWindowLoses /\ Ordered
    BY <1>2 DEF DmaInit, OnlyWindowLoses, Ordered, HandedInOrder, Older
  <1> QED
    BY <1>1, <1>3, <1>4 DEF DmaInv

\* A byte is written at the place its number belongs to.
LEMMA ByteKeeps == DmaInv /\ DmaByte => DmaInv'
  <1> SUFFICES ASSUME DmaInv, DmaByte PROVE DmaInv'
    OBVIOUS
  <1> USE Sizes
  <1>0. RxTypeOK /\ Flags /\ OnlyWindowLoses /\ Filled /\ SecondHalf /\ PartReady /\ Ordered
    BY DEF DmaInv
  <1>1. InBufferIs
    BY <1>0, TypesOfBuffer, InBufferCases
  <1>2. /\ pos \in Nat /\ len \in Nat /\ sent \in Nat /\ lost \in Nat /\ Len(rcvd) \in Nat
        /\ pos < Size /\ sent < MaxBytes
    BY <1>0 DEF RxTypeOK, DmaByte
  <1>3. /\ pos' = IF pos + 1 = Size /\ pc # "halt" THEN 0 ELSE pos + 1
        /\ hf' <=> (hf \/ pos + 1 = Half)
        /\ tc' <=> (tc \/ pos + 1 = Size)
        /\ (hf \/ tc) => pos + 1 # Half /\ pos + 1 # Size
        /\ sent' = sent + 1 /\ pc' = pc /\ len' = len /\ rcvd' = rcvd
        /\ (moved' <=> pc # "idle") /\ (pc # "idle" => ~moved)
        /\ buf' = [buf EXCEPT ![pos] = sent + 1]
    BY DEF DmaByte, Completes
  <1>4. Flags'
    <2>1. CASE Serving
      BY <2>1, <1>0, <1>2, <1>3 DEF Flags, Serving
    <2>2. CASE pc \in {"reload", "halt"}
      BY <2>2, <1>0, <1>2, <1>3 DEF Flags, Serving
    <2>3. CASE pc = "hand"
      BY <2>3, <1>0, <1>2, <1>3 DEF Flags, Serving
    <2> QED
      BY <2>1, <2>2, <2>3, <1>0 DEF RxTypeOK, Serving
  <1>5. /\ lost' = IF Forgotten THEN lost + Half ELSE lost
        /\ lost' \in Nat
    BY <1>2 DEF DmaByte
  <1>6. InBufferIs'
    <2>1. BufTypes'
      BY <1>2, <1>3 DEF BufTypes, DmaByte
    <2> QED
      BY <2>1, InBufferCases, PTL
  <1>7. lost' + InBuffer' = lost + InBuffer + 1
    <2>1. CASE pc = "hand"
      <3>1. InBuffer = len + pos
        BY <2>1, <1>1 DEF InBufferIs
      <3>2. pos' = pos + 1
        BY <2>1, <1>0, <1>3 DEF Flags
      <3>3. InBuffer' = len + pos + 1
        BY <2>1, <3>2, <1>2, <1>3, <1>6 DEF InBufferIs
      <3>4. lost' = lost
        BY <2>1, <1>5 DEF Forgotten
      <3> QED
        BY <3>1, <3>3, <3>4, <1>2
    <2>2. CASE pc \in {"reload", "halt"}
      <3>0. /\ InBuffer = IF pos < Half THEN pos ELSE pos - Half
            /\ InBuffer' = IF pos' < Half THEN pos' ELSE pos' - Half
        BY <2>2, <1>1, <1>3, <1>6 DEF InBufferIs, Serving
      <3>1. CASE pos + 1 = Half
        <4>1. lost' = lost + Half /\ pos' = Half
          BY <2>2, <3>1, <1>2, <1>3, <1>5 DEF Forgotten
        <4> QED
          BY <3>0, <3>1, <4>1, <1>2
      <3>2. CASE pos + 1 = Size /\ pc = "reload"
        <4>1. lost' = lost + Half /\ pos' = 0
          BY <2>2, <3>2, <1>2, <1>3, <1>5 DEF Forgotten
        <4> QED
          BY <3>0, <3>2, <4>1, <1>2
      <3>3. CASE pos + 1 = Size /\ pc = "halt"
        <4>1. lost' = lost /\ pos' = pos + 1
          BY <2>2, <3>3, <1>2, <1>3, <1>5 DEF Forgotten
        <4> QED
          BY <3>0, <3>3, <4>1, <1>2
      <3>4. CASE pos + 1 # Half /\ pos + 1 # Size
        <4>1. lost' = lost /\ pos' = pos + 1
          BY <2>2, <3>4, <1>2, <1>3, <1>5 DEF Forgotten
        <4> QED
          BY <3>0, <3>4, <4>1, <1>2
      <3> QED
        BY <2>2, <3>1, <3>2, <3>3, <3>4
    <2>3. CASE Serving
      <3>0. lost' = lost /\ Serving' /\ pc # "hand" /\ pc # "halt" /\ pc' # "hand"
        BY <2>3, <1>3, <1>5 DEF Forgotten, Serving
      <3>1. CASE hf
        <4>1. InBuffer = pos /\ InBuffer' = pos'
          BY <2>3, <3>0, <3>1, <1>1, <1>3, <1>6 DEF InBufferIs
        <4> QED
          BY <3>0, <3>1, <4>1, <1>2, <1>3
      <3>2. CASE ~hf /\ tc
        <4>1. ~hf' /\ tc' /\ pos' = pos + 1
          BY <3>2, <1>3
        <4>2. InBuffer = Half + pos /\ InBuffer' = Half + pos'
          BY <2>3, <3>0, <3>2, <4>1, <1>1, <1>6 DEF InBufferIs
        <4> QED
          BY <3>0, <4>1, <4>2, <1>2
      <3>3. CASE ~hf /\ ~tc
        <4>0. InBuffer = IF pos < Half THEN pos ELSE pos - Half
          BY <3>0, <3>3, <1>1 DEF InBufferIs
        <4>1. CASE pos + 1 = Half
          <5>1. hf' /\ pos' = Half
            BY <4>1, <1>2, <1>3
          <5>2. InBuffer' = Half
            BY <5>1, <3>0, <1>6 DEF InBufferIs
          <5> QED
            BY <4>0, <4>1, <5>2, <3>0, <1>2
        <4>2. CASE pos + 1 = Size
          <5>1. ~hf' /\ tc' /\ pos' = 0
            BY <4>2, <3>0, <3>3, <1>2, <1>3
          <5>2. InBuffer' = Half
            BY <5>1, <3>0, <1>6 DEF InBufferIs
          <5> QED
            BY <4>0, <4>2, <5>2, <3>0, <1>2
        <4>3. CASE pos + 1 # Half /\ pos + 1 # Size
          <5>1. ~hf' /\ ~tc' /\ pos' = pos + 1
            BY <4>3, <3>3, <1>3
          <5>2. InBuffer' = IF pos' < Half THEN pos' ELSE pos' - Half
            BY <5>1, <3>0, <1>6 DEF InBufferIs
          <5> QED
            BY <4>0, <4>3, <5>1, <5>2, <3>0, <1>2
        <4> QED
          BY <4>1, <4>2, <4>3
      <3> QED
        BY <3>1, <3>2, <3>3
    <2> QED
      BY <2>1, <2>2, <2>3, <1>0 DEF RxTypeOK, Serving
  <1>8. OnlyWindowLoses'
    <2>1. Len(rcvd) + lost + InBuffer = sent /\ InBuffer \in Nat /\ InBuffer' \in Nat
      BY <1>0, <1>1, <1>6 DEF OnlyWindowLoses, InBufferIs
    <2>2. Len(rcvd') + lost' + InBuffer' = sent'
      <3>1. Len(rcvd') = Len(rcvd) /\ sent' = sent + 1
        BY <1>3
      <3>2. lost' \in Nat /\ lost \in Nat /\ sent \in Nat /\ Len(rcvd) \in Nat
        BY <1>2, <1>5
      <3>3. Len(rcvd) + lost' + InBuffer' = sent + 1
        <4>1. Len(rcvd) + lost' + InBuffer' = Len(rcvd) + (lost' + InBuffer')
          BY <2>1, <3>2
        <4>2. Len(rcvd) + (lost + InBuffer + 1) = (Len(rcvd) + lost + InBuffer) + 1
          BY <2>1, <3>2
        <4> QED
          BY <4>1, <4>2, <2>1, <1>7
      <3> QED
        BY <3>1, <3>3
    <2> QED
      BY <2>2 DEF OnlyWindowLoses
  <1>9. RxTypeOK'
    <2>1. buf' \in [0..Size - 1 -> 0..MaxBytes]
      BY <1>0, <1>2, <1>3 DEF RxTypeOK
    <2>2. pos' \in 0..Size /\ sent' \in 0..MaxBytes
      BY <1>2, <1>3
    <2>3. lost' \in 0..MaxBytes
      BY <1>2, <1>3, <1>5, <1>6, <1>8, <2>2 DEF OnlyWindowLoses, InBufferIs
    <2>4. hf' \in BOOLEAN /\ tc' \in BOOLEAN /\ moved' \in BOOLEAN
      BY DEF DmaByte
    <2> QED
      BY <2>1, <2>2, <2>3, <2>4, <1>0 DEF RxTypeOK, DmaByte
  <1>10. Filled'
    <2> SUFFICES ASSUME NEW i \in 0..Size - 1, i < pos'
                 PROVE  buf'[i] + pos' = sent' + i + 1
      BY DEF Filled
    <2>1. pos' = pos + 1
      BY <1>3
    <2>2. CASE i = pos
      BY <2>1, <2>2, <1>0, <1>2, <1>3 DEF RxTypeOK
    <2>3. CASE i # pos
      <3>1. buf[i] + pos = sent + i + 1
        BY <2>1, <2>3, <1>0, <1>2 DEF Filled
      <3>2. buf'[i] = buf[i] /\ buf[i] \in Nat
        BY <2>3, <1>0, <1>3 DEF RxTypeOK
      <3> QED
        BY <2>1, <3>1, <3>2, <1>2, <1>3
    <2> QED
      BY <2>2, <2>3
  <1>11. SecondHalf'
    <2> SUFFICES ASSUME Serving', tc', NEW k \in 0..Half - 1
                 PROVE  buf'[Half + k] + pos' + Half = sent' + k + 1
      BY DEF SecondHalf
    <2>0. Serving /\ Half + k \in 0..Size - 1
      BY <1>3 DEF Serving
    <2>1. buf[Half + k] \in Nat
      BY <2>0, <1>0 DEF RxTypeOK
    <2>2. CASE tc
      <3>1. pos < Half /\ pos' = pos + 1
        BY <2>0, <2>2, <1>0, <1>3 DEF Flags
      <3>2. buf'[Half + k] = buf[Half + k]
        BY <3>1, <2>0, <1>0, <1>2, <1>3 DEF RxTypeOK
      <3>3. buf[Half + k] + pos + Half = sent + k + 1
        BY <2>0, <2>2, <1>0 DEF SecondHalf
      <3> QED
        BY <3>1, <3>2, <3>3, <2>1, <1>2, <1>3
    <2>3. CASE ~tc
      <3>1. pos + 1 = Size /\ pos' = 0
        BY <2>0, <2>3, <1>3 DEF Serving
      <3>2. CASE Half + k = pos
        <4>1. buf'[Half + k] = sent + 1
          BY <3>2, <2>0, <1>0, <1>3 DEF RxTypeOK
        <4> QED
          BY <3>1, <3>2, <4>1, <1>2, <1>3
      <3>3. CASE Half + k # pos
        <4>1. Half + k < pos
          BY <3>1, <3>3, <1>2
        <4>2. buf[Half + k] + pos = sent + (Half + k) + 1
          BY <4>1, <2>0, <1>0 DEF Filled
        <4>3. buf'[Half + k] = buf[Half + k]
          BY <3>3, <2>0, <1>0, <1>3 DEF RxTypeOK
        <4> QED
          BY <3>1, <4>2, <4>3, <2>1, <1>2, <1>3
      <3> QED
        BY <3>2, <3>3
    <2> QED
      BY <2>2, <2>3
  <1>12. PartReady'
    <2> SUFFICES ASSUME pc' = "hand", NEW k \in 0..Half - 1, k < len'
                 PROVE  buf'[Half + k] + pos' + len' = sent' + k + 1
      BY DEF PartReady
    <2>1. pos = 0 /\ pos' = 1
      BY <1>0, <1>3 DEF Flags
    <2>2. Half + k \in 0..Size - 1 /\ Half + k # pos
      BY <2>1
    <2>3. buf'[Half + k] = buf[Half + k] /\ buf[Half + k] \in Nat
      BY <2>2, <1>0, <1>3 DEF RxTypeOK
    <2>4. buf[Half + k] + pos + len = sent + k + 1
      BY <1>0, <1>3 DEF PartReady
    <2> QED
      BY <2>1, <2>3, <2>4, <1>2, <1>3
  <1>13. Ordered'
    <2>1. HandedInOrder'
      BY <1>0, <1>3 DEF Ordered, HandedInOrder
    <2>2. ASSUME NEW i \in DOMAIN rcvd
          PROVE  rcvd[i] + InBuffer' <= sent'
      <3>1. rcvd[i] + InBuffer <= sent
        BY <1>0 DEF Ordered, Older
      <3>2. rcvd[i] \in Nat
        BY <1>0 DEF RxTypeOK
      <3>3. InBuffer \in Nat /\ InBuffer' \in Nat
        BY <1>1, <1>6 DEF InBufferIs
      <3>4. lost <= lost' /\ lost \in Nat /\ lost' \in Nat /\ sent \in Nat
        BY <1>2, <1>5
      <3>5. InBuffer' <= InBuffer + 1
        BY <3>3, <3>4, <1>7, AtMostOneMore
      <3>6. sent' = sent + 1
        BY <1>3
      <3> QED
        BY <3>1, <3>2, <3>3, <3>4, <3>5, <3>6
    <2> QED
      BY <2>1, <2>2, <1>3 DEF Ordered, Older
  <1> QED
    BY <1>4, <1>8, <1>9, <1>10, <1>11, <1>12, <1>13 DEF DmaInv

\* A step that only moves the handlers on leaves the contents alone: from serving
\* to serving, from the look at the pending bits with none pending to the restart,
\* and inside the restart.
LEMMA QuietKeeps ==
    ASSUME DmaInv,
           UNCHANGED <<buf, pos, hf, tc, len, sent, rcvd, lost>>,
           last' \in 0..Size, moved' \in BOOLEAN,
           \/ Serving /\ Serving'
           \/ Serving /\ ~hf /\ ~tc /\ pc' = "reload"
           \/ pc = "reload" /\ pc' = "halt" /\ moved' = moved
    PROVE  DmaInv'
  <1> USE Sizes
  <1>0. RxTypeOK /\ Flags /\ OnlyWindowLoses /\ Filled /\ SecondHalf /\ PartReady /\ Ordered
    BY DEF DmaInv
  <1>1. RxTypeOK'
    BY <1>0 DEF RxTypeOK, Serving
  <1>2. InBufferIs /\ InBufferIs'
    <2>1. BufTypes /\ BufTypes'
      BY <1>0, TypesOfBuffer DEF BufTypes
    <2> QED
      BY <2>1, InBufferCases, PTL
  <1>3. InBuffer' = InBuffer
    <2>1. CASE Serving /\ Serving'
      <3>1. CASE hf
        BY <2>1, <3>1, <1>2 DEF InBufferIs
      <3>2. CASE ~hf /\ tc
        BY <2>1, <3>2, <1>2 DEF InBufferIs
      <3>3. CASE ~hf /\ ~tc
        BY <2>1, <3>3, <1>2 DEF InBufferIs, Serving
      <3> QED
        BY <3>1, <3>2, <3>3
    <2>2. CASE Serving /\ ~hf /\ ~tc /\ pc' = "reload"
      BY <2>2, <1>2 DEF InBufferIs, Serving
    <2>3. CASE pc = "reload" /\ pc' = "halt"
      BY <2>3, <1>2 DEF InBufferIs, Serving
    <2> QED
      BY <2>1, <2>2, <2>3
  <1>4. Flags'
    BY <1>0 DEF Flags, Serving
  <1>5. OnlyWindowLoses' /\ Ordered'
    BY <1>0, <1>3 DEF OnlyWindowLoses, Ordered, HandedInOrder, Older
  <1>6. Filled'
    BY <1>0 DEF Filled
  <1>7. SecondHalf' /\ PartReady'
    BY <1>0 DEF SecondHalf, PartReady, Serving
  <1> QED
    BY <1>1, <1>4, <1>5, <1>6, <1>7 DEF DmaInv

\* The end of the interrupt handler, the looks of the timer and the steps of the
\* restart up to the stop.
LEMMA HandlerKeeps ==
    DmaInv /\ (IsrEnd \/ TickMoved \/ TickQuiet \/ CheckPending \/ CheckClear \/ ClearReload)
        => DmaInv'
  <1> SUFFICES ASSUME DmaInv,
                      \/ IsrEnd \/ TickMoved \/ TickQuiet \/ CheckPending
                      \/ CheckClear \/ ClearReload
               PROVE  DmaInv'
    OBVIOUS
  <1>0. /\ last \in 0..Size /\ moved \in BOOLEAN
        /\ Size - pos \in 0..Size /\ Size \in 0..Size
    BY Sizes DEF DmaInv, RxTypeOK
  <1>1. CASE IsrEnd
    BY <1>0, <1>1, QuietKeeps DEF IsrEnd, Serving
  <1>2. CASE TickMoved
    BY <1>0, <1>2, QuietKeeps DEF TickMoved, Serving
  <1>3. CASE TickQuiet
    BY <1>0, <1>3, QuietKeeps DEF TickQuiet, Serving
  <1>4. CASE CheckPending
    BY <1>0, <1>4, QuietKeeps DEF CheckPending, Serving
  <1>5. CASE CheckClear
    BY <1>0, <1>5, QuietKeeps DEF CheckClear, Serving
  <1>6. CASE ClearReload
    BY <1>0, <1>6, QuietKeeps DEF ClearReload, Serving
  <1> QED
    BY <1>1, <1>2, <1>3, <1>4, <1>5, <1>6

\* Taking p off both sides.
LEMMA TakeOff ==
    ASSUME NEW x \in Nat, NEW y \in Nat, NEW z \in Nat, NEW p \in Nat,
           x + p = (y + p) + z
    PROVE  x = y + z
  OBVIOUS

\* What is at most b + n leaves room for q of the p = q + n bytes after b.
LEMMA LeavesRoom ==
    ASSUME NEW x \in Nat, NEW b \in Nat, NEW n \in Nat, NEW q \in Nat,
           x <= b + n
    PROVE  x + q <= b + (q + n)
  OBVIOUS

\* A callback gets n bytes, the oldest in the buffer; q of p bytes stay there.
LEMMA HandOver ==
    ASSUME DmaInv,
           NEW n \in Nat, NEW s \in [1..n -> Nat], NEW p \in Nat, NEW q \in Nat,
           InBuffer = p, InBuffer' = q, p = q + n,
           \A k \in 1..n : s[k] + p = sent + k,
           rcvd' = rcvd \o s, sent' = sent, lost' = lost
    PROVE  rcvd' \in Seq(1..MaxBytes) /\ OnlyWindowLoses' /\ Ordered'
  <1>0. /\ sent \in Nat /\ lost \in Nat /\ Len(rcvd) \in Nat /\ sent <= MaxBytes
        /\ rcvd \in Seq(1..MaxBytes)
    BY Sizes DEF DmaInv, RxTypeOK
  <1>1. Len(rcvd) + lost + p = sent
    BY DEF DmaInv, OnlyWindowLoses
  <1>2. \A i \in DOMAIN rcvd : rcvd[i] + p <= sent
    BY DEF DmaInv, Ordered, Older
  <1>3. \A i, j \in DOMAIN rcvd : i < j => rcvd[i] < rcvd[j]
    BY DEF DmaInv, Ordered, HandedInOrder
  <1>4. PICK b \in Nat : sent = b + p
    <2>1. Len(rcvd) + lost \in Nat /\ sent = (Len(rcvd) + lost) + p
      BY <1>0, <1>1
    <2> QED
      BY <2>1
  <1>5. \A i \in DOMAIN rcvd : rcvd[i] <= b
    <2> SUFFICES ASSUME NEW i \in DOMAIN rcvd PROVE rcvd[i] <= b
      OBVIOUS
    <2>1. rcvd[i] \in Nat /\ rcvd[i] + p <= sent
      BY <1>0, <1>2, Sizes
    <2> QED
      BY <2>1, <1>0, <1>4
  <1>6. \A k \in 1..n : s[k] = b + k
    <2> SUFFICES ASSUME NEW k \in 1..n PROVE s[k] = b + k
      OBVIOUS
    <2>1. s[k] \in Nat /\ k \in Nat /\ s[k] + p = (b + p) + k
      BY <1>4
    <2> QED
      BY ONLY <2>1, TakeOff, b \in Nat, p \in Nat
  <1>7. b + n <= MaxBytes
    BY <1>0, <1>4, Sizes
  <1>8. /\ rcvd \o s \in Seq(1..MaxBytes)
        /\ Len(rcvd \o s) = Len(rcvd) + n
        /\ \A i \in DOMAIN (rcvd \o s) : (rcvd \o s)[i] <= b + n
        /\ \A i, j \in DOMAIN (rcvd \o s) : i < j => (rcvd \o s)[i] < (rcvd \o s)[j]
    BY <1>0, <1>3, <1>4, <1>5, <1>6, <1>7, AppendRun
  <1>9. OnlyWindowLoses'
    <2>1. Len(rcvd') + lost' + q = sent'
      BY <1>0, <1>1, <1>8
    <2> QED
      BY <2>1 DEF OnlyWindowLoses
  <1>10. HandedInOrder'
    BY <1>8 DEF HandedInOrder
  <1>11. ASSUME NEW i \in DOMAIN rcvd'
         PROVE  rcvd'[i] + q <= sent'
    <2>1. rcvd'[i] <= b + n
      BY <1>8
    <2>2. rcvd' \in Seq(1..MaxBytes) /\ i \in 1..Len(rcvd')
      BY <1>8
    <2>3. rcvd'[i] \in Nat
      BY <2>2, ElementOfSeq, Sizes
    <2> QED
      <3>1. rcvd'[i] + q <= b + (q + n)
        BY ONLY <2>1, <2>3, LeavesRoom, b \in Nat, n \in Nat, q \in Nat
      <3> QED
        BY <3>1, <1>4
  <1> QED
    BY <1>8, <1>9, <1>10, <1>11 DEF Ordered, Older

\* The half of the interrupt is the oldest in the buffer.
LEMMA InterruptKeeps == DmaInv /\ IsrEnter => DmaInv'
  <1> SUFFICES ASSUME DmaInv, IsrEnter PROVE DmaInv'
    OBVIOUS
  <1> USE Sizes
  <1>0. RxTypeOK /\ Flags /\ OnlyWindowLoses /\ Filled /\ SecondHalf /\ PartReady /\ Ordered
    BY DEF DmaInv
  <1>1. /\ pos \in Nat /\ len \in Nat /\ sent \in Nat /\ pos < Size
        /\ Serving /\ Serving' /\ pc = "idle" /\ pc' = "isr"
        /\ buf \in [0..Size - 1 -> 0..MaxBytes]
    BY <1>0 DEF RxTypeOK, Flags, IsrEnter, Serving
  <1>2. /\ ~hf' /\ ~tc' /\ (hf \/ tc)
        /\ rcvd' = rcvd \o FullHalf
        /\ UNCHANGED <<buf, pos, last, moved, len, sent, lost>>
    BY <1>0 DEF IsrEnter, Flags
  <1>3. InBufferIs /\ InBufferIs'
    <2>1. BufTypes /\ BufTypes'
      BY <1>0, TypesOfBuffer DEF BufTypes, IsrEnter
    <2> QED
      BY <2>1, InBufferCases, PTL
  <1>4. InBuffer' = IF pos < Half THEN pos ELSE pos - Half
    BY <1>1, <1>2, <1>3 DEF InBufferIs
  <1>5. rcvd' \in Seq(1..MaxBytes) /\ OnlyWindowLoses' /\ Ordered'
    <2>1. CASE hf
      <3>1. InBuffer = pos /\ Half <= pos
        BY <2>1, <1>0, <1>1, <1>3 DEF InBufferIs, Flags
      <3>2. InBuffer' = pos - Half /\ pos - Half \in Nat /\ pos = (pos - Half) + Half
        BY <3>1, <1>1, <1>4
      <3>3. FullHalf = [k \in 1..Half |-> buf[0 + k - 1]]
        BY <2>1 DEF FullHalf, Piece
      <3>4. \A k \in 1..Half : FullHalf[k] \in Nat /\ FullHalf[k] + pos = sent + k
        <4> SUFFICES ASSUME NEW k \in 1..Half
                     PROVE  FullHalf[k] \in Nat /\ FullHalf[k] + pos = sent + k
          OBVIOUS
        <4>1. k - 1 \in 0..Size - 1 /\ k - 1 < pos /\ 0 + k - 1 = k - 1
          BY <3>1, <1>1
        <4>2. FullHalf[k] = buf[k - 1]
          BY <3>3, <4>1
        <4>3. buf[k - 1] \in Nat /\ buf[k - 1] + pos = sent + (k - 1) + 1
          BY <4>1, <1>0, <1>1 DEF Filled
        <4> QED
          BY <4>2, <4>3, <1>1
      <3>5. FullHalf \in [1..Half -> Nat]
        BY <3>3, <3>4
      <3> QED
        <4>1. /\ Half \in Nat /\ FullHalf \in [1..Half -> Nat]
              /\ pos \in Nat /\ pos - Half \in Nat
          BY <3>2, <3>5, <1>1
        <4>2. InBuffer = pos /\ InBuffer' = pos - Half /\ pos = (pos - Half) + Half
          BY <3>1, <3>2
        <4>3. \A k \in 1..Half : FullHalf[k] + pos = sent + k
          BY <3>4
        <4>4. rcvd' = rcvd \o FullHalf /\ sent' = sent /\ lost' = lost
          BY <1>2
        <4> QED
          BY <4>1, <4>2, <4>3, <4>4, HandOver
    <2>2. CASE ~hf /\ tc
      <3>1. InBuffer = Half + pos /\ pos < Half /\ InBuffer' = pos
        BY <2>2, <1>0, <1>1, <1>3, <1>4 DEF InBufferIs, Flags
      <3>2. Half + pos \in Nat /\ Half + pos = pos + Half
        BY <1>1
      <3>3. FullHalf = [k \in 1..Half |-> buf[Half + k - 1]]
        BY <2>2 DEF FullHalf, Piece
      <3>4. \A k \in 1..Half : FullHalf[k] \in Nat /\ FullHalf[k] + (Half + pos) = sent + k
        <4> SUFFICES ASSUME NEW k \in 1..Half
                     PROVE  FullHalf[k] \in Nat /\ FullHalf[k] + (Half + pos) = sent + k
          OBVIOUS
        <4>1. /\ k - 1 \in 0..Half - 1 /\ Half + k - 1 = Half + (k - 1)
              /\ Half + (k - 1) \in 0..Size - 1
          OBVIOUS
        <4>2. FullHalf[k] = buf[Half + (k - 1)]
          BY <3>3, <4>1
        <4>3. /\ buf[Half + (k - 1)] \in Nat
              /\ buf[Half + (k - 1)] + pos + Half = sent + (k - 1) + 1
          <5>1. buf[Half + (k - 1)] \in Nat
            BY <4>1, <1>1
          <5>2. buf[Half + (k - 1)] + pos + Half = sent + (k - 1) + 1
            BY <2>2, <4>1, <1>0, <1>1 DEF SecondHalf
          <5> QED
            BY <5>1, <5>2
        <4> QED
          BY <4>2, <4>3, <1>1
      <3>5. FullHalf \in [1..Half -> Nat]
        BY <3>3, <3>4
      <3> QED
        <4>1. /\ Half \in Nat /\ FullHalf \in [1..Half -> Nat]
              /\ Half + pos \in Nat /\ pos \in Nat
          BY <3>2, <3>5, <1>1
        <4>2. InBuffer = Half + pos /\ InBuffer' = pos /\ Half + pos = pos + Half
          BY <3>1, <3>2
        <4>3. \A k \in 1..Half : FullHalf[k] + (Half + pos) = sent + k
          BY <3>4
        <4>4. rcvd' = rcvd \o FullHalf /\ sent' = sent /\ lost' = lost
          BY <1>2
        <4> QED
          BY <4>1, <4>2, <4>3, <4>4, HandOver
    <2> QED
      BY <2>1, <2>2, <1>2
  <1>6. RxTypeOK'
    BY <1>0, <1>5 DEF RxTypeOK, IsrEnter
  <1>7. Flags'
    BY <1>0, <1>1, <1>2 DEF Flags, Serving
  <1>8. Filled' /\ SecondHalf' /\ PartReady'
    BY <1>0, <1>1, <1>2 DEF Filled, SecondHalf, PartReady
  <1> QED
    BY <1>5, <1>6, <1>7, <1>8 DEF DmaInv

\* The restart moves the part that has arrived to where the callback expects it.
LEMMA RestartKeeps == DmaInv /\ Restart => DmaInv'
  <1> SUFFICES ASSUME DmaInv, Restart PROVE DmaInv'
    OBVIOUS
  <1> USE Sizes
  <1>0. RxTypeOK /\ Flags /\ OnlyWindowLoses /\ Filled /\ SecondHalf /\ PartReady /\ Ordered
    BY DEF DmaInv
  <1>1. /\ pos \in Nat /\ pos <= Size /\ sent \in Nat /\ pc = "halt" /\ pc' = "hand"
        /\ buf \in [0..Size - 1 -> 0..MaxBytes]
    BY <1>0 DEF RxTypeOK, Restart
  <1>2. /\ ~hf' /\ ~tc' /\ pos' = 0 /\ last' = Size
        /\ len' = IF pos < Half THEN pos ELSE pos - Half
        /\ UNCHANGED <<moved, sent, rcvd, lost>>
    BY DEF Restart
  <1>3. InBufferIs /\ InBufferIs'
    <2>0. pos' \in Nat /\ len' \in Nat
      BY <1>1, <1>2
    <2>1. BufTypes /\ BufTypes'
      BY <2>0, <1>0, TypesOfBuffer DEF BufTypes, Restart
    <2> QED
      BY <2>1, InBufferCases, PTL
  <1>4. InBuffer' = InBuffer
    <2>1. InBuffer = IF pos < Half THEN pos ELSE pos - Half
      BY <1>1, <1>3 DEF InBufferIs, Serving
    <2>2. InBuffer' = len' + 0
      BY <1>1, <1>2, <1>3 DEF InBufferIs
    <2>3. len' + 0 = len'
      BY <1>1, <1>2
    <2> QED
      BY <2>1, <2>2, <2>3, <1>2
  <1>5. OnlyWindowLoses' /\ Ordered'
    BY <1>0, <1>2, <1>4 DEF OnlyWindowLoses, Ordered, HandedInOrder, Older
  <1>6. /\ buf' \in [0..Size - 1 -> 0..MaxBytes]
        /\ \A k \in 0..Half - 1 : k < len' => buf'[Half + k] + len' = sent + k + 1
    <2>1. CASE pos < Half
      <3>1. buf' = Copied(pos) /\ len' = pos
        BY <2>1, <1>2 DEF Restart
      <3>2. \A i \in 0..Size - 1 : Half <= i /\ i < Half + pos => i - Half \in 0..Size - 1
        OBVIOUS
      <3>3. buf' \in [0..Size - 1 -> 0..MaxBytes]
        BY <3>1, <3>2, <1>1 DEF Copied
      <3>4. ASSUME NEW k \in 0..Half - 1, k < pos
            PROVE  buf'[Half + k] + pos = sent + k + 1
        <4>1. /\ Half + k \in 0..Size - 1 /\ Half <= Half + k /\ Half + k < Half + pos
              /\ (Half + k) - Half = k /\ k \in 0..Size - 1
          BY <3>4, <1>1
        <4>2. buf'[Half + k] = buf[k]
          BY <3>1, <4>1 DEF Copied
        <4>3. buf[k] + pos = sent + k + 1
          BY <3>4, <4>1, <1>0 DEF Filled
        <4> QED
          BY <4>2, <4>3
      <3> QED
        BY <3>1, <3>3, <3>4
    <2>2. CASE ~(pos < Half)
      <3>1. buf' = buf /\ len' = pos - Half
        BY <2>2, <1>2 DEF Restart
      <3>2. ASSUME NEW k \in 0..Half - 1, k < pos - Half
            PROVE  buf[Half + k] + (pos - Half) = sent + k + 1
        <4>1. Half + k \in 0..Size - 1 /\ Half + k < pos
          BY <3>2, <2>2, <1>1
        <4>2. buf[Half + k] + pos = sent + (Half + k) + 1 /\ buf[Half + k] \in Nat
          BY <4>1, <1>0, <1>1 DEF Filled
        <4> QED
          BY <4>2, <1>1
      <3> QED
        BY <3>1, <3>2, <1>1
    <2> QED
      BY <2>1, <2>2
  <1>7. RxTypeOK'
    <2>1. pos' \in 0..Size /\ last' \in 0..Size /\ len' \in 0..Half
      BY <1>1, <1>2
    <2> QED
      BY <2>1, <1>0, <1>6 DEF RxTypeOK, Restart
  <1>8. Flags' /\ SecondHalf'
    BY <1>1, <1>2 DEF Flags, SecondHalf, Serving
  <1>9. Filled'
    BY <1>2 DEF Filled
  <1>10. PartReady'
    <2> SUFFICES ASSUME NEW k \in 0..Half - 1, k < len'
                 PROVE  buf'[Half + k] + pos' + len' = sent' + k + 1
      BY DEF PartReady
    <2>1. Half + k \in 0..Size - 1
      OBVIOUS
    <2>2. buf'[Half + k] \in Nat
      BY <2>1, <1>6
    <2>3. buf'[Half + k] + pos' = buf'[Half + k]
      BY <2>2, <1>2
    <2> QED
      BY <2>3, <1>2, <1>6
  <1> QED
    BY <1>5, <1>7, <1>8, <1>9, <1>10 DEF DmaInv

\* The timeout callback gets that part.
LEMMA HandKeeps == DmaInv /\ Hand => DmaInv'
  <1> SUFFICES ASSUME DmaInv, Hand PROVE DmaInv'
    OBVIOUS
  <1> USE Sizes
  <1>0. RxTypeOK /\ Flags /\ OnlyWindowLoses /\ Filled /\ SecondHalf /\ PartReady /\ Ordered
    BY DEF DmaInv
  <1>1. /\ pos \in Nat /\ len \in Nat /\ sent \in Nat /\ len <= Half
        /\ pc = "hand" /\ pc' = "idle"
        /\ ~hf /\ ~tc /\ pos < Half
        /\ buf \in [0..Size - 1 -> 0..MaxBytes]
    BY <1>0 DEF RxTypeOK, Flags, Hand
  <1>2. /\ rcvd' = rcvd \o Part /\ ~moved'
        /\ UNCHANGED <<buf, pos, hf, tc, last, len, sent, lost>>
    BY DEF Hand
  <1>3. InBufferIs /\ InBufferIs'
    <2>1. BufTypes /\ BufTypes'
      BY <1>0, TypesOfBuffer DEF BufTypes, Hand
    <2> QED
      BY <2>1, InBufferCases, PTL
  <1>4. InBuffer = len + pos /\ InBuffer' = pos
    <2>1. InBuffer = len + pos
      BY <1>1, <1>3 DEF InBufferIs
    <2>2. InBuffer' = IF pos' < Half THEN pos' ELSE pos' - Half
      BY <1>1, <1>2, <1>3 DEF InBufferIs
    <2> QED
      BY <2>1, <2>2, <1>1, <1>2
  <1>5. rcvd' \in Seq(1..MaxBytes) /\ OnlyWindowLoses' /\ Ordered'
    <2>1. Part = [k \in 1..len |-> buf[Half + k - 1]]
      BY DEF Part, Piece
    <2>2. \A k \in 1..len : Part[k] \in Nat /\ Part[k] + (len + pos) = sent + k
      <3> SUFFICES ASSUME NEW k \in 1..len
                   PROVE  Part[k] \in Nat /\ Part[k] + (len + pos) = sent + k
        OBVIOUS
      <3>1. /\ k - 1 \in 0..Half - 1 /\ k - 1 < len /\ Half + k - 1 = Half + (k - 1)
            /\ Half + (k - 1) \in 0..Size - 1
        BY <1>1
      <3>2. Part[k] = buf[Half + (k - 1)]
        BY <2>1, <3>1
      <3>3. buf[Half + (k - 1)] \in Nat
        BY <3>1, <1>1
      <3>4. buf[Half + (k - 1)] + pos + len = sent + (k - 1) + 1
        BY <3>1, <1>0, <1>1 DEF PartReady
      <3> QED
        BY <3>2, <3>3, <3>4, <1>1
    <2>3. Part \in [1..len -> Nat]
      BY <2>1, <2>2
    <2>4. len \in Nat /\ len + pos \in Nat /\ pos \in Nat /\ len + pos = pos + len
      BY <1>1
    <2>5. \A k \in 1..len : Part[k] + (len + pos) = sent + k
      BY <2>2
    <2>6. rcvd' = rcvd \o Part /\ sent' = sent /\ lost' = lost
      BY <1>2
    <2> QED
      BY <2>3, <2>4, <2>5, <2>6, <1>4, HandOver
  <1>6. RxTypeOK'
    BY <1>0, <1>5 DEF RxTypeOK, Hand
  <1>7. Flags'
    BY <1>1, <1>2 DEF Flags, Serving
  <1>8. Filled' /\ SecondHalf' /\ PartReady'
    BY <1>0, <1>1, <1>2 DEF Filled, SecondHalf, PartReady
  <1> QED
    BY <1>5, <1>6, <1>7, <1>8 DEF DmaInv

-----------------------------------------------------------------------------
(* The results.                                                            *)

\* No step of DMA, interrupt or timer disturbs the invariant.
LEMMA DmaInvInductive == DmaInv /\ [DmaNext]_dmaVars => DmaInv'
  <1> SUFFICES ASSUME DmaInv, [DmaNext]_dmaVars PROVE DmaInv'
    OBVIOUS
  <1>1. CASE UNCHANGED dmaVars
    BY <1>1 DEF dmaVars, DmaInv, RxTypeOK, Flags, OnlyWindowLoses, Filled, SecondHalf,
                PartReady, Ordered, HandedInOrder, Older, InBuffer, Serving
  <1>2. CASE DmaNext
    BY <1>2, ByteKeeps, InterruptKeeps, HandlerKeeps, RestartKeeps, HandKeeps DEF DmaNext
  <1> QED
    BY <1>1, <1>2

\* The invariant holds throughout.
LEMMA DmaInvAlways == DmaSpec => []DmaInv
  BY InitKeeps, DmaInvInductive, PTL DEF DmaSpec

\* uart_acts_dma_recv_isr and the receive timer together hand over every byte at
\* most once and in the order of arrival, whatever the size of the buffer.
THEOREM DmaHandsInOrder == DmaSpec => []HandedInOrder
  <1>1. DmaInv => HandedInOrder
    BY DEF DmaInv, Ordered
  <1> QED
    BY <1>1, DmaInvAlways, PTL

\* uart_acts_dma_timer_rx_transfer_restart is the only place that loses bytes, and
\* only those of a half completed after its look at the pending bits.
THEOREM OnlyRestartLoses == DmaSpec => []OnlyWindowLoses
  <1>1. DmaInv => OnlyWindowLoses
    BY DEF DmaInv
  <1> QED
    BY <1>1, DmaInvAlways, PTL

\* The driver stays inside its buffer: position, length and remaining length keep
\* their ranges, and the callbacks only ever get bytes that arrived.
THEOREM DmaTypeCorrect == DmaSpec => []RxTypeOK
  <1>1. DmaInv => RxTypeOK
    BY DEF DmaInv
  <1> QED
    BY <1>1, DmaInvAlways, PTL
=============================================================================
