---------------------------- MODULE UartRxProofs ----------------------------
(***************************************************************************)
(* The receive interrupt path of UartRx for every buffer size, latency and *)
(* burst length: as long as the DMA cannot lap the handler (NoLap), every  *)
(* byte of the line is handed to gsm_hw_layer_uart_fill_rx once and in     *)
(* order.  NoLap is what the two ports need: with the half-transfer        *)
(* interrupt a latency below half a buffer, without it bursts that, with   *)
(* one latency added, stay below the buffer.                               *)
(***************************************************************************)
EXTENDS UartRx, SequenceTheorems, TLAPS

NoLap ==
  \/ HalfIT /\ MaxLag < Half
  \/ MaxBurst + MaxLag < Size

\* Distance the DMA is ahead of the last position the callback saw.
Ahead(a, b) == IF b >= a THEN b - a ELSE b + Size - a

\* Offset of the DMA position within its half of the buffer.
InHalf(p) == IF p >= Half THEN p - Half ELSE p

PositionsTellBacklog == Backlog = Ahead(old_pos, pos)

FreshIntact ==
  \A k \in 0..(Backlog - 1) : rx_buffer[Wrap(old_pos + k)] = Len(out) + k + 1

\* No boundary interrupt pending: the callback has been here since the DMA
\* entered this half.  Pending: half a buffer and the bytes of one latency.
LatencyBound ==
  HalfIT => /\ ht \/ tc => Backlog <= Half + lag
            /\ ~(ht \/ tc) => Backlog <= InHalf(pos)

\* Nothing older than the current burst waits unless its idle interrupt does.
BurstBound ==
  /\ ~idle => Backlog <= burst
  /\ idle => Backlog <= MaxBurst + lag

LagCounts == ~Irq => lag = 0

UartInv ==
  /\ UartTypeOK
  /\ PositionsTellBacklog
  /\ FreshIntact
  /\ LineInOrder
  /\ LatencyBound
  /\ BurstBound
  /\ LagCounts

-----------------------------------------------------------------------------
LEMMA SizeFacts == /\ Half \in Nat /\ Half > 0
                   /\ Size = Half + Half /\ Size \in Nat /\ Size > 1
                   /\ MaxLag \in Nat /\ MaxBurst \in Nat
  BY UartAssumption DEF Size

LEMMA AheadRange ==
  ASSUME NEW a \in Index, NEW b \in Index
  PROVE  Ahead(a, b) \in 0..(Size - 1)
  BY SizeFacts DEF Index, Ahead

LEMMA AheadSucc ==
  ASSUME NEW a \in Index, NEW b \in Index, Ahead(a, b) + 1 < Size
  PROVE  /\ Wrap(b + 1) \in Index
         /\ Ahead(a, Wrap(b + 1)) = Ahead(a, b) + 1
  BY SizeFacts DEF Index, Ahead, Wrap

\* The slot the DMA writes is none of the slots still to be fetched.
LEMMA WriteMissesFresh ==
  ASSUME NEW a \in Index, NEW b \in Index, NEW k \in Nat, k < Ahead(a, b)
  PROVE  /\ Wrap(a + k) \in Index
         /\ Wrap(a + k) # b
  BY SizeFacts DEF Index, Ahead, Wrap

LEMMA WriteIsNext ==
  ASSUME NEW a \in Index, NEW b \in Index
  PROVE  Wrap(a + Ahead(a, b)) = b
  BY SizeFacts DEF Index, Ahead, Wrap

LEMMA NotNegative ==
  ASSUME NEW a \in Nat, NEW b \in Nat
  PROVE  0 <= a /\ 0 <= a + b
  OBVIOUS

LEMMA InHalfRange ==
  ASSUME NEW p \in Index
  PROVE  InHalf(p) \in Nat /\ InHalf(p) < Half
  BY SizeFacts DEF Index, InHalf

\* Appending the next n numbers to 1, ..., m gives 1, ..., m + n.
LEMMA AppendRun ==
  ASSUME NEW s \in Seq(Nat), NEW n \in Nat,
         \A i \in 1..Len(s) : s[i] = i
  PROVE  /\ s \o Line!Run(Len(s), n) \in Seq(Nat)
         /\ Len(s \o Line!Run(Len(s), n)) = Len(s) + n
         /\ \A i \in 1..(Len(s) + n) : (s \o Line!Run(Len(s), n))[i] = i
<1> DEFINE r == Line!Run(Len(s), n)
           t == s \o r
<1>1. /\ r \in Seq(Nat) /\ Len(r) = n /\ Len(s) \in Nat
      /\ \A i \in 1..n : r[i] = Len(s) + i
  BY DEF Line!Run
<1> HIDE DEF r
<1>2. /\ t \in Seq(Nat) /\ Len(t) = Len(s) + n
  BY <1>1
<1>3. ASSUME NEW i \in 1..(Len(s) + n)
      PROVE  t[i] = i
  <2>1. CASE i <= Len(s)
    <3>1. t[i] = s[i] /\ i \in 1..Len(s)
      BY <1>1, <2>1
    <3> QED BY <3>1
  <2>2. CASE i > Len(s)
    <3>1. t[i] = r[i - Len(s)] /\ i - Len(s) \in 1..n
      BY <1>1, <2>2
    <3>2. r[i - Len(s)] = Len(s) + (i - Len(s))
      BY <1>1, <3>1
    <3> QED BY <1>1, <3>1, <3>2
  <2> QED BY <1>1, <2>1, <2>2
<1> QED BY <1>2, <1>3 DEF r

\* The callback is never ahead of the DMA and less than one buffer behind.
LEMMA BacklogNat == UartInv => Backlog \in 0..(Size - 1)
BY AheadRange DEF UartInv, UartTypeOK, PositionsTellBacklog

-----------------------------------------------------------------------------
\* What the callback passes to fill_rx is the run of bytes that come next.
LEMMA FreshIsRun ==
  ASSUME UartInv
  PROVE  /\ Backlog \in Nat
         /\ Fresh = Line!Run(Len(out), Backlog)
<1>1. /\ rx_buffer \in [Index -> Nat] /\ pos \in Index /\ old_pos \in Index
      /\ received \in Nat /\ out \in Seq(Nat) /\ Len(out) \in Nat
      /\ Backlog = Ahead(old_pos, pos)
      /\ Backlog \in Nat
  BY AheadRange, SizeFacts DEF UartInv, UartTypeOK, PositionsTellBacklog
<1>2. ASSUME NEW k \in 0..(Backlog - 1)
      PROVE  rx_buffer[Wrap(old_pos + k)] = Len(out) + k + 1
  BY DEF UartInv, FreshIntact
<1> DEFINE B == Backlog
<1>3. CASE pos >= old_pos
  <2>1. B = pos - old_pos
    BY <1>1, <1>3 DEF Ahead
  <2>2. ASSUME NEW i \in 1..B
        PROVE  rx_buffer[old_pos + i - 1] = Len(out) + i
    <3>1. i - 1 \in 0..(B - 1) /\ i \in Nat
      BY <1>1
    <3>2. Wrap(old_pos + (i - 1)) = old_pos + i - 1
      BY <1>1, <2>1, <3>1, SizeFacts DEF Wrap, Index
    <3>3. rx_buffer[Wrap(old_pos + (i - 1))] = Len(out) + (i - 1) + 1
      BY <1>2, <3>1
    <3> QED BY <1>1, <3>1, <3>2, <3>3
  <2>3. Fresh = [i \in 1..B |-> rx_buffer[old_pos + i - 1]]
    BY <1>3, <2>1 DEF Fresh, Block
  <2> QED BY <1>1, <2>2, <2>3 DEF Line!Run
<1>4. CASE ~(pos >= old_pos)
  <2> DEFINE u == Size - old_pos
             x == Block(old_pos, Size)
             y == Block(0, pos)
  <2>1. B = u + pos /\ u \in Nat /\ pos \in Nat /\ old_pos \in Nat
    BY <1>1, <1>4, SizeFacts DEF Ahead, Index
  <2>2. x \in Seq(Nat) /\ Len(x) = u /\ \A i \in 1..u : x[i] = rx_buffer[old_pos + i - 1]
    <3>1. \A i \in 1..u : old_pos + i - 1 \in Index
      BY <1>1, <2>1, SizeFacts DEF Index
    <3>2. \A i \in 1..u : rx_buffer[old_pos + i - 1] \in Nat
      BY <1>1, <3>1
    <3> QED BY <2>1, <3>2 DEF Block
  <2>3. y \in Seq(Nat) /\ Len(y) = pos /\ \A i \in 1..pos : y[i] = rx_buffer[i - 1]
    <3>1. \A i \in 1..pos : 0 + i - 1 = i - 1 /\ i - 1 \in Index
      BY <1>1, <2>1, SizeFacts DEF Index
    <3>2. y = [i \in 1..pos |-> rx_buffer[i - 1]]
      BY <3>1, <2>1 DEF Block
    <3>3. \A i \in 1..pos : rx_buffer[i - 1] \in Nat
      BY <1>1, <3>1
    <3> HIDE DEF y
    <3> QED BY <2>1, <3>2, <3>3
  <2>4. Fresh = x \o y
    BY <1>4 DEF Fresh
  <2> HIDE DEF x, y
  <2>5. /\ Fresh \in Seq(Nat) /\ Len(Fresh) = B
        /\ \A i \in 1..B : Fresh[i] = IF i <= u THEN x[i] ELSE y[i - u]
    <3>1. x \in Seq(Nat) /\ y \in Seq(Nat)
      BY <2>2, <2>3
    <3>2. /\ x \o y \in Seq(Nat)
          /\ Len(x \o y) = Len(x) + Len(y)
          /\ \A i \in 1..(Len(x) + Len(y)) :
               (x \o y)[i] = IF i <= Len(x) THEN x[i] ELSE y[i - Len(x)]
      BY <3>1, ConcatProperties
    <3>3. Len(x) = u /\ Len(y) = pos /\ B = u + pos
      BY <2>1, <2>2, <2>3
    <3> HIDE DEF B, u
    <3> QED BY <2>4, <3>2, <3>3
  <2>6. ASSUME NEW i \in 1..B
        PROVE  Fresh[i] = Len(out) + i
    <3>1. /\ i - 1 \in 0..(B - 1) /\ i \in Nat
          /\ rx_buffer[Wrap(old_pos + (i - 1))] = Len(out) + i
      <4>1. i - 1 \in 0..(B - 1) /\ i \in Nat
        BY <1>1
      <4>2. rx_buffer[Wrap(old_pos + (i - 1))] = Len(out) + (i - 1) + 1
        BY <1>2, <4>1
      <4> QED BY <1>1, <4>1, <4>2
    <3>2. CASE i <= u
      <4>1. Fresh[i] = x[i] /\ i \in 1..u
        BY <2>1, <2>5, <3>1, <3>2
      <4>2. Wrap(old_pos + (i - 1)) = old_pos + i - 1
        BY <2>1, <3>1, <3>2, SizeFacts DEF Wrap
      <4> QED BY <2>2, <3>1, <4>1, <4>2
    <3>3. CASE i > u
      <4>1. Fresh[i] = y[i - u] /\ i - u \in 1..pos
        BY <2>1, <2>5, <3>1, <3>3
      <4>2. Wrap(old_pos + (i - 1)) = (i - u) - 1
        BY <2>1, <3>1, <3>3, SizeFacts DEF Wrap
      <4> QED BY <2>3, <3>1, <4>1, <4>2
    <3> QED BY <2>1, <3>1, <3>2, <3>3
  <2>7. Fresh = [i \in 1..B |-> Len(out) + i]
    BY <2>5, <2>6
  <2> QED BY <1>1, <2>7 DEF Line!Run
<1> QED BY <1>1, <1>3, <1>4

\* The effect of usart1_rx_complete_callback(true): everything is fetched.
LEMMA CallbackFetchesAll ==
  ASSUME UartInv, RxComplete, received' = received
  PROVE  /\ old_pos' = pos /\ pos \in Index
         /\ out' = out \o Line!Run(Len(out), Backlog)
         /\ out' \in Seq(Nat)
         /\ Len(out') = received
         /\ Backlog' = 0
         /\ LineInOrder'
<1>1. out \in Seq(Nat) /\ received \in Nat /\ pos \in Index /\ Len(out) \in Nat
  BY DEF UartInv, UartTypeOK
<1>2. Backlog \in Nat /\ out' = out \o Line!Run(Len(out), Backlog) /\ old_pos' = pos
  BY FreshIsRun DEF RxComplete
<1>3. /\ out' \in Seq(Nat)
      /\ Len(out') = Len(out) + Backlog
      /\ \A i \in 1..(Len(out) + Backlog) : out'[i] = i
  BY <1>1, <1>2, AppendRun DEF UartInv, LineInOrder
<1>4. Len(out) + Backlog = received
  BY <1>1 DEF Backlog
<1> QED BY <1>1, <1>2, <1>3, <1>4 DEF Backlog, LineInOrder

-----------------------------------------------------------------------------
LEMMA InitUart == UartInit => UartInv
<1> SUFFICES ASSUME UartInit PROVE UartInv
  OBVIOUS
<1>1. /\ 0 \in Index /\ rx_buffer \in [Index -> Nat]
  BY SizeFacts DEF UartInit, Index
<1>2. /\ Len(out) = 0 /\ received = 0 /\ out \in Seq(Nat)
  BY DEF UartInit
<1>3. Backlog = 0
  BY <1>2 DEF Backlog
<1>4. UartTypeOK
  BY <1>1, <1>2, SizeFacts DEF UartInit, UartTypeOK
<1>5. PositionsTellBacklog /\ FreshIntact /\ LineInOrder
  BY <1>2, <1>3 DEF UartInit, PositionsTellBacklog, FreshIntact, LineInOrder, Ahead
<1>6. LatencyBound /\ BurstBound /\ LagCounts
  BY <1>1, <1>3, SizeFacts
  DEF UartInit, LatencyBound, BurstBound, LagCounts, InHalf
<1> QED BY <1>4, <1>5, <1>6 DEF UartInv

LEMMA RxByteStep ==
  ASSUME NoLap, UartInv, RxByte
  PROVE  UartInv'
<1>1. /\ rx_buffer \in [Index -> Nat] /\ pos \in Index /\ old_pos \in Index
      /\ received \in Nat /\ out \in Seq(Nat) /\ Len(out) \in Nat
      /\ lag \in 0..MaxLag /\ burst \in 0..MaxBurst
      /\ pos \in Nat
      /\ {enabled, ongoing, ht, tc, te, idle} \subseteq BOOLEAN
  BY SizeFacts DEF UartInv, UartTypeOK, Index
<1>2. /\ received' = received + 1
      /\ rx_buffer' = [rx_buffer EXCEPT ![pos] = received + 1]
      /\ pos' = Wrap(pos + 1)
      /\ ht' = (ht \/ pos + 1 = Half)
      /\ tc' = (tc \/ pos + 1 = Size)
      /\ burst' = burst + 1
      /\ lag' = IF Irq THEN lag + 1 ELSE 0
      /\ burst < MaxBurst
      /\ Irq => lag < MaxLag
      /\ UNCHANGED <<old_pos, enabled, ongoing, te, idle, out>>
  BY DEF RxByte
<1>3. /\ Backlog = Ahead(old_pos, pos)
      /\ Backlog \in Nat
      /\ Backlog = received - Len(out)
      /\ Backlog' = Backlog + 1
  <2>1. Backlog = Ahead(old_pos, pos)
    BY DEF UartInv, PositionsTellBacklog
  <2>2. Backlog \in Nat
    BY <1>1, <2>1, AheadRange, SizeFacts
  <2> QED BY <1>1, <1>2, <2>1, <2>2 DEF Backlog
<1>4. lag' \in 0..MaxLag /\ burst' \in 0..MaxBurst
  BY <1>1, <1>2, SizeFacts
<1>5. LatencyBound'
  <2> SUFFICES ASSUME HalfIT
               PROVE  /\ ht' \/ tc' => Backlog' <= Half + lag'
                      /\ ~(ht' \/ tc') => Backlog' <= InHalf(pos')
    BY DEF LatencyBound
  <2>1. /\ ht \/ tc => Backlog <= Half + lag
        /\ ~(ht \/ tc) => Backlog <= InHalf(pos)
    BY DEF UartInv, LatencyBound
  <2>2. CASE ht \/ tc
    <3>1. Irq /\ (ht' \/ tc')
      BY <1>2, <2>2 DEF Irq, DmaIrq
    <3>2. lag' = lag + 1
      BY <1>2, <3>1
    <3> QED BY <1>1, <1>3, <2>1, <2>2, <3>1, <3>2, SizeFacts
  <2>3. CASE ~(ht \/ tc) /\ (pos + 1 = Half \/ pos + 1 = Size)
    <3>1. ht' \/ tc'
      BY <1>2, <2>3
    <3>2. InHalf(pos) + 1 = Half
      BY <1>1, <2>3, SizeFacts DEF InHalf
    <3>3. Backlog' <= Half + lag'
      <4>1. Backlog <= InHalf(pos) /\ InHalf(pos) \in Nat
        BY <1>1, <2>1, <2>3, InHalfRange
      <4>2. Backlog + 1 <= Half
        BY <1>3, <3>2, <4>1, SizeFacts
      <4> QED BY <1>3, <1>4, <4>2, SizeFacts
    <3> QED BY <3>1, <3>3
  <2>4. CASE ~(ht \/ tc) /\ ~(pos + 1 = Half \/ pos + 1 = Size)
    <3>1. ~(ht' \/ tc')
      BY <1>2, <2>4
    <3>2. InHalf(pos') = InHalf(pos) + 1
      BY <1>1, <1>2, <2>4, SizeFacts DEF InHalf, Wrap, Index
    <3>3. InHalf(pos) \in Nat
      BY <1>1, InHalfRange
    <3>4. Backlog' <= InHalf(pos')
      <4>1. Backlog <= InHalf(pos)
        BY <2>1, <2>4
      <4> QED BY <1>3, <3>2, <3>3, <4>1
    <3> QED BY <3>1, <3>4
  <2> QED BY <2>2, <2>3, <2>4
<1>6. BurstBound'
  <2>1. CASE ~idle
    BY <1>1, <1>2, <1>3, <2>1 DEF UartInv, BurstBound
  <2>2. CASE idle
    <3>1. lag' = lag + 1
      BY <1>2, <2>2 DEF Irq
    <3>2. Backlog <= MaxBurst + lag
      BY <2>2 DEF UartInv, BurstBound
    <3> QED BY <1>1, <1>2, <1>3, <2>2, <3>1, <3>2, SizeFacts DEF BurstBound
  <2> QED BY <2>1, <2>2
<1>7. Backlog' < Size
  <2>1. CASE HalfIT /\ MaxLag < Half
    <3>1. Backlog' <= Half + lag' \/ Backlog' <= InHalf(pos')
      BY <1>5, <2>1 DEF LatencyBound
    <3>2. pos' \in Index
      BY <1>1, <1>2, SizeFacts DEF Wrap, Index
    <3>3. InHalf(pos') \in Nat /\ InHalf(pos') < Half
      BY <3>2, InHalfRange
    <3> QED BY <1>3, <1>4, <2>1, <3>1, <3>3, SizeFacts
  <2>2. CASE MaxBurst + MaxLag < Size
    <3>1. Backlog' <= burst' \/ Backlog' <= MaxBurst + lag'
      BY <1>6 DEF BurstBound
    <3> QED BY <1>3, <1>4, <2>2, <3>1, SizeFacts
  <2> QED BY <2>1, <2>2 DEF NoLap
<1>8. pos' \in Index /\ Ahead(old_pos, pos') = Backlog'
  BY <1>1, <1>2, <1>3, <1>7, AheadSucc
<1>9. UartTypeOK'
  BY <1>1, <1>2, <1>4, <1>8 DEF UartTypeOK
<1>10. FreshIntact'
  <2> SUFFICES ASSUME NEW k \in 0..(Backlog' - 1)
               PROVE  rx_buffer'[Wrap(old_pos + k)] = Len(out) + k + 1
    BY <1>2 DEF FreshIntact
  <2>1. k \in Nat /\ k <= Backlog
    BY <1>3
  <2>2. CASE k < Backlog
    <3>1. Wrap(old_pos + k) \in Index /\ Wrap(old_pos + k) # pos
      BY <1>1, <1>3, <2>1, <2>2, WriteMissesFresh
    <3>2. rx_buffer'[Wrap(old_pos + k)] = rx_buffer[Wrap(old_pos + k)]
      BY <1>1, <1>2, <3>1
    <3>3. k \in 0..(Backlog - 1)
      BY <1>3, <2>1, <2>2
    <3> QED BY <3>2, <3>3 DEF UartInv, FreshIntact
  <2>3. CASE k = Backlog
    <3>1. Wrap(old_pos + k) = pos
      BY <1>1, <1>3, <2>3, WriteIsNext
    <3>2. rx_buffer'[pos] = received + 1
      BY <1>1, <1>2
    <3> QED BY <1>1, <1>3, <2>3, <3>1, <3>2
  <2> QED BY <1>3, <2>1, <2>2, <2>3
<1>11. LineInOrder'
  BY <1>2 DEF UartInv, LineInOrder
<1>12. LagCounts'
  BY <1>2 DEF LagCounts, Irq, DmaIrq
<1>13. PositionsTellBacklog'
  BY <1>2, <1>8 DEF PositionsTellBacklog
<1> QED BY <1>5, <1>6, <1>9, <1>10, <1>11, <1>12, <1>13 DEF UartInv

LEMMA LineIdleStep ==
  ASSUME UartInv, LineIdle
  PROVE  UartInv'
<1>1. /\ burst' = 0 /\ idle' = TRUE
      /\ UNCHANGED <<rx_buffer, pos, old_pos, enabled, ongoing, ht, tc, te, lag,
                     received, out>>
  BY DEF LineIdle
<1>2. Backlog' = Backlog
  BY <1>1 DEF Backlog
<1>3. UartTypeOK'
  BY <1>1, SizeFacts DEF UartInv, UartTypeOK
<1>4. BurstBound'
  <2>1. burst \in 0..MaxBurst /\ lag \in 0..MaxLag /\ Backlog \in Nat
    BY FreshIsRun DEF UartInv, UartTypeOK
  <2> QED BY <1>1, <1>2, <2>1, SizeFacts DEF UartInv, BurstBound
<1>5. PositionsTellBacklog' /\ FreshIntact' /\ LineInOrder' /\ LatencyBound'
  BY <1>1, <1>2
  DEF UartInv, PositionsTellBacklog, FreshIntact, LineInOrder, LatencyBound
<1>6. LagCounts'
  BY <1>1 DEF LagCounts, Irq
<1> QED BY <1>3, <1>4, <1>5, <1>6 DEF UartInv

LEMMA TransferErrorStep ==
  ASSUME UartInv, TransferError
  PROVE  UartInv'
<1>1. /\ te' = TRUE /\ enabled' = FALSE
      /\ UNCHANGED <<rx_buffer, pos, old_pos, ongoing, ht, tc, idle, burst, lag,
                     received, out>>
  BY DEF TransferError
<1>2. Backlog' = Backlog
  BY <1>1 DEF Backlog
<1>3. UartTypeOK'
  BY <1>1 DEF UartInv, UartTypeOK
<1>4. /\ PositionsTellBacklog' /\ FreshIntact' /\ LineInOrder'
      /\ LatencyBound' /\ BurstBound'
  BY <1>1, <1>2
  DEF UartInv, PositionsTellBacklog, FreshIntact, LineInOrder, LatencyBound,
      BurstBound
<1>5. LagCounts'
  BY <1>1 DEF LagCounts, Irq, DmaIrq
<1> QED BY <1>3, <1>4, <1>5 DEF UartInv

\* After the callback nothing waits, so every bound on the backlog holds.
LEMMA AfterCallback ==
  ASSUME UartInv, RxComplete, pos' = pos, received' = received,
         burst' \in 0..MaxBurst, lag' \in 0..MaxLag
  PROVE  /\ PositionsTellBacklog' /\ FreshIntact' /\ LineInOrder'
         /\ LatencyBound' /\ BurstBound'
<1>1. old_pos' = pos /\ pos' = pos /\ pos \in Index /\ Backlog' = 0 /\ LineInOrder'
  BY CallbackFetchesAll
<1>2. PositionsTellBacklog'
  BY <1>1, SizeFacts DEF PositionsTellBacklog, Ahead, Index
<1>3. FreshIntact'
  BY <1>1 DEF FreshIntact
<1>4. /\ MaxBurst \in Nat /\ Half \in Nat
      /\ burst' \in Nat /\ lag' \in Nat
      /\ InHalf(pos) \in Nat /\ InHalf(pos)' = InHalf(pos)
  BY <1>1, SizeFacts, InHalfRange DEF InHalf
<1>5. /\ 0 <= burst' /\ 0 <= MaxBurst + lag'
      /\ 0 <= Half + lag' /\ 0 <= InHalf(pos)'
  BY <1>4, NotNegative, Zenon
<1>6. LatencyBound' /\ BurstBound'
  BY <1>1, <1>5 DEF LatencyBound, BurstBound
<1> QED BY <1>1, <1>2, <1>3, <1>6

LEMMA UsartIsrStep ==
  ASSUME UartInv, UsartIsr
  PROVE  UartInv'
<1>1. /\ RxComplete /\ idle' = FALSE
      /\ lag' = IF DmaIrq THEN lag ELSE 0
      /\ UNCHANGED <<rx_buffer, pos, enabled, ongoing, ht, tc, te, burst, received>>
  BY DEF UsartIsr
<1>2. lag' \in 0..MaxLag /\ burst' \in 0..MaxBurst
  BY <1>1, SizeFacts DEF UartInv, UartTypeOK
<1>3. /\ PositionsTellBacklog' /\ FreshIntact' /\ LineInOrder'
      /\ LatencyBound' /\ BurstBound'
  BY <1>1, <1>2, AfterCallback
<1>4. UartTypeOK'
  <2>1. old_pos' \in Index /\ out' \in Seq(Nat)
    BY <1>1, CallbackFetchesAll
  <2> QED BY <1>1, <1>2, <2>1 DEF UartInv, UartTypeOK
<1>5. LagCounts'
  BY <1>1 DEF LagCounts, Irq, DmaIrq
<1> QED BY <1>3, <1>4, <1>5 DEF UartInv

LEMMA DmaIsrStep ==
  ASSUME UartInv, DmaIsr
  PROVE  UartInv'
<1>1. /\ IF ht \/ tc THEN RxComplete ELSE UNCHANGED <<out, old_pos>>
      /\ ht' = FALSE /\ tc' = FALSE
      /\ te' = (te /\ ~(tc /\ Port = "L0"))
      /\ ongoing' = (ongoing /\ ~(te /\ ~tc))
      /\ lag' = IF te' \/ idle THEN lag ELSE 0
      /\ UNCHANGED <<rx_buffer, pos, enabled, idle, burst, received>>
  BY DEF DmaIsr
<1>2. lag' \in 0..MaxLag /\ burst' \in 0..MaxBurst
  BY <1>1, SizeFacts DEF UartInv, UartTypeOK
<1>3. LagCounts'
  BY <1>1 DEF LagCounts, Irq, DmaIrq
<1>4. CASE ht \/ tc
  <2>1. RxComplete
    BY <1>1, <1>4
  <2>2. /\ PositionsTellBacklog' /\ FreshIntact' /\ LineInOrder'
        /\ LatencyBound' /\ BurstBound'
    BY <1>1, <1>2, <2>1, AfterCallback
  <2>3. old_pos' \in Index /\ out' \in Seq(Nat)
    BY <1>1, <2>1, CallbackFetchesAll
  <2>4. {enabled', ongoing', ht', tc', te', idle'} \subseteq BOOLEAN
    BY <1>1 DEF UartInv, UartTypeOK
  <2>5. UartTypeOK'
    BY <1>1, <1>2, <2>3, <2>4 DEF UartInv, UartTypeOK
  <2> QED BY <1>3, <2>2, <2>5 DEF UartInv
<1>5. CASE ~(ht \/ tc)
  <2>1. UNCHANGED <<out, old_pos>> /\ Backlog' = Backlog
    BY <1>1, <1>5 DEF Backlog
  <2>2. te /\ te' /\ lag' = lag
    BY <1>1, <1>5 DEF DmaIsr, DmaIrq
  <2>3. {enabled', ongoing', ht', tc', te', idle'} \subseteq BOOLEAN
    BY <1>1 DEF UartInv, UartTypeOK
  <2>4. UartTypeOK'
    BY <1>1, <1>2, <2>1, <2>3 DEF UartInv, UartTypeOK
  <2>5. PositionsTellBacklog' /\ FreshIntact' /\ LineInOrder'
    BY <1>1, <2>1 DEF UartInv, PositionsTellBacklog, FreshIntact, LineInOrder
  <2>6. LatencyBound' /\ BurstBound'
    BY <1>1, <1>5, <2>1, <2>2 DEF UartInv, LatencyBound, BurstBound
  <2> QED BY <1>3, <2>4, <2>5, <2>6 DEF UartInv
<1> QED BY <1>4, <1>5

-----------------------------------------------------------------------------
LEMMA UartInvStep == ASSUME NoLap, UartInv, [UartNext]_uartVars PROVE UartInv'
<1>1. CASE UNCHANGED uartVars
  BY <1>1
  DEF uartVars, UartInv, UartTypeOK, PositionsTellBacklog, Backlog, FreshIntact,
      LineInOrder, LatencyBound, BurstBound, LagCounts, Irq, DmaIrq
<1> QED BY <1>1, RxByteStep, LineIdleStep, TransferErrorStep, DmaIsrStep,
           UsartIsrStep DEF UartNext

\* The inductive invariant holds in every reachable state.
THEOREM UartInvariant ==
  ASSUME NoLap
  PROVE  UartSpec => []UartInv
<1> QED BY InitUart, UartInvStep, PTL DEF UartSpec

\* What the callback reads lies inside the buffer, wherever the positions are.
LEMMA FreshType == ASSUME UartTypeOK PROVE Fresh \in Seq(Nat)
<1>1. Size \in Nat /\ pos \in 0..(Size - 1) /\ old_pos \in 0..(Size - 1)
  BY SizeFacts DEF UartTypeOK, Index
<1>2. ASSUME NEW from \in 0..Size, NEW upto \in 0..Size, from <= upto
      PROVE  Block(from, upto) \in Seq(Nat)
  <2>1. upto - from \in Nat
    BY <1>1, <1>2
  <2>2. ASSUME NEW i \in 1..(upto - from) PROVE rx_buffer[from + i - 1] \in Nat
    <3>1. from + i - 1 \in Index
      BY <1>1, <1>2 DEF Index
    <3> QED BY <3>1 DEF UartTypeOK
  <2> QED BY <2>1, <2>2 DEF Block
<1>3. /\ 0 \in 0..Size /\ Size \in 0..Size /\ pos \in 0..Size
      /\ old_pos \in 0..Size /\ 0 <= pos /\ old_pos <= Size
  BY <1>1
<1>4. CASE pos >= old_pos
  BY <1>1, <1>2, <1>3, <1>4 DEF Fresh
<1>5. CASE ~(pos >= old_pos)
  <2>1. Block(old_pos, Size) \in Seq(Nat) /\ Block(0, pos) \in Seq(Nat)
    BY <1>2, <1>3
  <2>2. Block(old_pos, Size) \o Block(0, pos) \in Seq(Nat)
    BY <2>1, ConcatProperties, Zenon
  <2> QED BY <1>5, <2>2 DEF Fresh
<1> QED BY <1>4, <1>5

LEMMA UartTypeStep == ASSUME UartTypeOK, [UartNext]_uartVars PROVE UartTypeOK'
<1>1. CASE RxByte
  <2>1. pos' \in Index
    <3>1. pos' = Wrap(pos + 1) /\ pos \in Index
      BY <1>1 DEF RxByte, UartTypeOK
    <3> QED BY <3>1, SizeFacts DEF Index, Wrap
  <2>2. burst' \in 0..MaxBurst /\ lag' \in 0..MaxLag /\ received' \in Nat
    BY <1>1, SizeFacts DEF RxByte, UartTypeOK
  <2>3. rx_buffer' \in [Index -> Nat]
    BY <1>1 DEF RxByte, UartTypeOK
  <2>4. ht' \in BOOLEAN /\ tc' \in BOOLEAN
    BY <1>1 DEF RxByte, UartTypeOK
  <2> QED BY <1>1, <2>1, <2>2, <2>3, <2>4 DEF RxByte, UartTypeOK, Index
<1>2. CASE LineIdle
  BY <1>2, SizeFacts DEF LineIdle, UartTypeOK, Index
<1>3. CASE TransferError
  BY <1>3 DEF TransferError, UartTypeOK, Index
<1>4. ASSUME RxComplete, pos' = pos
      PROVE  out' \in Seq(Nat) /\ old_pos' \in Index
  BY <1>4, FreshType, ConcatProperties DEF RxComplete, UartTypeOK
<1>5. CASE UsartIsr
  <2>1. lag' \in 0..MaxLag
    BY <1>5, SizeFacts DEF UsartIsr, UartTypeOK
  <2> QED BY <1>4, <1>5, <2>1 DEF UsartIsr, UartTypeOK, Index
<1>6. CASE DmaIsr
  <2>1. lag' \in 0..MaxLag
    BY <1>6, SizeFacts DEF DmaIsr, UartTypeOK
  <2>2. out' \in Seq(Nat) /\ old_pos' \in Index
    BY <1>4, <1>6 DEF DmaIsr, UartTypeOK
  <2>3. /\ ht' \in BOOLEAN /\ tc' \in BOOLEAN /\ te' \in BOOLEAN
        /\ ongoing' \in BOOLEAN
    BY <1>6 DEF DmaIsr, UartTypeOK
  <2> QED BY <1>6, <2>1, <2>2, <2>3 DEF DmaIsr, UartTypeOK, Index
<1>7. CASE UNCHANGED uartVars
  BY <1>7 DEF uartVars, UartTypeOK, Index
<1> QED BY <1>1, <1>2, <1>3, <1>5, <1>6, <1>7 DEF UartNext

\* The DMA position and the one the callback remembers stay inside
\* m_usart1_rx_buffer, and so does what usart1_rx_complete_callback reads
\* between them, even when the DMA laps the handler.
THEOREM UartTypeCorrect == UartSpec => []UartTypeOK
<1>1. ASSUME UartInit PROVE UartTypeOK
  <2>1. /\ pos \in Index /\ old_pos \in Index
        /\ burst \in 0..MaxBurst /\ lag \in 0..MaxLag /\ received \in Nat
    BY <1>1, SizeFacts DEF UartInit, Index
  <2> QED BY <1>1, <2>1 DEF UartInit, UartTypeOK
<1> QED BY <1>1, UartTypeStep, PTL DEF UartSpec

\* usart1_rx_complete_callback hands on every byte of the line once, in order,
\* for both ports.
THEOREM UartLineInOrder ==
  ASSUME NoLap
  PROVE  UartSpec => [](UartTypeOK /\ LineInOrder)
<1>1. UartInv => UartTypeOK /\ LineInOrder
  BY DEF UartInv
<1> QED BY UartInvariant, <1>1, PTL

\* The callback's test pos != m_old_usart1_dma_rx_pos misses nothing.
THEOREM UartEqualMeansNothingNew ==
  ASSUME NoLap
  PROVE  UartSpec => []EqualMeansNothingNew
<1>1. UartInv => EqualMeansNothingNew
  BY SizeFacts
  DEF UartInv, UartTypeOK, PositionsTellBacklog, EqualMeansNothingNew, Ahead, Index
<1> QED BY UartInvariant, <1>1, PTL

\* With the half-transfer interrupt (L0) at most half a buffer and one latency
\* of bytes wait for the callback.
THEOREM UartBacklogBounded ==
  ASSUME NoLap
  PROVE  UartSpec => []BacklogBounded
<1>1. ASSUME UartInv PROVE BacklogBounded
  <2> SUFFICES ASSUME HalfIT PROVE Backlog <= Half + MaxLag
    BY DEF BacklogBounded
  <2>1. Backlog \in Nat /\ lag \in 0..MaxLag /\ pos \in Index
    BY <1>1, FreshIsRun DEF UartInv, UartTypeOK
  <2>2. Backlog <= Half + lag \/ Backlog <= InHalf(pos)
    BY <1>1 DEF UartInv, LatencyBound
  <2>3. InHalf(pos) \in Nat /\ InHalf(pos) < Half
    BY <2>1, InHalfRange
  <2> QED BY <2>1, <2>2, <2>3, SizeFacts
<1> QED BY UartInvariant, <1>1, PTL

\* The interrupt path implements the byte stream: a byte on the line is a
\* Send, a callback that finds something new is a Deliver.
THEOREM UartImplementsLine ==
  ASSUME NoLap
  PROVE  UartSpec => ImplementsLine
<1>1. UartInit => Line!Init
  BY DEF UartInit, Line!Init
<1>2. ASSUME UartInv, UartInv', [UartNext]_uartVars
      PROVE  [Line!Next]_(Line!vars)
  <2>1. /\ Backlog = Ahead(old_pos, pos) /\ Backlog \in 0..(Size - 1)
        /\ out \in Seq(Nat) /\ received \in Nat
        /\ Backlog = received - Len(out)
    BY <1>2, AheadRange DEF UartInv, UartTypeOK, PositionsTellBacklog, Backlog
  <2>2. CASE RxByte
    <3>1. received' = received + 1 /\ out' = out
      BY <2>2 DEF RxByte
    <3>2. Backlog' \in 0..(Size - 1) /\ Backlog' = Backlog + 1
      <4>1. Backlog' = Ahead(old_pos, pos)' /\ pos' \in Index /\ old_pos' \in Index
        BY <1>2 DEF UartInv, UartTypeOK, PositionsTellBacklog
      <4>2. Ahead(old_pos', pos') \in 0..(Size - 1)
        BY <4>1, AheadRange
      <4>3. Backlog' = Backlog + 1
        BY <2>1, <3>1 DEF Backlog
      <4> QED BY <4>1, <4>2, <4>3 DEF Ahead
    <3>3. 1 \in 1..(Size - 1) /\ Line!InFlight + 1 <= Size - 1
      BY <2>1, <3>2, SizeFacts DEF Line!InFlight
    <3>4. Line!Send(1)
      BY <3>1, <3>3 DEF Line!Send
    <3> QED BY <3>3, <3>4 DEF Line!Next
  <2>3. CASE RxComplete /\ received' = received
    <3>1. out' = out \o Line!Run(Len(out), Backlog)
      BY <1>2, <2>3, CallbackFetchesAll
    <3>2. CASE Backlog = 0
      <4>1. Line!Run(Len(out), 0) = <<>>
        BY DEF Line!Run
      <4>2. out' = out
        BY <2>1, <3>1, <3>2, <4>1, ConcatEmptySeq
      <4> QED BY <2>3, <4>2 DEF Line!vars
    <3>3. CASE Backlog # 0
      <4>1. Backlog \in 1..(Size - 1) /\ Backlog <= Line!InFlight
        BY <2>1, <3>3, SizeFacts DEF Line!InFlight
      <4>2. Line!Deliver(Backlog)
        BY <2>3, <3>1, <4>1 DEF Line!Deliver
      <4> QED BY <4>1, <4>2 DEF Line!Next
    <3> QED BY <3>2, <3>3
  <2>4. CASE UNCHANGED <<received, out>>
    BY <2>4 DEF Line!vars
  <2> QED BY <1>2, <2>2, <2>3, <2>4
          DEF UartNext, LineIdle, TransferError, DmaIsr, UsartIsr, uartVars
<1> QED BY UartInvariant, <1>1, <1>2, PTL DEF UartSpec, ImplementsLine, Line!Spec
=============================================================================
