---------------------------- MODULE RxChainProofs ---------------------------
(***************************************************************************)
(* The receive path from the line to the PPP stack, for every buffer size, *)
(* ring size, latency and read length: the interrupt handlers of UartRx    *)
(* are the producer PppRing is written for (ChainDrivesRing), and the two  *)
(* buffers in a row are one lossless ByteStream (ChainImplementsEndToEnd). *)
(* What UartRxProofs and PppRingProofs prove of the two components is used *)
(* here and not proved again.                                              *)
(***************************************************************************)
EXTENDS RxChain, UartRxProofs

\* PppRing's ring with its proofs; Ring is the same module without them.
R == INSTANCE PppRingProofs WITH
       Size <- RingSize, MaxChunk <- Size, MaxBacklog <- MaxUnread

\* The main loop comes round before the ring is full.
RingLossless == MaxUnread < RingSize

\* Inductive: what the producer needs to know of the consumer, and the other
\* way round.
ChainInv ==
  /\ UartInv
  /\ R!RingTyped
  /\ R!IdleHoldsNothing
  /\ written = Len(out)
  /\ received <= MaxBytes
  /\ received - R!Taken <= MaxUnread

-----------------------------------------------------------------------------
\* The assumption PppRing makes about its constants holds for this ring.
LEMMA RingConstants == R!RingAssumption
BY ChainAssumption, SizeFacts, UartAssumption DEF R!RingAssumption

\* RxChain and the proofs of PppRing speak of the same ring.
LEMMA SameRing ==
  /\ Ring!Init <=> R!Init
  /\ Ring!Taken = R!Taken
  /\ \A bytes : Ring!FillRx(bytes) <=> R!FillRx(bytes)
  /\ Ring!MainLoop <=> R!MainLoop
  /\ Ring!Next <=> R!Next
  /\ Ring!vars = R!vars
<1>1. Ring!Init <=> R!Init
  BY DEF Ring!Init, R!Init, Ring!Slots, R!Slots, Ring!NUL, R!NUL
<1>2. Ring!Taken = R!Taken /\ Ring!Backlog = R!Backlog
  BY DEF Ring!Taken, R!Taken, Ring!Backlog, R!Backlog
<1>3. ASSUME NEW bytes PROVE Ring!FillRx(bytes) <=> R!FillRx(bytes)
  BY DEF Ring!FillRx, R!FillRx, Ring!Stored, R!Stored, Ring!Slots, R!Slots,
    Ring!Wrap, R!Wrap, Ring!Ahead, R!Ahead, Ring!NUL, R!NUL
<1>4. Ring!ReceiveIsr <=> R!ReceiveIsr
  BY <1>2, <1>3 DEF Ring!ReceiveIsr, R!ReceiveIsr
<1>5. Ring!MainLoop <=> R!MainLoop
  BY DEF Ring!MainLoop, R!MainLoop, Ring!StartRead, R!StartRead, Ring!TestMore,
    R!TestMore, Ring!CopyByte, R!CopyByte, Ring!FinishRead, R!FinishRead,
    Ring!Wrap, R!Wrap
<1>6. Ring!vars = R!vars
  BY DEF Ring!vars, R!vars
<1> QED BY <1>1, <1>2, <1>3, <1>4, <1>5, <1>6 DEF Ring!Next, R!Next

\* The rest of a sequence that counts from 1.
LEMMA RestIsRun ==
  ASSUME NEW s \in Seq(Nat), \A i \in 1..Len(s) : s[i] = i, NEW m \in 0..Len(s)
  PROVE  SubSeq(s, m + 1, Len(s)) = [i \in 1..(Len(s) - m) |-> m + i]
<1> DEFINE n == Len(s)
           rest == SubSeq(s, m + 1, n)
           run == [i \in 1..(n - m) |-> m + i]
<1>1. n \in Nat /\ m \in Nat /\ m <= n
  OBVIOUS
<1>2. \A i \in (m + 1)..n : s[i] \in Nat
  BY <1>1
<1>3. /\ rest \in Seq(Nat)
      /\ Len(rest) = n - m
      /\ \A i \in 1..(n - m) : rest[i] = s[m + i]
  <2>1. /\ rest \in Seq(Nat)
        /\ Len(rest) = IF m + 1 <= n THEN n - (m + 1) + 1 ELSE 0
        /\ \A i \in 1..(n - (m + 1) + 1) : rest[i] = s[(m + 1) + i - 1]
    BY <1>1, <1>2, SubSeqProperties
  <2> HIDE DEF rest
  <2> QED BY <1>1, <2>1
<1>4. run \in Seq(Nat) /\ Len(run) = n - m /\ \A i \in 1..(n - m) : run[i] = m + i
  BY <1>1
<1>5. \A i \in 1..(n - m) : s[m + i] = m + i
  BY <1>1
<1> HIDE DEF rest, run
<1>6. rest = run
  <2>1. /\ rest \in Seq(Nat) /\ run \in Seq(Nat) /\ Len(rest) = Len(run)
        /\ \A i \in 1..Len(rest) : rest[i] = run[i]
    BY <1>3, <1>4, <1>5
  <2> QED BY <2>1, SeqEqual
<1> QED BY <1>6 DEF rest, run

\* The main loop takes bytes and never gives one back.
LEMMA MainLoopTakes ==
  ASSUME R!RingTyped, R!IdleHoldsNothing, R!MainLoop
  PROVE  /\ R!RingTyped' /\ R!IdleHoldsNothing'
         /\ written' = written
         /\ R!Taken \in Nat /\ R!Taken' \in Nat /\ R!Taken' >= R!Taken
<1>1. R!RingTyped'
  BY RingConstants, R!TypeStep DEF R!RingAssumption, R!Next
<1>2. /\ data \in Seq(Nat) /\ delivered \in Seq(Nat)
      /\ Len(data) \in Nat /\ Len(delivered) \in Nat
      /\ data' \in Seq(Nat) /\ delivered' \in Seq(Nat)
      /\ Len(data') \in Nat /\ Len(delivered') \in Nat
  BY <1>1 DEF R!RingTyped, R!TypeOK
<1>3. CASE R!StartRead
  <2>1. pc = "idle" /\ pc' = "test" /\ data' = <<>> /\ UNCHANGED <<written, delivered>>
    BY <1>3 DEF R!StartRead
  <2>2. data' = data
    BY <2>1 DEF R!IdleHoldsNothing
  <2> QED BY <1>1, <1>2, <2>1, <2>2 DEF R!IdleHoldsNothing, R!Taken
<1>4. CASE R!TestMore
  BY <1>1, <1>2, <1>4 DEF R!TestMore, R!IdleHoldsNothing, R!Taken
<1>5. CASE R!CopyByte
  <2>1. /\ Len(data') = Len(data) + 1 /\ pc' = "test"
        /\ UNCHANGED <<written, delivered>>
    BY <1>2, <1>5 DEF R!CopyByte
  <2> QED BY <1>1, <1>2, <2>1 DEF R!IdleHoldsNothing, R!Taken
<1>6. CASE R!FinishRead
  <2>1. /\ Len(delivered') = Len(delivered) + Len(data) /\ data' = <<>>
        /\ Len(data') = 0 /\ UNCHANGED written
    BY <1>2, <1>6 DEF R!FinishRead
  <2> QED BY <1>1, <1>2, <2>1 DEF R!IdleHoldsNothing, R!Taken
<1> QED BY <1>3, <1>4, <1>5, <1>6 DEF R!MainLoop

-----------------------------------------------------------------------------
(* Invariance *)

LEMMA ChainInit == Init => ChainInv
<1> SUFFICES ASSUME Init PROVE ChainInv
  OBVIOUS
<1>1. UartInv /\ received = 0 /\ out = <<>>
  BY InitUart DEF Init, UartInit
<1>2. R!Init
  BY SameRing DEF Init
<1>3. R!RingTyped /\ R!IdleHoldsNothing
  BY <1>2, RingConstants, R!RingStartsTyped
  DEF R!RingAssumption, R!Init, R!IdleHoldsNothing
<1>4. written = 0 /\ R!Taken = 0
  BY <1>2 DEF R!Init, R!Taken
<1> QED BY <1>1, <1>3, <1>4, UartAssumption, ChainAssumption DEF ChainInv

\* A handler of the receive interrupt calls fill_rx with the next run of the
\* stream, which fits, or not at all.
LEMMA InterruptStep ==
  ASSUME NoLap, ChainInv, Interrupt
  PROVE  ChainInv' /\ (R!ReceiveIsr \/ UNCHANGED ringVars)
<1>1. UartInv'
  BY UartInvStep DEF ChainInv, Interrupt, UartNext
<1>2. /\ out \in Seq(Nat) /\ out' \in Seq(Nat) /\ received \in Nat
      /\ Len(out) \in Nat /\ Len(out') \in Nat /\ received' = received
      /\ \A i \in 1..Len(out') : out'[i] = i
      /\ Len(out') <= received
  <2>1. received' = received
    BY DEF Interrupt, DmaIsr, UsartIsr
  <2>2. Len(out') <= received'
    <3>1. (Backlog \in 0..(Size - 1))'
      BY <1>1, BacklogNat, PTL
    <3>2. received' \in Nat /\ Len(out') \in Nat
      BY <1>1 DEF UartInv, UartTypeOK
    <3> QED BY <3>1, <3>2, SizeFacts DEF Backlog
  <2> QED BY <1>1, <2>1, <2>2 DEF ChainInv, UartInv, UartTypeOK, LineInOrder
<1>3. Len(out) <= Len(out') /\ Len(out') - Len(out) <= Size - 1
  <2>1. CASE RxComplete
    <3>1. UartInv
      BY DEF ChainInv
    <3>2. Len(out') = received
      BY <1>2, <2>1, <3>1, CallbackFetchesAll
    <3>3. Backlog \in 0..(Size - 1)
      BY <3>1, BacklogNat
    <3> QED BY <1>2, <3>2, <3>3, SizeFacts DEF Backlog
  <2>2. CASE UNCHANGED out
    BY <1>2, <2>2, SizeFacts
  <2> QED BY <2>1, <2>2 DEF Interrupt, DmaIsr, UsartIsr
<1> DEFINE m == Len(out)
           n == Len(out') - Len(out)
           bytes == [i \in 1..n |-> m + i]
<1>4. SubSeq(out', m + 1, Len(out')) = bytes /\ n \in Nat /\ Len(bytes) = n
  BY <1>2, <1>3, RestIsRun
<1>5. CASE n = 0
  <2>1. bytes = <<>>
    BY <1>5
  <2>2. UNCHANGED ringVars
    BY <1>4, <2>1 DEF Interrupt, HandOn
  <2>3. Len(out') = Len(out)
    BY <1>2, <1>5
  <2> QED BY <1>1, <1>2, <2>2, <2>3 DEF ringVars, ChainInv, R!RingTyped, R!TypeOK,
    R!IdleHoldsNothing, R!Taken
<1>6. CASE n # 0
  <2>1. bytes # <<>>
    BY <1>4, <1>6
  <2>2. R!FillRx(bytes)
    BY <1>4, <2>1, SameRing DEF Interrupt, HandOn
  <2>3. /\ written = m /\ received - R!Taken <= MaxUnread /\ R!Taken \in Nat
        /\ received <= MaxBytes /\ MaxBytes \in Nat /\ MaxUnread \in Nat
    BY UartAssumption, ChainAssumption
    DEF ChainInv, R!RingTyped, R!TypeOK, R!Taken
  <2>4. R!Backlog + n <= MaxUnread /\ written + n <= MaxBytes
    BY <1>2, <2>3 DEF R!Backlog
  <2>5. n \in 1..Size
    BY <1>3, <1>4, <1>6, SizeFacts
  <2>6. R!ReceiveIsr
    BY <2>2, <2>3, <2>4, <2>5 DEF R!ReceiveIsr
  <2>7. R!RingTyped'
    BY <2>6, RingConstants, R!TypeStep DEF R!RingAssumption, R!Next, ChainInv
  <2>8. written' = Len(out') /\ UNCHANGED <<pc, data, delivered>>
    BY <1>2, <1>4, <2>2, <2>3 DEF R!FillRx
  <2> QED BY <1>1, <1>2, <2>3, <2>6, <2>7, <2>8
          DEF ChainInv, R!IdleHoldsNothing, R!Taken
<1> QED BY <1>4, <1>5, <1>6

LEMMA ChainStep ==
  ASSUME NoLap, ChainInv, [Next]_chainVars
  PROVE  ChainInv' /\ [Ring!Next]_(Ring!vars)
<1>1. /\ R!Taken \in Nat /\ received \in Nat /\ MaxUnread \in Nat /\ MaxBytes \in Nat
  BY UartAssumption, ChainAssumption
  DEF ChainInv, UartInv, UartTypeOK, R!RingTyped, R!TypeOK, R!Taken
<1>2. CASE Receive
  <2>1. UartInv'
    BY <1>2, UartInvStep DEF ChainInv, Receive, UartNext
  <2>2. /\ received - R!Taken < MaxUnread /\ received < MaxBytes
        /\ received' = received + 1 /\ out' = out /\ UNCHANGED ringVars
    BY <1>2, SameRing DEF Receive, RxByte
  <2>3. R!RingTyped' /\ R!IdleHoldsNothing' /\ R!Taken' = R!Taken /\ written' = written
    BY <2>2 DEF ChainInv, ringVars, R!RingTyped, R!TypeOK, R!IdleHoldsNothing,
      R!Taken
  <2> QED BY <1>1, <2>1, <2>2, <2>3 DEF ChainInv, ringVars, Ring!vars
<1>3. CASE LineEvent \/ UNCHANGED chainVars
  <2>1. UartInv'
    BY <1>3, UartInvStep DEF ChainInv, LineEvent, UartNext, chainVars
  <2>2. received' = received /\ out' = out /\ UNCHANGED ringVars
    BY <1>3 DEF LineEvent, LineIdle, TransferError, chainVars, uartVars
  <2>3. R!RingTyped' /\ R!IdleHoldsNothing' /\ R!Taken' = R!Taken /\ written' = written
    BY <2>2 DEF ChainInv, ringVars, R!RingTyped, R!TypeOK, R!IdleHoldsNothing,
      R!Taken
  <2> QED BY <1>1, <2>1, <2>2, <2>3 DEF ChainInv, ringVars, Ring!vars
<1>4. CASE Interrupt
  BY <1>4, InterruptStep, SameRing DEF Ring!Next, R!Next, ringVars, Ring!vars,
    Ring!ReceiveIsr, R!ReceiveIsr, Ring!Backlog, R!Backlog
<1>5. CASE Poll
  <2>1. R!MainLoop /\ UNCHANGED uartVars
    BY <1>5, SameRing DEF Poll
  <2>2. UartInv' /\ received' = received /\ out' = out
    BY <2>1, UartInvStep DEF ChainInv, uartVars
  <2>3. /\ R!RingTyped' /\ R!IdleHoldsNothing' /\ written' = written
        /\ R!Taken' \in Nat /\ R!Taken' >= R!Taken
    BY <2>1, MainLoopTakes DEF ChainInv
  <2>4. ChainInv'
    <3>1. /\ received - R!Taken <= MaxUnread
          /\ written = Len(out) /\ received <= MaxBytes
      BY DEF ChainInv
    <3>2. received - R!Taken' <= MaxUnread
      <4>1. \A r, t, u, m \in Nat : r - t <= m /\ u >= t => r - u <= m
        OBVIOUS
      <4> QED BY <1>1, <2>3, <3>1, <4>1
    <3>3. /\ received' - R!Taken' <= MaxUnread
          /\ written' = Len(out') /\ received' <= MaxBytes
      BY <2>2, <2>3, <3>1, <3>2
    <3> QED BY <2>2, <2>3, <3>3 DEF ChainInv
  <2> QED BY <2>4, <1>5 DEF Poll, Ring!Next
<1> QED BY <1>2, <1>3, <1>4, <1>5 DEF Next

\* The inductive invariant holds in every reachable state.
THEOREM ChainInvariant ==
  ASSUME NoLap
  PROVE  Spec => []ChainInv
<1> QED BY ChainInit, ChainStep, PTL DEF Spec

-----------------------------------------------------------------------------
\* usart1_rx_complete_callback calls gsm_hw_layer_uart_fill_rx with blocks the
\* ring is written for, and gsm_hw_pppos_polling is its only reader.
THEOREM ChainDrivesRing ==
  ASSUME NoLap
  PROVE  Spec => DrivesRing
<1>1. Init => Ring!Init
  BY DEF Init
<1> QED BY ChainInvariant, ChainStep, <1>1, PTL DEF Spec, DrivesRing, Ring!Spec

\* So all that is proved of the ring holds of the ring in its place.
THEOREM ChainRingInvariant ==
  ASSUME NoLap, RingLossless
  PROVE  Spec => []R!RingInv
<1>1. R!Lossless
  BY DEF RingLossless, R!Lossless
<1>2. R!Init /\ [][R!Next]_(R!vars) => []R!RingInv
  BY <1>1, RingConstants, R!RingInvariant DEF R!RingAssumption, R!Spec
<1>3. Init => R!Init
  BY SameRing DEF Init
<1>4. ChainInv /\ [Next]_chainVars => [R!Next]_(R!vars)
  BY ChainStep, SameRing DEF Ring!vars, R!vars
<1> QED BY ChainInvariant, <1>2, <1>3, <1>4, PTL DEF Spec

-----------------------------------------------------------------------------
\* From the line to pppos_input: a byte the DMA stores is a Send, a poll that
\* returns bytes is a Deliver, the interrupts in between are invisible.
THEOREM ChainImplementsEndToEnd ==
  ASSUME NoLap, RingLossless
  PROVE  Spec => ImplementsEndToEnd
<1>1. Init => EndToEnd!Init
  BY DEF Init, UartInit, Ring!Init, EndToEnd!Init
<1>2. ASSUME ChainInv, R!RingInv, [Next]_chainVars
      PROVE  [EndToEnd!Next]_(EndToEnd!vars)
  <2>1. /\ delivered \in Seq(Nat) /\ data \in Seq(Nat)
        /\ Len(data) \in Nat /\ Len(delivered) \in Nat
        /\ Len(data) <= ReadLen
        /\ received \in Nat /\ ReadLen \in Nat /\ MaxUnread \in Nat
    BY <1>2, ChainAssumption
    DEF ChainInv, UartInv, UartTypeOK, R!RingTyped, R!TypeOK
  <2>2. Len(delivered) + Len(data) <= received
    <3>1. R!Backlog \in Nat
      BY <1>2, <2>1 DEF R!RingInv
    <3>2. Backlog \in 0..(Size - 1)
      BY <1>2, BacklogNat DEF ChainInv
    <3>3. Len(out) \in Nat /\ written = Len(out)
      BY <1>2 DEF ChainInv, UartInv, UartTypeOK
    <3> QED BY <2>1, <3>1, <3>2, <3>3, SizeFacts DEF Backlog, R!Backlog, R!Taken
  <2>3. CASE Receive
    <3>1. received' = received + 1 /\ delivered' = delivered
      BY <2>3 DEF Receive, RxByte, ringVars
    <3>2. received - (Len(delivered) + Len(data)) < MaxUnread
      BY <2>3 DEF Receive, Ring!Taken
    <3>3. 1 \in 1..(MaxUnread + ReadLen)
      BY <2>1, <2>2, <3>2
    <3>4. EndToEnd!InFlight + 1 <= MaxUnread + ReadLen
      BY <2>1, <3>2 DEF EndToEnd!InFlight
    <3>5. EndToEnd!Send(1)
      BY <3>1, <3>4 DEF EndToEnd!Send
    <3> QED BY <3>3, <3>5 DEF EndToEnd!Next
  <2>4. CASE Poll
    <3>1. R!MainLoop /\ received' = received
      BY <2>4, SameRing DEF Poll, uartVars
    <3>2. CASE R!FinishRead /\ Len(data) > 0
      <4>1. delivered' = delivered \o data
        BY <3>2 DEF R!FinishRead
      <4>2. data = EndToEnd!Run(Len(delivered), Len(data))
        <5>1. \A i \in 1..Len(data) : data[i] = Len(delivered) + i
          BY <1>2 DEF R!RingInv, R!InOrder
        <5>2. data = [i \in 1..Len(data) |-> data[i]]
          BY <2>1
        <5> QED BY <5>1, <5>2 DEF EndToEnd!Run
      <4>3. Len(data) \in 1..(MaxUnread + ReadLen)
        BY <2>1, <3>2
      <4>4. Len(data) <= EndToEnd!InFlight
        BY <2>1, <2>2 DEF EndToEnd!InFlight
      <4>5. EndToEnd!Deliver(Len(data))
        BY <3>1, <4>1, <4>2, <4>4 DEF EndToEnd!Deliver
      <4> QED BY <4>3, <4>5 DEF EndToEnd!Next
    <3>3. CASE R!FinishRead /\ ~(Len(data) > 0)
      <4>1. data = <<>>
        BY <2>1, <3>3
      <4>2. delivered' = delivered
        BY <2>1, <3>3, <4>1 DEF R!FinishRead
      <4> QED BY <3>1, <4>2 DEF EndToEnd!vars
    <3>4. CASE R!StartRead \/ R!TestMore \/ R!CopyByte
      BY <3>1, <3>4 DEF R!StartRead, R!TestMore, R!CopyByte, EndToEnd!vars
    <3> QED BY <3>1, <3>2, <3>3, <3>4 DEF R!MainLoop
  <2>5. CASE LineEvent \/ UNCHANGED chainVars
    BY <2>5 DEF LineEvent, LineIdle, TransferError, ringVars, chainVars, uartVars,
      EndToEnd!vars
  <2>6. CASE Interrupt
    <3>1. received' = received
      BY <2>6 DEF Interrupt, DmaIsr, UsartIsr
    <3>2. delivered' = delivered
      BY <1>2, <2>6, InterruptStep DEF R!ReceiveIsr, R!FillRx, ringVars
    <3> QED BY <3>1, <3>2 DEF EndToEnd!vars
  <2> QED BY <1>2, <2>3, <2>4, <2>5, <2>6 DEF Next
<1> QED BY ChainInvariant, ChainRingInvariant, <1>1, <1>2, PTL
        DEF Spec, ImplementsEndToEnd, EndToEnd!Spec
=============================================================================
