--------------------------- MODULE PppRingProofs ----------------------------
(***************************************************************************)
(* What PppRing's runs show on a small ring, proved for every ring size,   *)
(* chunk length and read length: as long as the traffic leaves fewer than  *)
(* Size bytes unread (Lossless), the ring loses, doubles and reorders      *)
(* nothing, and is a ByteStream.                                           *)
(***************************************************************************)
EXTENDS PppRing, TLAPS

\* The traffic never fills the ring: the condition the code does not test.
Lossless == MaxBacklog < Size

\* Between two polls the main loop holds no byte.
IdleHoldsNothing == pc = "idle" => data = <<>>

\* Inductive: the indices, the slots between them and the two histories.
RingInv ==
  /\ TypeOK
  /\ IndicesTellBacklog
  /\ Backlog \in 0..MaxBacklog
  /\ CopyHasByte
  /\ IdleHoldsNothing
  /\ UnreadIntact
  /\ InOrder

-----------------------------------------------------------------------------
LEMMA AheadType ==
  ASSUME NEW a \in Slots, NEW b \in Slots
  PROVE  /\ Ahead(a, b) \in Slots
         /\ Wrap(a + Ahead(a, b)) = b
  BY RingAssumption DEF Slots, Ahead, Wrap

LEMMA WrapType ==
  ASSUME NEW a \in Slots, NEW n \in 0..Size
  PROVE  Wrap(a + n) \in Slots
  BY RingAssumption DEF Slots, Wrap

\* Walking n on from a and then asking how far that is gives n back.
LEMMA AheadOfWrap ==
  ASSUME NEW a \in Slots, NEW n \in 0..(Size - 1)
  PROVE  Ahead(a, Wrap(a + n)) = n
  BY RingAssumption DEF Slots, Ahead, Wrap

\* Moving the target of a distance on by n adds n, while the sum fits.
LEMMA AheadAdds ==
  ASSUME NEW a \in Slots, NEW b \in Slots, NEW n \in Nat, Ahead(a, b) + n < Size
  PROVE  /\ Wrap(b + n) \in Slots
         /\ Ahead(a, Wrap(b + n)) = Ahead(a, b) + n
  BY RingAssumption DEF Slots, Ahead, Wrap

\* Slots that hold unread bytes are not slots the interrupt writes.
LEMMA UnreadNotHit ==
  ASSUME NEW out \in Slots, NEW in \in Slots, NEW n \in Nat, NEW k \in Nat,
         k < Ahead(out, in), Ahead(out, in) + n < Size
  PROVE  /\ Wrap(out + k) \in Slots
         /\ Wrap(out + k) # Wrap(in + n)
         /\ ~(Ahead(in, Wrap(out + k)) < n)
  BY RingAssumption DEF Slots, Ahead, Wrap

\* Where the interrupt puts its j-th byte, seen from the reader.
LEMMA NewSlot ==
  ASSUME NEW out \in Slots, NEW in \in Slots, NEW n \in Nat, NEW k \in Nat,
         k >= Ahead(out, in), k < Ahead(out, in) + n, Ahead(out, in) + n < Size
  PROVE  /\ Wrap(out + k) \in Slots
         /\ Wrap(out + k) # Wrap(in + n)
         /\ Ahead(in, Wrap(out + k)) = k - Ahead(out, in)
  BY RingAssumption DEF Slots, Ahead, Wrap

-----------------------------------------------------------------------------
LEMMA InitRing == Init => RingInv
<1> SUFFICES ASSUME Init PROVE RingInv
  OBVIOUS
<1>1. /\ 0 \in Slots
      /\ buffer \in [Slots -> Nat]
  BY RingAssumption DEF Init, Slots, NUL
<1>2. Taken = 0 /\ Backlog = 0
  <2>1. delivered = <<>> /\ data = <<>> /\ written = 0
    BY DEF Init
  <2>2. Len(delivered) = 0 /\ Len(data) = 0 /\ written = 0
    BY <2>1
  <2> QED BY <2>2 DEF Taken, Backlog
<1>3. TypeOK
  BY <1>1, RingAssumption DEF Init, TypeOK
<1>4. IndicesTellBacklog
  BY <1>2 DEF Init, IndicesTellBacklog, Ahead
<1>5. UnreadIntact /\ CopyHasByte /\ IdleHoldsNothing /\ Backlog \in 0..MaxBacklog
  BY <1>2, RingAssumption DEF Init, UnreadIntact, CopyHasByte, IdleHoldsNothing
<1>6. InOrder
  BY DEF Init, InOrder
<1> QED BY <1>3, <1>4, <1>5, <1>6 DEF RingInv

LEMMA IsrStep ==
  ASSUME Lossless, RingInv, ReceiveIsr
  PROVE  RingInv'
<1>1. PICK n \in 1..MaxChunk :
        /\ Backlog + n <= MaxBacklog
        /\ FillRx([i \in 1..n |-> written + i])
  BY DEF ReceiveIsr
<1> DEFINE bytes == [i \in 1..n |-> written + i]
           B == Ahead(idx_out, idx_in)
<1>2. /\ n \in Nat /\ n > 0 /\ n < Size /\ n \in 0..Size
      /\ written \in Nat /\ idx_in \in Slots /\ idx_out \in Slots
  BY <1>1, RingAssumption DEF RingInv, TypeOK, Lossless
<1>3. /\ bytes \in Seq(Nat)
      /\ Len(bytes) = n
      /\ \A i \in 1..n : bytes[i] = written + i
  BY <1>2
<1>4. /\ B = Backlog
      /\ B \in Nat
      /\ B + n < Size
      /\ B + n <= MaxBacklog
  BY <1>1, <1>2, AheadType, RingAssumption
  DEF RingInv, IndicesTellBacklog, Lossless, Slots
<1>5. /\ idx_in' = Wrap(idx_in + n)
      /\ idx_out' = idx_out
      /\ written' = written + n
      /\ pc' = pc /\ data' = data /\ delivered' = delivered
  BY <1>1, <1>3 DEF FillRx
<1>6. buffer' = [s \in Slots |->
                   IF s = Wrap(idx_in + n) THEN 0
                   ELSE IF Ahead(idx_in, s) < n THEN bytes[Ahead(idx_in, s) + 1]
                   ELSE buffer[s]]
  BY <1>1, <1>3 DEF FillRx, Stored, NUL
<1>7. /\ Taken' = Taken
      /\ Taken \in Nat
      /\ Backlog' = Backlog + n
      /\ Backlog = written - Taken
  BY <1>2, <1>5 DEF Taken, Backlog, RingInv, TypeOK
<1>8. buffer' \in [Slots -> Nat]
  <2> SUFFICES ASSUME NEW s \in Slots PROVE buffer'[s] \in Nat
    BY <1>6
  <2>1. Ahead(idx_in, s) \in Nat
    BY <1>2, AheadType DEF Slots
  <2>2. CASE s = Wrap(idx_in + n)
    BY <2>2, <1>6
  <2>3. CASE s # Wrap(idx_in + n) /\ Ahead(idx_in, s) < n
    <3>1. Ahead(idx_in, s) + 1 \in 1..n
      BY <2>1, <2>3, <1>2
    <3>2. bytes[Ahead(idx_in, s) + 1] \in Nat
      BY <3>1, <1>2, <1>3
    <3> QED BY <2>3, <3>2, <1>6
  <2>4. CASE s # Wrap(idx_in + n) /\ ~(Ahead(idx_in, s) < n)
    <3>1. buffer[s] \in Nat
      BY DEF RingInv, TypeOK
    <3> QED BY <2>4, <3>1, <1>6
  <2> QED BY <2>2, <2>3, <2>4
<1>9. TypeOK'
  <2>1. idx_in' \in Slots
    BY <1>2, <1>5, WrapType
  <2> QED BY <1>2, <1>5, <1>8, <2>1 DEF TypeOK, RingInv
<1>10. IndicesTellBacklog'
  <2>1. Ahead(idx_out, Wrap(idx_in + n)) = B + n
    BY <1>2, <1>4, AheadAdds
  <2> QED BY <2>1, <1>4, <1>5, <1>7 DEF IndicesTellBacklog
<1>11. UnreadIntact'
  <2> SUFFICES ASSUME NEW k \in 0..(Backlog' - 1)
               PROVE  buffer'[Wrap(idx_out + k)] = Taken + k + 1
    BY <1>5, <1>7 DEF UnreadIntact
  <2>1. k \in Nat /\ k < B + n
    BY <1>2, <1>4, <1>7
  <2>2. CASE k < B
    <3>1. /\ Wrap(idx_out + k) \in Slots
          /\ Wrap(idx_out + k) # Wrap(idx_in + n)
          /\ ~(Ahead(idx_in, Wrap(idx_out + k)) < n)
      BY <1>2, <1>4, <2>1, <2>2, UnreadNotHit
    <3>2. buffer'[Wrap(idx_out + k)] = buffer[Wrap(idx_out + k)]
      BY <3>1, <1>6
    <3>3. k \in 0..(Backlog - 1)
      BY <2>1, <2>2, <1>4
    <3> QED BY <3>2, <3>3 DEF RingInv, UnreadIntact
  <2>3. CASE k >= B
    <3>1. /\ Wrap(idx_out + k) \in Slots
          /\ Wrap(idx_out + k) # Wrap(idx_in + n)
          /\ Ahead(idx_in, Wrap(idx_out + k)) = k - B
      BY <1>2, <1>4, <2>1, <2>3, NewSlot
    <3>2. /\ k - B \in Nat /\ k - B < n /\ k - B + 1 \in 1..n
      BY <2>1, <2>3, <1>4, <1>2
    <3>3. buffer'[Wrap(idx_out + k)] = bytes[k - B + 1]
      BY <3>1, <3>2, <1>6
    <3>4. bytes[k - B + 1] = written + (k - B + 1)
      BY <3>2, <1>3
    <3> HIDE DEF B, bytes
    <3> QED BY <3>3, <3>4, <1>2, <1>4, <1>7, <2>1
  <2> QED BY <2>1, <2>2, <2>3, <1>4
<1>12. InOrder'
  BY <1>5 DEF InOrder, RingInv
<1>13. CopyHasByte' /\ IdleHoldsNothing'
  BY <1>2, <1>4, <1>5, <1>7 DEF CopyHasByte, IdleHoldsNothing, RingInv
<1>14. (Backlog \in 0..MaxBacklog)'
  BY <1>2, <1>4, <1>7, RingAssumption
<1> QED BY <1>9, <1>10, <1>11, <1>12, <1>13, <1>14 DEF RingInv

LEMMA MainStep ==
  ASSUME RingInv, MainLoop
  PROVE  RingInv'
<1>1. /\ delivered \in Seq(Nat) /\ data \in Seq(Nat) /\ written \in Nat
      /\ Len(data) \in Nat /\ Len(delivered) \in Nat
      /\ idx_in \in Slots /\ idx_out \in Slots
  BY DEF RingInv, TypeOK
<1>2. CASE StartRead \/ FinishRead
  <2>1. /\ delivered' \in Seq(Nat) /\ data' = <<>>
        /\ Taken' = Taken
        /\ InOrder'
    <3>1. CASE StartRead
      <4>1. /\ delivered' = delivered /\ data' = <<>> /\ Len(data') = 0
            /\ data = <<>>
        BY <3>1, <1>1 DEF StartRead, RingInv, IdleHoldsNothing
      <4> QED BY <4>1, <1>1 DEF Taken, RingInv, InOrder
    <3>2. CASE FinishRead
      <4>1. delivered' = delivered \o data /\ data' = <<>>
        BY <3>2 DEF FinishRead
      <4>2. /\ delivered' \in Seq(Nat)
            /\ Len(delivered') = Len(delivered) + Len(data)
            /\ Len(data') = 0
        BY <4>1, <1>1
      <4>3. \A i \in 1..Len(delivered') : delivered'[i] = i
        <5> SUFFICES ASSUME NEW i \in 1..Len(delivered')
                     PROVE  delivered'[i] = i
          OBVIOUS
        <5>1. CASE i <= Len(delivered)
          <6>1. delivered'[i] = delivered[i] /\ i \in 1..Len(delivered)
            BY <4>1, <4>2, <5>1, <1>1
          <6> QED BY <6>1 DEF RingInv, InOrder
        <5>2. CASE i > Len(delivered)
          <6>1. /\ delivered'[i] = data[i - Len(delivered)]
                /\ i - Len(delivered) \in 1..Len(data)
            BY <4>1, <4>2, <5>2, <1>1
          <6>2. data[i - Len(delivered)] = Len(delivered) + (i - Len(delivered))
            BY <6>1 DEF RingInv, InOrder
          <6> QED BY <6>1, <6>2, <1>1
        <5> QED BY <5>1, <5>2, <1>1, <4>2
      <4> QED BY <4>1, <4>2, <4>3, <1>1 DEF Taken, InOrder
    <3> QED BY <1>2, <3>1, <3>2
  <2>2. /\ UNCHANGED <<buffer, idx_in, idx_out, written>>
        /\ pc' \in {"idle", "test"}
    BY <1>2 DEF StartRead, FinishRead
  <2>3. Backlog' = Backlog
    BY <2>1, <2>2 DEF Backlog
  <2>4. TypeOK'
    BY <2>1, <2>2, RingAssumption DEF RingInv, TypeOK
  <2>5. UnreadIntact' /\ IndicesTellBacklog' /\ CopyHasByte' /\ IdleHoldsNothing'
    BY <2>1, <2>2, <2>3
    DEF RingInv, UnreadIntact, IndicesTellBacklog, CopyHasByte, IdleHoldsNothing
  <2> QED BY <2>1, <2>3, <2>4, <2>5 DEF RingInv
<1>3. CASE TestMore
  <2>1. Backlog > 0
    BY <1>1, <1>3, AheadType, RingAssumption
    DEF TestMore, RingInv, IndicesTellBacklog, Ahead, Slots
  <2>2. UNCHANGED <<buffer, idx_in, idx_out, written, data, delivered>> /\ pc' = "copy"
    BY <1>3 DEF TestMore
  <2>3. Backlog' = Backlog /\ Taken' = Taken
    BY <2>2 DEF Backlog, Taken
  <2> QED BY <1>3, <2>1, <2>2, <2>3
          DEF RingInv, TypeOK, IndicesTellBacklog, UnreadIntact, InOrder, CopyHasByte,
              IdleHoldsNothing, TestMore
<1>4. CASE CopyByte
  <2>1. /\ data' = Append(data, buffer[idx_out])
        /\ idx_out' = Wrap(idx_out + 1)
        /\ pc = "copy" /\ pc' = "test"
        /\ UNCHANGED <<buffer, idx_in, written, delivered>>
    BY <1>4 DEF CopyByte
  <2>2. Backlog > 0 /\ Backlog \in 0..MaxBacklog /\ Backlog = Ahead(idx_out, idx_in)
    BY <2>1 DEF RingInv, CopyHasByte, IndicesTellBacklog
  <2>3. buffer[idx_out] = Taken + 1
    <3>1. 0 \in 0..(Backlog - 1)
      BY <2>2, RingAssumption
    <3>2. Wrap(idx_out + 0) = idx_out
      BY <1>1, RingAssumption DEF Wrap, Slots
    <3>3. buffer[Wrap(idx_out + 0)] = Taken + 0 + 1
      BY <3>1 DEF RingInv, UnreadIntact
    <3> QED BY <3>2, <3>3, <1>1 DEF Taken
  <2>4. /\ Taken \in Nat
        /\ buffer[idx_out] \in Nat
        /\ data' \in Seq(Nat)
        /\ Len(data') = Len(data) + 1
        /\ Taken' = Taken + 1
        /\ Backlog' = Backlog - 1
    BY <1>1, <2>1, <2>3 DEF Taken, Backlog
  <2>5. /\ idx_out' \in Slots
        /\ Ahead(idx_out', idx_in) = Ahead(idx_out, idx_in) - 1
    BY <1>1, <2>1, <2>2, RingAssumption DEF Slots, Wrap, Ahead
  <2>6. Len(data') <= ReadLen
    BY <1>1, <2>1, <2>4, RingAssumption DEF RingInv, CopyHasByte
  <2>7. TypeOK'
    BY <2>1, <2>4, <2>5, <2>6 DEF TypeOK, RingInv
  <2>8. UnreadIntact'
    <3> SUFFICES ASSUME NEW k \in 0..(Backlog' - 1)
                 PROVE  buffer[Wrap(idx_out' + k)] = Taken' + k + 1
      BY <2>1 DEF UnreadIntact
    <3>1. k \in Nat /\ k + 1 \in 0..(Backlog - 1)
      BY <2>2, <2>4, RingAssumption
    <3>2. k + 1 < Size
      BY <3>1, <2>2, <1>1, AheadType, RingAssumption DEF Slots
    <3>3. Wrap(idx_out' + k) = Wrap(idx_out + (k + 1))
      BY <1>1, <2>1, <3>1, <3>2, RingAssumption DEF Wrap, Slots
    <3>4. buffer[Wrap(idx_out + (k + 1))] = Taken + (k + 1) + 1
      BY <3>1 DEF RingInv, UnreadIntact
    <3> QED BY <3>1, <3>3, <3>4, <2>4
  <2>9. InOrder'
    <3>1. \A i \in 1..Len(data') : data'[i] = Len(delivered) + i
      <4> SUFFICES ASSUME NEW i \in 1..Len(data')
                   PROVE  data'[i] = Len(delivered) + i
        OBVIOUS
      <4>1. CASE i = Len(data) + 1
        BY <4>1, <1>1, <2>1, <2>3, <2>4 DEF Taken
      <4>2. CASE i # Len(data) + 1
        <5>1. i \in 1..Len(data) /\ data'[i] = data[i]
          BY <4>2, <1>1, <2>1, <2>4
        <5> QED BY <5>1 DEF RingInv, InOrder
      <4> QED BY <4>1, <4>2
    <3> QED BY <3>1, <2>1 DEF InOrder, RingInv
  <2> QED BY <2>1, <2>2, <2>4, <2>5, <2>7, <2>8, <2>9, RingAssumption
          DEF RingInv, IndicesTellBacklog, CopyHasByte, IdleHoldsNothing
<1> QED BY <1>2, <1>3, <1>4 DEF MainLoop

-----------------------------------------------------------------------------
LEMMA StutterStep ==
  ASSUME RingInv, UNCHANGED vars
  PROVE  RingInv'
  BY DEF RingInv, vars, TypeOK, IndicesTellBacklog, Backlog, Taken, CopyHasByte,
         IdleHoldsNothing, UnreadIntact, InOrder

\* The inductive invariant holds in every reachable state.
THEOREM RingInvariant ==
  ASSUME Lossless
  PROVE  Spec => []RingInv
<1>1. RingInv /\ [Next]_vars => RingInv'
  BY IsrStep, MainStep, StutterStep DEF Next
<1> QED BY InitRing, <1>1, PTL DEF Spec

\* The types do not depend on the traffic.
RingTyped == TypeOK /\ (pc = "copy" => Len(data) < ReadLen)

LEMMA RingStartsTyped == Init => RingTyped
BY RingAssumption DEF Init, RingTyped, TypeOK, Slots, NUL

LEMMA TypeStep == ASSUME RingTyped, [Next]_vars PROVE RingTyped'
<1> USE DEF RingTyped
<1>1. CASE ReceiveIsr
  <2>1. PICK n \in 1..MaxChunk : FillRx([i \in 1..n |-> written + i])
    BY <1>1 DEF ReceiveIsr
  <2> DEFINE bytes == [i \in 1..n |-> written + i]
  <2>2. /\ n \in 0..Size /\ Len(bytes) = n /\ written \in Nat /\ idx_in \in Slots
        /\ \A i \in 1..n : bytes[i] \in Nat
    BY RingAssumption DEF TypeOK
  <2>3. /\ buffer' = Stored(bytes) /\ idx_in' = Wrap(idx_in + n)
        /\ written' = written + n /\ UNCHANGED <<idx_out, pc, data, delivered>>
    BY <2>1, <2>2 DEF FillRx
  <2> HIDE DEF bytes
  <2>4. idx_in' \in Slots /\ written' \in Nat
    BY <2>2, <2>3, WrapType
  <2>5. ASSUME NEW s \in Slots, Ahead(idx_in, s) < Len(bytes)
        PROVE  bytes[Ahead(idx_in, s) + 1] \in Nat
    <3>1. Ahead(idx_in, s) \in Nat
      BY <2>2, AheadType DEF Slots
    <3>2. Ahead(idx_in, s) + 1 \in 1..n
      BY <2>2, <2>5, <3>1
    <3> QED BY <2>2, <3>2
  <2>6. buffer' \in [Slots -> Nat]
    BY <2>3, <2>5 DEF Stored, NUL, TypeOK
  <2> QED BY <2>3, <2>4, <2>6 DEF TypeOK, Slots
<1>2. CASE StartRead
  BY <1>2, RingAssumption DEF StartRead, TypeOK, Slots
<1>3. CASE TestMore
  BY <1>3 DEF TestMore, TypeOK, Slots
<1>4. CASE CopyByte
  <2>1. buffer[idx_out] \in Nat /\ Len(data) \in Nat /\ ReadLen \in Nat
    BY RingAssumption DEF TypeOK
  <2>2. data' \in Seq(Nat) /\ Len(data') = Len(data) + 1
    BY <1>4, <2>1 DEF CopyByte, TypeOK
  <2>3. Len(data') <= ReadLen
    BY <1>4, <2>1, <2>2 DEF CopyByte
  <2>4. idx_out' \in Slots
    BY <1>4, RingAssumption, WrapType DEF CopyByte, TypeOK
  <2> QED BY <1>4, <2>2, <2>3, <2>4 DEF CopyByte, TypeOK, Slots
<1>5. CASE FinishRead
  <2>1. delivered' \in Seq(Nat) /\ data' \in Seq(Nat) /\ Len(data') = 0
    BY <1>5 DEF FinishRead, TypeOK
  <2> QED BY <1>5, <2>1, RingAssumption DEF FinishRead, TypeOK, Slots
<1>6. CASE UNCHANGED vars
  BY <1>6 DEF vars, TypeOK, Slots
<1> QED BY <1>1, <1>2, <1>3, <1>4, <1>5, <1>6 DEF Next, MainLoop

\* Type correctness: gsm_hw_layer_uart_fill_rx and
\* gsm_hardware_layer_copy_ppp_buffer keep their indices inside the array and
\* the caller's buffer, even when the traffic overruns the ring.
THEOREM RingTypeCorrect == Spec => []TypeOK
<1>1. RingTyped => TypeOK
  BY DEF RingTyped
<1> QED BY RingStartsTyped, <1>1, TypeStep, PTL DEF Spec

\* The PPP stack is given the received stream, in order, whatever interrupt
\* hits the copy loop of gsm_hardware_layer_copy_ppp_buffer.
THEOREM RingInOrder ==
  ASSUME Lossless
  PROVE  Spec => []InOrder
<1>1. RingInv => InOrder
  BY DEF RingInv
<1> QED BY RingInvariant, <1>1, PTL

\* Between fill_rx and copy_ppp_buffer no unread byte is overwritten.
THEOREM RingUnreadIntact ==
  ASSUME Lossless
  PROVE  Spec => [](UnreadIntact /\ IndicesTellBacklog)
<1>1. RingInv => UnreadIntact /\ IndicesTellBacklog
  BY DEF RingInv
<1> QED BY RingInvariant, <1>1, PTL

\* The test idx_out == idx_in of copy_ppp_buffer is the test of an empty ring
\* and never of a full one.
THEOREM RingIndicesTellBacklog ==
  ASSUME Lossless
  PROVE  Spec => []IndicesTellBacklog
<1>1. RingInv => IndicesTellBacklog
  BY DEF RingInv
<1> QED BY RingInvariant, <1>1, PTL

-----------------------------------------------------------------------------
\* The ring implements the byte stream: an interrupt is a Send, a poll that
\* returns bytes is a Deliver, everything else is invisible.
THEOREM RingImplementsStream ==
  ASSUME Lossless
  PROVE  Spec => ImplementsStream
<1>1. Init => Stream!Init
  BY DEF Init, Stream!Init
<1>2. ASSUME RingInv, [Next]_vars
      PROVE  [Stream!Next]_(Stream!vars)
  <2>1. /\ delivered \in Seq(Nat) /\ data \in Seq(Nat) /\ written \in Nat
        /\ Len(data) \in Nat /\ Len(delivered) \in Nat
        /\ Len(data) <= ReadLen
        /\ ReadLen \in Nat /\ MaxBacklog \in Nat /\ MaxChunk \in Nat
    BY <1>2, RingAssumption DEF RingInv, TypeOK
  <2>2. /\ Backlog = written - (Len(delivered) + Len(data))
        /\ Backlog \in 0..MaxBacklog
    BY <1>2 DEF RingInv, Backlog, Taken
  <2>3. CASE ReceiveIsr
    <3>1. PICK n \in 1..MaxChunk :
            /\ Backlog + n <= MaxBacklog
            /\ FillRx([i \in 1..n |-> written + i])
      BY <2>3 DEF ReceiveIsr
    <3>2. Len([i \in 1..n |-> written + i]) = n
      BY <2>1, <3>1
    <3>3. written' = written + n /\ delivered' = delivered
      BY <3>1, <3>2 DEF FillRx
    <3>4. n \in 1..(MaxBacklog + ReadLen)
      BY <2>1, <2>2, <3>1
    <3>5. Stream!Send(n)
      BY <2>1, <2>2, <3>1, <3>3 DEF Stream!Send, Stream!InFlight
    <3> QED BY <3>4, <3>5 DEF Stream!Next
  <2>4. CASE FinishRead /\ Len(data) > 0
    <3>1. delivered' = delivered \o data /\ written' = written
      BY <2>4 DEF FinishRead
    <3>2. data = Stream!Run(Len(delivered), Len(data))
      <4>1. \A i \in 1..Len(data) : data[i] = Len(delivered) + i
        BY <1>2 DEF RingInv, InOrder
      <4>2. data = [i \in 1..Len(data) |-> data[i]]
        BY <2>1
      <4> QED BY <4>1, <4>2 DEF Stream!Run
    <3>3. Len(data) \in 1..(MaxBacklog + ReadLen)
      BY <2>1, <2>4
    <3>4. Len(data) <= Stream!InFlight
      BY <2>1, <2>2 DEF Stream!InFlight
    <3>5. Stream!Deliver(Len(data))
      BY <3>1, <3>2, <3>4 DEF Stream!Deliver
    <3> QED BY <3>3, <3>5 DEF Stream!Next
  <2>5. CASE FinishRead /\ ~(Len(data) > 0)
    <3>1. data = <<>>
      BY <2>1, <2>5
    <3>2. delivered' = delivered /\ written' = written
      BY <2>1, <2>5, <3>1 DEF FinishRead
    <3> QED BY <3>2 DEF Stream!vars
  <2>6. CASE StartRead \/ TestMore \/ CopyByte \/ UNCHANGED vars
    BY <2>6 DEF StartRead, TestMore, CopyByte, vars, Stream!vars
  <2> QED BY <1>2, <2>3, <2>4, <2>5, <2>6 DEF Next, MainLoop
<1> QED BY RingInvariant, <1>1, <1>2, PTL DEF Spec, ImplementsStream, Stream!Spec
=============================================================================
