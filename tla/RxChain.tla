------------------------------- MODULE RxChain ------------------------------
(***************************************************************************)
(* The receive path in PPP mode from the line to the PPP stack: UartRx's   *)
(* interrupt handlers fill the ring of PppRing, the main loop drains it.   *)
(* A handler that fetches bytes calls gsm_hw_layer_uart_fill_rx within the *)
(* same step; the main loop runs between any two interrupts.               *)
(*                                                                         *)
(* MaxUnread bounds the bytes received and not yet copied by the main loop.*)
(* It is a property of the traffic and of the main loop's longest turn     *)
(* (usart1_hw_uart_send_raw busy-waits for every byte it sends), not of    *)
(* any test in the code.                                                   *)
(***************************************************************************)
EXTENDS UartRx

CONSTANTS
  RingSize,   \* GSM_PPP_MODEM_BUFFER_SIZE
  ReadLen,    \* length of one sio_read
  MaxUnread   \* most bytes between the DMA and the main loop

ASSUME ChainAssumption ==
  /\ RingSize \in Nat /\ RingSize > 1
  /\ Size <= RingSize
  /\ ReadLen \in Nat \ {0}
  /\ MaxUnread \in Nat \ {0}

VARIABLES buffer, idx_in, idx_out, written, pc, data, delivered

ringVars == <<buffer, idx_in, idx_out, written, pc, data, delivered>>
chainVars == <<uartVars, ringVars>>

Ring == INSTANCE PppRing WITH
          Size <- RingSize, MaxChunk <- Size, MaxBacklog <- MaxUnread

Init == UartInit /\ Ring!Init

\* Mutant: the first byte of a block is dropped.
HandOnTail ==
  LET fetched == SubSeq(out', Len(out) + 2, Len(out'))
  IN  IF fetched = <<>> THEN UNCHANGED ringVars ELSE Ring!FillRx(fetched)

\* Mutant: the last byte of a block is handed on twice.
HandOnOneMore ==
  LET fetched == SubSeq(out', Len(out) + 1, Len(out'))
  IN  IF fetched = <<>> THEN UNCHANGED ringVars
      ELSE Ring!FillRx(Append(fetched, fetched[Len(fetched)]))

\* Mutant: a block of one byte is not worth a call.
HandOnLong ==
  LET fetched == SubSeq(out', Len(out) + 1, Len(out'))
  IN  IF Len(fetched) < 2 THEN UNCHANGED ringVars ELSE Ring!FillRx(fetched)

\* What a handler fetched goes to gsm_hw_layer_uart_fill_rx, which returns at
\* once when it is given nothing.
HandOn ==
  LET fetched == SubSeq(out', Len(out) + 1, Len(out'))
  IN  IF fetched = <<>> THEN UNCHANGED ringVars ELSE Ring!FillRx(fetched)

Receive ==
  /\ received - Ring!Taken < MaxUnread
  /\ RxByte
  /\ UNCHANGED ringVars

LineEvent == (LineIdle \/ TransferError) /\ UNCHANGED ringVars

Interrupt == (DmaIsr \/ UsartIsr) /\ HandOn

\* A transfer-error flag that no handler clears raises the interrupt again
\* and again: the main loop does not run any more.
Poll == ~te /\ Ring!MainLoop /\ UNCHANGED uartVars

Next == Receive \/ LineEvent \/ Interrupt \/ Poll

Spec ==
  /\ Init
  /\ [][Next]_chainVars
  /\ WF_chainVars(LineIdle /\ UNCHANGED ringVars)
  /\ WF_chainVars(DmaTurn /\ HandOn)
  /\ WF_chainVars(UsartTurn /\ HandOn)
  /\ WF_chainVars(Poll)

-----------------------------------------------------------------------------
(* Properties *)

\* Line to pppos_input is one lossless byte stream: two buffers with separate
\* indices, filled and drained by different actors, add up to a FIFO.
EndToEnd == INSTANCE ByteStream WITH
              Depth <- MaxUnread + ReadLen, sent <- received
ImplementsEndToEnd == EndToEnd!Spec

\* The handlers are the producer PppRing is written for: what they put in the
\* ring is the next run of the stream and never too much of it.
DrivesRing == Ring!Spec

\* Every byte on the line reaches the PPP stack, the last one of a burst too,
\* unless a transfer error stops the main loop.
EveryByteReachesStack ==
  \A n \in 1..MaxBytes : (received >= n) ~> (Len(delivered) >= n \/ te)
=============================================================================
