------------------------------- MODULE UartRx -------------------------------
(***************************************************************************)
(* Reception on USART1: the circular DMA buffer m_usart1_rx_buffer, its    *)
(* half-transfer, transfer-complete and transfer-error interrupts, the     *)
(* idle-line interrupt of the USART, and usart1_rx_complete_callback,      *)
(* which hands what is new in the buffer to gsm_hw_layer_uart_fill_rx.     *)
(*                                                                         *)
(* Both ports are modelled: "L0" (Core/Src, STM32L083) enables the         *)
(* half-transfer interrupt, "F4" (port_stm32f4, STM32F429) has that line   *)
(* commented out.  All these interrupts have priority 0, so none preempts  *)
(* another: a handler is one step.                                         *)
(*                                                                         *)
(* A byte is its number on the line (1, 2, ...); 0 is the cleared buffer.  *)
(* The DMA does not wait: it goes on writing while an interrupt is pending.*)
(* How many bytes it can write before the handler runs is MaxLag, and how  *)
(* many the modem sends without a pause is MaxBurst.                       *)
(***************************************************************************)
EXTENDS Naturals, Sequences

CONSTANTS
  Half,      \* half of UART1_RX_BUFFER_SIZE (768), where the DMA raises HT
  Port,      \* "L0" or "F4"
  MaxLag,    \* most bytes received while an interrupt waits for its handler
  MaxBurst,  \* most bytes received between two idle-line conditions
  MaxBytes   \* bound of the model: number of bytes on the line

ASSUME UartAssumption ==
  /\ Half \in Nat \ {0}
  /\ Port \in {"L0", "F4"}
  /\ MaxLag \in Nat
  /\ MaxBurst \in Nat
  /\ MaxBytes \in Nat

VARIABLES
  rx_buffer,  \* m_usart1_rx_buffer
  pos,        \* UART1_RX_BUFFER_SIZE - NDTR: next slot the DMA writes
  old_pos,    \* m_old_usart1_dma_rx_pos
  enabled,    \* the DMA channel (stream) runs
  ongoing,    \* m_uart_rx_ongoing
  ht, tc, te, \* DMA flags: half transfer, transfer complete, transfer error
  idle,       \* idle-line flag of the USART
  burst,      \* history: bytes since the last idle-line condition
  lag,        \* history: bytes since the oldest pending interrupt was raised
  received,   \* history: bytes the DMA has stored
  out         \* history: what gsm_hw_layer_uart_fill_rx was given

uartVars == <<rx_buffer, pos, old_pos, enabled, ongoing, ht, tc, te, idle,
              burst, lag, received, out>>

Size == 2 * Half
Index == 0..(Size - 1)
Wrap(i) == IF i >= Size THEN i - Size ELSE i

\* LL_DMA_EnableIT_HT is commented out in the F4 port.
HalfIT == Port = "L0"

DmaIrq == (HalfIT /\ ht) \/ tc \/ te
Irq == DmaIrq \/ idle

Backlog == received - Len(out)

\* MX_USART1_UART_Init starts the DMA: usart1_hw_uart_rx_raw finds nothing
\* ongoing.  usart1_control(true) of gsm_init_hw then returns early.
UartInit ==
  /\ rx_buffer = [i \in Index |-> 0]
  /\ pos = 0
  /\ old_pos = 0
  /\ enabled = TRUE
  /\ ongoing = TRUE
  /\ ht = FALSE /\ tc = FALSE /\ te = FALSE
  /\ idle = FALSE
  /\ burst = 0
  /\ lag = 0
  /\ received = 0
  /\ out = <<>>

-----------------------------------------------------------------------------
(* The line and the DMA controller *)

\* Mutant: the half-transfer flag is not raised.
RxByteNoHalf ==
  /\ enabled
  /\ received < MaxBytes
  /\ burst < MaxBurst
  /\ Irq => lag < MaxLag
  /\ rx_buffer' = [rx_buffer EXCEPT ![pos] = received + 1]
  /\ received' = received + 1
  /\ pos' = Wrap(pos + 1)
  /\ tc' = (tc \/ pos + 1 = Size)
  /\ burst' = burst + 1
  /\ lag' = IF Irq THEN lag + 1 ELSE 0
  /\ UNCHANGED <<ht, old_pos, enabled, ongoing, te, idle, out>>

RxByte ==
  /\ enabled
  /\ received < MaxBytes
  /\ burst < MaxBurst
  /\ Irq => lag < MaxLag
  /\ rx_buffer' = [rx_buffer EXCEPT ![pos] = received + 1]
  /\ received' = received + 1
  /\ pos' = Wrap(pos + 1)
  /\ ht' = (ht \/ pos + 1 = Half)
  /\ tc' = (tc \/ pos + 1 = Size)
  /\ burst' = burst + 1
  /\ lag' = IF Irq THEN lag + 1 ELSE 0
  /\ UNCHANGED <<old_pos, enabled, ongoing, te, idle, out>>

\* The line stays high for one frame after the last byte.
LineIdle ==
  /\ burst > 0
  /\ burst' = 0
  /\ idle' = TRUE
  /\ UNCHANGED <<rx_buffer, pos, old_pos, enabled, ongoing, ht, tc, te, lag,
                 received, out>>

\* A bus error: the controller raises TE and disables the channel.
TransferError ==
  /\ enabled
  /\ te' = TRUE
  /\ enabled' = FALSE
  /\ UNCHANGED <<rx_buffer, pos, old_pos, ongoing, ht, tc, idle, burst, lag,
                 received, out>>

-----------------------------------------------------------------------------
(* Interrupt handlers *)

\* The bytes at from, from+1, ..., upto-1 of the DMA buffer.
Block(from, upto) == [i \in 1..(upto - from) |-> rx_buffer[from + i - 1]]

\* Mutant: nothing is taken when the position has wrapped around.
FreshNoWrap == IF pos >= old_pos THEN Block(old_pos, pos) ELSE <<>>

\* Mutant: the tail of the buffer is forgotten.
FreshHeadOnly ==
  IF pos >= old_pos THEN Block(old_pos, pos) ELSE Block(0, pos)

\* Mutant: the slot the DMA writes next is taken too after a wrap-around.
FreshOneMore ==
  IF pos >= old_pos
  THEN Block(old_pos, pos)
  ELSE Block(old_pos, Size) \o Block(0, pos + 1)

\* What usart1_rx_complete_callback(true) passes to fill_rx: nothing when the
\* position is the old one, one block, or the tail and then the head.
Fresh ==
  IF pos >= old_pos
  THEN Block(old_pos, pos)
  ELSE Block(old_pos, Size) \o Block(0, pos)

\* Mutant: the end of the buffer is remembered as its length, not as 0.
RxCompleteAtEnd ==
  /\ out' = out \o Fresh
  /\ old_pos' = IF pos = 0 THEN Size ELSE pos

\* usart1_rx_complete_callback(true)
RxComplete ==
  /\ out' = out \o Fresh
  /\ old_pos' = pos

\* DMA1_Channel2_3_IRQHandler (L0), DMA2_Stream2_IRQHandler (F4).  When both HT
\* and TC are up the callback runs twice; the second call finds nothing new.
\* The L0 handler clears every flag of the channel with TC; TE itself is
\* cleared by neither port.
DmaIsr ==
  /\ DmaIrq
  /\ IF ht \/ tc THEN RxComplete ELSE UNCHANGED <<out, old_pos>>
  /\ ht' = FALSE
  /\ tc' = FALSE
  /\ te' = (te /\ ~(tc /\ Port = "L0"))
  /\ ongoing' = (ongoing /\ ~(te /\ ~tc))
  /\ lag' = IF te' \/ idle THEN lag ELSE 0
  /\ UNCHANGED <<rx_buffer, pos, enabled, idle, burst, received>>

\* Mutant: the idle line is acknowledged and nothing more.
UsartIsrNoFlush ==
  /\ idle
  /\ idle' = FALSE
  /\ lag' = IF DmaIrq THEN lag ELSE 0
  /\ UNCHANGED <<rx_buffer, pos, old_pos, enabled, ongoing, ht, tc, te, burst,
                 received, out>>

\* USART1_IRQHandler, idle-line branch.
UsartIsr ==
  /\ idle
  /\ idle' = FALSE
  /\ RxComplete
  /\ lag' = IF DmaIrq THEN lag ELSE 0
  /\ UNCHANGED <<rx_buffer, pos, enabled, ongoing, ht, tc, te, burst, received>>

UartNext == RxByte \/ LineIdle \/ TransferError \/ DmaIsr \/ UsartIsr

UartSpec == UartInit /\ [][UartNext]_uartVars

\* Whose turn it is when both interrupts are pending.  They have the same
\* priority (0), so the lower interrupt number goes first: the DMA channel
\* before the USART on the L0 (10 and 27), the USART before the DMA stream on
\* the F4 (37 and 58).  Steps in the other order are left in UartNext: what
\* was pending is sampled before the handler reads the flags.
DmaTurn == DmaIsr /\ (Port = "F4" => ~idle)
UsartTurn == UsartIsr /\ (Port = "L0" => ~DmaIrq)

\* The line falls silent after a burst, and a pending interrupt is taken when it
\* is its turn.  On the L0 a transfer error that is never cleared takes every
\* turn, and the idle line has none any more.
UartFairSpec ==
  /\ UartSpec
  /\ WF_uartVars(LineIdle)
  /\ WF_uartVars(DmaTurn)
  /\ WF_uartVars(UsartTurn)

-----------------------------------------------------------------------------
(* Properties *)

\* Positions stay inside the buffer; the callback never runs past its end.
UartTypeOK ==
  /\ rx_buffer \in [Index -> Nat]
  /\ pos \in Index /\ old_pos \in Index
  /\ {enabled, ongoing, ht, tc, te, idle} \subseteq BOOLEAN
  /\ burst \in 0..MaxBurst
  /\ lag \in 0..MaxLag
  /\ received \in Nat
  /\ out \in Seq(Nat)

\* "Check change in received data" (usart.c): equal positions mean that there
\* is nothing new, never that the DMA went once round the buffer unnoticed.
EqualMeansNothingNew == pos = old_pos => Backlog = 0

\* gsm_hw_layer_uart_fill_rx gets the bytes of the line in their order, none
\* lost, doubled or overwritten before the interrupt came to fetch it.
LineInOrder == \A i \in 1..Len(out) : out[i] = i

\* How late the interrupt may be: with the half-transfer interrupt no more
\* than half a buffer and the bytes of one latency ever wait for the callback.
BacklogBounded == HalfIT => Backlog <= Half + MaxLag

\* A byte on the line reaches fill_rx though no boundary of the buffer is
\* crossed after it: the idle line flushes it, unless a transfer error that no
\* handler clears holds the processor in the DMA interrupt for ever.
EveryByteHandedOn ==
  \A n \in 1..MaxBytes : (received >= n) ~> (Len(out) >= n \/ []te)

\* The receive interrupt path is a lossless stream.
Line == INSTANCE ByteStream WITH
          Depth <- Size - 1, sent <- received, delivered <- out
ImplementsLine == Line!Spec
=============================================================================
