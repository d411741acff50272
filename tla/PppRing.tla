------------------------------- MODULE PppRing ------------------------------
(***************************************************************************)
(* The PPP receive ring m_gsm_modem_buffer of gsm_hardware_layer.c, filled *)
(* by the receive interrupt (gsm_hw_layer_uart_fill_rx, PPP branch) and    *)
(* drained by the main loop (gsm_hw_pppos_polling -> sio_read ->           *)
(* gsm_hardware_layer_copy_ppp_buffer -> pppos_input).                     *)
(*                                                                         *)
(* The interrupt runs to completion: the main loop is never between two of *)
(* its statements.  The main loop can be interrupted between its test of   *)
(* the indices and its copy of a byte, and between any two iterations.     *)
(*                                                                         *)
(* A byte is its position in the received stream (1, 2, ...); NUL is the   *)
(* 0 the interrupt writes behind the last byte.  Nothing in the producer   *)
(* looks at idx_out: that the ring is not overrun is a matter of how often *)
(* the main loop comes round, and is the constant MaxBacklog here.         *)
(***************************************************************************)
EXTENDS Naturals, Sequences

CONSTANTS
  Size,        \* GSM_PPP_MODEM_BUFFER_SIZE (1024)
  MaxChunk,    \* longest block the interrupt hands over (UART1_RX_BUFFER_SIZE)
  ReadLen,     \* bytes asked for by one sio_read (512)
  MaxBacklog,  \* most unread bytes the traffic ever leaves in the ring
  MaxBytes     \* bound of the model: length of the received stream

ASSUME RingAssumption ==
  /\ Size \in Nat \ {0, 1}
  /\ MaxChunk \in 1..Size
  /\ ReadLen \in Nat \ {0}
  /\ MaxBacklog \in Nat \ {0}
  /\ MaxBytes \in Nat

VARIABLES
  buffer,     \* m_gsm_modem_buffer.buffer
  idx_in,     \* next slot the interrupt writes
  idx_out,    \* next slot the main loop reads
  written,    \* history: bytes handed to the ring so far
  pc,         \* where the main loop is in gsm_hw_pppos_polling
  data,       \* m_ppp_rx_buffer[0 .. i-1]
  delivered   \* history: everything given to pppos_input

vars == <<buffer, idx_in, idx_out, written, pc, data, delivered>>

NUL == 0
Slots == 0..(Size - 1)

\* Mutant: the wrap-around test is > instead of >=.
WrapLate(i) == IF i > Size THEN i - Size ELSE i

Wrap(i) == IF i >= Size THEN i - Size ELSE i

\* Distance from slot a forward to slot b.
Ahead(a, b) == IF b >= a THEN b - a ELSE b + Size - a

Taken == Len(delivered) + Len(data)
Backlog == written - Taken

Init ==
  /\ buffer = [s \in Slots |-> NUL]
  /\ idx_in = 0
  /\ idx_out = 0
  /\ written = 0
  /\ pc = "idle"
  /\ data = <<>>
  /\ delivered = <<>>

-----------------------------------------------------------------------------
(* Receive interrupt *)

\* Mutant: the 0 is written one slot further on.
StoredFarNul(bytes) ==
  [s \in Slots |->
     IF s = Wrap(idx_in + Len(bytes) + 1) THEN NUL
     ELSE IF Ahead(idx_in, s) < Len(bytes) THEN bytes[Ahead(idx_in, s) + 1]
     ELSE buffer[s]]

\* The ring after the bytes were stored from idx_in on and a 0 behind them.
Stored(bytes) ==
  [s \in Slots |->
     IF s = Wrap(idx_in + Len(bytes)) THEN NUL
     ELSE IF Ahead(idx_in, s) < Len(bytes) THEN bytes[Ahead(idx_in, s) + 1]
     ELSE buffer[s]]

\* gsm_hw_layer_uart_fill_rx in PPP mode.
FillRx(bytes) ==
  /\ buffer' = Stored(bytes)
  /\ idx_in' = Wrap(idx_in + Len(bytes))
  /\ written' = written + Len(bytes)
  /\ UNCHANGED <<idx_out, pc, data, delivered>>

ReceiveIsr ==
  \E n \in 1..MaxChunk :
    /\ Backlog + n <= MaxBacklog
    /\ written + n <= MaxBytes
    /\ FillRx([i \in 1..n |-> written + i])

-----------------------------------------------------------------------------
(* Main loop *)

\* sio_read(0, m_ppp_rx_buffer, 512) enters the copy loop with i = 0.
StartRead ==
  /\ pc = "idle"
  /\ pc' = "test"
  /\ data' = <<>>
  /\ UNCHANGED <<buffer, idx_in, idx_out, written, delivered>>

\* i < len and the ring does not look empty: go on to copy a byte.
TestMore ==
  /\ pc = "test"
  /\ Len(data) < ReadLen
  /\ idx_out # idx_in
  /\ pc' = "copy"
  /\ UNCHANGED <<buffer, idx_in, idx_out, written, data, delivered>>

\* Mutant: idx_out wraps one slot early.
CopyByteShort ==
  /\ pc = "copy"
  /\ data' = Append(data, buffer[idx_out])
  /\ idx_out' = IF idx_out + 1 >= Size - 1 THEN 0 ELSE idx_out + 1
  /\ pc' = "test"
  /\ UNCHANGED <<buffer, idx_in, written, delivered>>

\* Mutant: the index is advanced before the byte is read.
CopyByteAfter ==
  /\ pc = "copy"
  /\ data' = Append(data, buffer[Wrap(idx_out + 1)])
  /\ idx_out' = Wrap(idx_out + 1)
  /\ pc' = "test"
  /\ UNCHANGED <<buffer, idx_in, written, delivered>>

\* data[i] = buffer[idx_out]; idx_out++ with wrap-around.
CopyByte ==
  /\ pc = "copy"
  /\ data' = Append(data, buffer[idx_out])
  /\ idx_out' = Wrap(idx_out + 1)
  /\ pc' = "test"
  /\ UNCHANGED <<buffer, idx_in, written, delivered>>

\* Mutant: a read that fills the caller's buffer is taken for an error.
FinishReadDropsFull ==
  /\ pc = "test"
  /\ Len(data) = ReadLen \/ idx_out = idx_in
  /\ delivered' = IF Len(data) < ReadLen THEN delivered \o data ELSE delivered
  /\ data' = <<>>
  /\ pc' = "idle"
  /\ UNCHANGED <<buffer, idx_in, idx_out, written>>

\* Mutant: the copy loop waits until it has len bytes.
FinishReadWaits ==
  /\ pc = "test"
  /\ Len(data) = ReadLen
  /\ delivered' = delivered \o data
  /\ data' = <<>>
  /\ pc' = "idle"
  /\ UNCHANGED <<buffer, idx_in, idx_out, written>>

\* The copy returns; gsm_hw_pppos_polling calls pppos_input if it got a byte.
FinishRead ==
  /\ pc = "test"
  /\ Len(data) = ReadLen \/ idx_out = idx_in
  /\ delivered' = delivered \o data
  /\ data' = <<>>
  /\ pc' = "idle"
  /\ UNCHANGED <<buffer, idx_in, idx_out, written>>

MainLoop == StartRead \/ TestMore \/ CopyByte \/ FinishRead

Next == ReceiveIsr \/ MainLoop

Spec == Init /\ [][Next]_vars

\* while (1) in main() calls gsm_mnr_task for ever; the interrupt owes nothing.
FairSpec == Spec /\ WF_vars(MainLoop)

-----------------------------------------------------------------------------
(* Properties *)

\* Indices stay inside the array and the copy never exceeds the caller's
\* buffer (gsm_hardware_layer_copy_ppp_buffer, m_ppp_rx_buffer[512]).
TypeOK ==
  /\ buffer \in [Slots -> Nat]
  /\ idx_in \in Slots
  /\ idx_out \in Slots
  /\ written \in Nat
  /\ pc \in {"idle", "test", "copy"}
  /\ data \in Seq(Nat)
  /\ Len(data) <= ReadLen
  /\ delivered \in Seq(Nat)

\* What the two indices say is in the ring is what is in the ring: equal
\* indices mean an empty ring and never a full one, whatever interrupt hits
\* the copy loop (the test idx_out == idx_in of copy_ppp_buffer).
IndicesTellBacklog == Backlog = Ahead(idx_out, idx_in)

\* The bytes between idx_out and idx_in are the oldest unread bytes, in order:
\* neither a later byte nor the 0 written behind the last one has hit them.
UnreadIntact ==
  \A k \in 0..(Backlog - 1) : buffer[Wrap(idx_out + k)] = Taken + k + 1

\* pppos_input sees the received stream: no byte lost, doubled or reordered.
InOrder ==
  /\ \A i \in 1..Len(delivered) : delivered[i] = i
  /\ \A i \in 1..Len(data) : data[i] = Len(delivered) + i

\* A byte the main loop has decided to copy is there, and has room in the
\* caller's buffer, when it copies it: interrupts since the test change neither.
CopyHasByte == pc = "copy" => Backlog > 0 /\ Len(data) < ReadLen

\* The ring is a lossless stream as long as the backlog stays below its size.
Stream == INSTANCE ByteStream
            WITH Depth <- MaxBacklog + ReadLen, sent <- written
ImplementsStream == Stream!Spec

\* Every byte put in the ring reaches the PPP stack.
EveryByteReachesPpp ==
  \A n \in 1..MaxBytes : (written >= n) ~> (Len(delivered) >= n)
=============================================================================
