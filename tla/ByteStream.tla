----------------------------- MODULE ByteStream -----------------------------
(***************************************************************************)
(* What a receive path of the modem driver promises: a lossless byte       *)
(* stream of bounded depth.  The bytes the sender puts on the line are     *)
(* numbered 1, 2, 3, ...; the receiver gets exactly those numbers, in that *)
(* order, each once.                                                       *)
(*                                                                         *)
(* UartRx (DMA buffer to receive interrupt), PppRing (receive interrupt to *)
(* PPP stack) and RxChain (line to PPP stack) are each shown to implement  *)
(* this module.                                                            *)
(***************************************************************************)
EXTENDS Naturals, Sequences

CONSTANT Depth  \* most bytes that may be on their way at any time

VARIABLES
  sent,       \* how many bytes entered the stream
  delivered   \* the bytes that left it, in the order they left

vars == <<sent, delivered>>

InFlight == sent - Len(delivered)

\* The run of byte numbers first+1 .. first+n.
Run(first, n) == [i \in 1..n |-> first + i]

Init ==
  /\ sent = 0
  /\ delivered = <<>>

Send(n) ==
  /\ InFlight + n <= Depth
  /\ sent' = sent + n
  /\ UNCHANGED delivered

Deliver(n) ==
  /\ n <= InFlight
  /\ delivered' = delivered \o Run(Len(delivered), n)
  /\ UNCHANGED sent

Next == \E n \in 1..Depth : Send(n) \/ Deliver(n)

Spec == Init /\ [][Next]_vars
=============================================================================
