------------------------------ MODULE AtEngine ------------------------------
(***************************************************************************)
(* The AT command engine of gsm_hardware_layer.c: gsm_hw_send_at_cmd,      *)
(* gsm_hw_layer_run (match, timeout, resend) and                           *)
(* gsm_hw_layer_reset_rx_buffer in the main loop, and the AT branch of     *)
(* gsm_hw_layer_uart_fill_rx in the receive interrupt, which may run       *)
(* between any two steps of the main loop.  Once the manager is in PPP     *)
(* mode the interrupt leaves this buffer alone (PppRing has that branch).  *)
(*                                                                         *)
(* A cell of the receive buffer holds a piece of an answer: <<kind, n>> is *)
(* a piece of the answer to the n-th command.  NL is the line break every  *)
(* answer starts with, DATA an information line, OK the final result.      *)
(* NUL is the 0 that ends what strstr sees.  Who issues the commands       *)
(* (gsm_data_layer.c) and the modem are the environment.                   *)
(***************************************************************************)
EXTENDS Naturals, Sequences

CONSTANTS
  Cap,       \* GSM_ATC_BUFFER_SIZE
  Commands,  \* the shapes of command the program sends
  MaxCmds,   \* bound of the model: number of commands
  MaxUrc,    \* bound of the model: number of unsolicited lines
  MaxLine    \* bound of the model: pieces sent and not yet received

\* A command expects exp somewhere in the answer ("" is found everywhere) and,
\* unless it is "", end at its end, one of them at least; it is sent up to retry
\* times.  info says whether the module answers with an information line before
\* OK.
ASSUME AtAssumption ==
  /\ Cap \in Nat /\ Cap > 1
  /\ Commands \subseteq
       [exp : {"", "DATA", "OK"}, end : {"", "OK"}, retry : Nat \ {0},
        info : BOOLEAN]
  /\ \A c \in Commands : c.exp # "" \/ c.end # ""
  /\ MaxCmds \in Nat
  /\ MaxUrc \in Nat
  /\ MaxLine \in Nat

VARIABLES
  buffer,    \* recv_buff.buffer
  index,     \* recv_buff.index
  new_data,  \* m_new_uart_data
  cmd,       \* cmd, expect_resp_from_atc, expected_response_at_the_end
  retry,     \* retry_count_atc
  mode,      \* m_gsm_manager.mode: "AT" or "PPP"
  armed,     \* timeout_atc_ms # 0
  due,       \* timeout_atc_ms has passed since current_timeout_atc_ms
  pc,        \* where the main loop is
  resume,    \* where the code goes on after a callback or a send
  event,     \* the event of the callback that is running or ran last
  line,      \* sent by the modem, not yet handed over by the interrupt
  urcs,      \* history: number of unsolicited lines
  disturbed, \* history: a timeout passed before an answer was in and looked at,
             \* or after it was torn; a command was issued while the rest of
             \* the answer to an early one was on the way; or the receive
             \* buffer overflowed
  torn,      \* history: since the current command was issued the receive buffer
             \* was cleared with bytes in it
  issued,    \* history: number of gsm_hw_send_at_cmd calls
  sends,     \* history: transmissions of the current command
  ended      \* history: callbacks that have returned or sent a command

rx == <<buffer, index>>
atc == <<cmd, retry, armed, due>>
control == <<pc, resume, event, mode>>
modem == <<line, urcs>>
mishaps == <<disturbed, torn>>
history == <<issued, sends, ended>>
vars == <<rx, new_data, atc, control, modem, mishaps, history>>

Cells == 0..(Cap - 1)
NUL == <<"NUL", 0>>
Empty == [c \in Cells |-> NUL]
NoCmd == [exp |-> "", end |-> "", retry |-> 0, info |-> FALSE]

Init ==
  /\ buffer = Empty
  /\ index = 0
  /\ new_data = FALSE
  /\ cmd = NoCmd
  /\ mode = "AT"
  /\ retry = 0
  /\ armed = FALSE
  /\ due = FALSE
  /\ pc = "idle"
  /\ resume = "idle"
  /\ event = "none"
  /\ line = <<>>
  /\ urcs = 0
  /\ disturbed = FALSE
  /\ torn = FALSE
  /\ issued = 0
  /\ sends = 0
  /\ ended = 0

-----------------------------------------------------------------------------
(* The modem and the clock *)

\* The pieces of a complete answer to command n of shape c; the module may
\* answer ERROR or not at all.
Answers(c, n) ==
  { <<>>, << <<"NL", n>>, <<"ERR", n>> >>,
    (IF c.info THEN << <<"DATA", n>> >> ELSE <<>>)
      \o << <<"NL", n>>, <<"OK", n>> >> }

Transmit(c, n) ==
  \E a \in Answers(c, n) :
    /\ Len(line) + Len(a) <= MaxLine
    /\ line' = line \o a

\* An unsolicited line (RING, +CMTI, NO CARRIER ...).
Unsolicited ==
  /\ urcs < MaxUrc
  /\ Len(line) < MaxLine
  /\ urcs' = urcs + 1
  /\ line' = Append(line, <<"URC", 0>>)
  /\ UNCHANGED <<rx, new_data, atc, control, mishaps, history>>

\* timeout_atc_ms elapses; sending takes less than that.
Expire ==
  /\ armed
  /\ ~due
  /\ pc \notin {"send_index", "transmit"}
  /\ due' = TRUE
  /\ disturbed' = (disturbed \/ torn
                     \/ ~(pc = "idle" /\ line = <<>> /\ ~new_data))
  /\ UNCHANGED <<rx, new_data, cmd, retry, armed, control, line, urcs, torn,
                 history>>

-----------------------------------------------------------------------------
(* Receive interrupt *)

\* Mutant: the overflow test is one byte late.
FillRxLate(data) ==
  LET room   == Cap - index + 1
      stored == IF Len(data) < room THEN Len(data) ELSE room
      filled == [c \in Cells |-> IF c \in index..(index + stored - 1)
                                 THEN data[c - index + 1] ELSE buffer[c]]
  IN  IF Len(data) < room
      THEN buffer' = filled /\ index' = index + stored
      ELSE buffer' = [filled EXCEPT ![0] = NUL] /\ index' = 0

\* gsm_hw_layer_uart_fill_rx(data, length), AT branch: append; a full buffer
\* is emptied and the rest of the block is dropped.
FillRx(data) ==
  LET room   == Cap - index
      stored == IF Len(data) < room THEN Len(data) ELSE room
      filled == [c \in Cells |-> IF c \in index..(index + stored - 1)
                                 THEN data[c - index + 1] ELSE buffer[c]]
  IN  IF Len(data) < room
      THEN buffer' = filled /\ index' = index + stored
      ELSE buffer' = [filled EXCEPT ![0] = NUL] /\ index' = 0

\* Mutant: the mode is not looked at.
ReceiveIsrAnyMode ==
  /\ \E n \in 1..Len(line) :
       /\ FillRx(SubSeq(line, 1, n))
       /\ disturbed' = (disturbed \/ n >= Cap - index)
       /\ line' = SubSeq(line, n + 1, Len(line))
  /\ new_data' = TRUE
  /\ UNCHANGED <<atc, control, urcs, torn, history>>

ReceiveIsr ==
  /\ \E n \in 1..Len(line) :
       /\ IF mode = "AT" THEN FillRx(SubSeq(line, 1, n)) ELSE UNCHANGED rx
       /\ disturbed' = (disturbed \/ (mode = "AT" /\ n >= Cap - index))
       /\ line' = SubSeq(line, n + 1, Len(line))
  /\ new_data' = TRUE
  /\ UNCHANGED <<atc, control, urcs, torn, history>>

-----------------------------------------------------------------------------
(* What the main loop sees of the buffer *)

\* The cells before the first 0: the string strstr searches.
Seen(b) == {b[c] : c \in {d \in Cells : \A e \in 0..d : b[e] # NUL}}

Found(b) == cmd.exp = "" \/ \E p \in Seen(b) : p[1] = cmd.exp

\* memcmp with the last bytes, which have to be fewer than those received.
EndsWell(b, len) == cmd.end = "" \/ (len > 1 /\ b[len - 1][1] = cmd.end)

-----------------------------------------------------------------------------
(* gsm_hw_send_at_cmd, from gsm_state_machine_polling or from a callback *)

\* A command that is over with its information line, before the OK that ends
\* the answer: AT+CPIN?, which expects "READY" and nothing at the end.
Early(c) == c.exp = "DATA" /\ c.end = ""

\* Nothing but unsolicited lines.
Unasked(pieces) == \A i \in 1..Len(pieces) : pieces[i][2] = 0

\* Mutant: the receive buffer is not cleared.
BeginSendKeeps(from) ==
  /\ issued < MaxCmds
  /\ \E c \in Commands : cmd' = c /\ retry' = c.retry
  /\ armed' = TRUE
  /\ due' = FALSE
  /\ issued' = issued + 1
  /\ sends' = 0
  /\ torn' = FALSE
  /\ pc' = "send_index"
  /\ resume' = from
  /\ disturbed' = (disturbed \/ (Early(cmd) /\ ~Unasked(line)))
  /\ UNCHANGED <<rx, new_data, event, modem>>

\* The fields, the clock, and the memset of the receive buffer.
BeginSend(from) ==
  /\ issued < MaxCmds
  /\ \E c \in Commands : cmd' = c /\ retry' = c.retry
  /\ armed' = TRUE
  /\ due' = FALSE
  /\ buffer' = Empty
  /\ issued' = issued + 1
  /\ sends' = 0
  /\ torn' = FALSE
  /\ pc' = "send_index"
  /\ resume' = from
  /\ disturbed' = (disturbed \/ (Early(cmd) /\ ~Unasked(line)))
  /\ UNCHANGED <<index, new_data, event, modem>>

SendIndex ==
  /\ pc = "send_index"
  /\ index' = 0
  /\ pc' = "transmit"
  /\ UNCHANGED <<buffer, new_data, atc, resume, event, mode, modem, mishaps,
                 history>>

SendRaw ==
  /\ pc = "transmit"
  /\ Transmit(cmd, issued)
  /\ sends' = sends + 1
  /\ pc' = resume
  /\ UNCHANGED <<rx, new_data, atc, resume, event, mode, urcs, mishaps,
                 issued, ended>>

\* gsm_state_machine_polling starts a chain of commands.
StartChain ==
  /\ pc = "idle"
  /\ retry = 0
  /\ ~armed
  /\ BeginSend("idle")
  /\ UNCHANGED <<mode, ended>>

-----------------------------------------------------------------------------
(* gsm_hw_layer_run *)

Goto(l) == pc' = l /\ UNCHANGED <<resume, event, mode>>

\* With interrupts off: read and clear m_new_uart_data.
TakeFlag ==
  /\ pc = "idle"
  /\ retry > 0 \/ armed
  /\ IF retry > 0
     THEN new_data' = FALSE /\ Goto(IF new_data THEN "search" ELSE "timer")
     ELSE UNCHANGED new_data /\ Goto("timer")
  /\ UNCHANGED <<rx, atc, modem, mishaps, history>>

\* strstr(buffer, expect_resp_from_atc)
Search ==
  /\ pc = "search"
  /\ Goto(IF Found(buffer) THEN "compare" ELSE "timer")
  /\ UNCHANGED <<rx, new_data, atc, modem, mishaps, history>>

\* The end of the answer is not there yet.
CompareFails ==
  /\ pc = "compare"
  /\ ~EndsWell(buffer, index)
  /\ Goto("timer")
  /\ UNCHANGED <<rx, new_data, atc, modem, mishaps, history>>

\* Mutant: timeout_atc_ms = 0 is missing.
CompleteKeepsTimeout ==
  /\ pc = "compare"
  /\ EndsWell(buffer, index)
  /\ retry' = 0
  /\ buffer' = [buffer EXCEPT ![index] = NUL]
  /\ event' = "OK"
  /\ resume' = "wipe_index"
  /\ pc' = "callback"
  /\ UNCHANGED <<index, new_data, cmd, armed, due, mode, modem, mishaps,
                 history>>

\* Mutant: the buffer is wiped before the callback reads it.
CompleteWipesFirst ==
  /\ pc = "compare"
  /\ EndsWell(buffer, index)
  /\ retry' = 0
  /\ armed' = FALSE
  /\ due' = FALSE
  /\ buffer' = [buffer EXCEPT ![0] = NUL]
  /\ event' = "OK"
  /\ resume' = "wipe_index"
  /\ pc' = "callback"
  /\ UNCHANGED <<index, new_data, cmd, mode, modem, mishaps, history>>

\* The answer is complete: the command is over and its callback is called with
\* GSM_EVENT_OK.
Complete ==
  /\ pc = "compare"
  /\ EndsWell(buffer, index)
  /\ retry' = 0
  /\ armed' = FALSE
  /\ due' = FALSE
  /\ buffer' = [buffer EXCEPT ![index] = NUL]
  /\ event' = "OK"
  /\ resume' = "wipe_index"
  /\ pc' = "callback"
  /\ UNCHANGED <<index, new_data, cmd, mode, modem, mishaps, history>>

WipeIndex ==
  /\ pc = "wipe_index"
  /\ index' = 0
  /\ torn' = (index > 0)
  /\ Goto("wipe_buffer")
  /\ UNCHANGED <<buffer, new_data, atc, modem, disturbed, history>>

WipeBuffer ==
  /\ pc = "wipe_buffer"
  /\ buffer' = Empty
  /\ torn' = (torn \/ index > 0)
  /\ Goto("timer")
  /\ UNCHANGED <<index, new_data, atc, modem, disturbed, history>>

\* Mutant: m_new_uart_data is cleared at the end of the run.
NotDueClears ==
  /\ pc = "timer"
  /\ ~(armed /\ due)
  /\ Goto("idle")
  /\ new_data' = FALSE
  /\ UNCHANGED <<rx, atc, modem, mishaps, history>>

\* The timeout has not passed: the run is over.
NotDue ==
  /\ pc = "timer"
  /\ ~(armed /\ due)
  /\ Goto("idle")
  /\ UNCHANGED <<rx, new_data, atc, modem, mishaps, history>>

\* Mutant: retry_count_atc-- is missing.
ResendForever ==
  /\ pc = "timer"
  /\ armed /\ due
  /\ retry > 1
  /\ due' = FALSE
  /\ Transmit(cmd, issued)
  /\ sends' = sends + 1
  /\ Goto("idle")
  /\ UNCHANGED <<rx, new_data, cmd, retry, armed, urcs, mishaps, issued,
                 ended>>

\* Another attempt: restart the clock and send the command again.  What is in
\* the receive buffer stays there.
Resend ==
  /\ pc = "timer"
  /\ armed /\ due
  /\ retry > 1
  /\ retry' = retry - 1
  /\ due' = FALSE
  /\ Transmit(cmd, issued)
  /\ sends' = sends + 1
  /\ Goto("idle")
  /\ UNCHANGED <<rx, new_data, cmd, armed, urcs, mishaps, issued, ended>>

\* Mutant: the callback is called only for an answer.
GiveUpSilently ==
  /\ pc = "timer"
  /\ armed /\ due
  /\ retry <= 1
  /\ retry' = 0
  /\ armed' = FALSE
  /\ due' = FALSE
  /\ Goto("forget")
  /\ UNCHANGED <<rx, new_data, cmd, modem, mishaps, history>>

\* The last attempt is over: the callback is called with GSM_EVENT_TIMEOUT.
GiveUp ==
  /\ pc = "timer"
  /\ armed /\ due
  /\ retry <= 1
  /\ retry' = 0
  /\ armed' = FALSE
  /\ due' = FALSE
  /\ event' = "TIMEOUT"
  /\ resume' = "forget"
  /\ pc' = "callback"
  /\ UNCHANGED <<rx, new_data, cmd, mode, modem, mishaps, history>>

\* After that callback: index = 0, buffer[0] = 0.
Forget ==
  /\ pc = "forget"
  /\ index' = 0
  /\ buffer' = [buffer EXCEPT ![0] = NUL]
  /\ torn' = (index > 0)
  /\ Goto("idle")
  /\ UNCHANGED <<new_data, atc, modem, disturbed, history>>

-----------------------------------------------------------------------------
(* What a callback may do: send the next command, return, or change the    *)
(* state to RESET, which calls gsm_hw_layer_reset_rx_buffer.  The answer   *)
(* to the dial command makes it set the mode to PPP first (open_ppp_stack, *)
(* step 4).                                                                *)

CallbackSends ==
  /\ pc = "callback"
  /\ mode' \in {mode, "PPP"}
  /\ BeginSend(resume)
  /\ ended' = ended + 1

CallbackReturns ==
  /\ pc = "callback"
  /\ mode' \in {mode, "PPP"}
  /\ pc' = resume
  /\ ended' = ended + 1
  /\ UNCHANGED <<rx, new_data, atc, resume, event, modem, mishaps, issued,
                 sends>>

CallbackResets ==
  /\ pc = "callback"
  /\ buffer' = Empty
  /\ index' = 0
  /\ retry' = 0
  /\ Goto(resume)
  /\ ended' = ended + 1
  /\ UNCHANGED <<new_data, cmd, armed, due, modem, mishaps, issued, sends>>

-----------------------------------------------------------------------------

Run == TakeFlag \/ Search \/ CompareFails \/ Complete \/ WipeIndex
         \/ WipeBuffer \/ NotDue \/ Resend \/ GiveUp \/ Forget

Callback == CallbackSends \/ CallbackReturns \/ CallbackResets

MainLoop == Run \/ Callback \/ SendIndex \/ SendRaw

Next == StartChain \/ MainLoop \/ ReceiveIsr \/ Unsolicited \/ Expire

Spec == Init /\ [][Next]_vars

\* gsm_mnr_task is called for ever, SysTick advances the clock and pending
\* receive interrupts are taken.  The modem owes nothing.
FairSpec ==
  Spec /\ WF_vars(MainLoop) /\ SF_vars(Expire) /\ WF_vars(ReceiveIsr)

-----------------------------------------------------------------------------
(* Properties *)

Pieces == {"NL", "DATA", "OK", "ERR"} \X (1..MaxCmds) \cup {<<"URC", 0>>}

\* The index never leaves the buffer, whatever the interrupt appends.
TypeOK ==
  /\ buffer \in [Cells -> Pieces \cup {NUL}]
  /\ index \in Cells
  /\ {new_data, armed, due, disturbed, torn} \subseteq BOOLEAN
  /\ cmd \in Commands \cup {NoCmd}
  /\ mode \in {"AT", "PPP"}
  /\ retry \in Nat
  /\ pc \in {"idle", "search", "compare", "callback", "send_index", "transmit",
             "wipe_index", "wipe_buffer", "timer", "forget"}
  /\ resume \in {"idle", "wipe_index", "forget"}
  /\ event \in {"none", "OK", "TIMEOUT"}
  /\ line \in Seq(Pieces)
  /\ issued \in 0..MaxCmds
  /\ sends \in Nat
  /\ ended \in 0..issued

\* A command is sent at most retry_count times, however its timeouts, its
\* resends and the interrupt interleave, and its attempts add up.
SendsBounded ==
  armed /\ pc # "send_index" /\ pc # "transmit" => sends + retry = cmd.retry + 1

\* No lost wake-up: an answer in the buffer that satisfies the command is
\* always announced by m_new_uart_data when the main loop comes to look, and
\* so is found at the next poll and not only by a resend.
AnswerAnnounced ==
  pc = "idle" /\ retry > 0 /\ Found(buffer) /\ EndsWell(buffer, index)
    => new_data

\* A callback with GSM_EVENT_OK is given nothing but the answer to its own
\* command (and unsolicited lines), never the late rest of an earlier answer,
\* as long as no timeout has passed before an answer was in, whole, and looked
\* at, no command was sent before the rest of the answer to an early one was
\* in, and the buffer has not overflowed (it is emptied by one 0 in its first
\* cell, so that the next byte brings the old text back into view).
OwnAnswer ==
  [][Complete /\ ~disturbed
       => \A c \in Cells : buffer[c][2] \in {0, issued}]_vars

\* The callback is given a pointer into the receive buffer: what it was called
\* for is still there when it reads, whatever the interrupt appends between the
\* search, the comparison, the 0 at the end and the callback, unless the buffer
\* overflows or the last clearing hit bytes that had just come in.
CallbackReadsAnswer ==
  pc = "callback" /\ event = "OK" /\ ~disturbed /\ ~torn => Found(buffer)

\* A command sent in PPP mode is never answered with GSM_EVENT_OK: the answer
\* goes to the PPP ring.  GsmManager builds on this.
NoAnswerInPppMode == [][Complete => mode = "AT"]_vars

\* "Clear RX buffer" (gsm_hardware_layer.c:147): while a command waits, the
\* bytes the index counts are bytes strstr can see.
BufferReadable ==
  pc = "idle" /\ retry > 0 /\ index > 0 => buffer[0] # NUL

\* One callback per command and one command at a time.
Service == INSTANCE AtService WITH
             busy <- (armed \/ pc = "callback")
ImplementsService == Service!Spec

\* Every command that is issued ends in its callback.
EveryCommandEnds ==
  \A n \in 1..MaxCmds : (issued >= n) ~> (ended >= n)
=============================================================================
