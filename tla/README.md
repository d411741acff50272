# lwip_porting: TLA+ models and proofs

The repository is a firmware for two STM32 boards that brings lwIP 2.1.2 onto the
internet through a Quectel GSM modem: the modem is configured with AT commands
over USART1, dials, and from then on the same serial line carries PPP. An HTTP
download or an MQTT client runs on top. Own code is about 4000 lines; the rest
of the tree is lwIP, the ST HAL, CMSIS and SEGGER RTT.

There is no operating system. One main loop (`while (1)` in `main.c`) calls
`gsm_mnr_task` and then the application; USART1 and its DMA channel interrupt it.

| build | board | modem chain | application |
|---|---|---|---|
| `Core/` | STM32L083 | EC20 (`MC60` not defined) | HTTP, MQTT behind `#if 0` |
| `port_stm32f4/lwip_porting/` | STM32F429 | MC60 | MQTT (`MQTT_ENABLE 1`), HTTP off |

Both share `gsm/`, `mqtt_client/`, `app_http/` and `platform_stm32/`.

## 1. Inventory

| component | state | operations | module |
|---|---|---|---|
| UART reception (`usart.c`, `stm32*_it.c`) | circular DMA buffer, old position, DMA and USART flags, `m_uart_rx_ongoing` | DMA write, HT/TC/TE interrupt, idle-line interrupt, `usart1_rx_complete_callback` | `UartRx` |
| PPP ring (`gsm_hardware_layer.c`, PPP branch) | `m_gsm_modem_buffer` with `idx_in`, `idx_out` | `gsm_hw_layer_uart_fill_rx` (interrupt), `copy_ppp_buffer`, `gsm_hw_pppos_polling` (main loop) | `PppRing` |
| the two in a row | | | `RxChain` |
| AT engine (`gsm_hardware_layer.c`) | `m_gsm_atc`: command, expected texts, retry count, timeout, receive buffer; `m_new_uart_data` | `gsm_hw_send_at_cmd`, `gsm_hw_layer_run`, `fill_rx` AT branch, `reset_rx_buffer` | `AtEngine` |
| GSM manager (`gsm_data_layer.c`) | state, step, mode, `gsm_ready`, pins, statics of the chains, PPP control block, `m_ppp_connected` | `gsm_state_machine_polling`, `gsm_power_on_sequence`, `gsm_config_module`, `open_ppp_stack`, PPP callbacks | `GsmManager` |
| MQTT task (`mqtt_client.c`) | state, DNS flag, tick counter, error count, timers, topic flag, lwIP's `rx_buffer` | polling task; DNS, connection, subscribe and message callbacks | `MqttClient` |
| HTTP download (`app_http.c`, lwIP's `http_client.c`) | latch in `main.c`, `m_http_free`, one `httpc_state` | `app_http_start`; DNS, connected, receive, error and poll callbacks; result, header and data callbacks | `AppHttp` |
| answer parsers (`gsm_utilities.c`) | the loop's counters, the caller's buffer | IMEI, CCID, operator name | `GsmUtilities` |
| lwIP, HAL, CMSIS, RTT | third party | | environment |

How they interact:

    modem -> DMA buffer -> interrupts -> gsm_hw_layer_uart_fill_rx
                                            |  mode AT: AT buffer, m_new_uart_data
                                            |     -> gsm_hw_layer_run -> callback
                                            |          gsm_config_module / open_ppp_stack
                                            |          -> gsm_hw_send_at_cmd (next command)
                                            '  mode PPP: ring -> sio_read -> pppos_input
                                                  -> ppp_link_status_cb, ppp_notify_phase_cb
                                                  -> m_ppp_connected -> MQTT, HTTP

What is hard here: interrupts between any two statements of the main loop on
shared buffers without locks; a DMA that never waits; answers that race
timeouts, resends and the next command; callback chains whose position is kept
in a step counter set in several places; statics that survive a reset of the
modem; two state machines (task and lwIP) that must agree; a tick counter that
wraps. `PROJECT.json` lists these hazards at their lines.

What makes each component correct:

* reception: every byte of the line is handed on once, in order, and the last
  one of a burst too; never a lap of the DMA taken for silence;
* ring: what the indices say is what is there, whatever interrupts the copy;
* AT engine: one command at a time, one callback for each, bounded resends, an
  answer goes to the command it belongs to and none is slept through;
* manager: a chain of callbacks never breaks off and never overwrites another
  chain's command; a module that answers is brought to PPP; a lost link is
  reopened; the application is told the truth about the link;
* MQTT task: its state agrees with lwIP's, it comes back after any failure, its
  periodic traffic is periodic, and only a message addressed to it restarts the
  processor;
* HTTP download: every transfer that starts gives one result, however it ends,
  and it does end; what arrives is neither lost nor counted twice, in the body
  and in TCP's window;
* parsers: the result is what the answer says, cut to the buffer, for any answer
  and any old contents of the buffer.

## 2. Modules

### ByteStream, AtService (abstract specifications)

`ByteStream` is a lossless byte stream of bounded depth: bytes numbered 1, 2, ...
enter, and leave in that order, each once. `UartRx`, `PppRing` and `RxChain` are
shown to implement it. `AtService` says what the users of the AT engine rely on:
one command at a time, each ended by exactly one callback, which may issue the
next. `AtEngine` implements it.

### UartRx

One action per event: the DMA stores a byte (`RxByte`), the line falls idle, a
bus error, and one action per interrupt handler. `Port` selects the handlers and
the enabled interrupts. All interrupts have priority 0, so a handler is a step,
and it includes `usart1_rx_complete_callback` with its old position. A byte is
its number on the line. `MaxLag` is the interrupt latency in bytes and
`MaxBurst` the longest run without an idle gap: neither is enforced by code.
The L0 handler clears all channel flags with TC; TE alone is never cleared and
the channel stays disabled, in both ports. With equal priorities the NVIC takes
the lower interrupt number first: on the L0 the DMA channel (10) before the USART
(27), on the F4 the USART (37) before the DMA stream (58). `DmaTurn` and
`UsartTurn` say so, and the fairness is stated for them. So on the L0 a TE that
stays set starves the idle-line handler too, and the bytes before it are not
handed on: `EveryByteHandedOn` has `[]te` as the other outcome.

### PppRing

The interrupt's PPP branch is one step (`ReceiveIsr`); the main loop is cut where
an interrupt makes a difference: entry of the copy loop, test of the indices,
copy and advance, hand-over to `pppos_input`. Copy and advance are one step: the
interrupt reads neither `idx_out` nor the caller's buffer.

### RxChain

Composes both: a handler's new bytes go to `PppRing!FillRx` within the same step.
While TE is set the interrupt repeats and the main loop does not run, which is why
`EveryByteReachesStack` allows for `te`.

### AtEngine

The main loop is cut at every statement the receive interrupt can fall between
with an effect: taking `m_new_uart_data` (with interrupts off), `strstr`, the
comparison of the end, the completion, the callback, `index = 0`, `memset`, the
timeout test, and in `gsm_hw_send_at_cmd` `memset`, `index = 0`, transmission. The
memset is one step and statements in source order; an optimiser may order the
stores differently. The buffer holds tokens (`<<kind, command>>`) in place of
bytes. The callback may do what the handlers of `gsm_data_layer.c` do: send,
return, or reset the module, and turn the mode to PPP. `Expire` is the passing
of the timeout, at any moment of the main loop. The history variable `disturbed`
records what lets text of an older answer come into view: a timeout that passed
before an answer was in and looked at, or after it was torn; an overflow of the
buffer; a command sent while the rest of an early answer is still on the line.
Early is `AT+CPIN?` alone (`Early`): it expects the information and nothing at the
end, so that it is completed while its OK is still to come, and the next command,
sent without a pause, may find that OK. (The overflow branch writes one 0 into the first cell; the next byte replaces it
and the old text reads on behind it.) `torn` records that the clearing behind a
callback hit bytes of the command that this callback had sent. That can happen
behind `GSM_EVENT_OK` (`index = 0`, then `memset`; the finding `at_wipe`) and
behind `GSM_EVENT_TIMEOUT` (`index = 0; buffer[0] = 0`). `OwnAnswer` is stated
for undisturbed behaviour, `CallbackReadsAnswer` for undisturbed and not torn,
everything else for all. `+CME ERROR` lines, which the code only logs, and the polling interval, which
only delays a run, are left out.

### GsmManager

A handler is a step: everything runs in the main loop. The variable `module`,
chosen in `Init`, selects the build's configuration table; the steps with a
decision in them are named (`ImeiStep`, `CcidStep`, ...) and the others are
`ConfigPlain`. The AT engine is the command
under way (`cb`, `asked`) and the verdict on its answer: "good", "bad" or
"timeout". In PPP mode only "timeout" is possible: `AtEngine!NoAnswerInPppMode`
is the property this rests on. lwIP is the phase of the control block:
connection lost, loopback, renegotiation, termination. NULL control blocks are
passed to lwIP by a failed dial: that is undefined and the model lets the
processor fault or go on. A timeout passes a NULL response to the parsers, which
on these parts reads as the empty string (the low byte of the initial stack
pointer at address 0 is 0).

The stored IMEI has three levels, because the code compares its length with two
numbers: below 14 digits it is read again, and what has just been read has to
have 15. A number of 14 digits therefore restarts the module once and is used
the second time; `ReachesPpp` shows that it does not restart it for ever.

The aim of `ReachesPpp` is GSM_STATE_OK, which only a successful dial sets; the mode
is no aim, since a failed dial sets it to PPP as well and leaves the manager
`Deaf`: the chains go on, and no answer reaches them. The property excepts
behaviours that become deaf, and says what it says of all others. The same
deafness after a lost link is the finding `gsm_reopen`.

Two things the model shows and no text of the repository contradicts: a SIM
whose AT+CIMI is not answered is identified by the module's IMEI (the next
command is AT+CGSN, and step 11 stores its digits); and `m_ppp_connected` stays
set when a link that negotiated anew ends in `PPPERR_LOOPBACK`, which the status
callback only logs.

### MqttClient

One action per branch of the polling task, each with the gate (`due` or
`m_mqtt_process_now`), the allow logic and the tick counter in it, and one per
callback outcome. `mqtt_tick` is only compared with 5 and 10, so values above 10
are one value. Time is counted in seconds and wraps at `Wrap`. Before lwIP
reports the end of a link it takes the address off the interface and aborts the
TCP connections that use it, so `PppDown` finds no connection.

A message comes as its topic, any number of fragments and a last one that the
code looks at. lwIP hands on a fragment when `rx_buffer` is full, each over the
one before it, and the last one, which may be shorter, without a 0 behind it; the
code searches it together with the end of the older one. Of a fragment that fills
the buffer the model keeps (`rx_text`) whether it holds the whole request
`PLEASE RESET`, the rest of one ("rest": an end of it, as in a left `RESET`), or
neither; the last one may hold the request, stop in the middle of one ("head"), or
neither. `Requests` is what `strstr` finds: the request in either part, or joined
from the two, which then nobody sent; a request that is cut by the end of a
fragment is not found (`IncomingDone`). The code clears `rx_buffer` after the last
fragment, lwIP when it connects. Left out: text that `strstr` may find behind
`rx_buffer` when that is full to its last cell. `ResetByOwnMessage` therefore
does not say that the request was sent, which is not so, but that all of its text
came with this message, on the subscribed topic.
`Restart` is `NVIC_SystemReset`: the initial state. Results of publish requests
are only logged by the code.

### AppHttp

The latch of `main.c`, `app_http.c` and lwIP's `http_client.c`, one action per
callback. A reply is a number of header units, where its first line is complete,
whether that line parses, a body and a declared length that need not fit. TCP
hands over pieces of any size that the window allows. The window is in the model
because the header units come back to it when the headers are complete, the body
in `httpc_file_recv_callback`; headers that do not fit the window are never
completed, and the transfer ends by its timeout. `httpc_result_callback` chooses
its branch by `err`, not by the result, but the event callback is always NULL
and `m_http_free` is set behind the switch. lwIP calls the result callback
before it frees the state, never when the start itself fails (`StartFailed`);
the latch is then set all the same and main does not try again.

### GsmUtilities

`gsm_utilities_get_imei`, `get_sim_ccid` and `get_network_operator`, a step for each
character. `Init` enumerates the call: the parser, every text up to `MaxLen`, and a
buffer that is zero or full of an older result. The counters wrap at
`CounterWrap`, one more than the longest answer the AT buffer can hold. The
checks compare the buffer with definitions that do not loop: `DigitsOf` (the n-th
digit is the one with n - 1 digits before it), `Leading`, `Quoted`.

The callers' buffers have their lengths: 16 for `m_gsm_imei` and `m_sim_imei`,
21 for `m_sim_ccid`, 32 for `m_nw_operator`, against a `max_lenth` of 16, 20 and
32. `Put` writes a cell of the buffer, or of whatever lies behind it. The model
shows what the code does at the edges, and `ParsersCorrect` names each case:

* with `max_lenth` digits or more a 0 is written at `max_lenth - 1` and another at
  `max_lenth`. For the CCID that is the last cell; for IMEI and IMSI, which pass
  the length of the buffer, it is the cell behind it (`WritesBounded` allows one 0
  there, in this case only). The modem's numbers have 15 digits, so it takes a
  garbled answer; gsm_utilities.h does not say whether `max_lenth` counts the 0;
* `comma_idx` has five cells, and a sixth quotation mark is written over the stack
  (`MarkBehind`): the function may go on or be "lost". `LostByMarks` says that
  nothing but too many marks leads there;
* the operator name is copied without a 0, so that the end of an older, longer
  name stays behind it.

## 3. Runs

| run | what it shows | distinct states |
|---|---|---|
| `ring` | FIFO behaviour of the ring, implements `ByteStream`, every byte arrives | 774 |
| `uart_l0` | reception with half-transfer interrupts, endless bursts | 4251 |
| `chain` | line to PPP stack; the interrupts of the F4 port, without half-transfer | 21 thousand |
| `at` | AT engine, two commands, all four shapes of commands, answers at any time | 628 thousand |
| `gsm` | both manager chains with every answer, link loss, recovery | 2103 |
| `mqtt` | MQTT task against network, broker and clock, messages, recovery | 572 thousand |
| `http` | the download against every reply, cut and failure | 32 thousand |
| `parsers` | the parsers on every answer of up to five characters | 61 thousand |

Four more runs each check one property that a comment of the code states and the
code does not keep; see Findings.

Bounds. The ring has 6 slots for 20 bytes, blocks of up to 4 and a backlog of 5:
more than three wrap-arounds, blocks that straddle the end, and a backlog of one
less than the size. The DMA buffer has 6 slots (half 3) for 20 bytes with a
latency of 2 (`Half - 1`, the largest that is safe). The chain has bursts of 4
and a latency of 1 for a DMA buffer of 6, the most the F4 port stands, and a ring
of 7, smaller than two DMA buffers, so that both wrap at different places. The AT
buffer has 4 cells, the longest answer plus an unsolicited line, and overflows
as soon as a second answer comes behind the first (as after a resend); the line
holds 3 pieces. `MCCommands` are the four shapes of command that
`gsm_data_layer.c` sends, the early one among them; two
commands are enough for one to be followed by another in its callback and for a late
answer to meet it. The manager has no bounded constant: its state is finite as it
is, so its run is complete. The MQTT clock wraps every 4 seconds, with periods of
3 and 2, so that each timer meets the wrap; three errors stand for five and
two requests for four. The download has a window of 3 units, headers of up to 4 (one
that does not fit), a body of up to 4 (longer than the window), and a timeout of
3 polls. The parsers' answers have up to 5 characters for a `max_lenth` of 3 and
4, in buffers of 3 and 5 cells (as in the program, only the CCID has a cell to
spare) and with 3 cells for marks, so that digits, names and marks all exceed their
room; two digits show their order, and their counter wraps at 6.

Fairness. `gsm_mnr_task` runs for ever, so the main loop is weakly fair; a pending
interrupt is taken when it is its turn (weak fairness of `DmaTurn` and `UsartTurn`,
never of a handler that the NVIC would not choose); SysTick advances the clock, so
a timeout comes (strong fairness of `Expire`, since a poll passes through states in
which it is not enabled). lwIP answers or times out its DNS and connection
requests, polls its TCP connections, and a link that is down is brought up
again (the last for MQTT only: the download has to end without it). The line, the modem and
the network owe nothing. `Reconnects`, `ReachesPpp` and `ReopenReconnects` are
conditional: *if* from some moment on no step fails that could have succeeded
(`WellInTheEnd`), the program gets there. `Misbehave` is a step that no success
explains, so that steps in which the answer makes no difference remain allowed.
They ask whether what happened before has left the program stuck.
Deadlock is not checked where the environment may stop for good, or where the
program does (the HardFault loop).

### Findings

* `uart_f4_lap`: with `LL_DMA_EnableIT_HT` commented out, a burst of exactly one
  buffer without a gap is "no change".
* `at_wipe`: the two statements after "Clear RX buffer" run with interrupts on.
  A byte between them is erased while the index keeps counting it, and `strstr`
  is blind until the command times out. The clearing after a timeout has the same
  window.
* `gsm_reopen`: the mode is never set back to AT, so the reopening after a lost
  connection gets no answers; nor does any later configuration.
* `mqtt_subscribe_wrap`: the subscribe deadline is a sum that wraps.

## 4. Proofs

Every invariant and every safety property over steps that a passing run checks is
a theorem, for every value of the constants that satisfies the assumptions named
below. Each proof argues by an inductive
invariant that adds to the checked properties what they rest on.

| module | theorems |
|---|---|
| `PppRingProofs` | `RingTypeCorrect`, `RingIndicesTellBacklog`, `RingInOrder`, `RingUnreadIntact`, `RingImplementsStream` |
| `UartRxProofs` | `UartTypeCorrect`, `UartEqualMeansNothingNew`, `UartLineInOrder`, `UartBacklogBounded`, `UartImplementsLine` |
| `RxChainProofs` | `ChainInvariant`, `ChainDrivesRing`, `ChainRingInvariant`, `ChainImplementsEndToEnd` |
| `AtEngineProofs` | `AtTypeCorrect`, `AtSendsBounded`, `AtAnswerAnnounced`, `AtNoAnswerInPppMode`, `AtImplementsService`, `AtOwnAnswer`, `AtCallbackReadsAnswer` |
| `GsmManagerProofs` | `ManagerTypeCorrect`, `ManagerNeverStranded`, `ManagerTalksToPoweredModule`, `ManagerConnectedMeansLink`, `ManagerCommandNotOverwritten` |
| `MqttClientProofs` | `MqttTypeCorrect`, `MqttSessionAgrees`, `MqttConnectsToFreshAddress`, `MqttHeartBeatPaced`, `MqttResetByOwnMessage` |
| `AppHttpProofs` | `HttpIdleTellsTransfer`, `HttpUnitsAccountedFor` |
| `GsmUtilitiesProofs` | `ParserInvariant`, `ParsersAreCorrect` |

**PppRing.** Assumption `Lossless`: `MaxBacklog < Size`, that is, the main loop comes round
before a ring full of bytes is unread. (Without it the indices cannot tell full
from empty.) The properties alone are not inductive: that the interrupt writes
no unread slot needs the positions, so `RingInv` adds that both indices are the
numbers of bytes written and taken, modulo the size, through the distance
`Ahead(idx_out, idx_in) = Backlog`, and the bounds on the copy. Then: `RingInOrder`,
`RingUnreadIntact`, `RingIndicesTellBacklog`, and the refinement
`RingImplementsStream`. `RingTypeCorrect` needs no assumption: also a ring that is
overrun keeps its indices in range.

**UartRx.** Assumption `NoLap`: the latency is below half a buffer and, without the
half-transfer interrupt, bursts are too short for a lap. The invariant
relates the unread bytes to the pending flags: while no flag is up the unread
bytes lie within the half that the position is in, and with a flag up there are
at most `lag` more. Hence `UartBacklogBounded`, `UartEqualMeansNothingNew`,
`UartLineInOrder` and `UartImplementsLine`. `UartTypeCorrect` needs no `NoLap`: a
lap loses bytes, but no position leaves the buffer.

**RxChain.** Assumptions `NoLap` and, for what reads the ring, `RingLossless`
(`MaxUnread < RingSize`). The ring's proofs are instantiated with the chain's
constants (`R == INSTANCE PppRingProofs`) and their lemmas cited, not repeated;
`SameRing` shows that it is the ring of `RxChain`. What remains is where the two
meet. `ChainInv` says that what `UartRx` has handed on is what the ring has been
given (`written = Len(out)`), and that never more than `MaxUnread` bytes are
received and not yet taken. From it a handler's new bytes are the next run of the
stream, no longer than `ReceiveIsr` allows: `ChainDrivesRing`. Then the chain's
steps are steps of `PppRing`, so its invariant holds (`ChainRingInvariant`), and
what `pppos_input` has is a beginning of what the line has brought, in order and
never further behind than the two buffers and one read: `ChainImplementsEndToEnd`.

**MqttClient.** No assumption beyond the periods lying below the wrap of the clock.
`SessionAgrees` is inductive as it stands. `ConnectsToFreshAddress` needs
`AddressIsFresh` (a resolved address, and the one the task is connecting to, are
of this session), and `HeartBeatPaced` needs `ClockTellsBeat`: until a
heartbeat is due the unsigned subtraction gives the seconds since the last one,
which the lemma `SecondElapses` carries across the wrap.
`ResetByOwnMessage` needs `MessageIsOwn`: while a message is received the topic
flag is that of the message and `rx_buffer` holds nothing but its text; between
messages `rx_buffer` holds text only while there is no connection (left by
a message that was cut off), and connecting clears it.

**AtEngine.** Assumption: every command expects something (`exp` or `end` is not
""), which every call of `gsm_hw_send_at_cmd` in gsm_data_layer.c satisfies; a
command that expected nothing would be satisfied by a cleared buffer. `AtInv` adds to
the checked properties `Armed` (`retry_count_atc` and `timeout_atc_ms` are set and
cleared together, and are clear while a callback runs), `Counted` (issued and ended
differ by the command under way), `Unsent` (a command that is about to be sent has all
its attempts left), `Announced` (`AnswerAnnounced` at every place of the main
loop: an answer in the buffer is announced or is being looked at) and `Silent` (in
PPP mode the buffer stays as it was cleared). Two lemmas about the search
carry it: a cleared buffer, and one whose first byte is 0 with index 0, satisfy no
command. Hence `AtTypeCorrect` (the index never leaves the buffer), `AtSendsBounded`,
`AtAnswerAnnounced`, `AtNoAnswerInPppMode`, and the refinement
`AtImplementsService`: one callback for each command, for every interleaving of
main loop, interrupt and clock.

`AtOwnAnswer` and `AtCallbackReadsAnswer` speak of whose bytes are in the buffer.
Their invariant, `AnswerInv`, follows an answer from the modem's line to the callback
as long as nothing has disturbed the dialogue:

* between two commands the line holds nothing that was asked for, but for the
  rest of an early answer (`NothingLeft`); while one is under way every
  cell and every piece on the line is its own or unsolicited (`Own`), and before it
  is sent nothing of it is there (`Fresh`);
* at most one answer is on the line (`OneAnswer`), and what satisfies the command is
  the end of it (`WholeAnswer`, `Matched`): this is what makes `NothingLeft` survive
  the completion, and why an early command needs its exception;
* a timeout that is due has not torn or overlooked an answer (`TimedOut`);
* unless a clearing tore it, the buffer has no gap below the index (`Filled`), so
  that the text found by `strstr` is still in sight when the callback reads the
  buffer, whatever the interrupt has appended (`StaysLocated`).

Proving it showed two ways in which a command meets an older answer although none of
its timeouts has passed too early: the OK of `AT+CPIN?`, and a resend after a torn
answer. `disturbed` names both.

**GsmManager.** It has no parameters, and its run is complete; the proof says why the
properties hold. `NeverStranded` and `ConnectedMeansLink` are
inductive together with `Sequenced` (the step of the power-on sequence tells the
state of the three pins, and outside GSM_STATE_RESET the module is powered and
the sequence is at its start, although `gsm_change_state` does not reset it) and
`LiveMeansOk` (a live control block only in GSM_STATE_OK). `TalksToPoweredModule`
and `CommandNotOverwritten` follow.

**GsmUtilities.** Assumptions: no answer is longer than the 8-bit counter is wide, which
the size of the AT buffer gives, and no `max_lenth` is larger than the buffer. The loop invariant `ParserInv` says what part of
the result is in the buffer after each character: the digits passed, each in the
cell that is its rank (`ImeiSoFar`), the beginning of the text (`CcidSoFar`), the
marks passed, in order, as many as `comma_idx` has cells for (`OperatorSoFar`), and
that a full buffer ends in a 0 (`Room`). `MarksExceedCells` counts: the marks noted
and the one that finds no cell are more than there are cells, by an injection. So no induction over data is needed: it is the one over steps.

**AppHttp.** No assumption beyond those on the constants. `HttpInv` adds
`OneTransfer`, `Unread`, `Requested` and `Received`: between two callbacks, what
the server has sent is the header, the body handed over and what is still
queued, and window and declared length agree with it. Hence
`HttpIdleTellsTransfer` and `HttpUnitsAccountedFor`, for headers and bodies of every
length and every way of cutting them into segments.

Only model-checked: liveness (`EveryByteReachesPpp`, `EveryByteHandedOn`,
`EveryByteReachesStack`, `EveryCommandEnds`, `ResetCompletes`, `ReachesPpp`,
`Reconnects`, `TransferEnds`, `ParseEnds`), since fairness and ENABLED are beyond
the prover; and the four findings, which are counterexamples.

## 5. Plan

Done in this order: reception and ring (the data path every byte takes), their
composition, the AT engine, the manager, the MQTT task with its messages, the HTTP
download, the parsers; the proofs of ring, reception, task, engine and download,
then of the answers of the engine, the manager, the receive path end to end
and the parsers. Next:

1. `GsmSystem`: `AtEngine` and `GsmManager` composed, the handlers of the manager
   as the callbacks of the engine, replacing the verdict by the answer; the mode
   shared with `UartRx`'s hand-over, so that bytes at the switch to PPP are
   followed.

## 6. Not modelled

* UART transmission: busy-waiting byte by byte, it only takes time; the latency and
  backlog constants stand for it.
* Signal strength, access technology: one number at one place of an answer; the
  manager's model takes the verdict. The CUSD, HTTP, clock and file parsers of
  `gsm_utilities.c` have no caller.
* What an exception of a property takes out: a TE that stays set (`[]te`), the OK of
  `AT+CPIN?` and an overflow of the AT buffer (`disturbed`), a ring that is overrun
  (`Lossless`), a failed dial (`Deaf`) and the NULL control block behind it (`fault`).
  The steps are in the models; the list of hazards says at each what is not
  claimed.
* System time and debug output: the first returns a counter (its wrap is in
  `MqttClient`), the second is text; that interrupts and main loop share its
  buffer garbles a log line at worst.
* lwIP apart from `http_client.c`, HAL, CMSIS, RTT: third party, present as
  environment. They are most of the tree by far.
* Overrun, framing and noise errors of the UART, whose flags the handlers clear: the
  bytes are lost on the line, before the first model begins.
