----------------------------- MODULE GsmManager -----------------------------
(***************************************************************************)
(* The GSM manager of gsm_data_layer.c: the power-on sequence, the chain of *)
(* AT commands that configures the module (gsm_config_module), the chain   *)
(* that dials and opens PPP (open_ppp_stack), and the lwIP PPP callbacks   *)
(* that close and reopen it.  Everything runs in the main loop: a handler  *)
(* is one step.                                                            *)
(*                                                                         *)
(* The AT engine (AtEngine) appears as the command it has under way, cb;   *)
(* an answer to it is "good" (GSM_EVENT_OK and what the handler looks for  *)
(* in it is there), "bad" (GSM_EVENT_OK without it) or "timeout".  lwIP's  *)
(* PPP is the phase of the control block.  Use of a NULL control block is  *)
(* undefined: the processor may take the HardFault_Handler loop (fault) or *)
(* go on.                                                                  *)
(*                                                                         *)
(* A timeout passes a NULL response.  Address 0 is the low byte of the     *)
(* initial stack pointer, which is 0: the parsers take NULL for "".        *)
(***************************************************************************)
EXTENDS Naturals

VARIABLES
  module,     \* the build: "MC60" (STM32F429) or "EC20" (MC60 not defined)
  state,      \* m_gsm_manager.state
  step,       \* m_gsm_manager.step
  mode,       \* m_gsm_manager.mode: "AT" or "PPP"
  ready,      \* m_gsm_manager.gsm_ready
  power,      \* step of gsm_power_on_sequence
  pins,       \* GSM_PWR_EN, GSM_PWR_RESET, GSM_PWR_KEY
  cb,         \* callback of the command under way: "config", "open" or "none"
  asked,      \* that command, where the handler of its answer depends on it
  imei,       \* digits in m_gsm_imei: "short" (< 14), "nearly" (14) or "full"
  sim_imei,   \* what m_sim_imei holds: "none", the "IMSI" or the "IMEI"
  ccid,       \* a CCID is stored
  ccid_retry, \* static retry of step 12
  redial,     \* static retry_count of open_ppp_stack
  pcb,        \* m_ppp_control_block: "null", "live" or "freed"
  phase,      \* PPP phase of the control block
  connected,  \* m_ppp_connected
  fault       \* the processor is in HardFault_Handler

manager == <<state, step, mode, ready>>
supply == <<power, pins>>
command == <<cb, asked>>
ids == <<imei, sim_imei, ccid, ccid_retry>>
link == <<pcb, phase, connected>>
vars == <<module, manager, supply, command, ids, redial, link, fault>>

\* The steps of gsm_config_module with a decision in them.  A step the build
\* does not have is 0.
AtStep(mc60, ec20) == IF module = "MC60" THEN mc60 ELSE ec20
ImeiStep     == AtStep(8, 10)
ImsiStep     == AtStep(0, 11)
CcidStep     == AtStep(0, 12)
AccessStep   == AtStep(0, 19)
OperatorStep == AtStep(14, 20)
CsqStep      == AtStep(17, 23)
CsqBack      == AtStep(16, 21)
LastStep     == AtStep(18, 24)
Deciding == {1, ImeiStep, ImsiStep, CcidStep, AccessStep, OperatorStep, CsqStep,
             LastStep}

Off == [en |-> 0, reset |-> 1, key |-> 0]
Powered == [en |-> 1, reset |-> 0, key |-> 0]

Init ==
  /\ module \in {"MC60", "EC20"}
  /\ state = "RESET" /\ step = 0 /\ mode = "AT" /\ ready = 0
  /\ power = 0 /\ pins = Off
  /\ cb = "none" /\ asked = "none"
  /\ imei = "short" /\ sim_imei = "none" /\ ccid = FALSE /\ ccid_retry = 0
  /\ redial = 0
  /\ pcb = "null" /\ phase = "DEAD" /\ connected = FALSE
  /\ fault = FALSE

-----------------------------------------------------------------------------
(* What handlers do *)

Send(what, handler) == cb' = handler /\ asked' = what

NoSend == cb' = "none" /\ asked' = "none"

\* gsm_change_state(GSM_STATE_RESET) in a handler that sends nothing; a config
\* step that goes on to m_gsm_manager.step++ leaves step 1.
ToReset(at) ==
  /\ state' = "RESET"
  /\ step' = at
  /\ pins' = Off
  /\ NoSend
  /\ UNCHANGED <<mode, ready, power>>

\* The engine calls the callback of the command under way.  In PPP mode the
\* interrupt fills the PPP ring and the engine finds no answer in its buffer.
Answered(handler, a) ==
  /\ ~fault
  /\ cb = handler
  /\ mode = "PPP" => a = "timeout"

-----------------------------------------------------------------------------
(* gsm_state_machine_polling, once a second *)

\* Mutant: the sequence is cut short after the pulse has begun.
PollResetShort ==
  /\ ~fault
  /\ state = "RESET"
  /\ ready' = 0
  /\ power' = (power + 1) % 4
  /\ pins' = CASE power = 0 -> Off
               [] power = 1 -> [pins EXCEPT !.reset = 0, !.en = 1]
               [] power = 3 -> [pins EXCEPT !.key = 1]
               [] OTHER     -> pins
  /\ IF power = 3 THEN state' = "POWER_ON" /\ step' = 0
                  ELSE UNCHANGED <<state, step>>
  /\ UNCHANGED <<module, mode, command, ids, redial, link, fault>>

\* Mutant: case 6 is missing, the sequence stays there.
PollResetStuck ==
  /\ ~fault
  /\ state = "RESET"
  /\ ready' = 0
  /\ power' = IF power = 6 THEN 6 ELSE power + 1
  /\ pins' = pins
  /\ UNCHANGED <<module, state, step, mode, command, ids, redial, link, fault>>

PollReset ==
  /\ ~fault
  /\ state = "RESET"
  /\ ready' = 0
  /\ power' = (power + 1) % 8
  /\ pins' = CASE power = 0 -> Off
               [] power = 1 -> [pins EXCEPT !.reset = 0, !.en = 1]
               [] power = 3 -> [pins EXCEPT !.key = 1]
               [] power = 4 -> [pins EXCEPT !.key = 0, !.reset = 0]
               [] OTHER     -> pins
  /\ IF power = 7 THEN state' = "POWER_ON" /\ step' = 0
                  ELSE UNCHANGED <<state, step>>
  /\ UNCHANGED <<module, mode, command, ids, redial, link, fault>>

\* Mutant: the test of the step is missing.
PollPowerOnAlways ==
  /\ ~fault
  /\ state = "POWER_ON"
  /\ step' = 1
  /\ Send("ATV1", "config")
  /\ UNCHANGED <<module, state, mode, ready, supply, ids, redial, link, fault>>

PollPowerOn ==
  /\ ~fault
  /\ state = "POWER_ON"
  /\ step = 0
  /\ step' = 1
  /\ Send("ATV1", "config")
  /\ UNCHANGED <<module, state, mode, ready, supply, ids, redial, link, fault>>

-----------------------------------------------------------------------------
(* gsm_config_module *)

\* The command sent by a step without a decision.
NextCommand(s) ==
  CASE s + 1 = ImeiStep -> "CGSN"
    [] OTHER -> "other"

ConfigNext(what, s) ==
  /\ Send(what, "config")
  /\ step' = s + 1
  /\ UNCHANGED <<module, state, mode, ready, supply>>

\* An answer is not looked at: log it and send the next command.
ConfigPlain(a) ==
  /\ Answered("config", a)
  /\ step \notin Deciding
  /\ step \in 1..LastStep
  /\ ConfigNext(NextCommand(step), step)
  /\ UNCHANGED <<module, ids, redial, link, fault>>

ConfigStart(a) ==
  /\ Answered("config", a)
  /\ step = 1
  /\ IF a = "timeout" THEN ToReset(1) ELSE ConfigNext("other", 1)
  /\ UNCHANGED <<module, ids, redial, link, fault>>

\* What m_gsm_imei holds after the step: an answer is parsed as long as fewer
\* than 14 digits are stored.
ImeiAfter(a) ==
  IF imei # "short" THEN {imei}
  ELSE CASE a = "good" -> {"full"}
         [] a = "bad"  -> {"short", "nearly"}
         [] OTHER      -> {"short"}

\* Mutant: a number of 14 digits is neither complete nor read again.
ConfigImeiStrict(a) ==
  /\ Answered("config", a)
  /\ step = ImeiStep
  /\ imei' \in ImeiAfter(a)
  /\ IF imei' # "full"
     THEN ToReset(0)
     ELSE ConfigNext(IF ImsiStep = 0 THEN "other" ELSE "CIMI", step)
  /\ UNCHANGED <<module, sim_imei, ccid, ccid_retry, redial, link, fault>>

\* A number that has just been read has to have 15 digits, or the module is
\* restarted; one that is stored is taken as it is.
ConfigImei(a) ==
  /\ Answered("config", a)
  /\ step = ImeiStep
  /\ imei' \in ImeiAfter(a)
  /\ IF imei = "short" /\ imei' # "full"
     THEN ToReset(0)
     ELSE ConfigNext(IF ImsiStep = 0 THEN "other" ELSE "CIMI", step)
  /\ UNCHANGED <<module, sim_imei, ccid, ccid_retry, redial, link, fault>>

\* The digits of the answer become the SIM's number, whichever command it
\* answers; fewer than 15 of them and AT+CGSN is sent.
ConfigImsi(a) ==
  /\ Answered("config", a)
  /\ step = ImsiStep
  /\ sim_imei' = IF a # "good" THEN "none"
                 ELSE IF asked = "CGSN" THEN "IMEI" ELSE "IMSI"
  /\ IF sim_imei' = "none" THEN ConfigNext("CGSN", 10)
                           ELSE ConfigNext("QCCID", 11)
  /\ UNCHANGED <<module, imei, ccid, ccid_retry, redial, link, fault>>

ConfigCcid(a) ==
  /\ Answered("config", a)
  /\ step = CcidStep
  /\ ccid' = (ccid \/ a = "good")
  /\ IF ~ccid' /\ ccid_retry < 2
     THEN ccid_retry' = ccid_retry + 1 /\ ConfigNext("QCCID", 11)
     ELSE UNCHANGED ccid_retry /\ ConfigNext("other", 12)
  /\ UNCHANGED <<module, imei, sim_imei, redial, link, fault>>

\* No access technology, no operator: ask again, without m_gsm_manager.step++.
ConfigAgain(a) ==
  /\ Answered("config", a)
  /\ step \in {AccessStep, OperatorStep}
  /\ ConfigNext("other", IF a = "bad" THEN step - 1 ELSE step)
  /\ UNCHANGED <<module, ids, redial, link, fault>>

\* "bad" is a signal strength of 99.
ConfigCsq(a) ==
  /\ Answered("config", a)
  /\ step = CsqStep
  /\ CASE a = "timeout" -> ToReset(0)
       [] a = "bad"     -> ConfigNext("other", CsqBack)
       [] OTHER         -> ConfigNext("other", step)
  /\ UNCHANGED <<module, ids, redial, link, fault>>

\* Mutant: m_gsm_manager.step = 0 is missing.
ConfigReadyKeepsStep(a) ==
  /\ Answered("config", a)
  /\ step = LastStep
  /\ ready' = 1
  /\ step' = step + 1
  /\ Send("other", "open")
  /\ UNCHANGED <<module, state, mode, supply, ids, redial, link, fault>>

\* Mutant: the handler returns before m_gsm_manager.step++.
ConfigReadyReturns(a) ==
  /\ Answered("config", a)
  /\ step = LastStep
  /\ ready' = 1
  /\ step' = 0
  /\ Send("other", "open")
  /\ UNCHANGED <<module, state, mode, supply, ids, redial, link, fault>>

\* Hand over to open_ppp_stack at step 1.
ConfigReady(a) ==
  /\ Answered("config", a)
  /\ step = LastStep
  /\ ready' = 1
  /\ step' = 1
  /\ Send("other", "open")
  /\ UNCHANGED <<module, state, mode, supply, ids, redial, link, fault>>

-----------------------------------------------------------------------------
(* open_ppp_stack *)

\* Steps 1 and 2 send AT+CSQ and AT+CPIN? whatever the answer was.
OpenCheck(a) ==
  /\ Answered("open", a)
  /\ step \in {1, 2}
  /\ step' = step + 1
  /\ Send("other", "open")
  /\ UNCHANGED <<module, state, mode, ready, supply, ids, redial, link, fault>>

\* "bad" is "+CPIN: NOT INSERTED".
OpenDial(a) ==
  /\ Answered("open", a)
  /\ step = 3
  /\ IF a = "good"
     THEN /\ step' = 4
          /\ Send("ATD", "open")
          /\ UNCHANGED <<state, mode, ready, supply>>
     ELSE ToReset(0)
  /\ UNCHANGED <<module, ids, redial, link, fault>>

\* CONNECT: PPP mode, a new control block, ppp_connect, which starts LCP.
OpenConnected(a) ==
  /\ Answered("open", a)
  /\ step = 4
  /\ a # "timeout"
  /\ mode' = "PPP"
  /\ state' = "OK"
  /\ step' = 0
  /\ ready' = 2
  /\ NoSend
  /\ pcb' = "live"
  /\ phase' = "ESTABLISH"
  /\ UNCHANGED <<module, supply, ids, redial, connected, fault>>

\* No CONNECT: the mode is PPP all the same.  ppp_close is called with the NULL
\* control block; if the program survives it asks again, from step 3, or
\* resets the module after the fifth time.
OpenFailed(a) ==
  /\ Answered("open", a)
  /\ step = 4
  /\ a = "timeout"
  /\ pcb = "null"
  /\ mode' = "PPP"
  /\ fault' \in BOOLEAN
  /\ redial' = (redial + 1) % 5
  /\ IF redial = 4
     THEN state' = "RESET" /\ step' = 0 /\ pins' = Off /\ NoSend
     ELSE step' = 3 /\ Send("ATV1", "open") /\ UNCHANGED <<state, pins>>
  /\ UNCHANGED <<module, ready, power, ids, link>>

-----------------------------------------------------------------------------
(* lwIP: phases of the control block and ppp_link_status_cb *)

\* ppp_notify_phase_cb(PPP_PHASE_RUNNING)
LinkUp ==
  /\ ~fault
  /\ pcb = "live" /\ phase = "ESTABLISH"
  /\ phase' = "RUNNING"
  /\ connected' = TRUE
  /\ UNCHANGED <<module, manager, supply, command, ids, redial, pcb, fault>>

\* The peer negotiates anew or ends LCP: no phase callback takes back
\* m_ppp_connected.
LinkRestarts ==
  /\ ~fault
  /\ pcb = "live" /\ phase = "RUNNING"
  /\ phase' = "ESTABLISH"
  /\ UNCHANGED <<module, manager, supply, command, ids, redial, pcb, connected,
                 fault>>

\* IPCP has ended and lcp_close is called: the link is not dead yet.
LinkTerminating ==
  /\ ~fault
  /\ pcb = "live" /\ phase \in {"ESTABLISH", "RUNNING"}
  /\ phase' = "TERMINATE"
  /\ UNCHANGED <<module, manager, supply, command, ids, redial, pcb, connected,
                 fault>>

\* Mutant: m_ppp_connected = false is missing.
LinkLostStillConnected ==
  /\ ~fault
  /\ pcb = "live" /\ phase \in {"ESTABLISH", "RUNNING", "TERMINATE"}
  /\ phase' = "DEAD"
  /\ pcb' = "freed"
  /\ state' = "REOPEN_PPP"
  /\ step' = 1
  /\ Send("ATV1", "open")
  /\ UNCHANGED <<module, connected, mode, ready, supply, ids, redial, fault>>

\* PPPERR_CONNECT: ppp_close finds the block dead and calls back with
\* PPPERR_USER, which frees it and changes the state to REOPEN_PPP.
LinkLost ==
  /\ ~fault
  /\ pcb = "live" /\ phase \in {"ESTABLISH", "RUNNING", "TERMINATE"}
  /\ phase' = "DEAD"
  /\ pcb' = "freed"
  /\ connected' = FALSE
  /\ state' = "REOPEN_PPP"
  /\ step' = 1
  /\ Send("ATV1", "open")
  /\ UNCHANGED <<module, mode, ready, supply, ids, redial, fault>>

\* PPPERR_LOOPBACK, found during LCP negotiation: only logged.
LinkLoopback ==
  /\ ~fault
  /\ pcb = "live" /\ phase = "ESTABLISH"
  /\ phase' = "DEAD"
  /\ UNCHANGED <<module, manager, supply, command, ids, redial, pcb, connected,
                 fault>>

\* gsm_hw_pppos_polling hands bytes of the ring to pppos_input.  With a block
\* that is live it feeds the phases above, with one that was freed its closed
\* pppos_pcb drops them, with NULL anything may happen.
FeedWithoutPcb ==
  /\ ~fault
  /\ mode = "PPP" /\ pcb = "null"
  /\ fault' = TRUE
  /\ UNCHANGED <<module, manager, supply, command, ids, redial, link>>

-----------------------------------------------------------------------------

Poll == PollReset \/ PollPowerOn

Handler(a) ==
  \/ ConfigPlain(a) \/ ConfigStart(a) \/ ConfigImei(a) \/ ConfigImsi(a)
  \/ ConfigCcid(a) \/ ConfigAgain(a) \/ ConfigCsq(a) \/ ConfigReady(a)
  \/ OpenCheck(a) \/ OpenDial(a) \/ OpenConnected(a) \/ OpenFailed(a)

Answer == \E a \in {"good", "bad", "timeout"} : Handler(a)

Ppp == LinkUp \/ LinkRestarts \/ LinkTerminating \/ LinkLost \/ LinkLoopback
         \/ FeedWithoutPcb

Next == Poll \/ Answer \/ Ppp

Spec == Init /\ [][Next]_vars

\* gsm_mnr_task runs for ever, and a command under way ends in its callback
\* (AtEngine!EveryCommandEnds).  The network owes nothing.
FairSpec == Spec /\ WF_vars(Poll) /\ WF_vars(Answer)

\* A step that no good answer explains, to a command that could get one.
Misbehave == mode = "AT" /\ Answer /\ ~Handler("good")

\* From some moment on the module and the network are well.
WellInTheEnd == <>[][~Misbehave]_vars

\* The chains are worked on in PPP mode: fill_rx hands every answer to the PPP
\* stack.  Before the first session only a failed dial leads there.
Deaf == mode = "PPP" /\ state # "OK"

-----------------------------------------------------------------------------
(* Properties *)

TypeOK ==
  /\ module \in {"MC60", "EC20"}
  /\ state \in {"RESET", "POWER_ON", "OK", "REOPEN_PPP"}
  /\ step \in 0..LastStep
  /\ mode \in {"AT", "PPP"}
  /\ ready \in 0..2
  /\ power \in 0..7
  /\ pins \in [en : {0, 1}, reset : {0, 1}, key : {0, 1}]
  /\ cb \in {"none", "config", "open"}
  /\ asked \in {"none", "ATV1", "CGSN", "CIMI", "QCCID", "ATD", "other"}
  /\ imei \in {"short", "nearly", "full"}
  /\ {ccid, connected, fault} \subseteq BOOLEAN
  /\ sim_imei \in {"none", "IMSI", "IMEI"}
  /\ ccid_retry \in 0..2
  /\ redial \in 0..4
  /\ pcb \in {"null", "live", "freed"}
  /\ phase \in {"DEAD", "ESTABLISH", "RUNNING", "TERMINATE"}

\* No chain of callbacks breaks off: while the manager is configuring or
\* reopening, a command is under way whose callback knows the current step, or
\* the next poll starts the chain (gsm_manager.step and the callback pointer
\* are set in different places).
NeverStranded ==
  /\ state = "POWER_ON" /\ cb = "none" => step = 0
  /\ state = "REOPEN_PPP" => cb = "open"
  /\ cb = "config" => step \in 1..LastStep
  /\ cb = "open" => step \in 1..4
  /\ cb # "none" => state \in {"POWER_ON", "REOPEN_PPP"}

\* No AT command is under way on a module that is switched off, held in reset
\* or has its power key pressed.
TalksToPoweredModule == cb # "none" => pins = Powered

\* The application sees a connection only on a control block that exists and
\* was not freed, in the state that keeps it.
ConnectedMeansLink == connected => state = "OK" /\ pcb = "live"

\* A command that is under way is not replaced by another one from outside its
\* own callback: its callback would never come.
CommandNotOverwritten ==
  [][cb # "none" /\ ~Answer => UNCHANGED command]_vars

\* The hard reset comes to its end and the module is configured anew.
ResetCompletes == (state = "RESET") ~> (state = "POWER_ON" \/ fault)

\* With a module that in the end answers, the chains lead to a PPP session
\* whatever happened before: statics and stored numbers left by failed attempts
\* do not lock them.  A failed dial does, it makes the manager deaf, and is
\* excepted here.
ReachesPpp == WellInTheEnd /\ []~Deaf => <>(state = "OK")

\* "ppp_close() was previously called, reconnect" (gsm_data_layer.c:889).
ReopenReconnects ==
  WellInTheEnd => ((state = "REOPEN_PPP") ~> (state = "OK"))
=============================================================================
