-------------------------- MODULE GsmManagerProofs --------------------------
(***************************************************************************)
(* Proofs about GsmManager: the chains of callbacks never break off, no    *)
(* command reaches a module without power or overwrites another one, and   *)
(* the application sees a connection only on a live control block.         *)
(***************************************************************************)
EXTENDS GsmManager, TLAPS

Pressed == [en |-> 1, reset |-> 0, key |-> 1]

\* The power-on sequence starts from its first step, and the pins are those
\* its last step has left: gsm_change_state does not touch the step.
Sequenced ==
  /\ state # "RESET" => power = 0 /\ pins = Powered
  /\ state = "RESET" /\ power \in {0, 1} => pins = Off
  /\ state = "RESET" /\ power = 4 => pins = Pressed
  /\ state = "RESET" /\ power \in {2, 3, 5, 6, 7} => pins = Powered

\* lwIP has a live control block only in the state that waits for its end.
LiveMeansOk == pcb = "live" => state = "OK"

\* Inductive.
ManagerInv ==
  /\ TypeOK
  /\ NeverStranded
  /\ Sequenced
  /\ LiveMeansOk
  /\ ConnectedMeansLink

-----------------------------------------------------------------------------
(* The steps of the two chains *)

LEMMA Steps ==
  ASSUME TypeOK
  PROVE  /\ LastStep \in 18..24
         /\ {ImeiStep, ImsiStep, CcidStep, AccessStep, OperatorStep, CsqStep,
             CsqBack} \subseteq 0..(LastStep - 1)
         /\ ImsiStep \in {0, 11} /\ CcidStep \in {0, 12}
         /\ ImsiStep # 0 => LastStep = 24
         /\ CcidStep # 0 => LastStep = 24
<1>1. CASE module = "MC60"
  BY <1>1 DEF AtStep, LastStep, ImeiStep, ImsiStep, CcidStep, AccessStep,
    OperatorStep, CsqStep, CsqBack
<1>2. CASE module = "EC20"
  BY <1>2 DEF AtStep, LastStep, ImeiStep, ImsiStep, CcidStep, AccessStep,
    OperatorStep, CsqStep, CsqBack
<1> QED BY <1>1, <1>2 DEF TypeOK

\* LastStep depends on the build only.
LEMMA LastStepStays == module' = module => LastStep' = LastStep
BY DEF LastStep, AtStep

\* What a handler leaves when it sends the next command of the configuration.
LEMMA ConfigNextStep ==
  ASSUME ManagerInv, NEW a \in {"good", "bad", "timeout"},
         Answered("config", a), NEW s \in 0..(LastStep - 1),
         NEW what \in {"CGSN", "CIMI", "QCCID", "other"}, ConfigNext(what, s),
         UNCHANGED <<redial, link, fault>>,
         imei' \in {"short", "nearly", "full"}, ccid' \in BOOLEAN,
         sim_imei' \in {"none", "IMSI", "IMEI"}, ccid_retry' \in 0..2
  PROVE  ManagerInv'
<1>1. /\ cb = "config" /\ cb' = "config" /\ asked' = what /\ step' = s + 1
      /\ UNCHANGED <<module, state, mode, ready, power, pins, redial, pcb, phase,
                     connected, fault>>
  BY DEF Answered, ConfigNext, Send, supply, link
<1>2. state = "POWER_ON"
  BY <1>1 DEF ManagerInv, NeverStranded
<1>3. step' \in 1..LastStep' /\ LastStep' \in Nat
  BY <1>1, Steps, LastStepStays DEF ManagerInv
<1>4. TypeOK'
  BY <1>1, <1>3 DEF ManagerInv, TypeOK
<1>5. NeverStranded'
  BY <1>1, <1>2, <1>3 DEF NeverStranded
<1> QED BY <1>1, <1>2, <1>4, <1>5
        DEF ManagerInv, Sequenced, LiveMeansOk, ConnectedMeansLink

\* What a handler leaves when it changes the state to RESET.
LEMMA ToResetStep ==
  ASSUME ManagerInv, NEW at \in {0, 1}, ToReset(at), cb # "none",
         UNCHANGED <<module, redial, link, fault>>,
         imei' \in {"short", "nearly", "full"}, ccid' \in BOOLEAN,
         sim_imei' \in {"none", "IMSI", "IMEI"}, ccid_retry' \in 0..2
  PROVE  ManagerInv'
<1>1. /\ cb' = "none" /\ asked' = "none" /\ step' = at /\ state' = "RESET"
      /\ pins' = Off
      /\ UNCHANGED <<module, mode, ready, power, redial, pcb, phase, connected,
                     fault>>
  BY DEF ToReset, NoSend, link
<1>2. state # "RESET" /\ state # "OK"
  BY DEF ManagerInv, NeverStranded
<1>3. power = 0 /\ pcb # "live" /\ ~connected
  BY <1>2 DEF ManagerInv, Sequenced, LiveMeansOk, ConnectedMeansLink
<1>4. step' \in 0..LastStep'
  BY <1>1, Steps, LastStepStays DEF ManagerInv
<1>5. TypeOK'
  BY <1>1, <1>4 DEF ManagerInv, TypeOK, Off
<1> QED BY <1>1, <1>3, <1>5 DEF ManagerInv, NeverStranded, Sequenced, LiveMeansOk,
          ConnectedMeansLink

-----------------------------------------------------------------------------
(* gsm_state_machine_polling *)

\* The writes of cases 1, 3 and 4 of gsm_power_on_sequence.
LEMMA Pins ==
  /\ [Off EXCEPT !.reset = 0, !.en = 1] = Powered
  /\ [Powered EXCEPT !.key = 1] = Pressed
  /\ [Pressed EXCEPT !.key = 0, !.reset = 0] = Powered
<1> DEFINE Idle == [en |-> 0, reset |-> 0, key |-> 0]
<1>1. [Off EXCEPT !.reset = 0, !.en = 1] = Powered
  <2>1. [Off EXCEPT !.reset = 0] = Idle
    BY DEF Off
  <2>2. [Idle EXCEPT !.en = 1] = Powered
    BY DEF Powered
  <2>3. [Off EXCEPT !.reset = 0, !.en = 1] = [[Off EXCEPT !.reset = 0] EXCEPT !.en = 1]
    OBVIOUS
  <2> QED BY <2>1, <2>2, <2>3
<1>2. [Powered EXCEPT !.key = 1] = Pressed
  BY DEF Powered, Pressed
<1>3. [Pressed EXCEPT !.key = 0, !.reset = 0] = Powered
  <2>1. [Pressed EXCEPT !.key = 0] = Powered
    BY DEF Pressed, Powered
  <2>2. [Powered EXCEPT !.reset = 0] = Powered
    BY DEF Powered
  <2>3. [Pressed EXCEPT !.key = 0, !.reset = 0]
          = [[Pressed EXCEPT !.key = 0] EXCEPT !.reset = 0]
    OBVIOUS
  <2> QED BY <2>1, <2>2, <2>3
<1> QED BY <1>1, <1>2, <1>3

LEMMA PollStep == ASSUME ManagerInv, Poll PROVE ManagerInv'
<1> USE DEF ManagerInv
<1>1. CASE PollReset
  <2>1. /\ state = "RESET" /\ power \in 0..7 /\ cb = "none"
        /\ UNCHANGED <<module, mode, cb, asked, imei, sim_imei, ccid, ccid_retry,
                       redial, pcb, phase, connected, fault>>
        /\ ready' = 0
    BY <1>1 DEF PollReset, NeverStranded, TypeOK, command, ids, link
  <2>2. pcb # "live" /\ ~connected
    BY <2>1 DEF LiveMeansOk, ConnectedMeansLink
  <2>3. CASE power = 7
    <3>1. power' = 0 /\ pins' = pins /\ pins = Powered
          /\ state' = "POWER_ON" /\ step' = 0
      BY <1>1, <2>1, <2>3 DEF PollReset, Sequenced
    <3>2. step' \in 0..LastStep'
      BY <2>1, <3>1, Steps, LastStepStays
    <3>3. TypeOK'
      BY <2>1, <3>1, <3>2 DEF TypeOK
    <3> QED BY <2>1, <2>2, <3>1, <3>3
            DEF NeverStranded, Sequenced, LiveMeansOk, ConnectedMeansLink
  <2>4. CASE power # 7
    <3>1. power' = power + 1 /\ UNCHANGED <<state, step>>
      BY <1>1, <2>1, <2>4 DEF PollReset
    <3>2. /\ power = 0 => pins' = Off
          /\ power = 1 => pins' = [pins EXCEPT !.reset = 0, !.en = 1]
          /\ power = 3 => pins' = [pins EXCEPT !.key = 1]
          /\ power = 4 => pins' = [pins EXCEPT !.key = 0, !.reset = 0]
          /\ power \in {2, 5, 6} => pins' = pins
      BY <1>1 DEF PollReset
    <3>3. /\ power = 0 => pins' = Off
          /\ power \in {1, 2, 4, 5, 6} => pins' = Powered
          /\ power = 3 => pins' = Pressed
      <4>1. power = 1 => pins' = Powered
        BY <2>1, <3>2, Pins DEF Sequenced
      <4>2. power = 3 => pins' = Pressed
        BY <2>1, <3>2, Pins DEF Sequenced
      <4>3. power = 4 => pins' = Powered
        BY <2>1, <3>2, Pins DEF Sequenced
      <4>4. power \in {2, 5, 6} => pins' = Powered
        BY <2>1, <3>2 DEF Sequenced
      <4> QED BY <3>2, <4>1, <4>2, <4>3, <4>4
    <3>4. Sequenced'
      BY <2>1, <2>4, <3>1, <3>3 DEF Sequenced
    <3>5. pins' \in [en : {0, 1}, reset : {0, 1}, key : {0, 1}]
      BY <2>1, <2>4, <3>3 DEF Off, Powered, Pressed
    <3>6. TypeOK'
      BY <2>1, <2>4, <3>1, <3>5, LastStepStays DEF TypeOK
    <3> QED BY <2>1, <2>2, <3>1, <3>4, <3>6, LastStepStays
            DEF NeverStranded, LiveMeansOk, ConnectedMeansLink
  <2> QED BY <2>3, <2>4
<1>2. CASE PollPowerOn
  <2>1. /\ state = "POWER_ON" /\ step' = 1 /\ cb' = "config" /\ asked' = "ATV1"
        /\ UNCHANGED <<module, state, mode, ready, power, pins, imei, sim_imei,
                       ccid, ccid_retry, redial, pcb, phase, connected, fault>>
    BY <1>2 DEF PollPowerOn, Send, supply, ids, link
  <2>2. step' \in 1..LastStep' /\ LastStep' \in Nat
    BY <2>1, Steps, LastStepStays
  <2>3. TypeOK'
    BY <2>1, <2>2 DEF TypeOK
  <2> QED BY <2>1, <2>2, <2>3
          DEF NeverStranded, Sequenced, LiveMeansOk, ConnectedMeansLink
<1> QED BY <1>1, <1>2 DEF Poll
-----------------------------------------------------------------------------
(* gsm_config_module *)

LEMMA ConfigStep ==
  ASSUME ManagerInv, NEW a \in {"good", "bad", "timeout"},
         \/ ConfigPlain(a) \/ ConfigStart(a) \/ ConfigImei(a) \/ ConfigImsi(a)
         \/ ConfigCcid(a) \/ ConfigAgain(a) \/ ConfigCsq(a)
  PROVE  ManagerInv'
<1>1. Answered("config", a) /\ cb = "config" /\ step \in 1..LastStep
  BY DEF ConfigPlain, ConfigStart, ConfigImei, ConfigImsi, ConfigCcid,
    ConfigAgain, ConfigCsq, Answered, ManagerInv, NeverStranded
<1>2. /\ imei \in {"short", "nearly", "full"} /\ ccid \in BOOLEAN
      /\ sim_imei \in {"none", "IMSI", "IMEI"} /\ ccid_retry \in 0..2
  BY DEF ManagerInv, TypeOK
<1>3. TypeOK
  BY DEF ManagerInv
<1>4. cb # "none"
  BY <1>1
<1>5. CASE ConfigPlain(a)
  <2>1. step \in 0..(LastStep - 1)
    BY <1>3, <1>5, Steps DEF ConfigPlain, Deciding
  <2>2. NextCommand(step) \in {"CGSN", "CIMI", "QCCID", "other"}
    BY DEF NextCommand
  <2>3. ConfigNext(NextCommand(step), step) /\ UNCHANGED <<ids, redial, link, fault>>
    BY <1>5 DEF ConfigPlain
  <2> QED BY <1>1, <1>2, <2>1, <2>2, <2>3, ConfigNextStep DEF ids
<1>6. CASE ConfigStart(a)
  <2>1. UNCHANGED <<module, ids, redial, link, fault>>
    BY <1>6 DEF ConfigStart
  <2>2. CASE a = "timeout"
    <3>1. ToReset(1)
      BY <1>6, <2>2 DEF ConfigStart
    <3> QED BY <1>2, <1>4, <2>1, <3>1, ToResetStep DEF ids
  <2>3. CASE a # "timeout"
    <3>1. ConfigNext("other", 1) /\ 1 \in 0..(LastStep - 1)
      BY <1>3, <1>6, <2>3, Steps DEF ConfigStart
    <3> QED BY <1>1, <1>2, <2>1, <3>1, ConfigNextStep DEF ids
  <2> QED BY <2>2, <2>3
<1>7. CASE ConfigImei(a)
  <2>1. /\ UNCHANGED <<module, sim_imei, ccid, ccid_retry, redial, link, fault>>
        /\ step = ImeiStep
        /\ imei' \in {"short", "nearly", "full"}
    BY <1>2, <1>7 DEF ConfigImei, ImeiAfter
  <2>2. CASE imei = "short" /\ imei' # "full"
    <3>1. ToReset(0)
      BY <1>7, <2>2 DEF ConfigImei
    <3> QED BY <1>2, <1>4, <2>1, <3>1, ToResetStep
  <2>3. CASE ~(imei = "short" /\ imei' # "full")
    <3>1. PICK what \in {"other", "CIMI"} : ConfigNext(what, step)
      BY <1>7, <2>3 DEF ConfigImei
    <3>2. step \in 0..(LastStep - 1)
      BY <1>3, <2>1, Steps
    <3> QED BY <1>1, <1>2, <2>1, <3>1, <3>2, ConfigNextStep
  <2> QED BY <2>2, <2>3
<1>8. CASE ConfigImsi(a)
  <2>1. /\ UNCHANGED <<module, imei, ccid, ccid_retry, redial, link, fault>>
        /\ step = ImsiStep
        /\ sim_imei' \in {"none", "IMSI", "IMEI"}
        /\ ConfigNext("CGSN", 10) \/ ConfigNext("QCCID", 11)
    BY <1>8 DEF ConfigImsi
  <2>2. {10, 11} \subseteq 0..(LastStep - 1)
    BY <1>1, <1>3, <2>1, Steps
  <2> QED BY <1>1, <1>2, <2>1, <2>2, ConfigNextStep
<1>9. CASE ConfigCcid(a)
  <2>1. /\ UNCHANGED <<module, imei, sim_imei, redial, link, fault>>
        /\ step = CcidStep
        /\ ccid' \in BOOLEAN /\ ccid_retry' \in 0..2
        /\ ConfigNext("QCCID", 11) \/ ConfigNext("other", 12)
    BY <1>2, <1>9 DEF ConfigCcid
  <2>2. {11, 12} \subseteq 0..(LastStep - 1)
    BY <1>1, <1>3, <2>1, Steps
  <2> QED BY <1>1, <1>2, <2>1, <2>2, ConfigNextStep
<1>10. CASE ConfigAgain(a)
  <2>1. /\ UNCHANGED <<module, ids, redial, link, fault>>
        /\ step \in {AccessStep, OperatorStep}
        /\ ConfigNext("other", step - 1) \/ ConfigNext("other", step)
    BY <1>10 DEF ConfigAgain
  <2>2. {step - 1, step} \subseteq 0..(LastStep - 1)
    BY <1>1, <1>3, <2>1, Steps
  <2> QED BY <1>1, <1>2, <2>1, <2>2, ConfigNextStep DEF ids
<1>11. CASE ConfigCsq(a)
  <2>1. /\ UNCHANGED <<module, ids, redial, link, fault>>
        /\ step = CsqStep
        /\ ToReset(0) \/ ConfigNext("other", CsqBack) \/ ConfigNext("other", step)
    BY <1>11 DEF ConfigCsq
  <2>2. {CsqBack, step} \subseteq 0..(LastStep - 1)
    BY <1>3, <2>1, Steps
  <2>3. CASE ToReset(0)
    BY <1>2, <1>4, <2>1, <2>3, ToResetStep DEF ids
  <2>4. CASE ConfigNext("other", CsqBack) \/ ConfigNext("other", step)
    BY <1>1, <1>2, <2>1, <2>2, <2>4, ConfigNextStep DEF ids
  <2> QED BY <2>1, <2>3, <2>4
<1> QED BY <1>5, <1>6, <1>7, <1>8, <1>9, <1>10, <1>11

LEMMA ReadyStep ==
  ASSUME ManagerInv, NEW a \in {"good", "bad", "timeout"}, ConfigReady(a)
  PROVE  ManagerInv'
<1>1. /\ cb = "config" /\ cb' = "open" /\ asked' = "other" /\ step' = 1 /\ ready' = 1
      /\ UNCHANGED <<module, state, mode, power, pins, imei, sim_imei, ccid,
                     ccid_retry, redial, pcb, phase, connected, fault>>
  BY DEF ConfigReady, Answered, Send, supply, ids, link
<1>2. state = "POWER_ON"
  BY <1>1 DEF ManagerInv, NeverStranded
<1>3. step' \in 0..LastStep' /\ step' \in 1..4
  BY <1>1, Steps, LastStepStays DEF ManagerInv
<1>4. TypeOK'
  BY <1>1, <1>3 DEF ManagerInv, TypeOK
<1>5. NeverStranded'
  BY <1>1, <1>2, <1>3 DEF NeverStranded
<1> QED BY <1>1, <1>2, <1>4, <1>5
        DEF ManagerInv, Sequenced, LiveMeansOk, ConnectedMeansLink

-----------------------------------------------------------------------------
(* open_ppp_stack *)

LEMMA OpenStep ==
  ASSUME ManagerInv, NEW a \in {"good", "bad", "timeout"},
         OpenCheck(a) \/ OpenDial(a) \/ OpenConnected(a) \/ OpenFailed(a)
  PROVE  ManagerInv'
<1>1. cb = "open" /\ step \in 1..4 /\ state \in {"POWER_ON", "REOPEN_PPP"}
  BY DEF OpenCheck, OpenDial, OpenConnected, OpenFailed, Answered, ManagerInv,
    NeverStranded
<1>2. power = 0 /\ pins = Powered /\ pcb # "live" /\ ~connected
  BY <1>1 DEF ManagerInv, Sequenced, LiveMeansOk, ConnectedMeansLink
<1>3. module' = module
  BY DEF OpenCheck, OpenDial, OpenConnected, OpenFailed
<1>4. LastStep' \in 18..24
  BY <1>3, Steps, LastStepStays DEF ManagerInv
<1>5. TypeOK
  BY DEF ManagerInv
<1>6. ASSUME UNCHANGED <<state, mode, ready, supply, ids, redial, link, fault>>,
             step' \in 1..4, cb' = "open",
             asked' \in {"ATV1", "ATD", "other"}
      PROVE  ManagerInv'
  <2>1. TypeOK'
    BY <1>3, <1>4, <1>5, <1>6 DEF TypeOK, supply, ids, link
  <2>2. NeverStranded'
    BY <1>1, <1>6 DEF NeverStranded
  <2> QED BY <1>1, <1>2, <1>6, <2>1, <2>2
          DEF ManagerInv, Sequenced, LiveMeansOk, ConnectedMeansLink, supply, link
<1>7. CASE OpenCheck(a)
  <2>1. step' \in 1..4
    BY <1>7 DEF OpenCheck
  <2> QED BY <1>6, <1>7, <2>1 DEF OpenCheck, Send
<1>8. CASE OpenDial(a)
  <2>1. CASE a = "good"
    BY <1>6, <1>8, <2>1 DEF OpenDial, Send
  <2>2. CASE a # "good"
    <3>1. ToReset(0) /\ UNCHANGED <<module, ids, redial, link, fault>>
      BY <1>8, <2>2 DEF OpenDial
    <3>2. cb # "none"
      BY <1>1
    <3> QED BY <1>5, <3>1, <3>2, ToResetStep DEF ids, TypeOK
  <2> QED BY <2>1, <2>2
<1>9. CASE OpenConnected(a)
  <2>1. /\ mode' = "PPP" /\ state' = "OK" /\ step' = 0 /\ ready' = 2
        /\ cb' = "none" /\ asked' = "none" /\ pcb' = "live" /\ phase' = "ESTABLISH"
        /\ UNCHANGED <<power, pins, imei, sim_imei, ccid, ccid_retry, redial,
                       connected, fault>>
    BY <1>9 DEF OpenConnected, NoSend, supply, ids
  <2>2. TypeOK'
    BY <1>3, <1>4, <1>5, <2>1 DEF TypeOK
  <2> QED BY <1>2, <2>1, <2>2
          DEF ManagerInv, NeverStranded, Sequenced, LiveMeansOk, ConnectedMeansLink
<1>10. CASE OpenFailed(a)
  <2>1. /\ mode' = "PPP" /\ fault' \in BOOLEAN /\ redial' \in 0..4
        /\ UNCHANGED <<ready, power, imei, sim_imei, ccid, ccid_retry, pcb, phase,
                       connected>>
    BY <1>5, <1>10 DEF OpenFailed, TypeOK, ids, link
  <2>2. CASE redial = 4
    <3>1. state' = "RESET" /\ step' = 0 /\ pins' = Off /\ cb' = "none" /\ asked' = "none"
      BY <1>10, <2>2 DEF OpenFailed, NoSend
    <3>2. TypeOK'
      BY <1>3, <1>4, <1>5, <2>1, <3>1 DEF TypeOK, Off
    <3> QED BY <1>2, <2>1, <3>1, <3>2
            DEF ManagerInv, NeverStranded, Sequenced, LiveMeansOk, ConnectedMeansLink
  <2>3. CASE redial # 4
    <3>1. step' = 3 /\ cb' = "open" /\ asked' = "ATV1" /\ UNCHANGED <<state, pins>>
      BY <1>10, <2>3 DEF OpenFailed, Send
    <3>2. TypeOK'
      BY <1>3, <1>4, <1>5, <2>1, <3>1 DEF TypeOK
    <3>3. NeverStranded'
      BY <1>1, <3>1 DEF NeverStranded
    <3> QED BY <1>1, <1>2, <2>1, <3>1, <3>2, <3>3
            DEF ManagerInv, Sequenced, LiveMeansOk, ConnectedMeansLink
  <2> QED BY <2>2, <2>3
<1> QED BY <1>7, <1>8, <1>9, <1>10

-----------------------------------------------------------------------------
(* lwIP *)

LEMMA PppStep == ASSUME ManagerInv, Ppp PROVE ManagerInv'
<1>1. TypeOK
  BY DEF ManagerInv
<1>2. CASE LinkUp \/ LinkRestarts \/ LinkTerminating \/ LinkLoopback
  <2>1. /\ pcb = "live"
        /\ phase' \in {"DEAD", "ESTABLISH", "RUNNING", "TERMINATE"}
        /\ connected' \in {TRUE, connected}
        /\ UNCHANGED <<module, state, step, mode, ready, power, pins, cb, asked,
                       imei, sim_imei, ccid, ccid_retry, redial, pcb, fault>>
    BY <1>2 DEF LinkUp, LinkRestarts, LinkTerminating, LinkLoopback, manager,
      supply, command, ids
  <2>2. state = "OK" /\ cb = "none"
    BY <2>1 DEF ManagerInv, LiveMeansOk, NeverStranded
  <2>3. {ccid', connected', fault'} \subseteq BOOLEAN
    <3>1. {ccid, connected, fault} \subseteq BOOLEAN
      BY <1>1 DEF TypeOK
    <3>2. ccid' = ccid /\ fault' = fault
      BY <2>1
    <3>3. CASE connected' = TRUE
      BY <3>1, <3>2, <3>3
    <3>4. CASE connected' = connected
      BY <3>1, <3>2, <3>4
    <3> QED BY <2>1, <3>3, <3>4
  <2>4. TypeOK'
    BY <1>1, <2>1, <2>3, LastStepStays DEF TypeOK
  <2> QED BY <2>1, <2>2, <2>4
          DEF ManagerInv, NeverStranded, Sequenced, LiveMeansOk, ConnectedMeansLink
<1>3. CASE LinkLost
  <2>1. /\ pcb = "live" /\ phase' = "DEAD" /\ pcb' = "freed" /\ connected' = FALSE
        /\ state' = "REOPEN_PPP" /\ step' = 1 /\ cb' = "open" /\ asked' = "ATV1"
        /\ UNCHANGED <<module, mode, ready, power, pins, imei, sim_imei, ccid,
                       ccid_retry, redial, fault>>
    BY <1>3 DEF LinkLost, Send, supply, ids
  <2>2. step' \in 0..LastStep' /\ step' \in 1..4
    BY <1>1, <2>1, Steps, LastStepStays
  <2>3. TypeOK'
    BY <1>1, <2>1, <2>2 DEF TypeOK
  <2> QED BY <2>1, <2>2, <2>3
          DEF ManagerInv, NeverStranded, Sequenced, LiveMeansOk, ConnectedMeansLink
<1>4. CASE FeedWithoutPcb
  <2>1. /\ fault' = TRUE
        /\ UNCHANGED <<module, state, step, mode, ready, power, pins, cb, asked,
                       imei, sim_imei, ccid, ccid_retry, redial, pcb, phase,
                       connected>>
    BY <1>4 DEF FeedWithoutPcb, manager, supply, command, ids, link
  <2>2. TypeOK'
    BY <1>1, <2>1, LastStepStays DEF TypeOK
  <2> QED BY <2>1, <2>2, LastStepStays
          DEF ManagerInv, NeverStranded, Sequenced, LiveMeansOk, ConnectedMeansLink
<1> QED BY <1>2, <1>3, <1>4 DEF Ppp

-----------------------------------------------------------------------------
(* The invariant and what follows from it *)

LEMMA ManagerInit == Init => ManagerInv
<1> SUFFICES ASSUME Init PROVE ManagerInv
  OBVIOUS
<1>1. TypeOK
  <2>1. LastStep \in Nat
    BY DEF Init, LastStep, AtStep
  <2>2. pins \in [en : {0, 1}, reset : {0, 1}, key : {0, 1}]
    BY DEF Init, Off
  <2>3. {ccid, connected, fault} \subseteq BOOLEAN
    BY DEF Init
  <2> QED BY <2>1, <2>2, <2>3 DEF Init, TypeOK
<1> QED BY <1>1 DEF Init, ManagerInv, NeverStranded, Sequenced, LiveMeansOk,
          ConnectedMeansLink

LEMMA ManagerStep == ManagerInv /\ [Next]_vars => ManagerInv'
<1> SUFFICES ASSUME ManagerInv, [Next]_vars PROVE ManagerInv'
  OBVIOUS
<1>1. CASE Poll
  BY <1>1, PollStep
<1>2. CASE Answer
  <2>1. PICK a \in {"good", "bad", "timeout"} : Handler(a)
    BY <1>2 DEF Answer
  <2> QED BY <2>1, ConfigStep, ReadyStep, OpenStep DEF Handler
<1>3. CASE Ppp
  BY <1>3, PppStep
<1>4. CASE UNCHANGED vars
  <2>1. UNCHANGED <<module, state, step, mode, ready, power, pins, cb, asked,
                    imei, sim_imei, ccid, ccid_retry, redial, pcb, phase,
                    connected, fault>>
    BY <1>4 DEF vars, manager, supply, command, ids, link
  <2> QED BY <2>1, LastStepStays
          DEF ManagerInv, TypeOK, NeverStranded, Sequenced, LiveMeansOk,
              ConnectedMeansLink
<1> QED BY <1>1, <1>2, <1>3, <1>4 DEF Next

\* The invariant holds whatever the module, the network and lwIP do.
THEOREM ManagerInvariant == Spec => []ManagerInv
<1> QED BY ManagerInit, ManagerStep, PTL DEF Spec

\* The variables of the manager keep their types: gsm_config_module's step
\* never leaves the switch of its build.
THEOREM ManagerTypeCorrect == Spec => []TypeOK
<1>1. ManagerInv => TypeOK
  BY DEF ManagerInv
<1> QED BY <1>1, ManagerInvariant, PTL

\* gsm_config_module and open_ppp_stack never end without a command under way
\* or a poll that starts them again.
THEOREM ManagerNeverStranded == Spec => []NeverStranded
<1>1. ManagerInv => NeverStranded
  BY DEF ManagerInv
<1> QED BY <1>1, ManagerInvariant, PTL

\* gsm_hw_send_at_cmd is never called while gsm_power_on_sequence works on the
\* pins, and the sequence does not begin while a command is under way.
THEOREM ManagerTalksToPoweredModule == Spec => []TalksToPoweredModule
<1>1. ManagerInv => TalksToPoweredModule
  BY DEF ManagerInv, NeverStranded, Sequenced, TalksToPoweredModule
<1> QED BY <1>1, ManagerInvariant, PTL

\* m_ppp_connected is set only on a live control block in GSM_STATE_OK.
THEOREM ManagerConnectedMeansLink == Spec => []ConnectedMeansLink
<1>1. ManagerInv => ConnectedMeansLink
  BY DEF ManagerInv
<1> QED BY <1>1, ManagerInvariant, PTL

\* gsm_state_machine_polling and ppp_link_status_cb, which send a command from
\* outside a callback of the engine, find none under way.
THEOREM ManagerCommandNotOverwritten == Spec => CommandNotOverwritten
<1>1. ASSUME ManagerInv, [Next]_vars
      PROVE  [cb # "none" /\ ~Answer => UNCHANGED command]_vars
  <2> SUFFICES ASSUME cb # "none", ~Answer, Next PROVE UNCHANGED command
    BY <1>1 DEF vars
  <2>1. state \in {"POWER_ON", "REOPEN_PPP"} /\ step # 0
    <3>1. cb \in {"config", "open"} /\ LastStep \in Nat
      BY <1>1, Steps DEF ManagerInv, TypeOK
    <3> QED BY <1>1, <3>1 DEF ManagerInv, NeverStranded
  <2>2. ~PollPowerOn /\ ~LinkLost /\ ~PollReset
    BY <1>1, <2>1 DEF PollPowerOn, PollReset, LinkLost, ManagerInv, LiveMeansOk
  <2> QED BY <2>2 DEF Next, Poll, Ppp, LinkUp, LinkRestarts, LinkTerminating,
            LinkLoopback, FeedWithoutPcb
<1> QED BY <1>1, ManagerInvariant, PTL DEF Spec, CommandNotOverwritten
=============================================================================
