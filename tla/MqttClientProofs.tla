-------------------------- MODULE MqttClientProofs --------------------------
(***************************************************************************)
(* Proofs about the MQTT client task, for every period, every limit and    *)
(* every place where the millisecond counter wraps.                        *)
(***************************************************************************)
EXTENDS MqttClient, TLAPS

\* What vouches for the address of a connection: an address that counts as
\* resolved, or that the task is connecting to, came in this session.
AddressIsFresh ==
  /\ resolved => fresh
  /\ state = "CONNECTING" => fresh

\* Seconds since the last heartbeat, as the 32-bit subtraction sees them.
Elapsed == (now + Wrap - last_beat) % Wrap

\* The subtraction is right as long as it matters: until the next heartbeat
\* is due the clock cannot have gone round.
ClockTellsBeat == since_beat < HeartBeat => Elapsed = since_beat

\* A message is received in a session only; then the flag tells its topic, and
\* rx_buffer holds nothing but its text.  What a message that was cut off leaves
\* there is gone when the next connection has been asked for.
MessageIsOwn ==
  /\ incoming # "none" => /\ conn = "MQTT_CONNECTED"
                          /\ valid_topic => incoming = "ours"
                          /\ rx_text = told
  /\ incoming = "none" => told = "plain"
  /\ incoming = "none" /\ rx_text # "plain" => conn = "TCP_DISCONNECTED"

\* Inductive.
MqttInv ==
  /\ TypeOK
  /\ SessionAgrees
  /\ MessageIsOwn
  /\ AddressIsFresh
  /\ ClockTellsBeat

-----------------------------------------------------------------------------
(* Arithmetic of the clock *)

LEMMA ModuloRange ==
  ASSUME NEW w \in Nat \ {0}, NEW x \in Nat
  PROVE  x % w \in 0..(w - 1)
  OBVIOUS

LEMMA ModuloBelow ==
  ASSUME NEW w \in Nat, NEW x \in Nat, x < w
  PROVE  x % w = x
  OBVIOUS

LEMMA ModuloOnce ==
  ASSUME NEW w \in Nat \ {0}, NEW r \in 0..(w - 1)
  PROVE  (w + r) % w = r
  OBVIOUS

\* A counter that is read at once shows that no time has passed.
LEMMA NoTimePassed ==
  ASSUME NEW w \in Nat \ {0}, NEW t \in 0..(w - 1)
  PROVE  (t + w - t) % w = 0
<1>1. 0 \in 0..(w - 1) /\ t + w - t = w + 0
  OBVIOUS
<1>2. (w + 0) % w = 0
  BY <1>1, ModuloOnce
<1> QED BY <1>1, <1>2

\* One second more on the counter is one second more elapsed, until the
\* counter has gone once round.
LEMMA SecondElapses ==
  ASSUME NEW w \in Nat \ {0}, NEW t \in 0..(w - 1), NEW l \in 0..(w - 1),
         ((t + w - l) % w) + 1 < w
  PROVE  (((t + 1) % w) + w - l) % w = ((t + w - l) % w) + 1
<1>1. CASE t < l
  <2>1. t + w - l \in Nat /\ t + w - l < w
    BY <1>1
  <2>2. (t + w - l) % w = t + w - l
    BY <2>1, ModuloBelow
  <2>3. (t + 1) % w = t + 1
    BY <1>1, ModuloBelow
  <2>4. t + 1 + w - l \in Nat /\ t + 1 + w - l < w
    BY <1>1, <2>2
  <2>5. (t + 1 + w - l) % w = t + 1 + w - l
    BY <2>4, ModuloBelow
  <2> QED BY <2>2, <2>3, <2>5
<1>2. CASE t >= l
  <2>1. t - l \in 0..(w - 1) /\ t + w - l = w + (t - l)
    BY <1>2
  <2>2. (w + (t - l)) % w = t - l
    BY <2>1, ModuloOnce
  <2>3. (t + w - l) % w = t - l
    BY <2>1, <2>2
  <2>4. CASE t + 1 < w
    <3>1. (t + 1) % w = t + 1
      BY <2>4, ModuloBelow
    <3>2. t + 1 - l \in 0..(w - 1) /\ t + 1 + w - l = w + (t + 1 - l)
      BY <1>2, <2>4
    <3>3. (w + (t + 1 - l)) % w = t + 1 - l
      BY <3>2, ModuloOnce
    <3> QED BY <2>3, <3>1, <3>2, <3>3
  <2>5. CASE t + 1 = w
    <3>1. 0 \in 0..(w - 1) /\ t + 1 = w + 0
      BY <2>5
    <3>2. (w + 0) % w = 0
      BY <3>1, ModuloOnce
    <3>3. (t + 1) % w = 0
      BY <3>1, <3>2
    <3>4. 0 + w - l \in Nat /\ 0 + w - l < w
      BY <2>3, <2>5
    <3>5. (0 + w - l) % w = 0 + w - l
      BY <3>4, ModuloBelow
    <3> QED BY <2>3, <2>5, <3>3, <3>5
  <2> QED BY <2>4, <2>5
<1> QED BY <1>1, <1>2

-----------------------------------------------------------------------------
(* The parts of the invariant, each kept by every step *)

LEMMA InitMqtt == Init => MqttInv
<1> SUFFICES ASSUME Init PROVE MqttInv
  OBVIOUS
<1>1. TypeOK
  <2>1. /\ 0 \in 0..10 /\ 0 \in 0..(MaxErrors - 1) /\ 0 \in 0..MaxSubs
        /\ 0 \in 0..(Wrap - 1)
        /\ SubPeriod \in 0..SubPeriod /\ HeartBeat \in 0..HeartBeat
    BY MqttAssumption
  <2> QED BY <2>1 DEF Init, TypeOK, Texts
<1>2. SessionAgrees /\ MessageIsOwn /\ AddressIsFresh
  BY DEF Init, SessionAgrees, MessageIsOwn, AddressIsFresh
<1>3. ClockTellsBeat
  BY MqttAssumption DEF Init, ClockTellsBeat
<1> QED BY <1>1, <1>2, <1>3 DEF MqttInv

\* A restart leads to an initial state.
LEMMA RestartMqtt == Restart => MqttInv'
<1> SUFFICES ASSUME Restart PROVE MqttInv'
  OBVIOUS
<1>1. TypeOK'
  <2>1. /\ 0 \in 0..10 /\ 0 \in 0..(MaxErrors - 1) /\ 0 \in 0..MaxSubs
        /\ 0 \in 0..(Wrap - 1)
        /\ SubPeriod \in 0..SubPeriod /\ HeartBeat \in 0..HeartBeat
    BY MqttAssumption
  <2> QED BY <2>1 DEF Restart, TypeOK, Texts
<1>2. SessionAgrees' /\ MessageIsOwn' /\ AddressIsFresh'
  BY DEF Restart, SessionAgrees, MessageIsOwn, AddressIsFresh
<1>3. ClockTellsBeat'
  BY MqttAssumption DEF Restart, ClockTellsBeat
<1> QED BY <1>1, <1>2, <1>3 DEF MqttInv

LEMMA CountType ==
  ASSUME NEW top \in Nat, NEW n \in 0..top
  PROVE  Count(n, top) \in 0..top
  BY DEF Count

\* What every call of the task keeps.
LEMMA PollTypes ==
  ASSUME TypeOK, Poll
  PROVE  /\ process_now' \in BOOLEAN /\ allow' \in BOOLEAN
         /\ due' \in BOOLEAN /\ ppp' \in BOOLEAN
         /\ now' \in 0..(Wrap - 1)
         /\ Count(mqtt_tick, 10) \in 0..10
  BY CountType DEF TypeOK, Poll

LEMMA SubscribeType ==
  ASSUME NEW pending \in 0..MaxSubs, NEW sent \in BOOLEAN,
         Subscribe(pending, sent)
  PROVE  subs' \in 0..MaxSubs
  BY MqttAssumption DEF Subscribe

LEMMA TypeStep ==
  ASSUME TypeOK, [Next]_vars
  PROVE  TypeOK'
<1>1. CASE PollingTask
  <2>1. CASE PollStopped
    BY <2>1, PollTypes DEF PollStopped, session, message, lookup, timers, TypeOK
  <2>2. CASE PollDisconnected
    <3>1. subs' \in 0..MaxSubs /\ 4 \in 0..10
      BY <2>2, MqttAssumption DEF PollDisconnected, TypeOK
    <3>2. conn' \in {conn, "TCP_DISCONNECTED"}
      BY <2>2 DEF PollDisconnected
    <3>3. /\ incoming' \in {"none", "ours", "other"} /\ told' \in Texts
          /\ valid_topic' \in BOOLEAN /\ rx_text' \in Texts
      BY <2>2 DEF PollDisconnected, CutMessage, message, TypeOK, Texts
    <3> QED BY <2>2, <3>1, <3>2, <3>3, PollTypes
            DEF PollDisconnected, timers, TypeOK
  <2>3. CASE PollResolved
    BY <2>3, PollTypes DEF PollResolved, message, lookup, timers, TypeOK
  <2>4. ASSUME NEW answer \in {"cached", "pending", "refused"},
               PollResolve(answer)
        PROVE  TypeOK'
    <3>1. mqtt_tick' \in 0..10
      BY <2>4, PollTypes DEF PollResolve
    <3>2. resolved' \in BOOLEAN /\ dns' \in BOOLEAN /\ fresh' \in BOOLEAN
      BY <2>4 DEF PollResolve, lookup, TypeOK
    <3> QED BY <2>4, <3>1, <3>2, PollTypes
            DEF PollResolve, session, message, timers, TypeOK
  <2>5. ASSUME NEW ok \in BOOLEAN, PollConnecting(ok)
        PROVE  TypeOK'
    <3>1. mqtt_tick' \in 0..10
      BY <2>5, PollTypes DEF PollConnecting
    <3>2. rx_text' \in Texts /\ conn' \in {conn, "TCP_CONNECTING"}
      BY <2>5 DEF PollConnecting, TypeOK, Texts
    <3> QED BY <2>5, <3>1, <3>2, PollTypes
            DEF PollConnecting, lookup, timers, TypeOK
  <2>6. ASSUME NEW sent \in BOOLEAN, PollConnected(sent)
        PROVE  TypeOK'
    <3>1. SubBase \in 0..(Wrap - 1)
      BY DEF SubBase, TypeOK
    <3>2. subs' \in 0..MaxSubs
      BY <2>6, SubscribeType DEF PollConnected, TypeOK
    <3>3. /\ last_sub' \in 0..(Wrap - 1) /\ since_sub' \in 0..SubPeriod
          /\ last_beat' \in 0..(Wrap - 1) /\ since_beat' \in 0..HeartBeat
      BY <2>6, <3>1, MqttAssumption DEF PollConnected, TypeOK
    <3> QED BY <2>6, <3>2, <3>3, PollTypes DEF PollConnected, message, lookup, TypeOK
  <2> QED BY <1>1, <2>1, <2>2, <2>3, <2>4, <2>5, <2>6 DEF PollingTask
<1>2. CASE Callback
  <2>1. CASE TcpConnected
    BY <2>1 DEF TcpConnected, message, lookup, timers, TypeOK
  <2>2. CASE ConnectionLost
    <3>1. subs' \in 0..MaxSubs
      BY <2>2, MqttAssumption DEF ConnectionLost
    <3>2. /\ incoming' \in {"none", "ours", "other"} /\ told' \in Texts
          /\ valid_topic' \in BOOLEAN /\ rx_text' \in Texts
      BY <2>2 DEF ConnectionLost, CutMessage, TypeOK, Texts
    <3> QED BY <2>2, <3>1, <3>2 DEF ConnectionLost, lookup, timers, TypeOK, Texts
  <2>3. CASE SubscribeDone
    <3>1. subs' \in 0..MaxSubs /\ errors' \in 0..(MaxErrors - 1)
      BY <2>3, MqttAssumption DEF SubscribeDone, TypeOK
    <3> QED BY <2>3, <3>1 DEF SubscribeDone, message, lookup, timers, TypeOK
  <2>4. ASSUME NEW ok \in BOOLEAN, DnsFound(ok)
        PROVE  TypeOK'
    <3>1. /\ dns' \in BOOLEAN /\ resolved' \in BOOLEAN /\ fresh' \in BOOLEAN
          /\ process_now' \in BOOLEAN
      BY <2>4 DEF DnsFound, TypeOK
    <3> QED BY <2>4, <3>1 DEF DnsFound, session, message, timers, TypeOK
  <2>5. ASSUME NEW ok \in BOOLEAN, ConnectionAccepted(ok)
        PROVE  TypeOK'
    <3>1. subs' \in 0..MaxSubs
      BY <2>5, SubscribeType, MqttAssumption DEF ConnectionAccepted
    <3> QED BY <2>5, <3>1 DEF ConnectionAccepted, message, lookup, timers, TypeOK
  <2>6. ASSUME NEW ok \in BOOLEAN, SubscribeFailed(ok)
        PROVE  TypeOK'
    <3>1. subs - 1 \in 0..MaxSubs
      BY <2>6, MqttAssumption DEF SubscribeFailed, TypeOK
    <3>2. subs' \in 0..MaxSubs /\ errors' \in 0..(MaxErrors - 1)
      BY <2>6, <3>1, SubscribeType, MqttAssumption DEF SubscribeFailed, TypeOK
    <3>3. /\ incoming' \in {"none", "ours", "other"} /\ told' \in Texts
          /\ valid_topic' \in BOOLEAN /\ rx_text' \in Texts
      BY <2>6 DEF SubscribeFailed, CutMessage, message, TypeOK, Texts
    <3> QED BY <2>6, <3>2, <3>3 DEF SubscribeFailed, lookup, timers, TypeOK, Texts
  <2> QED BY <1>2, <2>1, <2>2, <2>3, <2>4, <2>5, <2>6 DEF Callback
<1>3. CASE Second
  <2>1. (now + 1) % Wrap \in 0..(Wrap - 1)
    BY ModuloRange, MqttAssumption DEF TypeOK
  <2>2. /\ Count(since_sub, SubPeriod) \in 0..SubPeriod
        /\ Count(since_beat, HeartBeat) \in 0..HeartBeat
    BY CountType, MqttAssumption DEF TypeOK
  <2> QED BY <1>3, <2>1, <2>2 DEF Second, session, message, lookup, TypeOK
<1>4. CASE PppUp \/ PppDown
  <2>1. CASE PppUp
    BY <2>1 DEF PppUp, session, message, lookup, timers, TypeOK
  <2>2. CASE PppDown
    <3>1. ppp' \in BOOLEAN
      BY <2>2 DEF PppDown
    <3>2. UNCHANGED <<session, message, lookup, timers, process_now, allow,
                      mqtt_tick, now, due>>
      BY <2>2 DEF PppDown
    <3> QED BY <3>1, <3>2 DEF session, message, lookup, timers, TypeOK
  <2> QED BY <1>4, <2>1, <2>2
<1>5. CASE Incoming
  <2>1. ASSUME NEW topic \in {"ours", "other"}, IncomingPublish(topic)
        PROVE  TypeOK'
    BY <2>1 DEF IncomingPublish, session, lookup, timers, TypeOK
  <2>2. ASSUME NEW text \in Texts, IncomingFragment(text)
        PROVE  TypeOK'
    BY <2>2 DEF IncomingFragment, session, lookup, timers, TypeOK
  <2>3. CASE IncomingDone
    BY <2>3 DEF IncomingDone, session, lookup, timers, TypeOK, Texts
  <2>4. CASE \E text \in LastTexts : IncomingReset(text)
    BY <2>4, RestartMqtt DEF IncomingReset, MqttInv
  <2> QED BY <1>5, <2>1, <2>2, <2>3, <2>4 DEF Incoming
<1>6. CASE UNCHANGED vars
  BY <1>6 DEF vars, session, message, lookup, timers, TypeOK
<1> QED BY <1>1, <1>2, <1>3, <1>4, <1>5, <1>6 DEF Next

LEMMA SessionStep ==
  ASSUME SessionAgrees, [Next]_vars
  PROVE  SessionAgrees'
<1> USE DEF SessionAgrees
<1>1. CASE PollingTask
  <2>1. CASE PollStopped
    BY <2>1 DEF PollStopped, session
  <2>2. CASE PollDisconnected
    BY <2>2 DEF PollDisconnected, Effective, Stale
  <2>3. CASE PollResolved
    BY <2>3 DEF PollResolved, Effective, Stale
  <2>4. CASE \E answer \in {"cached", "pending", "refused"} : PollResolve(answer)
    BY <2>4 DEF PollResolve, session
  <2>5. CASE \E ok \in BOOLEAN : PollConnecting(ok)
    BY <2>5 DEF PollConnecting, Effective, Stale
  <2>6. CASE \E sent \in BOOLEAN : PollConnected(sent)
    BY <2>6 DEF PollConnected, Effective, Stale
  <2> QED BY <1>1, <2>1, <2>2, <2>3, <2>4, <2>5, <2>6 DEF PollingTask
<1>2. CASE Callback
  <2>1. CASE TcpConnected
    BY <2>1 DEF TcpConnected
  <2>2. CASE ConnectionLost
    BY <2>2 DEF ConnectionLost
  <2>3. CASE SubscribeDone
    BY <2>3 DEF SubscribeDone
  <2>4. ASSUME NEW ok \in BOOLEAN, DnsFound(ok)
        PROVE  SessionAgrees'
    BY <2>4 DEF DnsFound, session
  <2>5. ASSUME NEW ok \in BOOLEAN, ConnectionAccepted(ok)
        PROVE  SessionAgrees'
    BY <2>5 DEF ConnectionAccepted
  <2>6. ASSUME NEW ok \in BOOLEAN, SubscribeFailed(ok)
        PROVE  SessionAgrees'
    BY <2>6 DEF SubscribeFailed
  <2> QED BY <1>2, <2>1, <2>2, <2>3, <2>4, <2>5, <2>6 DEF Callback
<1>3. CASE Second \/ PppUp \/ PppDown \/ UNCHANGED vars
  BY <1>3 DEF Second, PppUp, PppDown, vars, session
<1>4. CASE Incoming
  <2>1. CASE \E text \in LastTexts : IncomingReset(text)
    BY <2>1 DEF IncomingReset, Restart
  <2>2. CASE ~(\E text \in LastTexts : IncomingReset(text))
    BY <1>4, <2>2 DEF Incoming, IncomingPublish, IncomingFragment, IncomingDone,
      session
  <2> QED BY <2>1, <2>2
<1> QED BY <1>1, <1>2, <1>3, <1>4 DEF Next

LEMMA MessageStep ==
  ASSUME MessageIsOwn, [Next]_vars
  PROVE  MessageIsOwn'
<1> USE DEF MessageIsOwn
<1>1. CASE PollingTask
  <2>1. CASE PollStopped
    BY <2>1 DEF PollStopped, session, message
  <2>2. CASE PollDisconnected
    BY <2>2 DEF PollDisconnected, CutMessage, message, Stale
  <2>3. CASE PollResolved
    BY <2>3 DEF PollResolved, message
  <2>4. CASE \E answer \in {"cached", "pending", "refused"} : PollResolve(answer)
    BY <2>4 DEF PollResolve, session, message
  <2>5. ASSUME NEW ok \in BOOLEAN, PollConnecting(ok)
        PROVE  MessageIsOwn'
    <3>1. incoming' = incoming /\ told' = told /\ valid_topic' = valid_topic
      BY <2>5 DEF PollConnecting
    <3>2. conn' = conn \/ conn = "TCP_DISCONNECTED"
      BY <2>5 DEF PollConnecting
    <3>3. rx_text' = rx_text \/ (rx_text' = "plain" /\ conn = "TCP_DISCONNECTED")
      BY <2>5 DEF PollConnecting
    <3>4. conn' # conn => rx_text' = "plain"
      BY <2>5 DEF PollConnecting
    <3> QED BY <3>1, <3>2, <3>3, <3>4
  <2>6. CASE \E sent \in BOOLEAN : PollConnected(sent)
    BY <2>6 DEF PollConnected, message
  <2> QED BY <1>1, <2>1, <2>2, <2>3, <2>4, <2>5, <2>6 DEF PollingTask
<1>2. CASE Callback
  <2>1. CASE TcpConnected
    BY <2>1 DEF TcpConnected, message
  <2>2. CASE ConnectionLost
    BY <2>2 DEF ConnectionLost, CutMessage
  <2>3. CASE SubscribeDone
    BY <2>3 DEF SubscribeDone, message
  <2>4. ASSUME NEW ok \in BOOLEAN, DnsFound(ok)
        PROVE  MessageIsOwn'
    BY <2>4 DEF DnsFound, session, message
  <2>5. ASSUME NEW ok \in BOOLEAN, ConnectionAccepted(ok)
        PROVE  MessageIsOwn'
    BY <2>5 DEF ConnectionAccepted, message
  <2>6. ASSUME NEW ok \in BOOLEAN, SubscribeFailed(ok)
        PROVE  MessageIsOwn'
    BY <2>6 DEF SubscribeFailed, CutMessage, message
  <2> QED BY <1>2, <2>1, <2>2, <2>3, <2>4, <2>5, <2>6 DEF Callback
<1>3. CASE Incoming
  <2>1. ASSUME NEW topic \in {"ours", "other"}, IncomingPublish(topic)
        PROVE  MessageIsOwn'
    BY <2>1 DEF IncomingPublish, session
  <2>2. ASSUME NEW text \in Texts, IncomingFragment(text)
        PROVE  MessageIsOwn'
    BY <2>2 DEF IncomingFragment, session
  <2>3. CASE IncomingDone
    BY <2>3 DEF IncomingDone
  <2>4. CASE \E text \in LastTexts : IncomingReset(text)
    BY <2>4 DEF IncomingReset, Restart
  <2> QED BY <1>3, <2>1, <2>2, <2>3, <2>4 DEF Incoming
<1>4. CASE Second \/ PppUp \/ PppDown \/ UNCHANGED vars
  BY <1>4 DEF Second, PppUp, PppDown, vars, session, message
<1> QED BY <1>1, <1>2, <1>3, <1>4 DEF Next

LEMMA AddressStep ==
  ASSUME AddressIsFresh, [Next]_vars
  PROVE  /\ AddressIsFresh'
         /\ conn = "TCP_DISCONNECTED" /\ conn' = "TCP_CONNECTING" => fresh
<1> USE DEF AddressIsFresh
<1> DEFINE Goal == /\ AddressIsFresh'
                   /\ conn = "TCP_DISCONNECTED" /\ conn' = "TCP_CONNECTING"
                        => fresh
<1>1. CASE PollingTask
  <2>1. CASE PollStopped
    BY <2>1 DEF PollStopped, session, lookup
  <2>2. CASE PollDisconnected
    BY <2>2 DEF PollDisconnected, Effective, Stale
  <2>3. CASE PollResolved
    BY <2>3 DEF PollResolved, lookup
  <2>4. ASSUME NEW answer \in {"cached", "pending", "refused"},
               PollResolve(answer)
        PROVE  Goal
    BY <2>4 DEF PollResolve, session, lookup
  <2>5. ASSUME NEW ok \in BOOLEAN, PollConnecting(ok)
        PROVE  Goal
    BY <2>5 DEF PollConnecting, Effective, Stale, lookup
  <2>6. ASSUME NEW sent \in BOOLEAN, PollConnected(sent)
        PROVE  Goal
    BY <2>6 DEF PollConnected, lookup
  <2> QED BY <1>1, <2>1, <2>2, <2>3, <2>4, <2>5, <2>6 DEF PollingTask
<1>2. CASE Callback
  <2>1. CASE TcpConnected
    BY <2>1 DEF TcpConnected, lookup
  <2>2. CASE ConnectionLost
    BY <2>2 DEF ConnectionLost, lookup
  <2>3. CASE SubscribeDone
    BY <2>3 DEF SubscribeDone, lookup
  <2>4. ASSUME NEW ok \in BOOLEAN, DnsFound(ok)
        PROVE  Goal
    BY <2>4 DEF DnsFound, session
  <2>5. ASSUME NEW ok \in BOOLEAN, ConnectionAccepted(ok)
        PROVE  Goal
    BY <2>5 DEF ConnectionAccepted, lookup
  <2>6. ASSUME NEW ok \in BOOLEAN, SubscribeFailed(ok)
        PROVE  Goal
    BY <2>6 DEF SubscribeFailed, lookup
  <2> QED BY <1>2, <2>1, <2>2, <2>3, <2>4, <2>5, <2>6 DEF Callback
<1>3. CASE Second \/ PppUp \/ PppDown \/ UNCHANGED vars
  BY <1>3 DEF Second, PppUp, PppDown, vars, session, lookup
<1>4. CASE Incoming
  <2>1. CASE \E text \in LastTexts : IncomingReset(text)
    BY <2>1 DEF IncomingReset, Restart
  <2>2. CASE ~(\E text \in LastTexts : IncomingReset(text))
    BY <1>4, <2>2 DEF Incoming, IncomingPublish, IncomingFragment, IncomingDone,
      session, lookup
  <2> QED BY <2>1, <2>2
<1> QED BY <1>1, <1>2, <1>3, <1>4 DEF Next

\* Only a call in the connected state sends a heartbeat, and only when the
\* subtraction says that one is due; only the clock lets it grow older.
LEMMA BeatStep ==
  ASSUME TypeOK, ClockTellsBeat, [Next]_vars
  PROVE  /\ ClockTellsBeat'
         /\ since_beat' < since_beat => since_beat = HeartBeat
<1> DEFINE Goal == /\ ClockTellsBeat'
                   /\ since_beat' < since_beat => since_beat = HeartBeat
<1>1. /\ HeartBeat \in Nat /\ HeartBeat > 0 /\ HeartBeat < Wrap
      /\ Wrap \in Nat \ {0}
      /\ now \in 0..(Wrap - 1) /\ last_beat \in 0..(Wrap - 1)
      /\ since_beat \in 0..HeartBeat
  BY MqttAssumption DEF TypeOK
<1>2. ASSUME now' = now, last_beat' = last_beat, since_beat' = since_beat
      PROVE  Goal
  BY <1>1, <1>2 DEF ClockTellsBeat, Elapsed
<1>3. ASSUME NEW sent \in BOOLEAN, PollConnected(sent)
      PROVE  Goal
  <2>1. now' = now
    BY <1>3 DEF PollConnected, Poll
  <2>2. CASE conn = "MQTT_CONNECTED" /\ BeatDue
    <3>1. last_beat' = now /\ since_beat' = 0
      BY <1>3, <2>2 DEF PollConnected
    <3>2. since_beat = HeartBeat
      BY <1>1, <2>2 DEF BeatDue, ClockTellsBeat, Elapsed
    <3>3. Elapsed' = 0
      BY <1>1, <2>1, <3>1, NoTimePassed DEF Elapsed
    <3> QED BY <3>1, <3>2, <3>3 DEF ClockTellsBeat
  <2>3. CASE ~(conn = "MQTT_CONNECTED" /\ BeatDue)
    <3>1. last_beat' = last_beat /\ since_beat' = since_beat
      BY <1>3, <2>3 DEF PollConnected
    <3> QED BY <1>2, <2>1, <3>1
  <2> QED BY <2>2, <2>3
<1>4. CASE Second
  <2>1. /\ now' = (now + 1) % Wrap
        /\ last_beat' = last_beat
        /\ since_beat' = Count(since_beat, HeartBeat)
    BY <1>4 DEF Second
  <2>2. CASE since_beat + 1 < HeartBeat
    <3>1. since_beat' = since_beat + 1
      BY <1>1, <2>1, <2>2 DEF Count
    <3>2. Elapsed = since_beat
      BY <1>1, <2>2 DEF ClockTellsBeat
    <3>3. Elapsed' = Elapsed + 1
      BY <1>1, <2>1, <2>2, <3>2, SecondElapses DEF Elapsed
    <3> QED BY <1>1, <3>1, <3>2, <3>3 DEF ClockTellsBeat
  <2>3. CASE ~(since_beat + 1 < HeartBeat)
    <3>1. since_beat' = HeartBeat
      BY <1>1, <2>1, <2>3 DEF Count
    <3> QED BY <1>1, <3>1 DEF ClockTellsBeat
  <2> QED BY <2>2, <2>3
<1>5. CASE PollingTask \/ Callback \/ Incoming \/ PppUp \/ PppDown \/ UNCHANGED vars
  <2>1. ASSUME ~(\E sent \in BOOLEAN : PollConnected(sent)),
               ~(\E text \in LastTexts : IncomingReset(text))
        PROVE  now' = now /\ last_beat' = last_beat /\ since_beat' = since_beat
    <3>1. CASE PollingTask
      BY <2>1, <3>1 DEF PollingTask, PollStopped, PollDisconnected, PollResolved,
        PollResolve, PollConnecting, Poll, timers
    <3>2. CASE Callback
      BY <3>2 DEF Callback, TcpConnected, ConnectionLost, SubscribeDone, DnsFound,
        ConnectionAccepted, SubscribeFailed, timers
    <3>3. CASE PppUp \/ PppDown \/ UNCHANGED vars
      BY <3>3 DEF PppUp, PppDown, vars, timers
    <3>4. CASE Incoming
      BY <2>1, <3>4 DEF Incoming, IncomingPublish, IncomingFragment, IncomingDone,
        timers
    <3> QED BY <1>5, <3>1, <3>2, <3>3, <3>4
  <2>2. ASSUME NEW text \in LastTexts, IncomingReset(text)
        PROVE  Goal
    <3>1. since_beat' = HeartBeat
      BY <2>2 DEF IncomingReset, Restart
    <3> QED BY <1>1, <3>1 DEF ClockTellsBeat
  <2> QED BY <2>1, <2>2, <1>2, <1>3
<1> QED BY <1>4, <1>5 DEF Next

-----------------------------------------------------------------------------
(* Theorems *)

LEMMA MqttStep == MqttInv /\ [Next]_vars => MqttInv'
  BY TypeStep, SessionStep, MessageStep, AddressStep, BeatStep DEF MqttInv

LEMMA MqttInvariant == Spec => []MqttInv
  BY InitMqtt, MqttStep, PTL DEF Spec

\* The counters of the task stay in their ranges, the number of subscribe errors
\* below the limit and the requests within lwIP's pool, for all limits.
THEOREM MqttTypeCorrect == Spec => []TypeOK
<1>1. MqttInv => TypeOK
  BY DEF MqttInv
<1> QED BY <1>1, MqttInvariant, PTL

\* m_mqtt_state and lwIP's connection state agree after every poll, callback
\* and loss of the link.
THEOREM MqttSessionAgrees == Spec => []SessionAgrees
<1>1. MqttInv => SessionAgrees
  BY DEF MqttInv
<1> QED BY <1>1, MqttInvariant, PTL

\* NVIC_SystemReset is called only for text of the message that is being
\* received, on the subscribed topic, whatever was received and cut off before.
THEOREM MqttResetByOwnMessage == Spec => ResetByOwnMessage
<1>1. MqttInv /\ [Next]_vars
        => [\A text \in LastTexts :
              IncomingReset(text) => incoming = "ours" /\ Requests(text, told)]_vars
  BY DEF MqttInv, MessageIsOwn, IncomingReset
<1> QED BY <1>1, MqttInvariant, PTL DEF Spec, ResetByOwnMessage

\* mqtt_client_connect is only called with an address that was looked up after
\* the last session.
THEOREM MqttConnectsToFreshAddress == Spec => ConnectsToFreshAddress
<1>1. MqttInv /\ [Next]_vars
        => [conn = "TCP_DISCONNECTED" /\ conn' = "TCP_CONNECTING" => fresh]_vars
  BY AddressStep DEF MqttInv
<1> QED BY <1>1, MqttInvariant, PTL DEF Spec, ConnectsToFreshAddress

\* The heartbeat's unsigned subtraction keeps its interval for every period below
\* the place where the counter wraps.
THEOREM MqttHeartBeatPaced == Spec => HeartBeatPaced
<1>1. MqttInv /\ [Next]_vars
        => [since_beat' < since_beat => since_beat = HeartBeat]_vars
  BY BeatStep DEF MqttInv
<1> QED BY <1>1, MqttInvariant, PTL DEF Spec, HeartBeatPaced
=============================================================================
