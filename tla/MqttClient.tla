----------------------------- MODULE MqttClient -----------------------------
(***************************************************************************)
(* The MQTT client task of mqtt_client.c: mqtt_client_polling_task and the *)
(* callbacks it gives to lwIP (DNS answer, connection status, result of a  *)
(* subscribe request, topic and payload of an incoming message).           *)
(* Everything runs in the main loop, so a call of the task or of a         *)
(* callback is one step; lwIP's DNS and MQTT clients, the PPP link and the *)
(* broker are the environment.                                             *)
(*                                                                         *)
(* The unit of time is the second between two regular calls of the task.   *)
(* The millisecond counter wraps at 2^32; here it wraps at Wrap seconds.   *)
(* A message on the subscribed topic may ask for a restart with the text   *)
(* "PLEASE RESET".  Of a fragment of a message it is told apart whether it *)
(* "asks", that is, holds the whole request, whether it holds the "rest"   *)
(* of one (an end of it, after which more text may follow), whether it     *)
(* stops in the middle of one ("head"), or none of these ("plain").        *)
(***************************************************************************)
EXTENDS Naturals

CONSTANTS
  SubPeriod,  \* periodic_sub_req_s (120)
  HeartBeat,  \* seconds between two heartbeats (30)
  Wrap,       \* where sys_get_tick_ms wraps, in seconds
  MaxErrors,  \* subscribe errors that close the connection (5)
  MaxSubs     \* MQTT_REQ_MAX_IN_FLIGHT

ASSUME MqttAssumption ==
  /\ SubPeriod \in 1..(Wrap - 1)
  /\ HeartBeat \in 1..(Wrap - 1)
  /\ Wrap \in Nat
  /\ MaxErrors \in Nat \ {0}
  /\ MaxSubs \in Nat \ {0}

VARIABLES
  state,        \* m_mqtt_state
  resolved,     \* m_is_dns_resolved
  process_now,  \* m_mqtt_process_now
  allow,        \* m_mqtt_allow
  mqtt_tick,    \* mqtt_tick; values above 10 are not told apart
  errors,       \* m_sub_req_err_count
  now,          \* sys_get_tick_ms
  due,          \* a second has passed since the last call (m_current_tick)
  last_sub,     \* last_time_send_sub_request
  last_beat,    \* last_time_send_hearbeat
  ppp,          \* gsm_data_layer_is_ppp_connected
  dns,          \* a DNS request is under way
  conn,         \* conn_state of lwIP's MQTT client
  subs,         \* subscribe requests under way
  incoming,     \* message that lwIP is receiving: "ours", on the subscribed
                \* topic, "other", or "none"
  valid_topic,  \* m_is_valid_sub_topic
  rx_text,      \* text of the last fragment that filled rx_buffer of lwIP's
                \* client: "plain" (or none), "rest" or "asks"
  told,         \* history: the same, of the message that is being received
  fresh,        \* history: DNS gave an address since the last session ended
  since_sub,    \* history: seconds since the last periodic request, capped
  since_beat    \* history: seconds since the last heartbeat, capped

\* What is told apart of the text of a fragment.
Texts == {"plain", "rest", "asks"}
LastTexts == {"plain", "head", "asks"}

session == <<state, conn, subs, errors>>
message == <<incoming, valid_topic, rx_text, told>>
lookup == <<resolved, dns, fresh>>
timers == <<last_sub, last_beat, since_sub, since_beat>>
vars == <<session, message, lookup, timers, process_now, allow, mqtt_tick, now,
          due, ppp>>

\* A counter that stops at top.
Count(n, top) == IF n < top THEN n + 1 ELSE top

Init ==
  /\ state = "DISCONNECTED" /\ conn = "TCP_DISCONNECTED" /\ subs = 0
  /\ errors = 0
  /\ incoming = "none" /\ told = "plain"
  /\ valid_topic = FALSE /\ rx_text = "plain"
  /\ resolved = FALSE /\ dns = FALSE /\ fresh = FALSE
  /\ last_sub = 0 /\ last_beat = 0
  /\ since_sub = SubPeriod /\ since_beat = HeartBeat
  /\ process_now = FALSE /\ allow = FALSE /\ mqtt_tick = 0
  /\ now = 0 /\ due = FALSE
  /\ ppp = FALSE

\* NVIC_SystemReset: everything starts anew, the link included.
Restart ==
  /\ state' = "DISCONNECTED" /\ conn' = "TCP_DISCONNECTED" /\ subs' = 0
  /\ errors' = 0
  /\ incoming' = "none" /\ told' = "plain"
  /\ valid_topic' = FALSE /\ rx_text' = "plain"
  /\ resolved' = FALSE /\ dns' = FALSE /\ fresh' = FALSE
  /\ last_sub' = 0 /\ last_beat' = 0
  /\ since_sub' = SubPeriod /\ since_beat' = HeartBeat
  /\ process_now' = FALSE /\ allow' = FALSE /\ mqtt_tick' = 0
  /\ now' = 0 /\ due' = FALSE
  /\ ppp' = FALSE

\* mqtt_subscribe: the request is under way, or refused for want of memory.
Subscribe(pending, sent) ==
  /\ sent => pending < MaxSubs
  /\ subs' = IF sent THEN pending + 1 ELSE pending

\* The end of a connection cuts off the message that is being received.  Flag
\* and buffer stay as they are.
CutMessage ==
  /\ incoming' = "none" /\ told' = "plain"
  /\ UNCHANGED <<valid_topic, rx_text>>

-----------------------------------------------------------------------------
(* mqtt_client_polling_task *)

\* A link that has come up finds a session of the link before it: it is closed
\* before the state is looked at.  (lwIP has aborted it with the link, see
\* PppDown, so this is a second line of defence.)
Stale == ~allow /\ conn = "MQTT_CONNECTED"
Effective == IF Stale THEN "DISCONNECTED" ELSE state

\* One call in a second, or at once when a callback asks for it.
Poll ==
  /\ due \/ process_now
  /\ due' = FALSE
  /\ process_now' = FALSE
  /\ allow' = ppp
  /\ UNCHANGED <<now, ppp>>

PollStopped ==
  /\ ~ppp
  /\ Poll
  /\ mqtt_tick' = 4
  /\ UNCHANGED <<session, message, lookup, timers>>

\* Mutant: the address of the last session is kept.
PollDisconnectedKeeps ==
  /\ ppp /\ Effective = "DISCONNECTED"
  /\ Poll
  /\ state' = "RESOLVE_HOSTNAME"
  /\ fresh' = FALSE
  /\ mqtt_tick' = 4
  /\ conn' = IF Stale THEN "TCP_DISCONNECTED" ELSE conn
  /\ subs' = IF Stale THEN 0 ELSE subs
  /\ IF Stale THEN CutMessage ELSE UNCHANGED message
  /\ UNCHANGED <<errors, dns, resolved, timers>>

PollDisconnected ==
  /\ ppp /\ Effective = "DISCONNECTED"
  /\ Poll
  /\ state' = "RESOLVE_HOSTNAME"
  /\ resolved' = FALSE
  /\ fresh' = FALSE
  /\ mqtt_tick' = 4
  /\ conn' = IF Stale THEN "TCP_DISCONNECTED" ELSE conn
  /\ subs' = IF Stale THEN 0 ELSE subs
  /\ IF Stale THEN CutMessage ELSE UNCHANGED message
  /\ UNCHANGED <<errors, dns, timers>>

\* dns_gethostbyname: the name is "cached", the answer is "pending", or the
\* request is "refused".
PollResolve(answer) ==
  /\ ppp /\ Effective = "RESOLVE_HOSTNAME" /\ ~resolved
  /\ Poll
  /\ IF Count(mqtt_tick, 10) >= 5
     THEN /\ mqtt_tick' = 0
          /\ resolved' = (answer = "cached")
          /\ fresh' = (fresh \/ answer = "cached")
          /\ dns' = (dns \/ answer = "pending")
     ELSE mqtt_tick' = Count(mqtt_tick, 10) /\ UNCHANGED lookup
  /\ UNCHANGED <<session, message, timers>>

PollResolved ==
  /\ ppp /\ Effective = "RESOLVE_HOSTNAME" /\ resolved
  /\ Poll
  /\ state' = "CONNECTING"
  /\ mqtt_tick' = 9
  /\ UNCHANGED <<conn, subs, errors, message, lookup, timers>>

\* mqtt_client_connect starts a connection or fails; while one is being set up
\* it returns ERR_ISCONN.  Before it tries it sets lwIP's client to zero.
PollConnecting(ok) ==
  /\ ppp /\ Effective = "CONNECTING"
  /\ Poll
  /\ IF Count(mqtt_tick, 10) < 10
     THEN mqtt_tick' = Count(mqtt_tick, 10) /\ UNCHANGED <<conn, rx_text>>
     ELSE /\ IF conn = "TCP_DISCONNECTED" /\ ok
             THEN mqtt_tick' = 5 /\ conn' = "TCP_CONNECTING"
             ELSE mqtt_tick' = 0 /\ UNCHANGED conn
          /\ rx_text' = IF conn = "TCP_DISCONNECTED" THEN "plain" ELSE rx_text
  /\ UNCHANGED <<state, subs, errors, incoming, told, valid_topic, lookup,
                 timers>>

\* tick >= last_time_send_sub_request + period, in 32 bits.
SubBase == IF last_sub = 0 \/ last_sub > now THEN now ELSE last_sub
SubDue == now >= (SubBase + SubPeriod) % Wrap

\* Mutant: the deadline is computed and may wrap around.
BeatDueSum == now >= (last_beat + HeartBeat) % Wrap

\* tick - last_time_send_hearbeat >= 30000, in 32 bits.
BeatDue == (now + Wrap - last_beat) % Wrap >= HeartBeat

PollConnected(sent) ==
  /\ ppp /\ Effective = "CONNECTED"
  /\ Poll
  /\ mqtt_tick' = Count(mqtt_tick, 10)
  /\ IF conn = "MQTT_CONNECTED"
     THEN /\ last_sub' = IF SubDue THEN now ELSE SubBase
          /\ since_sub' = IF SubDue THEN 0 ELSE since_sub
          /\ IF SubDue THEN Subscribe(subs, sent) ELSE UNCHANGED subs
          /\ last_beat' = IF BeatDue THEN now ELSE last_beat
          /\ since_beat' = IF BeatDue THEN 0 ELSE since_beat
          /\ UNCHANGED state
     ELSE /\ state' = "DISCONNECTED"
          /\ last_sub' = SubBase
          /\ UNCHANGED <<subs, since_sub, last_beat, since_beat>>
  /\ UNCHANGED <<conn, errors, message, lookup>>

-----------------------------------------------------------------------------
(* Callbacks of lwIP *)

\* Mutant: the address is stored and the flag forgotten.
DnsFoundNoFlag(ok) ==
  /\ dns
  /\ dns' = FALSE
  /\ resolved' = (ok /\ resolved)
  /\ fresh' = (fresh \/ ok)
  /\ process_now' = (process_now \/ ok)
  /\ UNCHANGED <<session, message, timers, allow, mqtt_tick, now, due, ppp>>

\* mqtt_dns_found
DnsFound(ok) ==
  /\ dns
  /\ dns' = FALSE
  /\ resolved' = ok
  /\ fresh' = (fresh \/ ok)
  /\ process_now' = (process_now \/ ok)
  /\ UNCHANGED <<session, message, timers, allow, mqtt_tick, now, due, ppp>>

\* The TCP connection is there, CONNECT is sent.
TcpConnected ==
  /\ conn = "TCP_CONNECTING"
  /\ conn' = "MQTT_CONNECTING"
  /\ UNCHANGED <<state, subs, errors, message, lookup, timers, process_now,
                 allow, mqtt_tick, now, due, ppp>>

\* mqtt_client_connection_callback(MQTT_CONNECT_ACCEPTED)
ConnectionAccepted(sent) ==
  /\ conn = "MQTT_CONNECTING"
  /\ conn' = "MQTT_CONNECTED"
  /\ state' = "CONNECTED"
  /\ process_now' = TRUE
  /\ Subscribe(0, sent)
  /\ UNCHANGED <<errors, message, lookup, timers, allow, mqtt_tick, now, due,
                 ppp>>

\* Mutant: the state is left to the polling task.
ConnectionLostKeepsState ==
  /\ conn # "TCP_DISCONNECTED"
  /\ conn' = "TCP_DISCONNECTED"
  /\ subs' = 0
  /\ CutMessage
  /\ UNCHANGED <<state, errors, lookup, timers, process_now, allow, mqtt_tick,
                 now, due, ppp>>

\* mqtt_client_connection_callback with any other status: refused, timed out,
\* closed or reset.  lwIP drops the requests under way without a callback.
ConnectionLost ==
  /\ conn # "TCP_DISCONNECTED"
  /\ conn' = "TCP_DISCONNECTED"
  /\ subs' = 0
  /\ CutMessage
  /\ state' = "DISCONNECTED"
  /\ UNCHANGED <<errors, lookup, timers, process_now, allow, mqtt_tick, now,
                 due, ppp>>

SubscribeDone ==
  /\ subs > 0
  /\ subs' = subs - 1
  /\ errors' = 0
  /\ process_now' = TRUE
  /\ UNCHANGED <<state, conn, message, lookup, timers, allow, mqtt_tick, now,
                 due, ppp>>

\* Mutant: the sixth error closes the connection.
SubscribeFailedLate(sent) ==
  /\ subs > 0
  /\ IF errors >= MaxErrors
     THEN /\ conn' = "TCP_DISCONNECTED"
          /\ state' = "DISCONNECTED"
          /\ subs' = 0
          /\ errors' = 0
          /\ CutMessage
     ELSE /\ errors' = errors + 1
          /\ Subscribe(subs - 1, sent)
          /\ UNCHANGED <<state, conn, message>>
  /\ UNCHANGED <<lookup, timers, process_now, allow, mqtt_tick, now, due, ppp>>

\* Refused by the broker or timed out: again, or close the connection, which
\* drops all requests and calls nothing back.
SubscribeFailed(sent) ==
  /\ subs > 0
  /\ IF errors + 1 >= MaxErrors
     THEN /\ conn' = "TCP_DISCONNECTED"
          /\ state' = "DISCONNECTED"
          /\ subs' = 0
          /\ errors' = 0
          /\ CutMessage
     ELSE /\ errors' = errors + 1
          /\ Subscribe(subs - 1, sent)
          /\ UNCHANGED <<state, conn, message>>
  /\ UNCHANGED <<lookup, timers, process_now, allow, mqtt_tick, now, due, ppp>>

-----------------------------------------------------------------------------
(* Incoming messages.  lwIP puts a message into rx_buffer, behind its fixed *)
(* header, and hands it on whenever the buffer is full.  So a fragment that *)
(* is not the last one takes the place of all older text.  The last one may *)
(* be shorter: behind it stays the end of the fragment before it, with no 0 *)
(* between the two, and the callback searches both as one string.           *)

\* Mutant: the flag is not cleared for other topics.
IncomingPublishNoElse(topic) ==
  /\ conn = "MQTT_CONNECTED"
  /\ incoming = "none"
  /\ incoming' = topic
  /\ valid_topic' = (valid_topic \/ topic = "ours")
  /\ UNCHANGED <<session, rx_text, told, lookup, timers, process_now, allow,
                 mqtt_tick, now, due, ppp>>

\* mqtt_incoming_publish_cb: the topic of a message.
IncomingPublish(topic) ==
  /\ conn = "MQTT_CONNECTED"
  /\ incoming = "none"
  /\ incoming' = topic
  /\ valid_topic' = (topic = "ours")
  /\ UNCHANGED <<session, rx_text, told, lookup, timers, process_now, allow,
                 mqtt_tick, now, due, ppp>>

\* mqtt_incoming_data_cb without MQTT_DATA_FLAG_LAST looks at nothing.
IncomingFragment(text) ==
  /\ incoming # "none"
  /\ rx_text' = text
  /\ told' = text
  /\ UNCHANGED <<session, incoming, valid_topic, lookup, timers, process_now,
                 allow, mqtt_tick, now, due, ppp>>

\* The last fragment of a message that is not obeyed: another topic, no
\* request, or one next to "UDFW,", which is only logged.  The flag and
\* rx_buffer are cleared.
IncomingDone ==
  /\ incoming # "none"
  /\ incoming' = "none" /\ told' = "plain"
  /\ valid_topic' = FALSE
  /\ rx_text' = "plain"
  /\ UNCHANGED <<session, lookup, timers, process_now, allow, mqtt_tick, now,
                 due, ppp>>

\* A request in the last fragment, in what is left behind it, or begun by the
\* one and completed by the other.
Requests(last, left) ==
  last = "asks" \/ left = "asks" \/ (last = "head" /\ left = "rest")

\* mqtt_incoming_data_cb finds a request: NVIC_SystemReset.
IncomingReset(text) ==
  /\ incoming # "none"
  /\ valid_topic
  /\ Requests(text, rx_text)
  /\ Restart

-----------------------------------------------------------------------------
(* The clock and the link *)

\* The task is called more than once a second.
Second ==
  /\ ~due
  /\ due' = TRUE
  /\ now' = (now + 1) % Wrap
  /\ since_sub' = Count(since_sub, SubPeriod)
  /\ since_beat' = Count(since_beat, HeartBeat)
  /\ UNCHANGED <<session, message, lookup, last_sub, last_beat, process_now,
                 allow, mqtt_tick, ppp>>

PppUp ==
  /\ ~ppp
  /\ ppp' = TRUE
  /\ UNCHANGED <<session, message, lookup, timers, process_now, allow,
                 mqtt_tick, now, due>>

\* Before it reports the end of the link lwIP takes the address from the
\* interface and aborts the connections that use it.
PppDown ==
  /\ ppp
  /\ conn = "TCP_DISCONNECTED"
  /\ ppp' = FALSE
  /\ UNCHANGED <<session, message, lookup, timers, process_now, allow,
                 mqtt_tick, now, due>>

-----------------------------------------------------------------------------

PollingTask ==
  \/ PollStopped \/ PollDisconnected \/ PollResolved
  \/ \E answer \in {"cached", "pending", "refused"} : PollResolve(answer)
  \/ \E ok \in BOOLEAN : PollConnecting(ok)
  \/ \E sent \in BOOLEAN : PollConnected(sent)

Callback ==
  \/ TcpConnected \/ ConnectionLost \/ SubscribeDone
  \/ \E ok \in BOOLEAN :
       DnsFound(ok) \/ ConnectionAccepted(ok) \/ SubscribeFailed(ok)

Incoming ==
  \/ IncomingDone
  \/ \E topic \in {"ours", "other"} : IncomingPublish(topic)
  \/ \E text \in Texts : IncomingFragment(text)
  \/ \E text \in LastTexts : IncomingReset(text)

Next == PollingTask \/ Callback \/ Incoming \/ Second \/ PppUp \/ PppDown

Spec == Init /\ [][Next]_vars

\* The main loop runs for ever, lwIP retries and times out its requests, and a
\* link that is down comes up again.
FairSpec ==
  /\ Spec
  /\ WF_vars(PollingTask) /\ WF_vars(Second) /\ WF_vars(PppUp)
  /\ WF_vars(\E ok \in BOOLEAN : DnsFound(ok))
  /\ WF_vars(TcpConnected \/ ConnectionLost
             \/ \E sent \in BOOLEAN : ConnectionAccepted(sent))

\* The link breaks, a request is refused or fails, the broker orders a restart:
\* steps that no success explains.
Misbehave ==
  \/ PppDown \/ ConnectionLost \/ DnsFound(FALSE)
  \/ PollResolve("refused") /\ ~PollResolve("pending") /\ ~PollResolve("cached")
  \/ PollConnecting(FALSE) /\ ~PollConnecting(TRUE)
  \/ \E sent \in BOOLEAN : SubscribeFailed(sent)
  \/ \E text \in LastTexts : IncomingReset(text)

\* From some moment on the network is well.
WellInTheEnd == <>[][~Misbehave]_vars

-----------------------------------------------------------------------------
(* Properties *)

\* The number of subscribe errors stays below the limit that closes the
\* connection, and lwIP's pool of requests is not exceeded.
TypeOK ==
  /\ state \in {"DISCONNECTED", "RESOLVE_HOSTNAME", "CONNECTING", "CONNECTED"}
  /\ conn \in {"TCP_DISCONNECTED", "TCP_CONNECTING", "MQTT_CONNECTING",
               "MQTT_CONNECTED"}
  /\ incoming \in {"none", "ours", "other"}
  /\ valid_topic \in BOOLEAN
  /\ rx_text \in Texts /\ told \in Texts
  /\ resolved \in BOOLEAN /\ dns \in BOOLEAN /\ fresh \in BOOLEAN
  /\ process_now \in BOOLEAN /\ allow \in BOOLEAN
  /\ due \in BOOLEAN /\ ppp \in BOOLEAN
  /\ mqtt_tick \in 0..10
  /\ errors \in 0..(MaxErrors - 1)
  /\ subs \in 0..MaxSubs
  /\ now \in 0..(Wrap - 1)
  /\ last_sub \in 0..(Wrap - 1) /\ last_beat \in 0..(Wrap - 1)
  /\ since_sub \in 0..SubPeriod
  /\ since_beat \in 0..HeartBeat

\* The state of the task and the state of lwIP's client, changed in different
\* places by the poll, two callbacks and lwIP itself, never drift apart: what
\* mqtt_client_is_connected_to_broker says is so, and a connection that is
\* being set up has the task waiting for it.
SessionAgrees ==
  /\ state = "CONNECTED" <=> conn = "MQTT_CONNECTED"
  /\ conn \in {"TCP_CONNECTING", "MQTT_CONNECTING"} => state = "CONNECTING"

\* The processor is restarted only for text that came on the subscribed topic,
\* all of it with the message that is being received: never for what an earlier
\* message, another topic or a connection that was cut off left in
\* m_is_valid_sub_topic and in rx_buffer.  (Two fragments of that message may
\* well be joined to a request that nobody sent, see Requests.)
ResetByOwnMessage ==
  [][\A text \in LastTexts :
       IncomingReset(text) => incoming = "ours" /\ Requests(text, told)]_vars

\* The broker is looked up anew for every session: a connection is opened only
\* to an address that DNS gave after the session before it had ended, however
\* late answers and retries fall.
ConnectsToFreshAddress ==
  [][conn = "TCP_DISCONNECTED" /\ conn' = "TCP_CONNECTING" => fresh]_vars

\* Two heartbeats are at least 30 seconds apart, also across the wrap-around of
\* the millisecond counter and across sessions.
HeartBeatPaced == [][since_beat' < since_beat => since_beat = HeartBeat]_vars

\* "Send subscribe message periodic" (mqtt_client.c:408), every
\* periodic_sub_req_s = 120 seconds (main.c:108).
SubscribePaced == [][since_sub' < since_sub => since_sub = SubPeriod]_vars

\* When the network is well in the end the task ends up connected and stays so,
\* whatever state, counters and late answers it was left with.
Reconnects == WellInTheEnd => <>[](state = "CONNECTED")
=============================================================================
