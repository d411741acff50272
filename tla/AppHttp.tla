------------------------------- MODULE AppHttp -------------------------------
(***************************************************************************)
(* The HTTP download: the one-shot latch of main.c (STM32L083 build),      *)
(* app_http.c, and lwIP's http_client.c, which carries a change of this    *)
(* repository (data that arrives winds the timeout up again).  Everything  *)
(* runs in the main loop, so a call of app_http_start and a callback of    *)
(* lwIP's TCP or DNS is one step.  TCP, DNS, the server and the PPP link   *)
(* are the environment.                                                    *)
(*                                                                         *)
(* The reply of the server is a stream of units: head of them end with the *)
(* empty line behind the headers, the first line is complete with unit     *)
(* line, and body units follow.  TCP hands units over in pieces of any     *)
(* size that fits the receive window.                                      *)
(*                                                                         *)
(* app_http_start stores a NULL event callback whatever it is given, so    *)
(* the branches of httpc_result_callback (which it chooses by the err_t,   *)
(* not by the result) and of httpc_headers_done_callback have no effect    *)
(* but on the log.                                                         *)
(***************************************************************************)
EXTENDS Naturals

CONSTANTS
  Timeout,   \* HTTPC_POLL_TIMEOUT
  Wnd,       \* TCP_WND, in units
  MaxHead,   \* bound of the model: units up to the end of the headers
  MaxBody,   \* bound of the model: units of the body
  NoLength   \* HTTPC_CONTENT_LEN_INVALID

ASSUME HttpAssumption ==
  /\ Timeout \in Nat \ {0}
  /\ Wnd \in Nat \ {0}
  /\ MaxHead \in Nat \ {0}
  /\ MaxBody \in Nat
  /\ NoLength \notin Nat

VARIABLES
  m_http_test_started,  \* main's latch
  ppp,        \* gsm_data_layer_is_ppp_connected
  free,       \* m_http_free
  phase,      \* the httpc_state: "none" (freed), waiting for "dns", for "syn"
              \* to be answered, or "open"
  parse,      \* parse_state: "first" line, "headers" or "data"
  ticks,      \* timeout_ticks
  held,       \* units kept in rx_hdrs
  rx_len,     \* rx_content_len
  hdr_len,    \* hdr_content_len
  window,     \* receive window that TCP still offers
  reply,      \* what the server answers
  delivered,  \* units of it that TCP has handed over
  result,     \* history: the last result the callback was given
  starts,     \* history: transfers that were started
  results     \* history: calls of httpc_result_callback

main == <<m_http_test_started, ppp>>
req == <<phase, parse, ticks, held, rx_len, hdr_len>>
stream == <<window, reply, delivered>>
outcome == <<free, result, results>>
vars == <<main, req, stream, outcome, starts>>

Replies ==
  { r \in [head : 1..MaxHead, line : 1..MaxHead, valid : BOOLEAN,
           body : 0..MaxBody, length : 0..MaxBody \cup {NoLength}]
      : r.line <= r.head }

Silence == [head |-> 1, line |-> 1, valid |-> FALSE, body |-> 0,
            length |-> NoLength]

Init ==
  /\ m_http_test_started = FALSE /\ ppp = FALSE
  /\ free = TRUE
  /\ phase = "none" /\ parse = "first" /\ ticks = 0 /\ held = 0
  /\ rx_len = 0 /\ hdr_len = NoLength
  /\ window = Wnd /\ reply = Silence /\ delivered = 0
  /\ result = "none" /\ starts = 0 /\ results = 0

-----------------------------------------------------------------------------
(* httpc_close: result_fn, which is httpc_result_callback, then             *)
(* httpc_free_state                                                        *)

\* Mutant: only the case of a transfer that went well frees the client.
CloseKeepsBusy(why) ==
  /\ result' = why
  /\ results' = results + 1
  /\ free' = (free \/ why = "OK")
  /\ phase' = "none"
  /\ held' = 0

Close(why) ==
  /\ result' = why
  /\ results' = results + 1
  /\ free' = TRUE
  /\ phase' = "none"
  /\ held' = 0

-----------------------------------------------------------------------------
(* main and app_http_start *)

\* httpc_init_connection: a fresh httpc_state, with pcb and callbacks.
NewState(waiting) ==
  /\ phase' = waiting
  /\ parse' = "first"
  /\ ticks' = Timeout
  /\ held' = 0
  /\ rx_len' = 0
  /\ hdr_len' = NoLength

\* The latch is set before the start and whatever comes of it.
Latch ==
  /\ ppp
  /\ ~m_http_test_started
  /\ m_http_test_started' = TRUE

\* The state is allocated and the name is being looked up, or known and the
\* connection requested.
StartOk(waiting) ==
  /\ Latch
  /\ NewState(waiting)
  /\ free' = FALSE
  /\ starts' = starts + 1
  /\ UNCHANGED <<ppp, stream, result, results>>

\* Mutant: the client is marked busy before httpc_get_file_dns is called.
StartFailedBusy ==
  /\ Latch
  /\ free' = FALSE
  /\ UNCHANGED <<ppp, req, stream, result, results, starts>>

\* No memory, no DNS server, no route: httpc_get_file_dns frees the state
\* without a callback.
StartFailed ==
  /\ Latch
  /\ UNCHANGED <<ppp, req, stream, outcome, starts>>

-----------------------------------------------------------------------------
(* Callbacks of DNS and TCP *)

\* httpc_dns_found with an address: the connection is requested.
DnsFound ==
  /\ phase = "dns"
  /\ ppp
  /\ phase' = "syn"
  /\ UNCHANGED <<main, parse, ticks, held, rx_len, hdr_len, stream, outcome,
                 starts>>

\* httpc_dns_found without one, or altcp_connect fails.
DnsFailed ==
  /\ phase = "dns"
  /\ \E why \in {"ERR_HOSTNAME", "ERR_CONNECT"} : Close(why)
  /\ UNCHANGED <<main, parse, ticks, rx_len, hdr_len, stream, starts>>

\* httpc_tcp_connected: the request is written, or there is no memory for it.
TcpConnected(written) ==
  /\ phase = "syn"
  /\ IF written
     THEN /\ phase' = "open"
          /\ reply' \in Replies
          /\ UNCHANGED <<held, outcome>>
     ELSE Close("ERR_MEM") /\ UNCHANGED reply
  /\ UNCHANGED <<main, parse, ticks, rx_len, hdr_len, window, delivered, starts>>

\* n units arrive and take their part of the window.
Arrive(n) ==
  /\ phase = "open"
  /\ n <= window
  /\ n <= reply.head + reply.body - delivered
  /\ delivered' = delivered + n
  /\ UNCHANGED <<main, phase, reply, outcome, starts>>

\* The parse state when all units of the reply so far are in rx_hdrs.
Parsed(all) ==
  IF parse = "first" /\ ~(reply.valid /\ all >= reply.line) THEN "first"
  ELSE IF all >= reply.head THEN "data"
  ELSE "headers"

\* Data goes to httpc_file_recv_callback, which gives its units back to the
\* window (tcp_recved), as httpc_tcp_recv gave back those of the headers.
RecvData(n) ==
  /\ parse = "data"
  /\ Arrive(n)
  /\ rx_len' = rx_len + n
  /\ ticks' = Timeout
  /\ UNCHANGED <<parse, held, hdr_len, window>>

\* The headers go on: keep what has come.
RecvHeaders(n) ==
  /\ parse # "data"
  /\ Arrive(n)
  /\ Parsed(held + n) # "data"
  /\ parse' = Parsed(held + n)
  /\ held' = held + n
  /\ window' = window - n
  /\ UNCHANGED <<ticks, rx_len, hdr_len>>

\* Mutant: what follows the headers in the same pieces stays in rx_hdrs.
RecvHeadersEndDrops(n) ==
  /\ parse # "data"
  /\ Arrive(n)
  /\ Parsed(held + n) = "data"
  /\ parse' = "data"
  /\ hdr_len' = reply.length
  /\ held' = 0
  /\ rx_len' = 0
  /\ ticks' = ticks
  /\ window' = window - n + reply.head

\* The headers are complete: httpc_headers_done_callback, their units are given
\* back, and what follows them in the same pieces is data.
RecvHeadersEnd(n) ==
  /\ parse # "data"
  /\ Arrive(n)
  /\ Parsed(held + n) = "data"
  /\ parse' = "data"
  /\ hdr_len' = reply.length
  /\ held' = 0
  /\ rx_len' = held + n - reply.head
  /\ ticks' = IF rx_len' > 0 THEN Timeout ELSE ticks
  /\ window' = window + held

\* httpc_tcp_recv(NULL): the server has closed the connection.
Closed ==
  /\ phase = "open"
  /\ Close(IF parse # "data" THEN "ERR_CLOSED"
           ELSE IF hdr_len \notin {NoLength, rx_len} THEN "ERR_CONTENT_LEN"
           ELSE "OK")
  /\ UNCHANGED <<main, parse, ticks, rx_len, hdr_len, stream, starts>>

\* httpc_tcp_err: reset by the server, given up by TCP, or aborted because the
\* address of the PPP interface is taken away.
TcpErr ==
  /\ phase \in {"syn", "open"}
  /\ Close("ERR_CLOSED")
  /\ UNCHANGED <<main, parse, ticks, rx_len, hdr_len, stream, starts>>

\* Mutant: the ticks are wound up again by every poll.
TcpPollRewinds ==
  /\ phase \in {"syn", "open"}
  /\ ticks' = Timeout
  /\ UNCHANGED <<main, phase, parse, held, rx_len, hdr_len, stream, outcome,
                 starts>>

\* httpc_tcp_poll, twice a second on a connection that exists.
TcpPoll ==
  /\ phase \in {"syn", "open"}
  /\ ticks' = IF ticks > 0 THEN ticks - 1 ELSE 0
  /\ IF ticks' = 0 THEN Close("ERR_TIMEOUT")
                   ELSE UNCHANGED <<phase, held, outcome>>
  /\ UNCHANGED <<main, parse, rx_len, hdr_len, stream, starts>>

-----------------------------------------------------------------------------
(* The link *)

PppUp ==
  /\ ~ppp
  /\ ppp' = TRUE
  /\ UNCHANGED <<m_http_test_started, req, stream, outcome, starts>>

\* lwIP has aborted the connections over the link before it reports its end.
PppDown ==
  /\ ppp
  /\ phase \notin {"syn", "open"}
  /\ ppp' = FALSE
  /\ UNCHANGED <<m_http_test_started, req, stream, outcome, starts>>

-----------------------------------------------------------------------------

Start == StartFailed \/ \E waiting \in {"dns", "syn"} : StartOk(waiting)

Recv == \E n \in 1..Wnd : RecvData(n) \/ RecvHeaders(n) \/ RecvHeadersEnd(n)

Dns == DnsFound \/ DnsFailed

Next ==
  \/ Start \/ Dns \/ Recv \/ Closed \/ TcpErr \/ TcpPoll \/ PppUp \/ PppDown
  \/ \E written \in BOOLEAN : TcpConnected(written)

Spec == Init /\ [][Next]_vars

\* lwIP's timers run in the main loop: a DNS request is answered or given up,
\* and TCP polls its connections.  The server and the link owe nothing.
FairSpec == Spec /\ WF_vars(Dns) /\ WF_vars(TcpPoll)

-----------------------------------------------------------------------------
(* Properties *)

\* app_http_is_idle tells whether lwIP works for the application: m_http_free,
\* set behind the call that starts the transfer and in the result callback,
\* goes with the life of the httpc_state, which six callbacks may end, and
\* every transfer that was started gives its result exactly once.
IdleTellsTransfer ==
  /\ free <=> phase = "none"
  /\ starts = results + (IF phase = "none" THEN 0 ELSE 1)

\* TCP's window is as it was, but for the header units that are kept: the
\* connection cannot dry up because a unit was not given back.
WindowAccount == phase = "open" => window + held = Wnd

\* However the headers and the body are cut into pieces, the application has
\* been given the whole body so far and nothing of the headers.
BodyAccount ==
  phase = "open" =>
    rx_len = IF parse = "data" THEN delivered - reply.head ELSE 0

\* A transfer with a Content-Length is reported as OK only if that much of the
\* body came in.
OkMeansWhole ==
  result = "OK" /\ reply.length # NoLength
    => delivered = reply.head + reply.length

\* The account of the units that arrive, over httpc_tcp_recv, the headers it
\* keeps and httpc_file_recv_callback.
UnitsAccountedFor == WindowAccount /\ BodyAccount /\ OkMeansWhole

\* Every transfer comes to its end, also with a server that stops in the middle,
\* headers that do not fit the window and a link that is lost during the
\* lookup, although data winds the timeout up again.
TransferEnds == (phase # "none") ~> (phase = "none")
=============================================================================
