---------------------------- MODULE AppHttpProofs ---------------------------
(***************************************************************************)
(* Proofs about AppHttp, for every timeout, window and size of the reply:  *)
(* app_http_is_idle tells whether a transfer is under way, and what        *)
(* arrives is accounted for.                                               *)
(***************************************************************************)
EXTENDS AppHttp, TLAPS

HttpTypes ==
  /\ m_http_test_started \in BOOLEAN
  /\ phase \in {"none", "dns", "syn", "open"}
  /\ parse \in {"first", "headers", "data"}
  /\ held \in Nat /\ rx_len \in Nat /\ window \in Nat /\ delivered \in Nat
  /\ reply \in Replies \cup {Silence}
  /\ starts \in Nat /\ results \in Nat

\* main starts one transfer: before it, nothing has happened.
OneTransfer ==
  /\ ~m_http_test_started => phase = "none"
  /\ result = "OK" => m_http_test_started /\ phase = "none"

\* A transfer that has not begun to receive.
Unread ==
  ~m_http_test_started \/ phase \in {"dns", "syn"} =>
    delivered = 0 /\ window = Wnd /\ held = 0

Requested ==
  phase \in {"dns", "syn"} => rx_len = 0 /\ parse = "first"

\* While headers come in all that came is held; behind them nothing is held,
\* the rest is body, and the declared length is known.
Received ==
  phase = "open" =>
    /\ window + held = Wnd
    /\ parse # "data" => held = delivered /\ rx_len = 0
    /\ parse = "data" => /\ held = 0
                         /\ delivered = reply.head + rx_len
                         /\ hdr_len = reply.length

\* Inductive.
HttpInv ==
  /\ HttpTypes
  /\ IdleTellsTransfer
  /\ OneTransfer
  /\ Unread
  /\ Requested
  /\ Received
  /\ OkMeansWhole

-----------------------------------------------------------------------------

\* The header of a reply has a length.
LEMMA ReplyHead ==
  ASSUME HttpTypes
  PROVE  reply.head \in Nat \ {0}
BY HttpAssumption DEF HttpTypes, Replies, Silence

\* httpc_close gives the result of the transfer that is under way.
LEMMA CloseTells ==
  ASSUME HttpTypes, IdleTellsTransfer, phase # "none", NEW why, Close(why),
         UNCHANGED starts
  PROVE  IdleTellsTransfer' /\ results' \in Nat
BY DEF Close, HttpTypes, IdleTellsTransfer

LEMMA HttpInit == ASSUME Init PROVE HttpInv
<1>1. HttpTypes
  BY HttpAssumption DEF Init, HttpTypes
<1>2. IdleTellsTransfer
  BY DEF Init, IdleTellsTransfer
<1>3. OneTransfer /\ Unread /\ Requested /\ Received /\ OkMeansWhole
  BY DEF Init, OneTransfer, Unread, Requested, Received, OkMeansWhole
<1> QED BY <1>1, <1>2, <1>3 DEF HttpInv

-----------------------------------------------------------------------------
(* One lemma for each group of callbacks *)

LEMMA StartStep == ASSUME HttpInv, Start PROVE HttpInv'
<1>1. CASE StartFailed
  <2>1. /\ ~m_http_test_started /\ m_http_test_started' = TRUE
        /\ UNCHANGED <<req, stream, outcome, starts>>
    BY <1>1 DEF StartFailed, Latch
  <2>2. phase = "none" /\ phase' = "none"
    BY <2>1 DEF HttpInv, OneTransfer, req
  <2>3. HttpTypes' /\ IdleTellsTransfer'
    BY <2>1 DEF HttpInv, HttpTypes, IdleTellsTransfer, req, stream, outcome
  <2>4. OneTransfer' /\ Unread' /\ Requested' /\ Received'
    BY <2>1, <2>2 DEF OneTransfer, Unread, Requested, Received
  <2>5. OkMeansWhole'
    BY <2>1 DEF HttpInv, OkMeansWhole, stream, outcome
  <2> QED BY <2>3, <2>4, <2>5 DEF HttpInv
<1>2. ASSUME NEW waiting \in {"dns", "syn"}, StartOk(waiting)
      PROVE  HttpInv'
  <2>1. ~m_http_test_started /\ m_http_test_started' = TRUE
    BY <1>2 DEF StartOk, Latch
  <2>2. phase = "none" /\ result # "OK" /\ delivered = 0 /\ window = Wnd
    BY <2>1 DEF HttpInv, OneTransfer, Unread
  <2>3. /\ phase' = waiting /\ held' = 0 /\ rx_len' = 0 /\ parse' = "first"
        /\ delivered' = 0 /\ window' = Wnd /\ result' # "OK"
        /\ free' = FALSE /\ starts' = starts + 1
        /\ UNCHANGED <<reply, results>>
    BY <1>2, <2>2 DEF StartOk, NewState, stream
  <2>4. HttpTypes'
    BY <2>1, <2>3, HttpAssumption DEF HttpInv, HttpTypes, Replies, Silence
  <2>5. IdleTellsTransfer'
    BY <2>2, <2>3 DEF HttpInv, HttpTypes, IdleTellsTransfer
  <2> QED BY <2>1, <2>3, <2>4, <2>5
          DEF HttpInv, OneTransfer, Unread, Requested, Received, OkMeansWhole
<1> QED BY <1>1, <1>2 DEF Start

\* Everything that ends a transfer: its result is not OK.
LEMMA FailureStep ==
  ASSUME HttpInv, phase # "none", NEW why, why # "OK", Close(why),
         UNCHANGED <<main, parse, rx_len, hdr_len, stream, starts>>
  PROVE  HttpInv'
<1>1. IdleTellsTransfer' /\ results' \in Nat
  BY CloseTells DEF HttpInv
<1>2. phase' = "none" /\ held' = 0 /\ result' # "OK"
  BY DEF Close
<1>3. m_http_test_started
  BY DEF HttpInv, OneTransfer
<1> QED BY <1>1, <1>2, <1>3
        DEF HttpInv, HttpTypes, OneTransfer, Unread, Requested, Received,
          OkMeansWhole, main, stream

LEMMA DnsStep == ASSUME HttpInv, Dns PROVE HttpInv'
<1>1. CASE DnsFound
  BY <1>1 DEF DnsFound, main, stream, outcome, HttpInv, HttpTypes,
    IdleTellsTransfer, OneTransfer, Unread, Requested, Received, OkMeansWhole
<1>2. ASSUME NEW why \in {"ERR_HOSTNAME", "ERR_CONNECT"}, phase = "dns",
             Close(why),
             UNCHANGED <<main, parse, ticks, rx_len, hdr_len, stream, starts>>
      PROVE  HttpInv'
  BY <1>2, FailureStep
<1> QED BY <1>1, <1>2 DEF Dns, DnsFailed

LEMMA ConnectedStep ==
  ASSUME HttpInv, NEW written \in BOOLEAN, TcpConnected(written)
  PROVE  HttpInv'
<1>1. CASE written
  <2>1. /\ phase = "syn" /\ phase' = "open" /\ reply' \in Replies
        /\ UNCHANGED <<main, parse, held, outcome, rx_len, hdr_len, window,
                       delivered, starts>>
    BY <1>1 DEF TcpConnected
  <2>2. /\ m_http_test_started /\ result # "OK"
        /\ delivered = 0 /\ window = Wnd /\ held = 0 /\ rx_len = 0
        /\ parse = "first"
    BY <2>1 DEF HttpInv, OneTransfer, Unread, Requested
  <2>3. IdleTellsTransfer'
    BY <2>1 DEF HttpInv, IdleTellsTransfer, outcome
  <2>4. HttpTypes'
    BY <2>1 DEF HttpInv, HttpTypes, main, outcome
  <2> QED BY <2>1, <2>2, <2>3, <2>4, HttpAssumption
          DEF HttpInv, OneTransfer, Unread, Requested, Received, OkMeansWhole,
            main, outcome
<1>2. CASE ~written
  BY <1>2, FailureStep DEF TcpConnected, stream
<1> QED BY <1>1, <1>2

\* Pieces of headers and body; each keeps the account.
LEMMA RecvStep == ASSUME HttpInv, Recv PROVE HttpInv'
<1> PICK n \in 1..Wnd : RecvData(n) \/ RecvHeaders(n) \/ RecvHeadersEnd(n)
  BY DEF Recv
<1>1. Arrive(n)
  BY DEF RecvData, RecvHeaders, RecvHeadersEnd
<1>2. /\ phase = "open" /\ phase' = "open" /\ n <= window
      /\ delivered' = delivered + n
      /\ UNCHANGED <<m_http_test_started, reply, free, result, results, starts>>
  BY <1>1 DEF Arrive, main, outcome
<1>3. n \in Nat /\ n > 0
  BY HttpAssumption
<1>4. m_http_test_started /\ result # "OK"
  BY <1>2 DEF HttpInv, OneTransfer
<1>5. reply.head \in Nat
  BY ReplyHead DEF HttpInv
<1>6. /\ held' \in Nat /\ rx_len' \in Nat /\ window' \in Nat
      /\ parse' \in {"first", "headers", "data"}
      /\ Received'
  <2>1. CASE RecvData(n)
    BY <1>2, <1>3, <1>5, <2>1 DEF RecvData, HttpInv, HttpTypes, Received
  <2>2. CASE RecvHeaders(n)
    <3>1. parse' \in {"first", "headers"}
      BY <2>2 DEF RecvHeaders, Parsed
    <3> QED BY <1>2, <1>3, <2>2, <3>1
            DEF RecvHeaders, HttpInv, HttpTypes, Received
  <2>3. CASE RecvHeadersEnd(n)
    <3>1. held + n >= reply.head
      BY <2>3 DEF RecvHeadersEnd, Parsed
    <3> QED BY <1>2, <1>3, <1>5, <2>3, <3>1
            DEF RecvHeadersEnd, HttpInv, HttpTypes, Received
  <2> QED BY <2>1, <2>2, <2>3
<1>7. HttpTypes'
  BY <1>2, <1>3, <1>6 DEF HttpInv, HttpTypes
<1>8. IdleTellsTransfer'
  BY <1>2 DEF HttpInv, IdleTellsTransfer
<1> QED BY <1>2, <1>4, <1>6, <1>7, <1>8
        DEF HttpInv, OneTransfer, Unread, Requested, OkMeansWhole

\* The server closes the connection: OK only for a body of the declared length.
LEMMA ClosedStep == ASSUME HttpInv, Closed PROVE HttpInv'
<1>1. phase = "open" /\ UNCHANGED <<main, parse, rx_len, hdr_len, stream, starts>>
  BY DEF Closed
<1>2. CASE parse = "data" /\ hdr_len \in {NoLength, rx_len}
  <2>1. Close("OK")
    BY <1>2 DEF Closed
  <2>2. IdleTellsTransfer' /\ results' \in Nat
    BY <1>1, <2>1, CloseTells DEF HttpInv
  <2>3. phase' = "none" /\ held' = 0
    BY <2>1 DEF Close
  <2>4. m_http_test_started
    BY <1>1 DEF HttpInv, OneTransfer
  <2>5. reply.length # NoLength => delivered = reply.head + reply.length
    BY <1>1, <1>2 DEF HttpInv, Received
  <2> QED BY <1>1, <2>2, <2>3, <2>4, <2>5
          DEF HttpInv, HttpTypes, OneTransfer, Unread, Requested, Received,
            OkMeansWhole, main, stream
<1>3. CASE ~(parse = "data" /\ hdr_len \in {NoLength, rx_len})
  <2>1. \E why \in {"ERR_CLOSED", "ERR_CONTENT_LEN"} : Close(why)
    BY <1>3 DEF Closed
  <2> QED BY <1>1, <2>1, FailureStep
<1> QED BY <1>2, <1>3

LEMMA PollStep == ASSUME HttpInv, TcpPoll PROVE HttpInv'
<1>1. CASE ticks' = 0
  BY <1>1, FailureStep DEF TcpPoll
<1>2. CASE ticks' # 0
  BY <1>2 DEF TcpPoll, main, stream, outcome, HttpInv, HttpTypes,
    IdleTellsTransfer, OneTransfer, Unread, Requested, Received, OkMeansWhole
<1> QED BY <1>1, <1>2

\* Nothing that the invariant speaks of changes.
LEMMA Elsewhere ==
  ASSUME HttpInv,
         UNCHANGED <<m_http_test_started, req, stream, outcome, starts>>
  PROVE  HttpInv'
BY DEF req, stream, outcome, HttpInv, HttpTypes, IdleTellsTransfer, OneTransfer,
  Unread, Requested, Received, OkMeansWhole

LEMMA HttpStep == ASSUME HttpInv, [Next]_vars PROVE HttpInv'
<1>1. CASE Start
  BY <1>1, StartStep
<1>2. CASE Dns
  BY <1>2, DnsStep
<1>3. CASE \E written \in BOOLEAN : TcpConnected(written)
  BY <1>3, ConnectedStep
<1>4. CASE Recv
  BY <1>4, RecvStep
<1>5. CASE Closed
  BY <1>5, ClosedStep
<1>6. CASE TcpErr
  BY <1>6, FailureStep DEF TcpErr
<1>7. CASE TcpPoll
  BY <1>7, PollStep
<1>8. CASE PppUp \/ PppDown \/ UNCHANGED vars
  BY <1>8, Elsewhere DEF PppUp, PppDown, vars, main
<1> QED BY <1>1, <1>2, <1>3, <1>4, <1>5, <1>6, <1>7, <1>8 DEF Next

LEMMA HttpInvariant == Spec => []HttpInv
BY HttpInit, HttpStep, PTL DEF Spec

-----------------------------------------------------------------------------

\* m_http_free and the number of results go with the life of the httpc_state,
\* whichever callback ends it (app_http.c:98 and 192).
THEOREM HttpIdleTellsTransfer == Spec => []IdleTellsTransfer
<1>1. HttpInv => IdleTellsTransfer
  BY DEF HttpInv
<1> QED BY <1>1, HttpInvariant, PTL

\* Window, body and declared length agree with what the server has sent, however
\* httpc_tcp_recv was given it in pieces.
THEOREM HttpUnitsAccountedFor == Spec => []UnitsAccountedFor
<1>1. ASSUME HttpInv PROVE UnitsAccountedFor
  <2>1. WindowAccount
    BY <1>1 DEF HttpInv, Received, WindowAccount
  <2>2. BodyAccount
    BY <1>1, ReplyHead DEF HttpInv, HttpTypes, Received, BodyAccount
  <2>3. OkMeansWhole
    BY <1>1 DEF HttpInv
  <2> QED BY <2>1, <2>2, <2>3 DEF UnitsAccountedFor
<1> QED BY <1>1, HttpInvariant, PTL
=============================================================================
