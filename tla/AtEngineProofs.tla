---------------------------- MODULE AtEngineProofs --------------------------
(***************************************************************************)
(* Proofs about AtEngine, for every size of the receive buffer, every set  *)
(* of commands and any number of them: types, the number of transmissions, *)
(* no lost wake-up, silence in PPP mode, the refinement of AtService, and  *)
(* whose bytes a callback is given.                                        *)
(***************************************************************************)
EXTENDS AtEngine, SequenceTheorems, TLAPS

Busy == armed \/ pc = "callback"

\* retry_count_atc and timeout_atc_ms are set and cleared together, and tell
\* where the main loop can be.
Armed ==
  /\ armed <=> retry > 0
  /\ armed => cmd \in Commands
  /\ pc \in {"search", "compare", "send_index", "transmit"} => armed
  /\ pc = "callback" => ~armed

\* Each command that was issued has ended, but for the one under way.
Counted == issued = ended + (IF Busy THEN 1 ELSE 0)

\* The attempts of a command that is about to be sent are all left.
Unsent == pc \in {"send_index", "transmit"} => sends = 0 /\ retry = cmd.retry

\* An answer in the buffer is announced, or is being looked at.
Announced ==
  retry > 0 /\ Found(buffer) /\ EndsWell(buffer, index)
    => new_data \/ pc \in {"search", "compare"}

\* In PPP mode the buffer stays as gsm_hw_send_at_cmd has cleared it, and
\* strstr finds only the empty string in it.
Silent ==
  mode = "PPP" /\ armed =>
    buffer = Empty /\ (pc = "compare" => cmd.exp = "")

\* Inductive.
AtInv ==
  /\ TypeOK
  /\ Armed
  /\ Counted
  /\ Unsent
  /\ SendsBounded
  /\ Announced
  /\ Silent

LEMMA CapType == Cap \in Nat /\ Cap > 1
BY AtAssumption

LEMMA MaxCmdsType == MaxCmds \in Nat
BY AtAssumption

LEMMA IndexType ==
  ASSUME index \in Cells
  PROVE  index \in Nat /\ index < Cap
BY CapType DEF Cells

LEMMA AtInit == ASSUME Init PROVE AtInv
<1>1. TypeOK
  <2>1. index \in Cells
    BY CapType DEF Init, Cells
  <2>2. buffer \in [Cells -> Pieces \cup {NUL}]
    BY DEF Init, Empty
  <2>3. line \in Seq(Pieces)
    BY DEF Init
  <2>4. issued \in 0..MaxCmds /\ ended \in 0..issued
    BY MaxCmdsType DEF Init
  <2>5. retry \in Nat /\ sends \in Nat /\ cmd \in Commands \cup {NoCmd}
    BY DEF Init
  <2>6. /\ new_data \in BOOLEAN /\ armed \in BOOLEAN /\ due \in BOOLEAN
        /\ disturbed \in BOOLEAN /\ torn \in BOOLEAN
    BY DEF Init
  <2>7. /\ mode \in {"AT", "PPP"} /\ event \in {"none", "OK", "TIMEOUT"}
        /\ resume \in {"idle", "wipe_index", "forget"} /\ pc = "idle"
    BY DEF Init
  <2> QED BY <2>1, <2>2, <2>3, <2>4, <2>5, <2>6, <2>7 DEF TypeOK
<1>2. Armed /\ Counted /\ Unsent /\ SendsBounded /\ Announced /\ Silent
  BY DEF Init, Armed, Counted, Busy, Unsent, SendsBounded, Announced, Silent
<1> QED BY <1>1, <1>2 DEF AtInv

-----------------------------------------------------------------------------
(* The buffer and the line *)

\* Appending never leaves the buffer.
LEMMA FillRxType ==
  ASSUME TypeOK, NEW data \in Seq(Pieces), FillRx(data)
  PROVE  buffer' \in [Cells -> Pieces \cup {NUL}] /\ index' \in Cells
<1> DEFINE room   == Cap - index
           stored == IF Len(data) < room THEN Len(data) ELSE room
           filled == [c \in Cells |-> IF c \in index..(index + stored - 1)
                                      THEN data[c - index + 1] ELSE buffer[c]]
<1>1. Cap \in Nat /\ Cap > 1 /\ index \in Nat /\ index < Cap
  BY CapType, IndexType DEF TypeOK
<1>2. Len(data) \in Nat
  BY LenProperties
<1>3. stored \in Nat /\ stored <= Len(data)
  BY <1>1, <1>2
<1>4. filled \in [Cells -> Pieces \cup {NUL}]
  <2>1. ASSUME NEW c \in Cells, c \in index..(index + stored - 1)
        PROVE  data[c - index + 1] \in Pieces
    <3>1. c - index + 1 \in 1..Len(data)
      BY <1>1, <1>2, <1>3, <2>1 DEF Cells
    <3> QED BY <3>1, ElementOfSeq
  <2>2. ASSUME NEW c \in Cells
        PROVE  buffer[c] \in Pieces \cup {NUL}
    BY DEF TypeOK
  <2> QED BY <2>1, <2>2
<1> HIDE DEF room, stored, filled
<1>5. CASE Len(data) < room
  <2>1. buffer' = filled /\ index' = index + stored
    BY <1>5 DEF FillRx, room, stored, filled
  <2>2. index + stored \in Cells
    BY <1>1, <1>2, <1>5 DEF Cells, room, stored
  <2> QED BY <1>4, <2>1, <2>2
<1>6. CASE ~(Len(data) < room)
  <2>1. buffer' = [filled EXCEPT ![0] = NUL] /\ index' = 0
    BY <1>6 DEF FillRx, room, stored, filled
  <2>2. 0 \in Cells
    BY CapType DEF Cells
  <2> QED BY <1>4, <2>1, <2>2
<1> QED BY <1>5, <1>6

LEMMA TransmitType ==
  ASSUME TypeOK, NEW c, NEW n \in 1..MaxCmds, Transmit(c, n)
  PROVE  line' \in Seq(Pieces)
<1> PICK a \in Answers(c, n) : line' = line \o a
  BY DEF Transmit
<1>1. {<<"NL", n>>, <<"OK", n>>, <<"ERR", n>>, <<"DATA", n>>} \subseteq Pieces
  BY DEF Pieces
<1>2. a \in Seq(Pieces)
  <2>1. <<>> \in Seq(Pieces)
    OBVIOUS
  <2>2. << <<"NL", n>>, <<"ERR", n>> >> \in Seq(Pieces)
    BY <1>1
  <2>3. << <<"NL", n>>, <<"OK", n>> >> \in Seq(Pieces)
    BY <1>1
  <2>4. << <<"DATA", n>> >> \in Seq(Pieces)
    BY <1>1
  <2> QED BY <2>1, <2>2, <2>3, <2>4, ConcatProperties DEF Answers
<1> QED BY <1>2, ConcatProperties DEF TypeOK

\* The cleared buffer holds no answer.
LEMMA EmptyFails ==
  ASSUME TypeOK, NEW c \in Commands
  PROVE  /\ \A p \in Seen(Empty) : FALSE
         /\ c.exp = "" => /\ c.end # ""
                          /\ ~(index > 1 /\ Empty[index - 1][1] = c.end)
<1>1. Seen(Empty) = {}
  BY CapType DEF Seen, Empty, Cells
<1>2. ASSUME c.exp = "" PROVE c.end = "OK"
  <2>1. c.end # "" /\ c.end \in {"", "OK"}
    BY <1>2, AtAssumption
  <2> QED BY <2>1
<1>3. ASSUME index > 1 PROVE Empty[index - 1][1] = "NUL"
  <2>1. index - 1 \in Cells
    BY <1>3, CapType, IndexType DEF TypeOK, Cells
  <2> QED BY <2>1 DEF Empty, NUL
<1> QED BY <1>1, <1>2, <1>3

-----------------------------------------------------------------------------
(* Types *)

LEMMA CountedRange ==
  ASSUME TypeOK, Counted
  PROVE  /\ issued \in Nat /\ ended \in Nat /\ ended <= issued
         /\ Busy => issued \in 1..MaxCmds /\ ended + 1 = issued
<1>1. issued \in 0..MaxCmds /\ ended \in 0..issued
  BY DEF TypeOK
<1> QED BY <1>1, MaxCmdsType DEF Counted

LEMMA SendingType ==
  ASSUME AtInv, NEW from \in {"idle", "wipe_index", "forget"}, BeginSend(from),
         mode' \in {"AT", "PPP"}, ended' \in 0..issued'
  PROVE  TypeOK'
<1>1. issued' \in 0..MaxCmds
  BY MaxCmdsType DEF BeginSend, AtInv, TypeOK
<1>2. cmd' \in Commands /\ retry' \in Nat
  BY AtAssumption DEF BeginSend
<1>3. buffer' \in [Cells -> Pieces \cup {NUL}]
  BY DEF BeginSend, Empty
<1>4. /\ armed' \in BOOLEAN /\ due' \in BOOLEAN /\ torn' \in BOOLEAN
      /\ pc' = "send_index" /\ resume' = from /\ sends' \in Nat
      /\ UNCHANGED <<index, new_data, event, modem>>
  BY DEF BeginSend
<1>5. disturbed' \in BOOLEAN
  BY DEF BeginSend, AtInv, TypeOK
<1> QED BY <1>1, <1>2, <1>3, <1>4, <1>5 DEF AtInv, TypeOK, modem

LEMMA TypeStep == ASSUME AtInv, [Next]_vars PROVE TypeOK'
<1> USE DEF AtInv
<1>1. CASE StartChain
  <2>1. ended' \in 0..issued'
    BY <1>1, CountedRange DEF StartChain, BeginSend
  <2> QED BY <1>1, <2>1, SendingType DEF StartChain, TypeOK
<1>2. CASE Run
  <2>1. CASE TakeFlag
    BY <2>1 DEF TakeFlag, Goto, atc, modem, rx, mishaps, history, TypeOK
  <2>2. CASE Search
    BY <2>2 DEF Search, Goto, atc, modem, rx, mishaps, history, TypeOK
  <2>3. CASE CompareFails
    BY <2>3 DEF CompareFails, Goto, atc, modem, rx, mishaps, history, TypeOK
  <2>4. CASE Complete
    <3>1. buffer' \in [Cells -> Pieces \cup {NUL}]
      BY <2>4 DEF Complete, TypeOK
    <3> QED BY <2>4, <3>1 DEF Complete, modem, mishaps, history, TypeOK
  <2>5. CASE WipeIndex
    <3>1. index' \in Cells /\ torn' \in BOOLEAN
      BY <2>5, CapType DEF WipeIndex, Cells
    <3> QED BY <2>5, <3>1 DEF WipeIndex, Goto, atc, modem, history, TypeOK
  <2>6. CASE WipeBuffer
    <3>1. buffer' \in [Cells -> Pieces \cup {NUL}]
      BY <2>6 DEF WipeBuffer, Empty
    <3>2. torn' \in BOOLEAN
      BY <2>6 DEF WipeBuffer
    <3> QED BY <2>6, <3>1, <3>2 DEF WipeBuffer, Goto, atc, modem, history, TypeOK
  <2>7. CASE NotDue
    BY <2>7 DEF NotDue, Goto, atc, modem, rx, mishaps, history, TypeOK
  <2>8. CASE Resend
    <3>1. issued \in 1..MaxCmds
      BY <2>8, CountedRange DEF Resend, Busy
    <3>2. line' \in Seq(Pieces)
      BY <2>8, <3>1, TransmitType DEF Resend
    <3>3. retry' \in Nat /\ sends' \in Nat
      BY <2>8 DEF Resend, TypeOK
    <3> QED BY <2>8, <3>2, <3>3 DEF Resend, Goto, rx, mishaps, TypeOK
  <2>9. CASE GiveUp
    BY <2>9 DEF GiveUp, modem, rx, mishaps, history, TypeOK
  <2>10. CASE Forget
    <3>1. buffer' \in [Cells -> Pieces \cup {NUL}] /\ index' \in Cells
      BY <2>10, CapType DEF Forget, TypeOK, Cells
    <3>2. torn' \in BOOLEAN
      BY <2>10 DEF Forget
    <3> QED BY <2>10, <3>1, <3>2 DEF Forget, Goto, atc, modem, history, TypeOK
  <2> QED BY <1>2, <2>1, <2>2, <2>3, <2>4, <2>5, <2>6, <2>7, <2>8, <2>9, <2>10
          DEF Run
<1>3. CASE Callback
  <2>1. ASSUME pc = "callback", ended' = ended + 1, issued' \in {issued, issued + 1}
        PROVE  ended' \in 0..issued'
    BY <2>1, CountedRange DEF Busy
  <2>2. CASE CallbackSends
    <3>1. ended' \in 0..issued'
      BY <2>1, <2>2 DEF CallbackSends, BeginSend
    <3> QED BY <2>2, <3>1, SendingType DEF CallbackSends, TypeOK
  <2>3. CASE CallbackReturns
    <3>1. ended' \in 0..issued'
      BY <2>1, <2>3 DEF CallbackReturns
    <3> QED BY <2>3, <3>1 DEF CallbackReturns, atc, modem, rx, mishaps, TypeOK
  <2>4. CASE CallbackResets
    <3>1. ended' \in 0..issued'
      BY <2>1, <2>4 DEF CallbackResets
    <3>2. buffer' \in [Cells -> Pieces \cup {NUL}] /\ index' \in Cells
      BY <2>4, CapType DEF CallbackResets, Empty, Cells
    <3> QED BY <2>4, <3>1, <3>2
            DEF CallbackResets, Goto, modem, mishaps, TypeOK
  <2> QED BY <1>3, <2>2, <2>3, <2>4 DEF Callback
<1>4. CASE SendIndex
  <2>1. index' \in Cells
    BY <1>4, CapType DEF SendIndex, Cells
  <2> QED BY <1>4, <2>1 DEF SendIndex, atc, modem, mishaps, history, TypeOK
<1>5. CASE SendRaw
  <2>1. issued \in 1..MaxCmds
    BY <1>5, CountedRange DEF SendRaw, Armed, Busy
  <2>2. line' \in Seq(Pieces)
    BY <1>5, <2>1, TransmitType DEF SendRaw
  <2>3. sends' \in Nat
    BY <1>5 DEF SendRaw, TypeOK
  <2> QED BY <1>5, <2>2, <2>3 DEF SendRaw, atc, rx, mishaps, TypeOK
<1>6. CASE ReceiveIsr
  <2> PICK n \in 1..Len(line) :
        /\ IF mode = "AT" THEN FillRx(SubSeq(line, 1, n)) ELSE UNCHANGED rx
        /\ disturbed' = (disturbed \/ (mode = "AT" /\ n >= Cap - index))
        /\ line' = SubSeq(line, n + 1, Len(line))
    BY <1>6 DEF ReceiveIsr
  <2>1. line \in Seq(Pieces) /\ n \in Nat /\ Len(line) \in Nat
    BY LenProperties DEF TypeOK
  <2>2. SubSeq(line, 1, n) \in Seq(Pieces) /\ line' \in Seq(Pieces)
    BY <2>1, SubSeqProperties
  <2>3. buffer' \in [Cells -> Pieces \cup {NUL}] /\ index' \in Cells
    BY <2>2, FillRxType DEF rx, TypeOK
  <2>4. disturbed' \in BOOLEAN
    BY DEF TypeOK
  <2>5. /\ new_data' = TRUE
        /\ UNCHANGED <<cmd, retry, armed, due, pc, resume, event, mode, torn,
                       issued, sends, ended>>
    BY <1>6 DEF ReceiveIsr, atc, control, history
  <2> QED BY <2>2, <2>3, <2>4, <2>5 DEF TypeOK
<1>7. CASE Unsolicited
  <2>1. line' \in Seq(Pieces)
    BY <1>7, AppendProperties DEF Unsolicited, TypeOK, Pieces
  <2> QED BY <1>7, <2>1
          DEF Unsolicited, rx, atc, control, mishaps, history, TypeOK
<1>8. CASE Expire
  <2>1. disturbed' \in BOOLEAN
    BY <1>8 DEF Expire, TypeOK
  <2> QED BY <1>8, <2>1 DEF Expire, rx, control, history, TypeOK
<1>9. CASE UNCHANGED vars
  BY <1>9 DEF vars, rx, atc, control, modem, mishaps, history, TypeOK
<1> QED BY <1>1, <1>2, <1>3, <1>4, <1>5, <1>6, <1>7, <1>8, <1>9
        DEF Next, MainLoop

-----------------------------------------------------------------------------
(* The command under way *)

\* The step takes the command, its clock, its attempts and the count of
\* callbacks from one consistent state to another.
Control == Armed /\ Counted /\ Unsent /\ SendsBounded

LEMMA SendingControl ==
  ASSUME AtInv, NEW from, BeginSend(from), ended' = issued
  PROVE  Control'
<1> PICK c \in Commands : cmd' = c /\ retry' = c.retry
  BY DEF BeginSend
<1>0. c.retry \in Nat \ {0}
  BY AtAssumption
<1>1. /\ armed' = TRUE /\ retry' = cmd'.retry /\ retry' > 0 /\ cmd' \in Commands
      /\ issued' = issued + 1 /\ sends' = 0 /\ pc' = "send_index"
  BY <1>0 DEF BeginSend
<1>2. Armed'
  BY <1>1 DEF Armed
<1>3. Counted'
  BY <1>1, CountedRange DEF AtInv, Counted, Busy
<1> QED BY <1>1, <1>2, <1>3 DEF Control, Unsent, SendsBounded

LEMMA ControlStep == ASSUME AtInv, [Next]_vars PROVE Control'
<1> USE DEF AtInv
<1>0. retry \in Nat /\ sends \in Nat /\ issued \in Nat /\ ended \in Nat
  BY CountedRange DEF TypeOK
<1>1. CASE StartChain
  <2>1. ended' = issued
    BY <1>0, <1>1 DEF StartChain, Counted, Busy
  <2> QED BY <1>1, <2>1, SendingControl DEF StartChain
<1>2. CASE UNCHANGED <<atc, history>> /\ pc # "callback" /\ pc' # "callback"
             /\ pc' \notin {"send_index", "transmit"}
             /\ (pc' \in {"search", "compare"} => armed)
             /\ pc \notin {"send_index", "transmit"}
  BY <1>2 DEF atc, history, Control, Armed, Counted, Busy, Unsent, SendsBounded
<1>3. CASE TakeFlag \/ Search \/ CompareFails \/ WipeIndex \/ WipeBuffer
             \/ NotDue \/ Forget
  <2>1. /\ UNCHANGED <<atc, history>> /\ pc # "callback" /\ pc' # "callback"
        /\ pc' \notin {"send_index", "transmit"}
        /\ pc \notin {"send_index", "transmit"}
    BY <1>3 DEF TakeFlag, Search, CompareFails, WipeIndex, WipeBuffer, NotDue,
      Forget, Goto
  <2>2. pc' \in {"search", "compare"} => armed
    BY <1>3 DEF Armed, TakeFlag, Search, CompareFails, WipeIndex, WipeBuffer,
      NotDue, Forget, Goto
  <2> QED BY <1>2, <2>1, <2>2
<1>4. CASE Complete \/ GiveUp
  <2>1. /\ armed /\ retry' = 0 /\ armed' = FALSE /\ pc' = "callback"
        /\ UNCHANGED <<issued, sends, ended>>
    BY <1>4 DEF Complete, GiveUp, Armed, history
  <2> QED BY <2>1 DEF Control, Armed, Counted, Busy, Unsent, SendsBounded
<1>5. CASE Resend
  <2>1. /\ pc = "timer" /\ pc' = "idle" /\ armed /\ armed' = armed /\ retry > 1
        /\ retry' = retry - 1 /\ sends' = sends + 1
        /\ UNCHANGED <<cmd, issued, ended>>
    BY <1>5 DEF Resend, Goto
  <2>2. sends' + retry' = sends + retry
    BY <1>0, <2>1
  <2>3. SendsBounded'
    BY <2>1, <2>2 DEF SendsBounded
  <2> QED BY <1>0, <2>1, <2>3 DEF Control, Armed, Counted, Busy, Unsent
<1>6. CASE CallbackSends
  <2>1. ended' = issued
    BY <1>0, <1>6 DEF CallbackSends, Counted, Busy
  <2> QED BY <1>6, <2>1, SendingControl DEF CallbackSends
<1>7. CASE CallbackReturns \/ CallbackResets
  <2>1. /\ pc = "callback" /\ pc' = resume /\ ~armed /\ armed' = armed
        /\ retry' = 0 /\ ended' = ended + 1 /\ UNCHANGED issued
    BY <1>0, <1>7 DEF CallbackReturns, CallbackResets, Goto, Armed, atc
  <2>2. resume \in {"idle", "wipe_index", "forget"}
    BY DEF TypeOK
  <2> QED BY <1>0, <2>1, <2>2
          DEF Control, Armed, Counted, Busy, Unsent, SendsBounded
<1>8. CASE SendIndex
  BY <1>8 DEF SendIndex, atc, history, Control, Armed, Counted, Busy, Unsent,
    SendsBounded
<1>9. CASE SendRaw
  <2>1. /\ pc = "transmit" /\ pc' = resume /\ sends' = sends + 1
        /\ UNCHANGED <<cmd, retry, armed, issued, ended>>
    BY <1>9 DEF SendRaw, atc
  <2>2. resume \in {"idle", "wipe_index", "forget"}
    BY DEF TypeOK
  <2>3. sends' + retry' = cmd'.retry + 1
    BY <1>0, <2>1 DEF Unsent
  <2> QED BY <2>1, <2>2, <2>3
          DEF Control, Armed, Counted, Busy, Unsent, SendsBounded
<1>10. CASE ReceiveIsr \/ Unsolicited \/ Expire \/ UNCHANGED vars
  <2>1. UNCHANGED <<cmd, retry, armed, pc, issued, sends, ended>>
    BY <1>10 DEF ReceiveIsr, Unsolicited, Expire, vars, atc, control, history
  <2> QED BY <2>1 DEF Control, Armed, Counted, Busy, Unsent, SendsBounded
<1> QED BY <1>1, <1>3, <1>4, <1>5, <1>6, <1>7, <1>8, <1>9, <1>10
        DEF Next, MainLoop, Run, Callback

-----------------------------------------------------------------------------
(* What is in the buffer *)

Answered == retry > 0 /\ Found(buffer) /\ EndsWell(buffer, index)

\* A cleared buffer is no answer to any command.
LEMMA NothingInEmpty ==
  ASSUME TypeOK, cmd \in Commands
  PROVE  ~(Found(Empty) /\ EndsWell(Empty, index))
BY EmptyFails DEF Found, EndsWell

LEMMA ClearedNotAnswered == TypeOK /\ Armed /\ buffer = Empty => ~Answered
<1> SUFFICES ASSUME TypeOK, Armed, buffer = Empty PROVE ~Answered
  OBVIOUS
<1>1. retry > 0 => cmd \in Commands
  BY DEF Armed
<1> QED BY <1>1, NothingInEmpty DEF Answered

\* Nor is one that begins with a 0 and counts no bytes.
LEMMA ForgottenNotAnswered ==
  TypeOK /\ Armed /\ index = 0 /\ buffer[0] = NUL => ~Answered
<1> SUFFICES ASSUME TypeOK, Armed, index = 0, buffer[0] = NUL, Answered
             PROVE  FALSE
  OBVIOUS
<1>1. cmd \in Commands
  BY DEF Armed, Answered
<1>2. cmd.exp # "" \/ cmd.end # ""
  BY <1>1, AtAssumption
<1>3. Seen(buffer) = {}
  BY CapType DEF Seen, Cells
<1>4. cmd.exp = ""
  BY <1>3 DEF Answered, Found
<1>5. cmd.end = ""
  <2>1. EndsWell(buffer, index)
    BY DEF Answered
  <2>2. ~(index > 1)
    OBVIOUS
  <2> QED BY <2>1, <2>2, Zenon DEF EndsWell
<1> QED BY <1>2, <1>4, <1>5

LEMMA AnnouncedStep ==
  ASSUME AtInv, TypeOK', Control', [Next]_vars
  PROVE  Announced'
<1> SUFFICES ASSUME Answered'
             PROVE  new_data' \/ pc' \in {"search", "compare"}
  BY DEF Announced, Answered
<1> USE DEF AtInv
<1>1. CASE StartChain \/ CallbackSends \/ CallbackResets \/ WipeBuffer
  <2>1. buffer' = Empty
    BY <1>1 DEF StartChain, CallbackSends, BeginSend, CallbackResets, WipeBuffer
  <2>2. (buffer = Empty)'
    BY <2>1 DEF Empty, Cells
  <2>3. (TypeOK /\ Armed /\ buffer = Empty => ~Answered)'
    BY ClearedNotAnswered, PTL
  <2> QED BY <2>2, <2>3 DEF Control
<1>2. CASE Complete \/ GiveUp \/ CallbackReturns
  <2>1. ~(retry' > 0)
    BY <1>2 DEF Complete, GiveUp, CallbackReturns, atc, Armed, TypeOK
  <2> QED BY <2>1 DEF Answered
<1>3. CASE Forget
  <2>1. index' = 0 /\ buffer'[0] = NUL
    BY <1>3, CapType DEF Forget, TypeOK, Cells
  <2>2. (buffer[0] = NUL)'
    BY <2>1 DEF NUL
  <2>3. (TypeOK /\ Armed /\ index = 0 /\ buffer[0] = NUL => ~Answered)'
    BY ForgottenNotAnswered, PTL
  <2> QED BY <2>1, <2>2, <2>3 DEF Control
<1>4. ASSUME buffer' = buffer, cmd' = cmd, index' \in {0, index}, retry > 0
      PROVE  new_data \/ pc \in {"search", "compare"}
  <2>1. Found(buffer)
    BY <1>4 DEF Answered, Found, Seen, Cells, NUL
  <2>2. EndsWell(buffer, index)
    <3>1. cmd.end = "" \/ (index' > 1 /\ buffer[index' - 1][1] = cmd.end)
      BY <1>4 DEF Answered, EndsWell
    <3>2. index' > 1 => index' = index
      BY <1>4
    <3> QED BY <3>1, <3>2, Zenon DEF EndsWell
  <2> QED BY <1>4, <2>1, <2>2 DEF Announced
<1>5. CASE TakeFlag
  <2>1. /\ buffer' = buffer /\ cmd' = cmd /\ index' = index /\ pc = "idle"
        /\ retry' = retry
    BY <1>5 DEF TakeFlag, rx, atc
  <2>2. retry > 0
    BY <2>1 DEF Answered
  <2>3. new_data
    BY <1>4, <2>1, <2>2
  <2> QED BY <1>5, <2>2, <2>3 DEF TakeFlag, Goto
<1>6. CASE Search
  <2>1. Found(buffer)
    BY <1>6 DEF Search, rx, atc, Answered, Found, Seen, Cells, NUL
  <2> QED BY <1>6, <2>1 DEF Search, Goto
<1>7. CASE CompareFails
  <2>1. EndsWell(buffer, index)
    BY <1>7 DEF CompareFails, rx, atc, Answered, EndsWell
  <2> QED BY <1>7, <2>1 DEF CompareFails
<1>8. CASE WipeIndex \/ NotDue \/ Resend \/ SendIndex \/ SendRaw
  <2>1. /\ buffer' = buffer /\ cmd' = cmd /\ index' \in {0, index}
        /\ new_data' = new_data
        /\ pc \in {"wipe_index", "timer", "send_index", "transmit"}
    BY <1>8 DEF WipeIndex, NotDue, Resend, SendIndex, SendRaw, rx, atc
  <2>2. retry' = retry \/ retry > 1
    BY <1>8 DEF WipeIndex, NotDue, Resend, SendIndex, SendRaw, atc
  <2>3. retry > 0
    BY <2>2 DEF Answered, TypeOK
  <2> QED BY <1>4, <2>1, <2>3
<1>9. CASE ReceiveIsr
  BY <1>9 DEF ReceiveIsr
<1>10. CASE Unsolicited \/ Expire \/ UNCHANGED vars
  <2>1. UNCHANGED <<buffer, index, cmd, retry, new_data, pc>>
    BY <1>10 DEF Unsolicited, Expire, vars, rx, atc, control
  <2>2. retry > 0
    BY <2>1 DEF Answered
  <2> QED BY <1>4, <2>1, <2>2
<1> QED BY <1>1, <1>2, <1>3, <1>5, <1>6, <1>7, <1>8, <1>9, <1>10
        DEF Next, MainLoop, Run, Callback

\* strstr finds nothing but the empty string in a cleared buffer.
LEMMA SilentStep ==
  ASSUME AtInv, TypeOK', Control', [Next]_vars
  PROVE  Silent'
<1> SUFFICES ASSUME mode' = "PPP", armed' = TRUE
             PROVE  buffer' = Empty /\ (pc' = "compare" => cmd'.exp = "")
  <2>1. armed' \in BOOLEAN /\ Empty' = Empty
    BY DEF TypeOK, Empty, Cells, NUL
  <2> QED BY <2>1, Zenon DEF Silent
<1> USE DEF AtInv
<1>1. CASE StartChain \/ CallbackSends
  BY <1>1 DEF StartChain, CallbackSends, BeginSend
<1>2. CASE CallbackReturns \/ CallbackResets \/ Complete \/ GiveUp
  <2>1. ~armed'
    BY <1>2 DEF CallbackReturns, CallbackResets, Complete, GiveUp, atc, Armed
  <2> QED BY <2>1
<1>3. ASSUME mode = mode', armed' = armed
      PROVE  buffer = Empty /\ (pc = "compare" => cmd.exp = "")
  <2>1. mode = "PPP" /\ armed
    BY <1>3
  <2>2. Silent
    OBVIOUS
  <2> QED BY <2>1, <2>2, Zenon DEF Silent
<1>4. CASE Search
  <2>1. /\ buffer = Empty /\ UNCHANGED <<buffer, cmd>>
        /\ pc' = "compare" => Found(buffer)
    BY <1>3, <1>4 DEF Search, Goto, rx, atc
  <2>2. Seen(Empty) = {}
    BY CapType DEF Seen, Empty, Cells
  <2> QED BY <2>1, <2>2 DEF Found
<1>5. CASE WipeBuffer
  BY <1>5 DEF WipeBuffer, Goto
<1>6. CASE Forget
  <2>1. buffer = Empty /\ buffer' = [buffer EXCEPT ![0] = NUL] /\ pc' = "idle"
    BY <1>3, <1>6 DEF Forget, Goto, atc
  <2>2. [Empty EXCEPT ![0] = NUL] = Empty
    BY DEF Empty
  <2> QED BY <2>1, <2>2
<1>7. CASE TakeFlag \/ CompareFails \/ WipeIndex \/ NotDue \/ Resend
             \/ SendIndex \/ SendRaw
  <2>1. UNCHANGED <<buffer, mode, armed>>
    BY <1>7 DEF TakeFlag, CompareFails, WipeIndex, NotDue, Resend, SendIndex,
      SendRaw, Goto, rx, atc
  <2>2. pc' # "compare"
    BY <1>7 DEF TakeFlag, CompareFails, WipeIndex, NotDue, Resend, SendIndex,
      SendRaw, Goto, TypeOK
  <2> QED BY <1>3, <2>1, <2>2
<1>8. CASE ReceiveIsr
  BY <1>3, <1>8 DEF ReceiveIsr, rx, atc, control
<1>9. CASE Unsolicited \/ Expire \/ UNCHANGED vars
  BY <1>3, <1>9 DEF Unsolicited, Expire, vars, rx, atc, control
<1> QED BY <1>1, <1>2, <1>4, <1>5, <1>6, <1>7, <1>8, <1>9
        DEF Next, MainLoop, Run, Callback

LEMMA AtInvStep == ASSUME AtInv, [Next]_vars PROVE AtInv'
<1>1. TypeOK' /\ Control'
  BY TypeStep, ControlStep
<1>2. Announced' /\ Silent'
  BY <1>1, AnnouncedStep, SilentStep
<1> QED BY <1>1, <1>2 DEF Control, AtInv

LEMMA AtInvariant == Spec => []AtInv
BY AtInit, AtInvStep, PTL DEF Spec

-----------------------------------------------------------------------------

\* recv_buff.index stays below GSM_ATC_BUFFER_SIZE, whatever the interrupt
\* appends (gsm_hw_layer_uart_fill_rx), and every other field has its range.
THEOREM AtTypeCorrect == Spec => []TypeOK
<1>1. AtInv => TypeOK
  BY DEF AtInv
<1> QED BY <1>1, AtInvariant, PTL

\* gsm_hw_layer_run sends a command at most retry_count times, for every
\* retry_count.
THEOREM AtSendsBounded == Spec => []SendsBounded
<1>1. AtInv => SendsBounded
  BY DEF AtInv
<1> QED BY <1>1, AtInvariant, PTL

\* No wake-up is lost between the interrupt that sets m_new_uart_data and
\* gsm_hw_layer_run that clears it before it looks at the buffer.
THEOREM AtAnswerAnnounced == Spec => []AnswerAnnounced
<1>1. AtInv => AnswerAnnounced
  BY DEF AtInv, Announced, AnswerAnnounced
<1> QED BY <1>1, AtInvariant, PTL

\* Once open_ppp_stack has set the mode to PPP, gsm_hw_layer_run calls back with
\* GSM_EVENT_TIMEOUT only.
THEOREM AtNoAnswerInPppMode == Spec => NoAnswerInPppMode
<1>1. ASSUME AtInv, Complete PROVE mode = "AT"
  <2> USE DEF AtInv
  <2> SUFFICES ASSUME mode = "PPP" PROVE FALSE
    BY <1>1 DEF TypeOK
  <2>1. armed /\ cmd \in Commands
    BY <1>1 DEF Complete, Armed
  <2>2. buffer = Empty /\ cmd.exp = ""
    BY <1>1, <2>1 DEF Complete, Silent
  <2>3. Found(Empty) /\ EndsWell(Empty, index)
    BY <1>1, <2>2 DEF Complete, Found
  <2> QED BY <1>1, <2>1, <2>3, NothingInEmpty
<1>2. AtInv /\ [Next]_vars => [Complete => mode = "AT"]_vars
  BY <1>1
<1> QED BY <1>2, AtInvariant, PTL DEF Spec, NoAnswerInPppMode

\* gsm_hw_send_at_cmd and gsm_hw_layer_run give their user one command at a
\* time and exactly one callback for each, whatever the interrupt, the clock
\* and the modem do: the engine implements AtService.
THEOREM AtImplementsService == Spec => ImplementsService
<1>1. Init => Service!Init
  BY DEF Init, Service!Init
<1>2. ASSUME AtInv, [Next]_vars PROVE [Service!Next]_(Service!vars)
  <2> USE DEF AtInv
  <2>1. armed \in BOOLEAN /\ retry \in Nat
    BY <1>2 DEF TypeOK
  <2>2. CASE StartChain
    BY <1>2, <2>2 DEF StartChain, BeginSend, Service!Next, Service!Issue
  <2>3. CASE CallbackSends
    BY <1>2, <2>3 DEF CallbackSends, BeginSend, Service!Next,
      Service!EndAndIssue
  <2>4. CASE CallbackReturns \/ CallbackResets
    <3>1. /\ pc = "callback" /\ ~armed /\ armed' = armed /\ pc' = resume
          /\ ended' = ended + 1 /\ issued' = issued
      BY <1>2, <2>4 DEF CallbackReturns, CallbackResets, Goto, Armed, atc
    <3>2. resume # "callback"
      BY <1>2 DEF TypeOK
    <3> QED BY <3>1, <3>2 DEF Service!Next, Service!End
  <2>5. CASE Complete \/ GiveUp
    BY <1>2, <2>1, <2>5 DEF Complete, GiveUp, Armed, history, Service!vars
  <2>6. ASSUME UNCHANGED <<armed, issued, ended>>, pc # "callback",
               pc' # "callback"
        PROVE  UNCHANGED Service!vars
    BY <2>6 DEF Service!vars
  <2>7. CASE Run /\ ~(Complete \/ GiveUp)
    <3>1. UNCHANGED <<armed, issued, ended>> /\ pc # "callback" /\ pc' # "callback"
      BY <2>7 DEF Run, TakeFlag, Search, CompareFails, WipeIndex, WipeBuffer,
        NotDue, Resend, Forget, Goto, atc, history
    <3> QED BY <2>6, <3>1
  <2>8. CASE SendIndex
    BY <2>6, <2>8 DEF SendIndex, atc, history
  <2>9. CASE SendRaw
    <3>1. resume # "callback"
      BY <1>2 DEF TypeOK
    <3> QED BY <2>6, <2>9, <3>1 DEF SendRaw, atc
  <2>10. CASE ReceiveIsr \/ Unsolicited \/ Expire \/ UNCHANGED vars
    <3>1. UNCHANGED <<armed, pc, issued, ended>>
      BY <2>10 DEF ReceiveIsr, Unsolicited, Expire, vars, atc, control, history
    <3> QED BY <3>1 DEF Service!vars
  <2> QED BY <1>2, <2>2, <2>3, <2>4, <2>5, <2>7, <2>8, <2>9, <2>10
          DEF Next, MainLoop, Callback
<1> QED BY AtInvariant, <1>1, <1>2, PTL
        DEF Spec, ImplementsService, Service!Spec

-----------------------------------------------------------------------------
(* Whose bytes a callback of the AT engine is given: OwnAnswer and          *)
(* CallbackReadsAnswer.  The invariant follows the pieces of an answer from *)
(* the modem's line through the buffer to the callback.                     *)

\* The clock runs only for a command under way, and torn speaks of that one.
Clock ==
  /\ due => armed
  /\ armed /\ pc \in {"send_index", "transmit", "wipe_index", "forget"} => ~torn

\* What is on the line behind the end of a command was not asked for, but for
\* the rest of the answer to an early one.
NothingLeft == ~armed => Unasked(line) \/ Early(cmd)

\* Everything in the buffer and on the line answers the command under way.
Own ==
  armed => /\ \A c \in Cells : buffer[c][2] \in {0, issued}
           /\ \A i \in 1..Len(line) : line[i][2] \in {0, issued}

\* A command that is about to be sent has no answer yet.
Fresh ==
  pc \in {"send_index", "transmit"} =>
    Unasked(line) /\ \A c \in Cells : buffer[c][2] = 0

\* At most one answer is on the line: nothing asked for comes behind an OK.
OneAnswer ==
  \A i, j \in 1..Len(line) : i < j /\ line[i][1] = "OK" => line[j][2] = 0

\* A timeout that passes is one that the whole answer did not satisfy.
TimedOut ==
  due => /\ pc \in {"idle", "search", "compare", "timer"}
         /\ Unasked(line)
         /\ ~torn
         /\ ~(Found(buffer) /\ EndsWell(buffer, index))

\* What satisfies the command is the end of its answer.
WholeAnswer ==
  armed /\ ~Early(cmd) =>
    /\ Found(buffer) /\ EndsWell(buffer, index) => Unasked(line)
    /\ cmd.end = "" /\ (\E c \in Cells : buffer[c][1] = "OK") => Unasked(line)

\* That is so, too, once its text was found, wherever that is now.
Matched ==
  pc = "compare" /\ EndsWell(buffer, index) /\ ~Early(cmd) => Unasked(line)

\* Unless a clearing hit it, the buffer is full up to index, and what stands
\* behind index was not asked for.
Filled ==
  ~torn /\ armed /\ pc # "send_index" =>
    \A c \in Cells : IF c < index THEN buffer[c] # NUL ELSE buffer[c][2] = 0

\* The text searched for is in cell c, below index and within sight.
Shows(c) ==
  /\ c < index
  /\ buffer[c][1] = cmd.exp
  /\ \A e \in 0..c : buffer[e] # NUL

\* It is in sight at all.
Located == cmd.exp = "" \/ \E c \in Cells : Shows(c)

\* It is there from the search to the callback.
StaysLocated ==
  ~torn /\ (pc = "compare" \/ (pc = "callback" /\ event = "OK")) => Located

\* What holds as long as nothing has disturbed the dialogue.
Undisturbed ==
  /\ NothingLeft
  /\ Own
  /\ Fresh
  /\ OneAnswer
  /\ TimedOut
  /\ WholeAnswer
  /\ Matched
  /\ Filled
  /\ StaysLocated

\* Inductive.
AnswerInv ==
  /\ AtInv
  /\ Clock
  /\ ~disturbed => Undisturbed

-----------------------------------------------------------------------------
(* Pieces, shapes and buffers *)

\* Only what was asked for carries information or the final result.
LEMMA PieceKinds ==
  ASSUME NEW p \in Pieces \cup {NUL}
  PROVE  /\ p[2] = 0 => p[1] # "OK" /\ p[1] # "DATA"
         /\ p \in Pieces => p # NUL
         /\ NUL[1] = "NUL" /\ NUL[2] = 0
<1>1. NUL[1] = "NUL" /\ NUL[2] = 0
  BY DEF NUL
<1>2. CASE p = NUL
  <2>1. NUL \notin Pieces
    BY MaxCmdsType DEF NUL, Pieces
  <2> QED BY <1>1, <1>2, <2>1
<1>3. CASE p = <<"URC", 0>>
  BY <1>1, <1>3 DEF NUL
<1>4. CASE p \in {"NL", "DATA", "OK", "ERR"} \X (1..MaxCmds)
  <2>1. p[2] \in 1..MaxCmds /\ p[1] \in {"NL", "DATA", "OK", "ERR"}
    BY <1>4
  <2>2. p[2] # 0
    BY <2>1, MaxCmdsType
  <2>3. p # NUL
    BY <1>1, <2>1
  <2> QED BY <1>1, <2>2, <2>3
<1> QED BY <1>2, <1>3, <1>4 DEF Pieces

\* A command that is not early and whose answer may end anyhow expects OK.
LEMMA Shapes ==
  ASSUME NEW c \in Commands
  PROVE  /\ c.exp = "" \/ c.exp = "DATA" \/ c.exp = "OK"
         /\ c.end = "" \/ c.end = "OK"
         /\ c.end = "" /\ ~Early(c) => c.exp = "OK"
<1>1. /\ c.exp = "" \/ c.exp = "DATA" \/ c.exp = "OK"
      /\ c.end = "" \/ c.end = "OK"
      /\ c.exp # "" \/ c.end # ""
  BY AtAssumption
<1> QED BY <1>1 DEF Early

\* A buffer without a piece of an answer satisfies no command.
LEMMA BlankFails ==
  ASSUME TypeOK, cmd \in Commands, \A c \in Cells : buffer[c][2] = 0
  PROVE  /\ ~(Found(buffer) /\ EndsWell(buffer, index))
         /\ ~\E c \in Cells : buffer[c][1] = "OK"
<1>1. ASSUME NEW c \in Cells PROVE buffer[c][1] # "OK" /\ buffer[c][1] # "DATA"
  BY PieceKinds DEF TypeOK
<1>2. ASSUME Found(buffer), EndsWell(buffer, index) PROVE FALSE
  <2>1. CASE cmd.exp = ""
    <3>1. cmd.end = "OK"
      BY <2>1, Shapes DEF Early
    <3>2. index > 1 /\ buffer[index - 1][1] = "OK"
      BY <1>2, <3>1 DEF EndsWell
    <3>3. index - 1 \in Cells
      BY <3>2, CapType, IndexType DEF TypeOK, Cells
    <3> QED BY <1>1, <3>2, <3>3
  <2>2. CASE cmd.exp # ""
    <3>1. PICK p \in Seen(buffer) : p[1] = cmd.exp
      BY <1>2, <2>2 DEF Found
    <3>2. PICK c \in Cells : p = buffer[c]
      BY DEF Seen
    <3> QED BY <1>1, <2>2, <3>1, <3>2, Shapes
  <2> QED BY <2>1, <2>2
<1> QED BY <1>1, <1>2

\* What stands at index or behind is no text that is searched for.
LEMMA FoundIsLocated ==
  TypeOK /\ cmd \in Commands /\ Found(buffer)
    /\ (\A c \in Cells : c < index \/ buffer[c][2] = 0)
  => Located
<1> SUFFICES ASSUME TypeOK, cmd \in Commands, Found(buffer), cmd.exp # "",
                    \A c \in Cells : c < index \/ buffer[c][2] = 0
             PROVE  Located
  BY DEF Located, Shows
<1>1. PICK p \in Seen(buffer) : p[1] = cmd.exp
  BY DEF Found
<1>2. PICK c \in Cells : p = buffer[c] /\ \A e \in 0..c : buffer[e] # NUL
  BY DEF Seen
<1>3. buffer[c][2] # 0
  BY <1>1, <1>2, PieceKinds, Shapes DEF TypeOK
<1> QED BY <1>1, <1>2, <1>3 DEF Located, Shows

LEMMA LocatedIsFound == ASSUME Located PROVE Found(buffer)
<1> SUFFICES ASSUME cmd.exp # "" PROVE \E p \in Seen(buffer) : p[1] = cmd.exp
  BY DEF Found
<1>1. PICK c \in Cells : buffer[c][1] = cmd.exp /\ \A e \in 0..c : buffer[e] # NUL
  BY DEF Located, Shows
<1>2. buffer[c] \in Seen(buffer)
  BY <1>1 DEF Seen
<1> QED BY <1>1, <1>2

\* In a buffer that is full up to index an OK is within sight, wherever it is.
LEMMA OkIsFound ==
  ASSUME TypeOK, cmd \in Commands, cmd.exp = "OK", NEW d \in Cells,
         buffer[d][1] = "OK",
         \A c \in Cells : IF c < index THEN buffer[c] # NUL ELSE buffer[c][2] = 0
  PROVE  Found(buffer)
<1>1. d < index
  BY PieceKinds DEF TypeOK
<1>2. \A e \in 0..d : e \in Cells /\ e < index
  BY <1>1, CapType, IndexType DEF TypeOK, Cells
<1>3. Located
  BY <1>1, <1>2 DEF Located, Shows
<1> QED BY <1>3, LocatedIsFound

\* What the interrupt stores of a block that leaves room in the buffer.
LEMMA FillRxStores ==
  ASSUME TypeOK, NEW data \in Seq(Pieces), FillRx(data), Len(data) < Cap - index
  PROVE  /\ index' = index + Len(data)
         /\ \A c \in Cells :
              buffer'[c] = IF c \in index..(index + Len(data) - 1)
                           THEN data[c - index + 1] ELSE buffer[c]
<1>1. Cap \in Nat /\ index \in Nat /\ Len(data) \in Nat
  BY CapType, IndexType, LenProperties DEF TypeOK
<1> QED BY <1>1 DEF FillRx

-----------------------------------------------------------------------------
(* The clock *)

LEMMA ClockStep == ASSUME AtInv, Clock, [Next]_vars PROVE Clock'
<1> USE DEF AtInv
<1>1. CASE StartChain \/ CallbackSends
  BY <1>1 DEF StartChain, CallbackSends, BeginSend, Clock
<1>2. CASE TakeFlag \/ Search \/ CompareFails \/ NotDue
  BY <1>2 DEF TakeFlag, Search, CompareFails, NotDue, Goto, atc, mishaps, Clock
<1>3. CASE Complete \/ GiveUp
  BY <1>3 DEF Complete, GiveUp, Clock
<1>4. CASE WipeIndex \/ WipeBuffer \/ Forget
  BY <1>4 DEF WipeIndex, WipeBuffer, Forget, Goto, atc, Clock
<1>5. CASE Resend
  BY <1>5 DEF Resend, Goto, Clock
<1>6. CASE CallbackReturns \/ CallbackResets
  <2>1. ~armed /\ UNCHANGED <<armed, due>>
    BY <1>6 DEF CallbackReturns, CallbackResets, atc, Armed
  <2> QED BY <2>1 DEF Clock
<1>7. CASE SendIndex \/ SendRaw
  BY <1>7 DEF SendIndex, SendRaw, atc, mishaps, Clock
<1>8. CASE ReceiveIsr \/ Unsolicited \/ UNCHANGED vars
  <2>1. UNCHANGED <<armed, due, pc, torn>>
    BY <1>8 DEF ReceiveIsr, Unsolicited, vars, atc, control, mishaps
  <2> QED BY <2>1 DEF Clock
<1>9. CASE Expire
  BY <1>9 DEF Expire, control, Clock
<1> QED BY <1>1, <1>2, <1>3, <1>4, <1>5, <1>6, <1>7, <1>8, <1>9
        DEF Next, MainLoop, Run, Callback

-----------------------------------------------------------------------------
(* The main loop *)

\* An action that looks and moves on.
LEMMA LookStep ==
  ASSUME AtInv, Clock, Undisturbed,
         TakeFlag \/ Search \/ CompareFails \/ NotDue
  PROVE  Undisturbed'
<1> USE DEF AtInv
<1>1. /\ UNCHANGED <<buffer, index, cmd, armed, due, line, torn, issued>>
      /\ pc \in {"idle", "search", "compare", "timer"}
      /\ pc' \in {"idle", "search", "compare", "timer"}
      /\ pc' = "compare" => Search /\ Found(buffer)
  BY DEF TakeFlag, Search, CompareFails, NotDue, Goto, rx, atc, modem, mishaps,
    history
<1>2. NothingLeft' /\ Own' /\ Fresh' /\ OneAnswer'
  BY <1>1 DEF Undisturbed, NothingLeft, Own, Fresh, OneAnswer, Unasked, Early,
    Cells
<1>3. TimedOut' /\ WholeAnswer'
  BY <1>1 DEF Undisturbed, TimedOut, WholeAnswer, Unasked, Early, Found, Seen,
    EndsWell, Cells, NUL
<1>4. Filled'
  BY <1>1 DEF Undisturbed, Filled, Cells, NUL
<1>5. Matched' /\ StaysLocated'
  <2> SUFFICES ASSUME pc' = "compare"
               PROVE  /\ EndsWell(buffer, index) /\ ~Early(cmd) => Unasked(line)
                      /\ ~torn => Located
    BY <1>1 DEF Matched, StaysLocated, EndsWell, Early, Unasked, Located,
      Shows, Cells, NUL
  <2>1. Found(buffer) /\ pc = "search" /\ armed /\ cmd \in Commands
    BY <1>1 DEF Search, Armed
  <2>2. EndsWell(buffer, index) /\ ~Early(cmd) => Unasked(line)
    BY <2>1 DEF Undisturbed, WholeAnswer
  <2>3. ~torn => Located
    <3>1. ~torn => \A c \in Cells : c < index \/ buffer[c][2] = 0
      BY <2>1 DEF Undisturbed, Filled
    <3> QED BY <2>1, <3>1, FoundIsLocated
  <2> QED BY <2>2, <2>3
<1> QED BY <1>2, <1>3, <1>4, <1>5 DEF Undisturbed

\* gsm_hw_send_at_cmd: nothing that was asked for is on the way any more.
LEMMA SendingStep ==
  ASSUME AtInv, Undisturbed, ~armed, ~disturbed', NEW from, BeginSend(from)
  PROVE  Undisturbed'
<1>1. /\ armed' = TRUE /\ due' = FALSE /\ buffer' = Empty /\ line' = line
      /\ pc' = "send_index"
      /\ ~(Early(cmd) /\ ~Unasked(line))
  BY DEF BeginSend, modem
<1>2. Unasked(line)
  BY <1>1 DEF Undisturbed, NothingLeft
<1>3. \A c \in Cells : buffer'[c][2] = 0
  BY <1>1 DEF Empty, NUL
<1>4. NothingLeft' /\ TimedOut' /\ Matched' /\ Filled' /\ StaysLocated'
  BY <1>1 DEF NothingLeft, TimedOut, Matched, Filled, StaysLocated
<1>5. Own' /\ Fresh' /\ WholeAnswer'
  BY <1>1, <1>2, <1>3 DEF Own, Fresh, WholeAnswer, Unasked, Cells
<1>6. OneAnswer'
  BY <1>1 DEF Undisturbed, OneAnswer
<1> QED BY <1>4, <1>5, <1>6 DEF Undisturbed

LEMMA SendIndexStep ==
  ASSUME AtInv, Clock, Undisturbed, SendIndex
  PROVE  Undisturbed'
<1>1. /\ UNCHANGED <<buffer, cmd, armed, due, line, torn, issued>>
      /\ index' = 0 /\ pc = "send_index" /\ pc' = "transmit" /\ armed
  BY DEF SendIndex, atc, modem, mishaps, history, AtInv, Armed
<1>2. Unasked(line) /\ \A c \in Cells : buffer[c][2] = 0
  BY <1>1 DEF Undisturbed, Fresh
<1>3. ~due
  BY <1>1 DEF Undisturbed, TimedOut
<1>4. NothingLeft' /\ TimedOut' /\ Matched' /\ StaysLocated'
  BY <1>1, <1>3 DEF NothingLeft, TimedOut, Matched, StaysLocated
<1>5. Own' /\ Fresh' /\ WholeAnswer' /\ OneAnswer'
  BY <1>1, <1>2
     DEF Undisturbed, Own, Fresh, WholeAnswer, OneAnswer, Unasked, Cells
<1>6. Filled'
  BY <1>1, <1>2 DEF Filled, Cells
<1> QED BY <1>4, <1>5, <1>6 DEF Undisturbed

\* An element of a concatenation is one of its parts'.
LEMMA ConcatElements ==
  ASSUME NEW S, NEW s \in Seq(S), NEW t \in Seq(S)
  PROVE  /\ s \o t \in Seq(S)
         /\ Len(s \o t) = Len(s) + Len(t) /\ Len(s) \in Nat /\ Len(t) \in Nat
         /\ \A i \in 1..Len(s \o t) :
              \/ i \in 1..Len(s) /\ (s \o t)[i] = s[i]
              \/ /\ i > Len(s) /\ i - Len(s) \in 1..Len(t)
                 /\ (s \o t)[i] = t[i - Len(s)]
OBVIOUS

\* An answer is made of pieces of its own, and nothing comes behind its OK.
LEMMA AnswerPieces ==
  ASSUME NEW c, NEW n \in 1..MaxCmds, NEW a \in Answers(c, n)
  PROVE  /\ a \in Seq(Pieces)
         /\ \A i \in 1..Len(a) : a[i][2] = n /\ (a[i][1] = "OK" => i = Len(a))
<1> DEFINE nl == <<"NL", n>>
           er == <<"ERR", n>>
           da == <<"DATA", n>>
           ok == <<"OK", n>>
           result == <<nl, ok>>
<1>1. nl \in Pieces /\ er \in Pieces /\ da \in Pieces /\ ok \in Pieces
  BY DEF Pieces
<1>2. /\ nl[2] = n /\ er[2] = n /\ da[2] = n /\ ok[2] = n
      /\ nl[1] # "OK" /\ er[1] # "OK" /\ da[1] # "OK"
  OBVIOUS
<1>3. \/ a = <<>> \/ a = <<nl, er>> \/ a = <<>> \o result \/ a = <<da>> \o result
  BY Zenon DEF Answers
<1> HIDE DEF nl, er, da, ok
<1>4. /\ result \in Seq(Pieces) /\ Len(result) = 2
      /\ result[1] = nl /\ result[2] = ok
  BY <1>1
<1> HIDE DEF result
<1>5. CASE a = <<>>
  BY <1>5
<1>6. CASE a = <<nl, er>>
  BY <1>1, <1>2, <1>6
<1>7. ASSUME NEW info \in Seq(Pieces), \A i \in 1..Len(info) : info[i] = da
      PROVE  /\ info \o result \in Seq(Pieces)
             /\ \A i \in 1..Len(info \o result) :
                  /\ (info \o result)[i][2] = n
                  /\ (info \o result)[i][1] = "OK" => i = Len(info \o result)
  <2> DEFINE whole == info \o result
  <2>1. /\ whole \in Seq(Pieces)
        /\ Len(whole) = Len(info) + Len(result) /\ Len(info) \in Nat
        /\ \A i \in 1..Len(whole) :
             \/ i \in 1..Len(info) /\ whole[i] = info[i]
             \/ /\ i > Len(info) /\ i - Len(info) \in 1..Len(result)
                /\ whole[i] = result[i - Len(info)]
    BY <1>4, ConcatElements
  <2> HIDE DEF whole
  <2>2. ASSUME NEW i \in 1..Len(whole)
        PROVE  whole[i] = da \/ whole[i] = nl \/ (whole[i] = ok /\ i = Len(whole))
    BY <1>4, <1>7, <2>1
  <2>3. \A i \in 1..Len(whole) :
          whole[i][2] = n /\ (whole[i][1] = "OK" => i = Len(whole))
    BY <1>2, <2>2
  <2> QED BY <2>1, <2>3 DEF whole
<1>8. CASE a = <<>> \o result
  <2>1. <<>> \in Seq(Pieces) /\ \A i \in 1..Len(<<>>) : <<>>[i] = da
    OBVIOUS
  <2> QED BY <1>7, <1>8, <2>1, Zenon
<1>9. CASE a = <<da>> \o result
  <2>1. <<da>> \in Seq(Pieces) /\ \A i \in 1..Len(<<da>>) : <<da>>[i] = da
    BY <1>1
  <2> QED BY <1>7, <1>9, <2>1, Zenon
<1> QED BY <1>3, <1>5, <1>6, <1>8, <1>9, Zenon

\* Nothing in the buffer is the end of the command.
Unanswered ==
  /\ ~(Found(buffer) /\ EndsWell(buffer, index))
  /\ cmd.end = "" /\ ~Early(cmd) => ~\E c \in Cells : buffer[c][1] = "OK"

\* The modem answers at most once, when nothing it was asked before is on the
\* line and nothing in the buffer satisfies the command.
LEMMA TransmitStep ==
  ASSUME AtInv, Undisturbed, armed, Transmit(cmd, issued), Unasked(line),
         UNCHANGED <<buffer, index, cmd, armed, torn, issued>>, due' = FALSE,
         pc # "send_index", pc' \in {"idle", "wipe_index", "forget"}, Unanswered
  PROVE  Undisturbed'
<1> USE DEF AtInv
<1>1. PICK a \in Answers(cmd, issued) : line' = line \o a
  BY DEF Transmit
<1>2. /\ a \in Seq(Pieces)
      /\ \A i \in 1..Len(a) : /\ a[i][2] = issued
                              /\ a[i][1] = "OK" => i = Len(a)
  <2>1. issued \in 1..MaxCmds
    BY CountedRange DEF Busy
  <2> QED BY <2>1, AnswerPieces
<1>3. line \in Seq(Pieces)
  BY DEF TypeOK
<1>4. \A i \in 1..Len(line') :
        \/ i \in 1..Len(line) /\ line'[i] = line[i]
        \/ /\ i > Len(line) /\ i - Len(line) \in 1..Len(a)
           /\ line'[i] = a[i - Len(line)]
  BY <1>1, <1>2, <1>3, ConcatElements
<1>5. \A i \in 1..Len(line) : line[i][2] = 0 /\ line[i][1] # "OK"
  <2>1. ASSUME NEW i \in 1..Len(line) PROVE line[i] \in Pieces
    BY <1>3, <2>1, ElementOfSeq
  <2> QED BY <2>1, PieceKinds DEF Unasked
<1>6. \A i \in 1..Len(line') : line'[i][2] \in {0, issued}
  BY <1>2, <1>4, <1>5
<1>7. OneAnswer'
  <2> SUFFICES ASSUME NEW i \in 1..Len(line'), NEW j \in 1..Len(line'), i < j,
                      line'[i][1] = "OK"
               PROVE  FALSE
    BY DEF OneAnswer
  <2>1. Len(line) \in Nat /\ Len(a) \in Nat /\ Len(line') = Len(line) + Len(a)
    BY <1>1, <1>2, <1>3
  <2>2. i > Len(line) /\ i - Len(line) = Len(a)
    BY <1>2, <1>4, <1>5
  <2> QED BY <2>1, <2>2
<1>8. Own'
  BY <1>6 DEF Undisturbed, Own, Cells
<1>9. WholeAnswer'
  <2>1. ~(Found(buffer) /\ EndsWell(buffer, index))'
    BY DEF Unanswered, Found, EndsWell, Seen, Cells, NUL
  <2>2. cmd'.end = "" /\ ~Early(cmd') => ~\E c \in Cells' : buffer'[c][1] = "OK"
    BY DEF Unanswered, Cells
  <2> QED BY <2>1, <2>2 DEF WholeAnswer
<1>10. NothingLeft' /\ Fresh' /\ TimedOut' /\ Matched' /\ StaysLocated'
  BY DEF NothingLeft, Fresh, TimedOut, Matched, StaysLocated
<1>11. Filled'
  BY DEF Undisturbed, Filled, Cells, NUL
<1> QED BY <1>7, <1>8, <1>9, <1>10, <1>11 DEF Undisturbed

LEMMA SendRawStep ==
  ASSUME AtInv, Clock, Undisturbed, SendRaw
  PROVE  Undisturbed'
<1>1. /\ UNCHANGED <<buffer, index, cmd, armed, due, torn, issued>>
      /\ pc = "transmit" /\ pc' = resume /\ Transmit(cmd, issued)
  BY DEF SendRaw, rx, atc, mishaps
<1>2. armed /\ cmd \in Commands /\ resume \in {"idle", "wipe_index", "forget"}
  BY <1>1 DEF AtInv, Armed, TypeOK
<1>3. Unasked(line) /\ \A c \in Cells : buffer[c][2] = 0
  BY <1>1 DEF Undisturbed, Fresh
<1>4. due' = FALSE
  BY <1>1 DEF Undisturbed, TimedOut, AtInv, TypeOK
<1>5. /\ ~(Found(buffer) /\ EndsWell(buffer, index))
      /\ ~\E c \in Cells : buffer[c][1] = "OK"
  BY <1>2, <1>3, BlankFails DEF AtInv
<1>6. Unanswered
  BY <1>5 DEF Unanswered
<1> QED BY <1>1, <1>2, <1>3, <1>4, <1>6, TransmitStep

LEMMA ResendStep ==
  ASSUME AtInv, Clock, Undisturbed, Resend
  PROVE  Undisturbed'
<1>1. /\ UNCHANGED <<buffer, index, cmd, armed, torn, issued>>
      /\ due /\ due' = FALSE /\ armed
      /\ pc = "timer" /\ pc' = "idle" /\ Transmit(cmd, issued)
  BY DEF Resend, Goto, rx, mishaps
<1>2. cmd \in Commands
  BY <1>1 DEF AtInv, Armed
<1>3. /\ Unasked(line) /\ ~torn
      /\ ~(Found(buffer) /\ EndsWell(buffer, index))
  BY <1>1 DEF Undisturbed, TimedOut
<1>4. ASSUME cmd.end = "", ~Early(cmd), NEW c \in Cells, buffer[c][1] = "OK"
      PROVE  FALSE
  <2>1. cmd.exp = "OK"
    BY <1>2, <1>4, Shapes
  <2>2. \A d \in Cells : IF d < index THEN buffer[d] # NUL ELSE buffer[d][2] = 0
    BY <1>1, <1>3 DEF Undisturbed, Filled
  <2>3. Found(buffer)
    BY <1>2, <1>4, <2>1, <2>2, OkIsFound DEF AtInv
  <2> QED BY <1>3, <1>4, <2>3 DEF EndsWell
<1>5. Unanswered
  BY <1>3, <1>4 DEF Unanswered
<1> QED BY <1>1, <1>3, <1>5, TransmitStep

\* The answer is in: nothing more of it is on the line, and the 0 at its end
\* leaves what was searched for in sight.
LEMMA CompleteStep ==
  ASSUME AtInv, Undisturbed, Complete
  PROVE  Undisturbed'
<1>1. /\ UNCHANGED <<index, cmd, line, torn>>
      /\ buffer' = [buffer EXCEPT ![index] = NUL]
      /\ pc = "compare" /\ armed' = FALSE /\ due' = FALSE /\ pc' = "callback"
      /\ EndsWell(buffer, index)
  BY DEF Complete, modem, mishaps
<1>2. Unasked(line) \/ Early(cmd)
  BY <1>1 DEF Undisturbed, Matched
<1>3. NothingLeft'
  BY <1>1, <1>2 DEF NothingLeft, Unasked, Early
<1>4. OneAnswer'
  BY <1>1 DEF Undisturbed, OneAnswer
<1>5. StaysLocated'
  <2>1. ASSUME NEW c \in Cells, c < index, NEW e \in 0..c
        PROVE  buffer'[e] = buffer[e]
    <3>1. e \in Cells /\ e # index
      BY <2>1, CapType, IndexType DEF AtInv, TypeOK, Cells
    <3> QED BY <1>1, <3>1 DEF AtInv, TypeOK
  <2>2. \A c \in Cells : c \in 0..c
    BY CapType DEF Cells
  <2>3. Located => Located'
    BY <1>1, <2>1, <2>2, Zenon DEF Located, Shows, Cells, NUL
  <2> QED BY <1>1, <2>3 DEF Undisturbed, StaysLocated
<1>6. Own' /\ Fresh' /\ TimedOut' /\ WholeAnswer' /\ Matched' /\ Filled'
  BY <1>1 DEF Own, Fresh, TimedOut, WholeAnswer, Matched, Filled
<1> QED BY <1>3, <1>4, <1>5, <1>6 DEF Undisturbed

\* Nothing of the answer is on the line when the last attempt is over.
LEMMA GiveUpStep ==
  ASSUME AtInv, Undisturbed, GiveUp
  PROVE  Undisturbed'
<1>1. /\ UNCHANGED <<cmd, line>> /\ due
      /\ armed' = FALSE /\ due' = FALSE /\ pc' = "callback" /\ event' = "TIMEOUT"
  BY DEF GiveUp, modem
<1>2. Unasked(line)
  BY <1>1 DEF Undisturbed, TimedOut
<1>3. NothingLeft'
  BY <1>1, <1>2 DEF NothingLeft, Unasked
<1>4. OneAnswer'
  BY <1>1 DEF Undisturbed, OneAnswer
<1>5. /\ Own' /\ Fresh' /\ TimedOut' /\ WholeAnswer' /\ Matched' /\ Filled'
      /\ StaysLocated'
  BY <1>1 DEF Own, Fresh, TimedOut, WholeAnswer, Matched, Filled, StaysLocated
<1> QED BY <1>3, <1>4, <1>5 DEF Undisturbed

\* A clearing takes pieces away and adds none; it has hit the answer or there
\* was nothing in the buffer.
LEMMA ClearStep ==
  ASSUME AtInv, AtInv', Clock, Undisturbed, WipeIndex \/ WipeBuffer \/ Forget
  PROVE  Undisturbed'
<1>1. /\ UNCHANGED <<cmd, armed, due, line, issued>>
      /\ pc \in {"wipe_index", "wipe_buffer", "forget"}
      /\ pc' \in {"wipe_buffer", "timer", "idle"}
      /\ pc \in {"wipe_index", "forget"} => index' = 0 /\ torn' = (index > 0)
      /\ pc = "wipe_index" => buffer' = buffer
      /\ pc = "wipe_buffer" =>
           buffer' = Empty /\ index' = index /\ torn' = (torn \/ index > 0)
      /\ pc = "forget" => buffer' = [buffer EXCEPT ![0] = NUL]
  BY DEF WipeIndex, WipeBuffer, Forget, Goto, atc, modem, history
<1>2. \A c \in Cells : buffer'[c] \in {buffer[c], NUL}
  BY <1>1 DEF Empty, AtInv, TypeOK
<1>3. NothingLeft' /\ Fresh' /\ OneAnswer' /\ Matched' /\ StaysLocated'
  BY <1>1 DEF Undisturbed, NothingLeft, Fresh, OneAnswer, Matched, StaysLocated,
    Unasked, Early
<1>4. Own'
  BY <1>1, <1>2 DEF Undisturbed, Own, Cells, NUL
<1>5. TimedOut'
  BY <1>1 DEF Undisturbed, TimedOut
<1>6. Filled'
  <2> SUFFICES ASSUME ~torn', armed
               PROVE  index' = 0 /\ \A c \in Cells : buffer'[c][2] = 0
    <3>1. Cells' = Cells /\ \A c \in Cells : c \in Nat /\ ~(c < 0)
      BY CapType DEF Cells
    <3> QED BY <1>1, <3>1 DEF Filled
  <2>1. index \in Nat /\ index = 0
    BY <1>1, CapType, IndexType DEF AtInv, TypeOK
  <2>2. CASE pc = "wipe_buffer"
    BY <1>1, <2>1, <2>2 DEF Empty, NUL
  <2>3. CASE pc # "wipe_buffer"
    <3>1. ~torn
      BY <1>1, <2>3 DEF Clock
    <3>2. \A c \in Cells : buffer[c][2] = 0
      BY <1>1, <2>1, <3>1 DEF Undisturbed, Filled, Cells
    <3> QED BY <1>1, <1>2, <2>3, <3>2 DEF NUL
  <2> QED BY <2>2, <2>3
<1>7. WholeAnswer'
  <2>1. \A c \in Cells : buffer'[c][1] = "OK" => buffer[c][1] = "OK"
    BY <1>2 DEF NUL
  <2>2. ASSUME armed, (Found(buffer) /\ EndsWell(buffer, index))'
        PROVE  Found(buffer) /\ EndsWell(buffer, index)
    <3>1. Answered' /\ (TypeOK /\ Armed)'
      BY <1>1, <2>2 DEF Answered, AtInv, Armed
    <3>2. CASE pc = "wipe_buffer"
      <4>1. (buffer = Empty)'
        BY <1>1, <3>2 DEF Empty, Cells
      <4>2. (TypeOK /\ Armed /\ buffer = Empty => ~Answered)'
        BY ClearedNotAnswered, PTL
      <4> QED BY <3>1, <4>1, <4>2
    <3>3. CASE pc = "forget"
      <4>1. (index = 0 /\ buffer[0] = NUL)'
        BY <1>1, <3>3, CapType DEF AtInv, TypeOK, Cells, NUL
      <4>2. (TypeOK /\ Armed /\ index = 0 /\ buffer[0] = NUL => ~Answered)'
        BY ForgottenNotAnswered, PTL
      <4> QED BY <3>1, <4>1, <4>2
    <3>4. CASE pc = "wipe_index"
      <4>1. buffer' = buffer /\ cmd' = cmd /\ ~(index' > 1)
        BY <1>1, <3>4
      <4>2. Found(buffer)
        BY <2>2, <4>1 DEF Found, Seen, Cells, NUL
      <4>3. EndsWell(buffer, index)
        BY <2>2, <4>1, Zenon DEF EndsWell
      <4> QED BY <4>2, <4>3
    <3> QED BY <1>1, <3>2, <3>3, <3>4
  <2> QED BY <1>1, <2>1, <2>2, Zenon
          DEF Undisturbed, WholeAnswer, Unasked, Early, Cells
<1> QED BY <1>3, <1>4, <1>5, <1>6, <1>7 DEF Undisturbed

\* A callback that sends nothing leaves no command under way.
LEMMA CallbackEndsStep ==
  ASSUME AtInv, Clock, Undisturbed, CallbackReturns \/ CallbackResets
  PROVE  Undisturbed'
<1>1. /\ UNCHANGED <<cmd, armed, due, line>> /\ ~armed
      /\ pc' \in {"idle", "wipe_index", "forget"}
  BY DEF CallbackReturns, CallbackResets, Goto, atc, modem, AtInv, Armed, TypeOK
<1>2. ~due
  BY <1>1 DEF Clock
<1>3. NothingLeft' /\ OneAnswer'
  BY <1>1 DEF Undisturbed, NothingLeft, OneAnswer, Unasked, Early
<1>4. /\ Own' /\ Fresh' /\ TimedOut' /\ WholeAnswer' /\ Matched' /\ Filled'
      /\ StaysLocated'
  BY <1>1, <1>2
     DEF Own, Fresh, TimedOut, WholeAnswer, Matched, Filled, StaysLocated
<1> QED BY <1>3, <1>4 DEF Undisturbed

-----------------------------------------------------------------------------
(* The clock, the modem and the interrupt *)

\* A timeout that leaves the dialogue undisturbed finds nothing on the line and
\* nothing in the buffer that would satisfy the command.
LEMMA ExpireStep ==
  ASSUME AtInv, Undisturbed, ~disturbed', Expire
  PROVE  Undisturbed'
<1>1. /\ UNCHANGED <<buffer, index, cmd, armed, line, torn, issued, pc, event>>
      /\ armed /\ ~torn /\ pc = "idle" /\ line = <<>> /\ ~new_data
  BY DEF Expire, rx, control, history
<1>2. ~(Found(buffer) /\ EndsWell(buffer, index))
  BY <1>1 DEF AtInv, Armed, Announced
<1>3. Unasked(line)
  BY <1>1 DEF Unasked
<1>4. TimedOut'
  BY <1>1, <1>2, <1>3 DEF TimedOut, Found, EndsWell, Seen, Cells, NUL, Unasked
<1>5. NothingLeft' /\ Own' /\ Fresh' /\ OneAnswer' /\ Filled'
  BY <1>1 DEF Undisturbed, NothingLeft, Own, Fresh, OneAnswer, Filled, Unasked,
    Cells, NUL
<1>6. WholeAnswer' /\ Matched' /\ StaysLocated'
  BY <1>1, <1>3 DEF WholeAnswer, Matched, StaysLocated, Unasked
<1> QED BY <1>4, <1>5, <1>6 DEF Undisturbed

LEMMA UnsolicitedStep ==
  ASSUME AtInv, Undisturbed, Unsolicited
  PROVE  Undisturbed'
<1>1. /\ UNCHANGED <<buffer, index, cmd, armed, due, torn, issued, pc, event>>
      /\ line' = Append(line, <<"URC", 0>>)
  BY DEF Unsolicited, rx, atc, control, mishaps, history
<1>2. /\ Len(line) \in Nat /\ Len(line') = Len(line) + 1
      /\ \A i \in 1..Len(line) : line'[i] = line[i]
      /\ line'[Len(line) + 1] = <<"URC", 0>>
  BY <1>1, AppendProperties, LenProperties DEF AtInv, TypeOK, Pieces
<1>3. \A i \in 1..Len(line') :
        \/ i \in 1..Len(line) /\ line'[i] = line[i]
        \/ i = Len(line') /\ line'[i][2] = 0
  BY <1>2
<1>4. Unasked(line) => Unasked(line')
  BY <1>3 DEF Unasked
<1>5. OneAnswer'
  <2> SUFFICES ASSUME NEW i \in 1..Len(line'), NEW j \in 1..Len(line'), i < j,
                      line'[i][1] = "OK"
               PROVE  line'[j][2] = 0
    BY DEF OneAnswer
  <2>1. CASE j \in 1..Len(line)
    <3>1. i \in 1..Len(line)
      BY <1>2, <2>1
    <3> QED BY <1>2, <2>1, <3>1 DEF Undisturbed, OneAnswer
  <2>2. CASE j \notin 1..Len(line)
    BY <1>3, <2>2
  <2> QED BY <2>1, <2>2
<1>6. Own'
  BY <1>1, <1>3 DEF Undisturbed, Own, Cells
<1>7. NothingLeft' /\ Fresh' /\ Filled'
  BY <1>1, <1>4 DEF Undisturbed, NothingLeft, Fresh, Filled, Early, Cells, NUL
<1>8. TimedOut' /\ WholeAnswer' /\ Matched' /\ StaysLocated'
  BY <1>1, <1>4 DEF Undisturbed, TimedOut, WholeAnswer, Matched, StaysLocated,
    Located, Shows, Found, EndsWell, Seen, Early, Cells, NUL
<1> QED BY <1>5, <1>6, <1>7, <1>8 DEF Undisturbed

\* The interrupt takes the first n pieces off the line and appends them to the
\* buffer, or leaves the buffer alone.
Stored(n) ==
  /\ index' = index + n
  /\ \A c \in Cells :
       \/ ~(c \in index..(index + n - 1)) /\ buffer'[c] = buffer[c]
       \/ /\ c \in index..(index + n - 1)
          /\ c - index + 1 \in 1..n
          /\ buffer'[c] = line[c - index + 1]

LEMMA ReceiveFacts ==
  ASSUME AtInv, ReceiveIsr, ~disturbed'
  PROVE  \E n \in 1..Len(line) :
           /\ Len(line') = Len(line) - n
           /\ \A i \in 1..Len(line') :
                n + i \in 1..Len(line) /\ line'[i] = line[n + i]
           /\ UNCHANGED <<buffer, index>> \/ Stored(n)
<1> PICK n \in 1..Len(line) :
      /\ IF mode = "AT" THEN FillRx(SubSeq(line, 1, n)) ELSE UNCHANGED rx
      /\ disturbed' = (disturbed \/ (mode = "AT" /\ n >= Cap - index))
      /\ line' = SubSeq(line, n + 1, Len(line))
  BY DEF ReceiveIsr
<1>1. line \in Seq(Pieces) /\ Len(line) \in Nat /\ n \in Nat /\ n <= Len(line)
  BY LenProperties DEF AtInv, TypeOK
<1>2. /\ Len(line') = Len(line) - n
      /\ \A i \in 1..Len(line') :
           n + i \in 1..Len(line) /\ line'[i] = line[n + i]
  BY <1>1, SubSeqProperties
<1>3. CASE mode # "AT"
  BY <1>2, <1>3 DEF rx
<1>4. CASE mode = "AT"
  <2> DEFINE data == SubSeq(line, 1, n)
  <2>1. /\ data \in Seq(Pieces) /\ Len(data) = n
        /\ \A k \in 1..n : data[k] = line[k]
    BY <1>1, SubSeqProperties
  <2>2. FillRx(data)
    BY <1>4
  <2>3. index \in Nat /\ Cap \in Nat
    BY CapType, IndexType DEF AtInv, TypeOK
  <2>4. n < Cap - index
    <3>1. ~(n >= Cap - index)
      BY <1>4, Zenon
    <3> QED BY <1>1, <2>3, <3>1
  <2> HIDE DEF data
  <2>5. /\ index' = index + n
        /\ \A c \in Cells : buffer'[c] = IF c \in index..(index + n - 1)
                                         THEN data[c - index + 1] ELSE buffer[c]
    BY <2>1, <2>2, <2>4, FillRxStores DEF AtInv
  <2>6. \A c \in Cells : c \in index..(index + n - 1) => c - index + 1 \in 1..n
    BY <1>1, <2>3, CapType DEF Cells
  <2>7. Stored(n)
    BY <2>1, <2>5, <2>6 DEF Stored
  <2> QED BY <1>2, <2>7
<1> QED BY <1>3, <1>4

LEMMA ReceiveStep ==
  ASSUME AtInv, AtInv', Clock, Undisturbed, ~disturbed', ReceiveIsr
  PROVE  Undisturbed'
<1> PICK n \in 1..Len(line) :
      /\ Len(line') = Len(line) - n
      /\ \A i \in 1..Len(line') :
           n + i \in 1..Len(line) /\ line'[i] = line[n + i]
      /\ UNCHANGED <<buffer, index>> \/ Stored(n)
  BY ReceiveFacts
<1>1. UNCHANGED <<cmd, armed, due, torn, issued, pc, event>>
  BY DEF ReceiveIsr, atc, control, history
<1>2. /\ index \in Nat /\ n \in Nat /\ n > 0 /\ index' >= index
      /\ \A c \in Cells : c \in Nat
      /\ \A i \in 1..Len(line) : line[i] \in Pieces
      /\ \A c \in Cells : buffer[c] \in Pieces \cup {NUL}
  <2>1. \A i \in 1..Len(line) : line[i] \in Pieces
    BY ElementOfSeq DEF AtInv, TypeOK
  <2>2. index \in Nat /\ n \in Nat /\ n > 0 /\ \A c \in Cells : c \in Nat
    BY CapType, IndexType, LenProperties DEF AtInv, TypeOK, Cells
  <2> QED BY <2>1, <2>2 DEF Stored, AtInv, TypeOK
\* A cell holds what it held or a piece that was received.
<1>3. \A c \in Cells : buffer'[c] = buffer[c] \/ \E k \in 1..n : buffer'[c] = line[k]
  BY DEF Stored
<1>4. \A k \in 1..n : k \in 1..Len(line)
  BY <1>2, LenProperties DEF AtInv, TypeOK
<1>5. Unasked(line) => Unasked(line')
  BY DEF Unasked
\* Nothing asked for is left behind an OK.
<1>6. ASSUME NEW k \in 1..n, line[k][1] = "OK" PROVE Unasked(line')
  <2>1. ASSUME NEW i \in 1..Len(line') PROVE line[n + i][2] = 0
    <3>1. k < n + i /\ n + i \in 1..Len(line)
      BY <1>2
    <3> QED BY <1>4, <1>6, <3>1 DEF Undisturbed, OneAnswer
  <2> QED BY <2>1 DEF Unasked
<1>7. OneAnswer'
  <2> SUFFICES ASSUME NEW i \in 1..Len(line'), NEW j \in 1..Len(line'), i < j,
                      line'[i][1] = "OK"
               PROVE  line'[j][2] = 0
    BY DEF OneAnswer
  <2>1. n + i < n + j
    BY <1>2
  <2> QED BY <2>1 DEF Undisturbed, OneAnswer
<1>8. Own'
  BY <1>1, <1>3, <1>4 DEF Undisturbed, Own, Cells
<1>9. NothingLeft' /\ Fresh'
  BY <1>1, <1>3, <1>4, <1>5
     DEF Undisturbed, NothingLeft, Fresh, Early, Cells, Unasked
<1>10. Filled'
  <2>1. ASSUME NEW c \in Cells,
               IF c < index THEN buffer[c] # NUL ELSE buffer[c][2] = 0
        PROVE  IF c < index' THEN buffer'[c] # NUL ELSE buffer'[c][2] = 0
    <3>1. CASE UNCHANGED <<buffer, index>>
      BY <2>1, <3>1
    <3>2. CASE Stored(n) /\ c \in index..(index + n - 1)
      <4>1. c < index' /\ c - index + 1 \in 1..n /\ buffer'[c] = line[c - index + 1]
        BY <1>2, <3>2 DEF Stored
      <4> QED BY <1>2, <1>4, <4>1, PieceKinds
    <3>3. CASE Stored(n) /\ c \notin index..(index + n - 1)
      <4>1. /\ buffer'[c] = buffer[c]
            /\ c < index => c < index'
            /\ ~(c < index) => ~(c < index')
        BY <1>2, <3>3 DEF Stored
      <4> QED BY <2>1, <4>1
    <3> QED BY <3>1, <3>2, <3>3
  <2> QED BY <1>1, <2>1 DEF Undisturbed, Filled, Cells, NUL
\* What was in sight below index stays there.
<1>11. ASSUME NEW c \in Cells, c < index PROVE buffer'[c] = buffer[c] /\ c < index'
  <2>1. CASE UNCHANGED <<buffer, index>>
    BY <1>11, <2>1
  <2>2. CASE Stored(n)
    <3>1. c \notin index..(index + n - 1) /\ c < index + n
      BY <1>2, <1>11
    <3> QED BY <2>2, <3>1 DEF Stored
  <2> QED BY <2>1, <2>2
<1>12. Located => Located'
  <2>1. ASSUME NEW c \in Cells, c < index, NEW e \in 0..c
        PROVE  buffer'[e] = buffer[e] /\ c < index'
    <3>1. e \in Cells /\ e < index
      BY <1>2, <2>1, CapType DEF Cells
    <3> QED BY <1>11, <2>1, <3>1
  <2>2. \A c \in Cells : c \in 0..c
    BY CapType DEF Cells
  <2>3. ASSUME NEW c \in Cells PROVE Shows(c) => Shows(c)'
    BY <1>1, <2>1, <2>2, Zenon DEF Shows, NUL
  <2> QED BY <1>1, <2>3, Zenon DEF Located, Cells
<1>13. StaysLocated'
  BY <1>1, <1>12 DEF Undisturbed, StaysLocated
\* An answer ends well now because it did or because its OK has come in.
<1>14. ASSUME EndsWell(buffer, index)', cmd \in Commands
       PROVE  \/ EndsWell(buffer, index) /\ UNCHANGED <<buffer, index>>
              \/ EndsWell(buffer, index) /\ cmd.end = ""
              \/ line[n][1] = "OK"
  <2>1. CASE UNCHANGED <<buffer, index>>
    <3>1. EndsWell(buffer, index)
      BY <1>1, <1>14, <2>1, Zenon DEF EndsWell
    <3> QED BY <2>1, <3>1
  <2>2. CASE Stored(n)
    <3>1. /\ index' - 1 \in index..(index + n - 1)
          /\ (index' - 1) - index + 1 = n
      BY <1>2, <2>2 DEF Stored
    <3>2. index' - 1 \in Cells
      <4>1. index' \in Cells
        BY DEF AtInv, TypeOK, Cells
      <4>2. index \in Nat /\ index' = index + n /\ n > 0 /\ n \in Nat
        BY <1>2, <2>2 DEF Stored
      <4> QED BY <4>1, <4>2, CapType DEF Cells
    <3>3. buffer'[index' - 1] = line[n]
      BY <2>2, <3>1, <3>2 DEF Stored
    <3>4. cmd.end = "" \/ line[n][1] = cmd.end
      BY <1>1, <1>14, <3>3, Zenon DEF EndsWell
    <3> QED BY <1>14, <3>4, Shapes, Zenon DEF EndsWell
  <2> QED BY <2>1, <2>2
<1>15. n \in 1..n
  BY <1>2
<1>16. Matched'
  <2>1. pc = "compare" => cmd \in Commands
    BY DEF AtInv, Armed
  <2>2. ASSUME pc = "compare", EndsWell(buffer, index)', ~Early(cmd)
        PROVE  Unasked(line')
    BY <1>5, <1>6, <1>14, <1>15, <2>1, <2>2, Zenon DEF Undisturbed, Matched
  <2> QED BY <1>1, <2>2, Zenon DEF Matched, Early, Unasked
<1>17. TimedOut'
  <2> SUFFICES ASSUME due PROVE TimedOut'
    BY <1>1 DEF TimedOut
  <2>1. /\ pc \in {"idle", "search", "compare", "timer"}
        /\ Unasked(line) /\ ~torn /\ ~(Found(buffer) /\ EndsWell(buffer, index))
    BY DEF Undisturbed, TimedOut
  <2>2. armed /\ cmd \in Commands
    BY DEF Clock, AtInv, Armed
  <2>3. ASSUME NEW c \in Cells, buffer'[c][2] # 0
        PROVE  c < index /\ buffer'[c] = buffer[c]
    <3>1. IF c < index THEN buffer[c] # NUL ELSE buffer[c][2] = 0
      BY <2>1, <2>2 DEF Undisturbed, Filled
    <3>2. \A k \in 1..n : line[k][2] = 0
      BY <1>4, <2>1 DEF Unasked
    <3>3. buffer'[c] = buffer[c]
      BY <1>3, <2>3, <3>2
    <3> QED BY <2>3, <3>1, <3>3
  <2>4. ASSUME Found(buffer)' PROVE Found(buffer)
    <3>1. (TypeOK /\ cmd \in Commands)'
      BY <1>1, <2>2 DEF AtInv
    <3>2. (\A c \in Cells : c < index \/ buffer[c][2] = 0)'
      BY <1>1, <1>10, <2>1, <2>2 DEF Filled
    <3>3. (TypeOK /\ cmd \in Commands /\ Found(buffer)
             /\ (\A c \in Cells : c < index \/ buffer[c][2] = 0) => Located)'
      BY FoundIsLocated, PTL
    <3>4. Located'
      BY <2>4, <3>1, <3>2, <3>3
    <3>5. ASSUME NEW c \in Cells, buffer'[c][1] = cmd.exp
          PROVE  cmd.exp = "" \/ (c < index /\ buffer'[c] = buffer[c])
      <4>1. buffer'[c] \in Pieces \cup {NUL}
        BY DEF AtInv, TypeOK, Cells
      <4>2. cmd.exp = "" \/ buffer'[c][2] # 0
        BY <2>2, <3>5, <4>1, PieceKinds, Shapes
      <4> QED BY <2>3, <4>2
    <3>6. ASSUME NEW c \in Cells, c < index, NEW e \in 0..c
          PROVE  buffer'[e] = buffer[e]
      <4>1. e \in Cells /\ e < index
        BY <1>2, <3>6, CapType DEF Cells
      <4> QED BY <1>11, <4>1
    <3>7. ASSUME NEW c \in Cells PROVE Shows(c)' => cmd.exp = "" \/ Shows(c)
      BY <1>1, <3>5, <3>6, Zenon DEF Shows, NUL
    <3>8. Located
      BY <1>1, <3>4, <3>7, Zenon DEF Located, Cells
    <3> QED BY <3>8, LocatedIsFound
  <2>5. ~(Found(buffer) /\ EndsWell(buffer, index))'
    <3>1. line[n][1] # "OK"
      BY <1>2, <2>1, PieceKinds DEF Unasked
    <3> QED BY <1>14, <2>1, <2>2, <2>4, <3>1
  <2> QED BY <1>1, <1>5, <2>1, <2>5 DEF TimedOut
<1>18. WholeAnswer'
  <2>1. ASSUME armed, ~Early(cmd), cmd.end = "",
               NEW c \in Cells, buffer'[c][1] = "OK"
        PROVE  Unasked(line')
    <3>1. CASE buffer'[c] = buffer[c]
      BY <1>5, <2>1, <3>1 DEF Undisturbed, WholeAnswer
    <3>2. CASE \E k \in 1..n : buffer'[c] = line[k]
      BY <1>6, <2>1, <3>2
    <3> QED BY <1>3, <3>1, <3>2
  <2>2. ASSUME armed, ~Early(cmd), (Found(buffer) /\ EndsWell(buffer, index))'
        PROVE  Unasked(line')
    <3>1. cmd \in Commands
      BY <2>2 DEF AtInv, Armed
    <3>2. CASE EndsWell(buffer, index) /\ UNCHANGED <<buffer, index>>
      <4>1. Found(buffer)
        BY <1>1, <2>2, <3>2 DEF Found, Seen, Cells, NUL
      <4> QED BY <1>5, <2>2, <3>2, <4>1 DEF Undisturbed, WholeAnswer
    <3>3. CASE cmd.end = ""
      <4>1. cmd.exp = "OK"
        BY <2>2, <3>1, <3>3, Shapes
      <4>2. \E c \in Cells : buffer'[c][1] = "OK"
        BY <1>1, <2>2, <4>1 DEF Found, Seen, Cells
      <4> QED BY <2>1, <2>2, <3>3, <4>2
    <3>4. CASE line[n][1] = "OK"
      BY <1>6, <1>15, <3>4
    <3> QED BY <1>14, <2>2, <3>1, <3>2, <3>3, <3>4
  <2> QED BY <1>1, <2>1, <2>2, Zenon DEF WholeAnswer, Early, Cells, Unasked
<1> QED BY <1>7, <1>8, <1>9, <1>10, <1>13, <1>16, <1>17, <1>18 DEF Undisturbed

-----------------------------------------------------------------------------

LEMMA AnswerInit == ASSUME Init PROVE AnswerInv
<1>1. armed = FALSE /\ due = FALSE /\ pc = "idle" /\ line = <<>> /\ AtInv
  BY AtInit DEF Init
<1>2. Unasked(line) /\ OneAnswer
  BY <1>1 DEF Unasked, OneAnswer
<1>3. Clock /\ Undisturbed
  BY <1>1, <1>2 DEF Clock, Undisturbed, NothingLeft, Own, Fresh, TimedOut,
    WholeAnswer, Matched, Filled, StaysLocated
<1> QED BY <1>1, <1>3 DEF AnswerInv

LEMMA AnswerStep == ASSUME AnswerInv, [Next]_vars PROVE AnswerInv'
<1>1. AtInv /\ Clock /\ AtInv' /\ Clock'
  BY AtInvStep, ClockStep DEF AnswerInv
<1> SUFFICES ASSUME ~disturbed' PROVE Undisturbed'
  BY <1>1 DEF AnswerInv
<1>2. ~disturbed
  BY DEF Next, StartChain, MainLoop, Run, Callback, TakeFlag, Search,
    CompareFails, Complete, WipeIndex, WipeBuffer, NotDue, Resend, GiveUp,
    Forget, CallbackSends, CallbackReturns, CallbackResets, SendIndex, SendRaw,
    ReceiveIsr, Unsolicited, Expire, BeginSend, vars, mishaps
<1>3. Undisturbed
  BY <1>2 DEF AnswerInv
<1>4. CASE StartChain
  BY <1>1, <1>3, <1>4, SendingStep DEF StartChain
<1>5. CASE CallbackSends
  <2>1. ~armed
    BY <1>1, <1>5 DEF CallbackSends, AtInv, Armed
  <2> QED BY <1>1, <1>3, <1>5, <2>1, SendingStep DEF CallbackSends
<1>6. CASE UNCHANGED vars
  <2>1. /\ UNCHANGED <<buffer, index, cmd, armed, due, pc, event, line, torn,
                       issued>>
    BY <1>6 DEF vars, rx, atc, control, modem, mishaps, history
  <2> QED BY <1>3, <2>1 DEF Undisturbed, NothingLeft, Own, Fresh, OneAnswer,
        TimedOut, WholeAnswer, Matched, Filled, StaysLocated, Located, Shows,
        Found, EndsWell, Seen, Unasked, Early, Cells, NUL
<1> QED
  BY <1>1, <1>3, <1>4, <1>5, <1>6, LookStep, CompleteStep, ClearStep,
     ResendStep, GiveUpStep, CallbackEndsStep, SendIndexStep, SendRawStep,
     ReceiveStep, UnsolicitedStep, ExpireStep
  DEF Next, MainLoop, Run, Callback

LEMMA AnswerInvariant == Spec => []AnswerInv
BY AnswerInit, AnswerStep, PTL DEF Spec

-----------------------------------------------------------------------------

\* gsm_hw_layer_run hands a callback the answer to its own command and nothing
\* left over from an earlier one, for every size of the buffer, every set of
\* commands and any number of retries, as long as no timeout has passed before
\* an answer was in, whole, and looked at, no command was sent before the rest
\* of the answer to an early one was in, and the buffer has not overflowed.
THEOREM AtOwnAnswer == Spec => OwnAnswer
<1>1. ASSUME AnswerInv, Complete, ~disturbed
      PROVE  \A c \in Cells : buffer[c][2] \in {0, issued}
  <2>1. armed
    BY <1>1 DEF AnswerInv, AtInv, Armed, Complete
  <2> QED BY <1>1, <2>1 DEF AnswerInv, Undisturbed, Own
<1>2. AnswerInv /\ [Next]_vars
        => [Complete /\ ~disturbed
              => \A c \in Cells : buffer[c][2] \in {0, issued}]_vars
  BY <1>1
<1> QED BY <1>2, AnswerInvariant, PTL DEF Spec, OwnAnswer

\* What gsm_hw_layer_run has found is still in the buffer when the callback
\* reads it, whatever the interrupt has appended in between.
THEOREM AtCallbackReadsAnswer == Spec => []CallbackReadsAnswer
<1>1. AnswerInv => CallbackReadsAnswer
  BY LocatedIsFound DEF AnswerInv, Undisturbed, StaysLocated, CallbackReadsAnswer
<1> QED BY <1>1, AnswerInvariant, PTL
=============================================================================
