---------------------------- MODULE GsmUtilities ----------------------------
(***************************************************************************)
(* The parsers of gsm_utilities.c that fill a buffer of the manager: the   *)
(* digits of an IMEI or IMSI, the digits of a CCID, the quoted name of the *)
(* network operator.  Each is a loop over the answer, one step here for    *)
(* each character.  The loop counters are uint8_t and are compared with    *)
(* strlen.                                                                 *)
(*                                                                         *)
(* text is the answer from the character on that the loop starts at: for   *)
(* the CCID what follows "+QCCID: ", for the operator what begins with     *)
(* "+COPS:".  Without that prefix the parsers write one 0 and return, as   *)
(* they do for an empty text.                                              *)
(***************************************************************************)
EXTENDS Naturals, Sequences, FiniteSets

CONSTANTS
  Digits,       \* the digits told apart
  Others,       \* the other characters told apart
  Quote,        \* the quotation mark
  NUL,          \* the 0 that ends a string
  MaxLen,       \* longest answer: GSM_ATC_BUFFER_SIZE - 1
  CounterWrap,  \* where uint8_t wraps
  MarkCells,    \* length of comma_idx (5)
  ImeiMax,      \* max_lenth of the callers of gsm_utilities_get_imei (16)
  CcidMax,      \* ... of gsm_utilities_get_sim_ccid (20)
  NameMax,      \* ... of gsm_utilities_get_network_operator (32)
  ImeiCells,    \* length of m_gsm_imei and m_sim_imei (16)
  CcidCells,    \* ... of m_sim_ccid (21)
  NameCells     \* ... of m_nw_operator (32)

Chars == Digits \cup Others

\* A full AT buffer holds one character less than uint8_t counts to.  The
\* callers' buffers are as long as max_lenth at least.
ASSUME ParserAssumption ==
  /\ Digits \cap Others = {}
  /\ Quote \in Others
  /\ NUL \notin Chars
  /\ MaxLen \in Nat
  /\ CounterWrap \in Nat
  /\ MaxLen < CounterWrap
  /\ MarkCells \in Nat /\ MarkCells >= 2
  /\ {ImeiMax, CcidMax, NameMax} \subseteq Nat \ {0}
  /\ {ImeiCells, CcidCells, NameCells} \subseteq Nat
  /\ ImeiMax <= ImeiCells /\ CcidMax <= CcidCells /\ NameMax <= NameCells

VARIABLES
  fn,         \* the parser that was called
  pc,         \* in the "loop", behind it ("end"), "done", or "lost": nobody
              \* knows what the function does
  text,       \* the answer
  count,      \* loop counter
  tmp_count,  \* digits stored
  comma_idx,  \* where quotation marks were found
  result,     \* the buffer of the caller
  top         \* history: result[0..(top - 1)] has been written at most, in
              \* the buffer or behind it

loop == <<count, tmp_count, comma_idx>>
buffer == <<result, top>>
vars == <<fn, pc, text, loop, buffer>>

NumberParsers == {"imei", "ccid"}
Parsers == NumberParsers \cup {"operator"}
MaxLenth == [f \in NumberParsers |-> IF f = "imei" THEN ImeiMax ELSE CcidMax]
BufferLen ==
  [f \in Parsers |-> CASE f = "imei" -> ImeiCells
                       [] f = "ccid" -> CcidCells
                       [] OTHER      -> NameCells]

\* The cells of the caller's buffer.
Cells == 0..(BufferLen[fn] - 1)

\* result[c] = v.  Behind the buffer some other variable is overwritten.
Put(c, v) == result' = [d \in Cells |-> IF d = c THEN v ELSE result[d]]

\* What C finds at an index of the answer.
CharAt(i) == IF i < Len(text) THEN text[i + 1] ELSE NUL

Texts == UNION {[1..n -> Chars] : n \in 0..MaxLen}

\* A parser has been called; the buffer is zero or holds an older, longer
\* result, with a 0 in its last cell.
Init ==
  /\ fn \in Parsers
  /\ text \in Texts
  /\ pc = "loop"
  /\ count = 0 /\ tmp_count = 0 /\ comma_idx = <<>>
  /\ \E old \in Digits \cup {NUL} :
       result = [c \in Cells |-> IF \/ fn = "operator" /\ c = 0
                                    \/ c = BufferLen[fn] - 1
                                 THEN NUL ELSE old]
  /\ top = IF fn = "operator" THEN 1 ELSE 0

-----------------------------------------------------------------------------

Written(cells) == top' = IF cells > top THEN cells ELSE top

\* Mutant: the 0 at the end of the string is looked at too.
MoreOrEnd == pc = "loop" /\ count <= Len(text)

\* The condition of the loops.
More == pc = "loop" /\ count < Len(text)

NextChar == count' = (count + 1) % CounterWrap

\* Mutant: the room is tested one digit late.
StoreDigitLate ==
  /\ More
  /\ fn \in NumberParsers
  /\ CharAt(count) \in Digits
  /\ tmp_count' = tmp_count + 1
  /\ Written(tmp_count + 1)
  /\ IF tmp_count' > MaxLenth[fn]
     THEN /\ Put(tmp_count, NUL)
          /\ pc' = "end"
          /\ UNCHANGED count
     ELSE /\ Put(tmp_count, CharAt(count))
          /\ NextChar
          /\ UNCHANGED pc
  /\ UNCHANGED <<fn, text, comma_idx>>

\* A digit is stored.  When max_lenth of them are in, the last one is replaced
\* by the 0 and the loop is left.
StoreDigit ==
  /\ More
  /\ fn \in NumberParsers
  /\ CharAt(count) \in Digits
  /\ tmp_count' = tmp_count + 1
  /\ Written(tmp_count + 1)
  /\ IF tmp_count' >= MaxLenth[fn]
     THEN /\ Put(tmp_count, NUL)
          /\ pc' = "end"
          /\ UNCHANGED count
     ELSE /\ Put(tmp_count, CharAt(count))
          /\ NextChar
          /\ UNCHANGED pc
  /\ UNCHANGED <<fn, text, comma_idx>>

\* gsm_utilities_get_imei skips what is not a digit.
SkipOther ==
  /\ More
  /\ fn = "imei"
  /\ CharAt(count) \notin Digits
  /\ NextChar
  /\ UNCHANGED <<fn, pc, text, tmp_count, comma_idx, buffer>>

\* gsm_utilities_get_sim_ccid ends there.
StopAtOther ==
  /\ More
  /\ fn = "ccid"
  /\ CharAt(count) \notin Digits
  /\ pc' = "end"
  /\ UNCHANGED <<fn, text, loop, buffer>>

\* gsm_utilities_get_network_operator notes the quotation marks.
MarkQuote ==
  /\ More
  /\ fn = "operator"
  /\ CharAt(count) = Quote => Len(comma_idx) < MarkCells
  /\ comma_idx' = IF CharAt(count) = Quote THEN Append(comma_idx, count)
                                           ELSE comma_idx
  /\ NextChar
  /\ UNCHANGED <<fn, pc, text, tmp_count, buffer>>

\* A mark for which comma_idx has no cell is written over what lies behind it on
\* the stack.  It may do no harm; if it does, the function is lost.
MarkBehind ==
  /\ More
  /\ fn = "operator"
  /\ CharAt(count) = Quote
  /\ Len(comma_idx) = MarkCells
  /\ pc' \in {"loop", "lost"}
  /\ NextChar
  /\ UNCHANGED <<fn, text, tmp_count, comma_idx, buffer>>

LoopEnds == pc = "end" \/ (pc = "loop" /\ ~More)

\* result[tmp_count] = 0, also when the loop has put a 0 before it.
Terminate ==
  /\ LoopEnds
  /\ fn \in NumberParsers
  /\ Put(tmp_count, NUL)
  /\ Written(tmp_count + 1)
  /\ pc' = "done"
  /\ UNCHANGED <<fn, text, loop>>

\* The name between the first two marks, as far as the max_len of the caller
\* (gsm_data_layer.c:361) allows, goes over what is in the buffer, without a 0
\* behind it.
NameLength ==
  LET between == comma_idx[2] - comma_idx[1]
  IN  (IF between > NameMax THEN NameMax ELSE between) - 1

CopyName ==
  /\ LoopEnds
  /\ fn = "operator"
  /\ IF Len(comma_idx) >= 2
     THEN /\ result' = [c \in Cells |-> IF c < NameLength
                                        THEN CharAt(comma_idx[1] + 1 + c)
                                        ELSE result[c]]
          /\ Written(NameLength)
     ELSE UNCHANGED buffer
  /\ pc' = "done"
  /\ UNCHANGED <<fn, text, loop>>

-----------------------------------------------------------------------------

Next ==
  \/ StoreDigit \/ SkipOther \/ StopAtOther \/ MarkQuote \/ MarkBehind
  \/ Terminate \/ CopyName

Spec == Init /\ [][Next]_vars

\* The main loop runs the parser to its end.
FairSpec == Spec /\ WF_vars(Next)

-----------------------------------------------------------------------------
(* Properties *)

\* The string that begins in cell 0, as far as it is in the buffer.
Str == LET ends == {c \in Cells : result[c] = NUL} \cup {BufferLen[fn]}
           len == CHOOSE c \in ends : \A d \in ends : c <= d
       IN  [i \in 1..len |-> result[i - 1]]

Cut(s, len) == SubSeq(s, 1, IF Len(s) < len THEN Len(s) ELSE len)

DigitPlaces(s) == {i \in 1..Len(s) : s[i] \in Digits}

\* How many digits stand before place i.
Rank(s, i) == Cardinality({j \in DigitPlaces(s) : j < i})

\* The digits of a text: the n-th of them has n - 1 before it.
DigitsOf(s) ==
  [n \in 1..Cardinality(DigitPlaces(s)) |->
     s[CHOOSE i \in DigitPlaces(s) : Rank(s, i) = n - 1]]

\* The digits a text starts with.
Leading(s) ==
  SubSeq(s, 1, Cardinality({n \in 1..Len(s) : \A i \in 1..n : s[i] \in Digits}))

Quotes == {i \in 1..Len(text) : text[i] = Quote}

\* What stands between the first two marks.
Quoted ==
  LET open  == CHOOSE i \in Quotes : \A j \in Quotes : i <= j
      close == CHOOSE i \in Quotes \ {open} : \A j \in Quotes \ {open} : i <= j
  IN  SubSeq(text, open + 1, close - 1)

\* Whatever older text the buffer held, the number that the manager reads
\* (gsm_data_layer.c measures it with strlen) is the beginning of the number
\* in the answer, cut so that it leaves room for its 0.
NumberIsTheAnswers ==
  pc = "done" =>
    /\ fn = "imei" => Str = Cut(DigitsOf(text), ImeiMax - 1)
    /\ fn = "ccid" => Str = Cut(Leading(text), CcidMax - 1)

\* The operator's name stands at the beginning of its buffer.  (The rest of an
\* older, longer name stays behind it.)
NameStartsRight ==
  pc = "done" /\ fn = "operator" /\ Len(comma_idx) > 1 =>
    \A i \in 1..Len(Cut(Quoted, NameMax - 1)) : result[i - 1] = Quoted[i]

\* Nothing is written behind the caller's buffer, with one exception: one 0 in
\* the cell next to it, when it has only max_lenth cells and the answer holds as
\* many digits or more.  m_gsm_imei and m_sim_imei are such buffers.
WritesBounded ==
  top > BufferLen[fn] =>
    /\ fn \in NumberParsers
    /\ BufferLen[fn] = MaxLenth[fn] /\ top = MaxLenth[fn] + 1
    /\ Cardinality(DigitPlaces(text)) >= MaxLenth[fn]

\* Only an answer with more quotation marks than comma_idx has cells can lead
\* the program astray.
LostByMarks == pc = "lost" => Cardinality(Quotes) > MarkCells

\* The parsers against what they are for, for every answer.
ParsersCorrect ==
  NumberIsTheAnswers /\ NameStartsRight /\ WritesBounded /\ LostByMarks

\* The loops end: an answer is never as long as the 8-bit counter is wide.
ParseEnds == <>(pc \in {"done", "lost"})
=============================================================================
