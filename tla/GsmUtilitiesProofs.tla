------------------------- MODULE GsmUtilitiesProofs -------------------------
(***************************************************************************)
(* The parsers of gsm_utilities.c for every answer, every set of           *)
(* characters and every length of the callers' buffers: ParsersCorrect.    *)
(* The parsers are loops, so the induction is the one over their steps:    *)
(* the invariant says what part of the result is in the buffer after each  *)
(* character.                                                              *)
(***************************************************************************)
EXTENDS GsmUtilities, SequenceTheorems, FiniteSetTheorems, TLAPS

\* max_lenth, max_len of the parser that was called.
Max == IF fn = "operator" THEN NameMax ELSE MaxLenth[fn]

\* The digits that stay in the buffer: the last one gives way to the 0.
Kept == IF tmp_count < Max THEN tmp_count ELSE Max - 1

ParserTypes ==
  /\ fn \in Parsers
  /\ pc \in {"loop", "end", "done", "lost"}
  /\ text \in Seq(Chars) /\ Len(text) <= MaxLen
  /\ count \in 0..Len(text)
  /\ tmp_count \in 0..Max
  /\ comma_idx \in Seq(Nat) /\ Len(comma_idx) <= MarkCells
  /\ result \in [Cells -> Chars \cup {NUL}]
  /\ top \in 0..(Max + 1)

\* The loops of the digit parsers end when the buffer is full; before that,
\* top counts what they have stored.
Room ==
  fn \in NumberParsers =>
    /\ pc # "lost"
    /\ pc = "loop" => tmp_count < Max
    /\ top <= IF pc = "done" THEN tmp_count + 1 ELSE tmp_count
    /\ pc = "end" /\ tmp_count = Max => result[Kept] = NUL
    /\ pc = "done" => result[Kept] = NUL

\* gsm_utilities_get_imei has stored the digits it has passed.
ImeiSoFar ==
  fn = "imei" =>
    /\ tmp_count <= Cardinality(DigitPlaces(text))
    /\ tmp_count < Max =>
         tmp_count = Cardinality({j \in DigitPlaces(text) : j <= count})
    /\ pc # "loop" /\ tmp_count < Max => count = Len(text)
    /\ \A c \in 0..(Kept - 1) :
         \E i \in DigitPlaces(text) : Rank(text, i) = c /\ result[c] = text[i]

\* gsm_utilities_get_sim_ccid has stored what it has passed.
CcidSoFar ==
  fn = "ccid" =>
    /\ tmp_count <= Len(text)
    /\ \A i \in 1..tmp_count : text[i] \in Digits
    /\ \A c \in 0..(Kept - 1) : result[c] = text[c + 1]
    /\ tmp_count < Max =>
         /\ tmp_count = count
         /\ pc # "loop" => count = Len(text) \/ text[count + 1] \notin Digits

Noted(i) == \E k \in 1..Len(comma_idx) : comma_idx[k] = i - 1

\* A mark that came when all cells of comma_idx were in use.
Beyond(i) ==
  /\ Len(comma_idx) = MarkCells
  /\ \A k \in 1..Len(comma_idx) : comma_idx[k] < i - 1

\* gsm_utilities_get_network_operator has the places of the marks it has
\* passed, in order, as many as there are cells for, and in the end the name is
\* in the buffer.
OperatorSoFar ==
  fn = "operator" =>
    /\ pc # "end"
    /\ \A k \in 1..Len(comma_idx) :
         comma_idx[k] + 1 \in Quotes /\ comma_idx[k] < count
    /\ \A k, l \in 1..Len(comma_idx) : k < l => comma_idx[k] < comma_idx[l]
    /\ \A i \in Quotes : i <= count => Noted(i) \/ Beyond(i)
    /\ top <= Max
    /\ pc = "lost" => Cardinality(Quotes) > MarkCells
    /\ pc = "done" => count = Len(text)
    /\ pc = "done" /\ Len(comma_idx) > 1 =>
         \A c \in Cells : c < NameLength => result[c] = CharAt(comma_idx[1] + 1 + c)

\* Inductive.
ParserInv ==
  /\ ParserTypes
  /\ Room
  /\ ImeiSoFar
  /\ CcidSoFar
  /\ OperatorSoFar

-----------------------------------------------------------------------------
(* Lengths and counters *)

LEMMA Lengths ==
  ASSUME fn \in Parsers
  PROVE  /\ Max \in Nat /\ Max > 0 /\ BufferLen[fn] \in Nat /\ Max <= BufferLen[fn]
         /\ 0..(Max - 1) \subseteq Cells /\ Cells \subseteq Nat
         /\ fn = "imei" => Max = ImeiMax
         /\ fn = "ccid" => Max = CcidMax
         /\ fn = "operator" => Max = NameMax
<1>1. /\ fn = "imei" => Max = ImeiMax /\ BufferLen[fn] = ImeiCells
      /\ fn = "ccid" => Max = CcidMax /\ BufferLen[fn] = CcidCells
      /\ fn = "operator" => Max = NameMax /\ BufferLen[fn] = NameCells
  BY DEF Max, MaxLenth, BufferLen, Parsers, NumberParsers
<1>2. fn \in {"imei", "ccid", "operator"}
  BY DEF Parsers, NumberParsers
<1>3. /\ ImeiMax \in Nat /\ ImeiMax > 0 /\ CcidMax \in Nat /\ CcidMax > 0
      /\ NameMax \in Nat /\ NameMax > 0
      /\ ImeiCells \in Nat /\ CcidCells \in Nat /\ NameCells \in Nat
      /\ ImeiMax <= ImeiCells /\ CcidMax <= CcidCells /\ NameMax <= NameCells
  BY ParserAssumption
<1>4. /\ Max \in Nat /\ Max > 0 /\ BufferLen[fn] \in Nat /\ Max <= BufferLen[fn]
  BY <1>1, <1>2, <1>3
<1>5. 0..(Max - 1) \subseteq Cells /\ Cells \subseteq Nat
  BY <1>4 DEF Cells
<1> QED BY <1>1, <1>4, <1>5

\* A character is written into its cell, or behind the buffer.
LEMMA PutIs ==
  ASSUME result \in [Cells -> Chars \cup {NUL}],
         NEW c, NEW v \in Chars \cup {NUL}, Put(c, v)
  PROVE  /\ result' \in [Cells -> Chars \cup {NUL}]
         /\ c \in Cells => result'[c] = v
         /\ \A d \in Cells \ {c} : result'[d] = result[d]
  BY DEF Put

\* An answer is shorter than the 8-bit counter is wide.
LEMMA CounterSteps ==
  ASSUME ParserTypes, More
  PROVE  /\ (count + 1) % CounterWrap = count + 1
         /\ count + 1 \in 1..Len(text)
         /\ CharAt(count) = text[count + 1] /\ CharAt(count) \in Chars
<1>1. /\ count \in Nat /\ Len(text) \in Nat /\ count < Len(text) /\ Len(text) <= MaxLen
      /\ MaxLen \in Nat /\ CounterWrap \in Nat /\ MaxLen < CounterWrap
  BY ParserAssumption DEF ParserTypes, More
<1>2. count + 1 \in 1..Len(text) /\ count + 1 < CounterWrap /\ count + 1 \in Nat
  BY <1>1
<1>3. CharAt(count) = text[count + 1]
  BY <1>1 DEF CharAt
<1>4. text[count + 1] \in Chars
  BY <1>2 DEF ParserTypes
<1> QED BY <1>1, <1>2, <1>3, <1>4

-----------------------------------------------------------------------------
(* The digits of a text *)

LEMMA PlacesFinite ==
  ASSUME NEW s \in Seq(Chars), NEW S \in SUBSET DigitPlaces(s)
  PROVE  IsFiniteSet(S) /\ Cardinality(S) \in Nat
<1>1. Len(s) \in Nat /\ S \subseteq 1..Len(s)
  BY DEF DigitPlaces
<1>2. IsFiniteSet(1..Len(s))
  BY <1>1, FS_Interval
<1> QED BY <1>1, <1>2, FS_Subset, FS_CardinalityType

\* Of two digits the later one has more before it.
LEMMA RankGrows ==
  ASSUME NEW s \in Seq(Chars), NEW i \in DigitPlaces(s), NEW j \in DigitPlaces(s),
         i < j
  PROVE  Rank(s, i) < Rank(s, j)
<1> DEFINE A == {k \in DigitPlaces(s) : k < i}
           B == {k \in DigitPlaces(s) : k < j}
<1>1. DigitPlaces(s) \subseteq Nat
  BY DEF DigitPlaces
<1>2. A \subseteq B /\ i \in B /\ i \notin A /\ A \in SUBSET DigitPlaces(s)
      /\ B \in SUBSET DigitPlaces(s)
  BY <1>1
<1>3. IsFiniteSet(A) /\ IsFiniteSet(B)
  BY <1>2, PlacesFinite
<1> HIDE DEF A, B
<1>4. A # B
  BY <1>2
<1>5. Cardinality(A) < Cardinality(B)
  BY <1>2, <1>3, <1>4, FS_Subset, FS_CardinalityType
<1> QED BY <1>5 DEF A, B, Rank

\* A place is told by the number of digits before it.
LEMMA RankUnique ==
  ASSUME NEW s \in Seq(Chars), NEW i \in DigitPlaces(s), NEW j \in DigitPlaces(s),
         Rank(s, i) = Rank(s, j)
  PROVE  i = j
<1>1. i \in Nat /\ j \in Nat
  BY DEF DigitPlaces
<1>2. Rank(s, i) \in Nat
  BY PlacesFinite DEF Rank
<1>3. ~(i < j) /\ ~(j < i)
  BY <1>2, RankGrows
<1> QED BY <1>1, <1>3

\* So it finds the digit.
LEMMA NthDigit ==
  ASSUME NEW s \in Seq(Chars), NEW i \in DigitPlaces(s), NEW n \in Nat,
         Rank(s, i) = n - 1, n \in 1..Cardinality(DigitPlaces(s))
  PROVE  DigitsOf(s)[n] = s[i]
<1>1. (CHOOSE k \in DigitPlaces(s) : Rank(s, k) = n - 1) = i
  BY RankUnique
<1> QED BY <1>1 DEF DigitsOf

\* The digits up to one more character.
LEMMA OneMoreChar ==
  ASSUME NEW s \in Seq(Chars), NEW n \in Nat, n < Len(s)
  PROVE  /\ s[n + 1] \notin Digits =>
              {j \in DigitPlaces(s) : j <= n + 1} = {j \in DigitPlaces(s) : j <= n}
         /\ s[n + 1] \in Digits =>
              /\ n + 1 \in DigitPlaces(s)
              /\ Rank(s, n + 1) = Cardinality({j \in DigitPlaces(s) : j <= n})
              /\ Cardinality({j \in DigitPlaces(s) : j <= n + 1})
                   = Cardinality({j \in DigitPlaces(s) : j <= n}) + 1
<1> DEFINE A == {j \in DigitPlaces(s) : j <= n}
           B == {j \in DigitPlaces(s) : j <= n + 1}
<1>1. DigitPlaces(s) \subseteq Nat /\ n + 1 \in 1..Len(s)
  BY DEF DigitPlaces
<1>2. CASE s[n + 1] \notin Digits
  <2>1. n + 1 \notin DigitPlaces(s)
    BY <1>2 DEF DigitPlaces
  <2>2. B = A
    BY <1>1, <2>1
  <2> QED BY <1>2, <2>2
<1>3. CASE s[n + 1] \in Digits
  <2>1. n + 1 \in DigitPlaces(s)
    BY <1>1, <1>3 DEF DigitPlaces
  <2>2. B = A \cup {n + 1} /\ n + 1 \notin A
    BY <1>1, <2>1
  <2>3. {j \in DigitPlaces(s) : j < n + 1} = A
    BY <1>1
  <2>4. IsFiniteSet(A)
    BY PlacesFinite
  <2> HIDE DEF A, B
  <2>5. Cardinality(B) = Cardinality(A) + 1
    BY <2>2, <2>4, FS_AddElement
  <2> QED BY <1>3, <2>1, <2>3, <2>5 DEF A, B, Rank
<1> QED BY <1>2, <1>3

-----------------------------------------------------------------------------
(* The steps of the digit parsers *)

LEMMA ParserStarts == Init => ParserInv
<1> SUFFICES ASSUME Init PROVE ParserInv
  OBVIOUS
<1>1. /\ fn \in Parsers /\ pc = "loop" /\ count = 0 /\ tmp_count = 0
      /\ comma_idx = <<>> /\ top = IF fn = "operator" THEN 1 ELSE 0
  BY DEF Init
<1>2. text \in Seq(Chars) /\ Len(text) <= MaxLen /\ Len(text) \in Nat
  <2>1. PICK n \in 0..MaxLen : text \in [1..n -> Chars]
    BY DEF Init, Texts
  <2>2. n \in Nat /\ n <= MaxLen
    BY <2>1, ParserAssumption
  <2> QED BY <2>1, <2>2
<1>3. result \in [Cells -> Chars \cup {NUL}]
  BY DEF Init, Chars, Parsers, NumberParsers
<1>4. Max \in Nat /\ Max > 0
  BY <1>1, Lengths
<1>5. Kept = 0
  BY <1>1, <1>4 DEF Kept
<1>6. ParserTypes
  BY <1>1, <1>2, <1>3, <1>4, ParserAssumption DEF ParserTypes
<1>7. ImeiSoFar
  <2>1. {j \in DigitPlaces(text) : j <= count} = {}
    BY <1>1, <1>2 DEF DigitPlaces
  <2>2. Cardinality({}) = 0
    BY FS_EmptySet
  <2>3. Cardinality(DigitPlaces(text)) \in Nat
    BY <1>2, PlacesFinite
  <2>4. 0..(Kept - 1) = {}
    BY <1>5
  <2>5. tmp_count <= Cardinality(DigitPlaces(text))
    BY <1>1, <2>3
  <2>6. tmp_count = Cardinality({j \in DigitPlaces(text) : j <= count})
    BY <1>1, <2>1, <2>2
  <2> QED BY <1>1, <2>4, <2>5, <2>6 DEF ImeiSoFar
<1>8. CcidSoFar
  BY <1>1, <1>2, <1>5 DEF CcidSoFar
<1>9. OperatorSoFar
  BY <1>1, <1>2, <1>4 DEF OperatorSoFar, Quotes
<1>10. Room
  BY <1>1, <1>4 DEF Room, NumberParsers
<1> QED BY <1>6, <1>7, <1>8, <1>9, <1>10 DEF ParserInv

LEMMA StoreStep == ASSUME ParserInv, StoreDigit PROVE ParserInv'
<1>1. /\ fn \in NumberParsers /\ fn # "operator" /\ More /\ pc = "loop"
      /\ fn' = fn /\ text' = text /\ comma_idx' = comma_idx
      /\ tmp_count' = tmp_count + 1
      /\ top' = (IF tmp_count + 1 > top THEN tmp_count + 1 ELSE top)
      /\ Cells' = Cells
  BY DEF StoreDigit, NumberParsers, More, Written, Cells
<1>2. /\ text \in Seq(Chars) /\ Len(text) \in Nat /\ count \in Nat
      /\ tmp_count \in Nat /\ tmp_count < Max /\ top \in Nat /\ top <= tmp_count
      /\ Max \in Nat /\ Max' = Max
      /\ count < Len(text) /\ result \in [Cells -> Chars \cup {NUL}]
  BY <1>1, Lengths DEF ParserInv, ParserTypes, Room, Max, More
<1>3. /\ (count + 1) % CounterWrap = count + 1 /\ count + 1 \in 1..Len(text)
      /\ CharAt(count) = text[count + 1] /\ CharAt(count) \in Chars
      /\ text[count + 1] \in Digits
  <2>1. CharAt(count) \in Digits
    BY DEF StoreDigit
  <2> QED BY <1>1, <2>1, CounterSteps DEF ParserInv
<1>4. Kept = tmp_count /\ tmp_count \in Cells
  BY <1>1, <1>2, Lengths DEF Kept, ParserInv, ParserTypes
<1>5. OperatorSoFar'
  BY <1>1 DEF OperatorSoFar
<1>6. ASSUME fn = "imei"
      PROVE  /\ count + 1 \in DigitPlaces(text) /\ Rank(text, count + 1) = tmp_count
             /\ tmp_count + 1 = Cardinality({j \in DigitPlaces(text) : j <= count + 1})
             /\ tmp_count + 1 <= Cardinality(DigitPlaces(text))
             /\ \A c \in 0..(tmp_count - 1) :
                  \E i \in DigitPlaces(text) : Rank(text, i) = c /\ result[c] = text[i]
  <2>1. /\ tmp_count = Cardinality({j \in DigitPlaces(text) : j <= count})
        /\ \A c \in 0..(tmp_count - 1) :
             \E i \in DigitPlaces(text) : Rank(text, i) = c /\ result[c] = text[i]
    BY <1>2, <1>4, <1>6 DEF ParserInv, ImeiSoFar
  <2>2. /\ count + 1 \in DigitPlaces(text) /\ Rank(text, count + 1) = tmp_count
        /\ tmp_count + 1 = Cardinality({j \in DigitPlaces(text) : j <= count + 1})
    BY <1>2, <1>3, <2>1, OneMoreChar
  <2>3. Cardinality({j \in DigitPlaces(text) : j <= count + 1})
          <= Cardinality(DigitPlaces(text))
    BY <1>2, PlacesFinite, FS_Subset
  <2> QED BY <2>1, <2>2, <2>3
<1>7. ASSUME fn = "ccid"
      PROVE  /\ tmp_count = count /\ \A i \in 1..(tmp_count + 1) : text[i] \in Digits
             /\ \A c \in 0..(tmp_count - 1) : result[c] = text[c + 1]
  <2>1. /\ tmp_count = count /\ \A i \in 1..tmp_count : text[i] \in Digits
        /\ \A c \in 0..(tmp_count - 1) : result[c] = text[c + 1]
    BY <1>2, <1>4, <1>7 DEF ParserInv, CcidSoFar
  <2> QED BY <1>2, <1>3, <2>1
<1>8. CASE tmp_count + 1 >= Max
  <2>1. Put(tmp_count, NUL) /\ pc' = "end" /\ count' = count /\ tmp_count' = Max
    BY <1>1, <1>2, <1>8 DEF StoreDigit, Max
  <2>2. Kept' = tmp_count
    BY <1>1, <1>2, <2>1 DEF Kept
  <2>3. /\ result' \in [Cells -> Chars \cup {NUL}] /\ result'[tmp_count] = NUL
        /\ \A c \in 0..(tmp_count - 1) : result'[c] = result[c]
    <3>1. \A c \in 0..(tmp_count - 1) : c \in Cells \ {tmp_count}
      BY <1>2, Lengths DEF ParserInv, ParserTypes
    <3> QED BY <1>2, <1>4, <2>1, <3>1, PutIs
  <2>4. ParserTypes'
    BY <1>1, <1>2, <2>1, <2>3 DEF ParserInv, ParserTypes
  <2>5. Room'
    BY <1>1, <1>2, <2>1, <2>2, <2>3 DEF Room
  <2>6. ImeiSoFar'
    BY <1>1, <1>2, <1>6, <2>1, <2>2, <2>3 DEF ImeiSoFar
  <2>7. CcidSoFar'
    BY <1>1, <1>2, <1>7, <2>1, <2>2, <2>3 DEF CcidSoFar
  <2> QED BY <1>5, <2>4, <2>5, <2>6, <2>7 DEF ParserInv
<1>9. CASE ~(tmp_count + 1 >= Max)
  <2>1. Put(tmp_count, text[count + 1]) /\ pc' = "loop" /\ count' = count + 1
    BY <1>1, <1>2, <1>3, <1>9 DEF StoreDigit, Max, NextChar
  <2>2. Kept' = tmp_count + 1
    BY <1>1, <1>2, <1>9 DEF Kept
  <2>3. /\ result' \in [Cells -> Chars \cup {NUL}] /\ result'[tmp_count] = text[count + 1]
        /\ \A c \in 0..(tmp_count - 1) : result'[c] = result[c]
    <3>1. \A c \in 0..(tmp_count - 1) : c \in Cells \ {tmp_count}
      BY <1>2, Lengths DEF ParserInv, ParserTypes
    <3>2. text[count + 1] \in Chars \cup {NUL}
      BY <1>3
    <3> QED BY <1>2, <1>4, <2>1, <3>1, <3>2, PutIs
  <2>4. ParserTypes'
    BY <1>1, <1>2, <1>3, <1>9, <2>1, <2>3 DEF ParserInv, ParserTypes
  <2>5. Room'
    BY <1>1, <1>2, <1>9, <2>1 DEF Room
  <2>6. ImeiSoFar'
    <3>1. ASSUME fn = "imei", NEW c \in 0..tmp_count
          PROVE  \E i \in DigitPlaces(text) : Rank(text, i) = c /\ result'[c] = text[i]
      <4>1. CASE c = tmp_count
        BY <1>6, <2>3, <3>1, <4>1
      <4>2. CASE c # tmp_count
        <5>1. c \in 0..(tmp_count - 1)
          BY <1>2, <3>1, <4>2
        <5> QED BY <1>6, <2>3, <3>1, <5>1
      <4> QED BY <4>1, <4>2
    <3>2. 0..(Kept' - 1) = 0..tmp_count
      BY <1>2, <2>2
    <3>3. ASSUME fn = "imei"
          PROVE  /\ tmp_count' <= Cardinality(DigitPlaces(text'))
                 /\ tmp_count'
                      = Cardinality({j \in DigitPlaces(text') : j <= count'})
      BY <1>1, <1>6, <2>1, <3>3
    <3>4. ASSUME fn = "imei", NEW c \in 0..(Kept' - 1)
          PROVE  \E i \in DigitPlaces(text') : Rank(text', i) = c /\ result'[c] = text'[i]
      BY <1>1, <3>1, <3>2, <3>4
    <3> QED BY <1>1, <2>1, <3>3, <3>4 DEF ImeiSoFar
  <2>7. CcidSoFar'
    <3>1. ASSUME fn = "ccid", NEW c \in 0..tmp_count
          PROVE  result'[c] = text[c + 1]
      BY <1>2, <1>7, <2>3, <3>1
    <3>2. 0..(Kept' - 1) = 0..tmp_count
      BY <1>2, <2>2
    <3>3. ASSUME fn = "ccid"
          PROVE  /\ tmp_count' = count' /\ tmp_count' <= Len(text')
                 /\ \A i \in 1..tmp_count' : text'[i] \in Digits
      BY <1>1, <1>2, <1>3, <1>7, <2>1, <3>3
    <3>4. ASSUME fn = "ccid", NEW c \in 0..(Kept' - 1)
          PROVE  result'[c] = text'[c + 1]
      BY <1>1, <3>1, <3>2, <3>4
    <3> QED BY <1>1, <2>1, <3>3, <3>4 DEF CcidSoFar
  <2> QED BY <1>5, <2>4, <2>5, <2>6, <2>7 DEF ParserInv
<1> QED BY <1>8, <1>9

LEMMA SkipStep == ASSUME ParserInv, SkipOther PROVE ParserInv'
<1>1. /\ fn = "imei" /\ More /\ pc = "loop" /\ CharAt(count) \notin Digits
      /\ count' = (count + 1) % CounterWrap
      /\ UNCHANGED <<fn, pc, text, tmp_count, comma_idx, result, top>>
  BY DEF SkipOther, More, NextChar, buffer
<1>2. /\ count' = count + 1 /\ count' \in 1..Len(text) /\ text[count + 1] \notin Digits
      /\ count \in Nat /\ count < Len(text) /\ Len(text) \in Nat
      /\ text \in Seq(Chars)
  BY <1>1, CounterSteps DEF ParserInv, ParserTypes, More
<1>3. Max' = Max /\ Kept' = Kept /\ Cells' = Cells
  BY <1>1 DEF Max, Kept, Cells
<1>4. ParserTypes'
  BY <1>1, <1>2, <1>3 DEF ParserInv, ParserTypes
<1>5. ImeiSoFar'
  <2>1. {j \in DigitPlaces(text) : j <= count + 1} = {j \in DigitPlaces(text) : j <= count}
    BY <1>2, OneMoreChar
  <2>2. {j \in DigitPlaces(text') : j <= count'} = {j \in DigitPlaces(text) : j <= count}
    BY <1>1, <1>2, <2>1
  <2> QED BY <1>1, <1>3, <2>2 DEF ParserInv, ImeiSoFar
<1> QED BY <1>1, <1>3, <1>4, <1>5 DEF ParserInv, Room, CcidSoFar, OperatorSoFar

LEMMA StopStep == ASSUME ParserInv, StopAtOther PROVE ParserInv'
<1>1. /\ fn = "ccid" /\ More /\ pc = "loop" /\ CharAt(count) \notin Digits /\ pc' = "end"
      /\ UNCHANGED <<fn, text, count, tmp_count, comma_idx, result, top>>
  BY DEF StopAtOther, More, loop, buffer
<1>2. text[count + 1] \notin Digits
  BY <1>1, CounterSteps DEF ParserInv
<1>3. Max' = Max /\ Kept' = Kept /\ Cells' = Cells
  BY <1>1 DEF Max, Kept, Cells
<1>4. tmp_count < Max /\ Max \in Nat /\ tmp_count \in Nat
  BY <1>1, Lengths DEF ParserInv, ParserTypes, Room, NumberParsers
<1>5. ParserTypes'
  BY <1>1, <1>3 DEF ParserInv, ParserTypes
<1>6. Room'
  BY <1>1, <1>3, <1>4 DEF ParserInv, Room
<1>7. CcidSoFar'
  BY <1>1, <1>2, <1>3 DEF ParserInv, CcidSoFar
<1> QED BY <1>1, <1>5, <1>6, <1>7 DEF ParserInv, ImeiSoFar, OperatorSoFar

LEMMA TerminateStep == ASSUME ParserInv, Terminate PROVE ParserInv'
<1>1. /\ fn \in NumberParsers /\ fn # "operator" /\ LoopEnds
      /\ Put(tmp_count, NUL) /\ pc' = "done"
      /\ top' = (IF tmp_count + 1 > top THEN tmp_count + 1 ELSE top)
      /\ UNCHANGED <<fn, text, count, tmp_count, comma_idx>>
      /\ Cells' = Cells
  BY DEF Terminate, NumberParsers, Written, loop, Cells
<1>2. /\ Max' = Max /\ Kept' = Kept
      /\ Max \in Nat /\ Max > 0 /\ tmp_count \in 0..Max /\ top \in Nat
      /\ 0..(Max - 1) \subseteq Cells /\ Cells \subseteq Nat /\ top <= tmp_count /\ result \in [Cells -> Chars \cup {NUL}]
      /\ pc \in {"loop", "end"}
  <2>1. Max' = Max /\ Kept' = Kept
    BY <1>1 DEF Max, Kept
  <2>2. pc \in {"loop", "end"}
    BY <1>1 DEF LoopEnds
  <2>3. /\ tmp_count \in 0..Max /\ top \in 0..(Max + 1)
        /\ result \in [Cells -> Chars \cup {NUL}]
        /\ Max \in Nat /\ Max > 0 /\ 0..(Max - 1) \subseteq Cells
        /\ Cells \subseteq Nat
    BY Lengths DEF ParserInv, ParserTypes
  <2>4. top <= tmp_count
    BY <1>1, <2>2 DEF ParserInv, Room
  <2> QED BY <2>1, <2>2, <2>3, <2>4
<1>3. /\ result' \in [Cells -> Chars \cup {NUL}]
      /\ tmp_count \in Cells => result'[tmp_count] = NUL
      /\ \A c \in Cells \ {tmp_count} : result'[c] = result[c]
  BY <1>1, <1>2, PutIs
<1>4. /\ Kept \in Cells /\ Kept \in Nat
      /\ \A c \in 0..(Kept - 1) : c \in Cells \ {tmp_count}
  BY <1>1, <1>2 DEF Kept
<1>5. result'[Kept] = NUL
  <2>1. CASE tmp_count < Max
    BY <1>2, <1>3, <2>1 DEF Kept
  <2>2. CASE ~(tmp_count < Max)
    <3>1. tmp_count = Max /\ Kept = Max - 1 /\ pc = "end"
      BY <1>1, <1>2, <2>2 DEF Kept, ParserInv, Room
    <3> QED BY <1>1, <1>2, <1>3, <1>4, <3>1 DEF ParserInv, Room
  <2> QED BY <2>1, <2>2
<1>6. ParserTypes'
  BY <1>1, <1>2, <1>3 DEF ParserInv, ParserTypes
<1>7. Room'
  BY <1>1, <1>2, <1>5 DEF Room
<1>8. count \in 0..Len(text) /\ Len(text) \in Nat
  BY DEF ParserInv, ParserTypes
<1>9. ImeiSoFar'
  <2>1. ASSUME fn = "imei", tmp_count < Max PROVE count = Len(text)
    BY <1>1, <1>2, <1>8, <2>1 DEF ParserInv, ImeiSoFar, LoopEnds, More
  <2>2. ASSUME fn = "imei", NEW c \in 0..(Kept - 1)
        PROVE  \E i \in DigitPlaces(text) : Rank(text, i) = c /\ result'[c] = text[i]
    BY <1>3, <1>4, <2>2 DEF ParserInv, ImeiSoFar
  <2> QED BY <1>1, <1>2, <2>1, <2>2 DEF ParserInv, ImeiSoFar
<1>10. CcidSoFar'
  <2>1. ASSUME fn = "ccid", tmp_count < Max
        PROVE  count = Len(text) \/ text[count + 1] \notin Digits
    BY <1>1, <1>2, <1>8, <2>1 DEF ParserInv, CcidSoFar, LoopEnds, More
  <2>2. ASSUME fn = "ccid", NEW c \in 0..(Kept - 1) PROVE result'[c] = text[c + 1]
    BY <1>3, <1>4, <2>2 DEF ParserInv, CcidSoFar
  <2> QED BY <1>1, <1>2, <2>1, <2>2 DEF ParserInv, CcidSoFar
<1> QED BY <1>1, <1>6, <1>7, <1>9, <1>10 DEF ParserInv, OperatorSoFar

-----------------------------------------------------------------------------
(* The steps of gsm_utilities_get_network_operator *)

LEMMA MarkStep == ASSUME ParserInv, MarkQuote PROVE ParserInv'
<1>1. /\ fn = "operator" /\ fn \notin NumberParsers /\ More /\ pc = "loop"
      /\ CharAt(count) = Quote => Len(comma_idx) < MarkCells
      /\ comma_idx' = IF CharAt(count) = Quote THEN Append(comma_idx, count)
                                               ELSE comma_idx
      /\ count' = (count + 1) % CounterWrap
      /\ UNCHANGED <<fn, pc, text, tmp_count, result, top>>
  BY DEF MarkQuote, More, NextChar, buffer, NumberParsers
<1>2. /\ count' = count + 1 /\ count' \in 1..Len(text)
      /\ CharAt(count) = text[count + 1]
      /\ count \in Nat /\ comma_idx \in Seq(Nat) /\ Len(comma_idx) \in Nat
      /\ Len(comma_idx) <= MarkCells /\ MarkCells \in Nat
      /\ Len(text) \in Nat
  <2>1. ParserTypes
    BY DEF ParserInv
  <2>2. /\ (count + 1) % CounterWrap = count + 1 /\ count + 1 \in 1..Len(text)
        /\ CharAt(count) = text[count + 1]
    BY <1>1, <2>1, CounterSteps
  <2>3. /\ text \in Seq(Chars) /\ count \in 0..Len(text)
        /\ comma_idx \in Seq(Nat) /\ Len(comma_idx) <= MarkCells
    BY <2>1 DEF ParserTypes
  <2>4. MarkCells \in Nat
    BY ParserAssumption
  <2>5. Len(text) \in Nat /\ Len(comma_idx) \in Nat /\ count \in Nat
    BY <2>3
  <2> QED BY <1>1, <2>2, <2>3, <2>4, <2>5
<1>3. Max' = Max /\ Cells' = Cells
  BY <1>1 DEF Max, Cells
<1>4. /\ \A k \in 1..Len(comma_idx) :
           comma_idx[k] + 1 \in Quotes /\ comma_idx[k] < count /\ comma_idx[k] \in Nat
      /\ \A k, l \in 1..Len(comma_idx) : k < l => comma_idx[k] < comma_idx[l]
      /\ \A i \in Quotes : i <= count => Noted(i) \/ Beyond(i)
      /\ top <= Max
  BY <1>1, <1>2 DEF ParserInv, OperatorSoFar
<1>5. Quotes' = Quotes /\ Quotes \subseteq 1..Len(text)
  BY <1>1 DEF Quotes
<1>6. CASE text[count + 1] = Quote
  <2>1. /\ comma_idx' \in Seq(Nat) /\ Len(comma_idx') = Len(comma_idx) + 1
        /\ comma_idx'[Len(comma_idx) + 1] = count
        /\ \A k \in 1..Len(comma_idx) : comma_idx'[k] = comma_idx[k]
    BY <1>1, <1>2, <1>6
  <2>2. count + 1 \in Quotes
    BY <1>2, <1>6 DEF Quotes
  <2>3. ASSUME NEW k \in 1..Len(comma_idx')
        PROVE  comma_idx'[k] + 1 \in Quotes /\ comma_idx'[k] < count'
    <3>1. CASE k \in 1..Len(comma_idx)
      <4>1. comma_idx'[k] = comma_idx[k]
        BY <2>1, <3>1
      <4>2. comma_idx[k] + 1 \in Quotes
        BY <1>4, <3>1
      <4>3. comma_idx[k] < count' /\ comma_idx[k] \in Nat
        BY <1>2, <1>4, <3>1
      <4> QED BY <4>1, <4>2, <4>3
    <3>2. CASE k = Len(comma_idx) + 1
      BY <1>2, <2>1, <2>2, <3>2
    <3> QED BY <1>2, <2>1, <3>1, <3>2
  <2>4. ASSUME NEW k \in 1..Len(comma_idx'), NEW l \in 1..Len(comma_idx'), k < l
        PROVE  comma_idx'[k] < comma_idx'[l]
    <3>1. k \in 1..Len(comma_idx)
      BY <1>2, <2>1, <2>4
    <3>2. CASE l \in 1..Len(comma_idx)
      BY <1>4, <2>1, <2>4, <3>1, <3>2
    <3>3. CASE l = Len(comma_idx) + 1
      BY <1>4, <2>1, <3>1, <3>3
    <3> QED BY <1>2, <2>1, <3>2, <3>3
  <2>5. ASSUME NEW i \in Quotes, i <= count'
        PROVE  Noted(i)'
    <3>1. CASE i = count + 1
      BY <1>2, <2>1, <3>1 DEF Noted
    <3>2. CASE i # count + 1
      <4>1. i <= count
        BY <1>2, <1>5, <2>5, <3>2
      <4>2. ~Beyond(i)
        BY <1>1, <1>2, <1>6 DEF Beyond
      <4>3. PICK k \in 1..Len(comma_idx) : comma_idx[k] = i - 1
        BY <1>4, <4>1, <4>2 DEF Noted
      <4> QED BY <1>2, <2>1, <4>3 DEF Noted
    <3> QED BY <3>1, <3>2
  <2>6. ParserTypes'
    <3>1. Len(comma_idx') <= MarkCells
      BY <1>1, <1>2, <1>6, <2>1
    <3> QED BY <1>1, <1>2, <1>3, <2>1, <3>1 DEF ParserInv, ParserTypes
  <2>7. OperatorSoFar'
    BY <1>1, <1>3, <1>4, <1>5, <2>3, <2>4, <2>5 DEF OperatorSoFar
  <2> QED BY <1>1, <2>6, <2>7
          DEF ParserInv, Room, ImeiSoFar, CcidSoFar
<1>7. CASE text[count + 1] # Quote
  <2>1. comma_idx' = comma_idx
    BY <1>1, <1>2, <1>7
  <2>2. ASSUME NEW i \in Quotes, i <= count'
        PROVE  (Noted(i) \/ Beyond(i))'
    <3>1. i # count + 1
      BY <1>7 DEF Quotes
    <3>2. i <= count
      BY <1>2, <1>5, <2>2, <3>1
    <3> QED BY <1>4, <2>1, <3>2 DEF Noted, Beyond
  <2>3. \A k \in 1..Len(comma_idx) : comma_idx[k] < count'
    BY <1>2, <1>4
  <2>4. ParserTypes'
    BY <1>1, <1>2, <1>3, <2>1 DEF ParserInv, ParserTypes
  <2>5. OperatorSoFar'
    BY <1>1, <1>3, <1>4, <1>5, <2>1, <2>2, <2>3 DEF OperatorSoFar
  <2> QED BY <1>1, <2>4, <2>5
          DEF ParserInv, Room, ImeiSoFar, CcidSoFar
<1> QED BY <1>6, <1>7

\* As many marks as there are cells, and one more.
LEMMA MarksExceedCells ==
  ASSUME ParserInv, MarkBehind
  PROVE  Cardinality(Quotes) > MarkCells
<1>1. /\ fn = "operator" /\ More /\ CharAt(count) = Quote
      /\ Len(comma_idx) = MarkCells /\ MarkCells \in Nat
  BY ParserAssumption DEF MarkBehind
<1>2. count + 1 \in 1..Len(text) /\ text[count + 1] = Quote /\ count \in Nat
  BY <1>1, CounterSteps DEF ParserInv, ParserTypes
<1>3. /\ \A k \in 1..MarkCells :
           comma_idx[k] + 1 \in Quotes /\ comma_idx[k] < count /\ comma_idx[k] \in Nat
      /\ \A k, l \in 1..MarkCells : k < l => comma_idx[k] < comma_idx[l]
  BY <1>1 DEF ParserInv, ParserTypes, OperatorSoFar
<1> DEFINE Q == Quotes \ {count + 1}
           note == [k \in 1..MarkCells |-> comma_idx[k] + 1]
<1>4. note \in Injection(1..MarkCells, Q)
  <2>1. note \in [1..MarkCells -> Q]
    BY <1>2, <1>3
  <2>2. ASSUME NEW k \in 1..MarkCells, NEW l \in 1..MarkCells, note[k] = note[l]
        PROVE  k = l
    <3>1. comma_idx[k] = comma_idx[l]
      BY <1>3, <2>2
    <3>2. ~(k < l) /\ ~(l < k)
      BY <1>3, <3>1
    <3> QED BY <1>1, <3>2
  <2> HIDE DEF Q, note
  <2> QED BY <2>1, <2>2 DEF Injection, IsInjective
<1>5. IsFiniteSet(Quotes) /\ count + 1 \in Quotes
  <2>1. IsFiniteSet(1..Len(text))
    BY <1>2, FS_Interval DEF ParserInv, ParserTypes
  <2>2. Quotes \subseteq 1..Len(text) /\ count + 1 \in Quotes
    BY <1>2 DEF Quotes
  <2> QED BY <2>1, <2>2, FS_Subset
<1>6. /\ IsFiniteSet(Q) /\ Cardinality(Q) = Cardinality(Quotes) - 1
      /\ Cardinality(Quotes) \in Nat
  BY <1>5, FS_RemoveElement, FS_CardinalityType
<1>7. IsFiniteSet(1..MarkCells) /\ Cardinality(1..MarkCells) = MarkCells
  BY <1>1, FS_Interval
<1> HIDE DEF Q, note
<1>8. Cardinality(1..MarkCells) <= Cardinality(Q)
  BY <1>4, <1>6, <1>7, FS_Injection
<1> QED BY <1>1, <1>6, <1>7, <1>8

LEMMA MarkBehindStep == ASSUME ParserInv, MarkBehind PROVE ParserInv'
<1>1. /\ fn = "operator" /\ fn \notin NumberParsers /\ More /\ pc = "loop"
      /\ CharAt(count) = Quote /\ Len(comma_idx) = MarkCells
      /\ pc' \in {"loop", "lost"}
      /\ count' = (count + 1) % CounterWrap
      /\ UNCHANGED <<fn, text, tmp_count, comma_idx, result, top>>
  BY DEF MarkBehind, More, NextChar, buffer, NumberParsers
<1>2. /\ count' = count + 1 /\ count' \in 1..Len(text)
      /\ CharAt(count) = text[count + 1]
      /\ count \in Nat /\ comma_idx \in Seq(Nat)
  BY <1>1, CounterSteps DEF ParserInv, ParserTypes
<1>3. Max' = Max /\ Cells' = Cells /\ Quotes' = Quotes /\ Quotes \subseteq Nat
  BY <1>1 DEF Max, Cells, Quotes
<1>4. /\ \A k \in 1..Len(comma_idx) :
           comma_idx[k] + 1 \in Quotes /\ comma_idx[k] < count /\ comma_idx[k] \in Nat
      /\ \A k, l \in 1..Len(comma_idx) : k < l => comma_idx[k] < comma_idx[l]
      /\ \A i \in Quotes : i <= count => Noted(i) \/ Beyond(i)
      /\ top <= Max
  BY <1>1, <1>2 DEF ParserInv, OperatorSoFar
<1>5. ASSUME NEW i \in Quotes, i <= count'
      PROVE  (Noted(i) \/ Beyond(i))'
  <2>1. CASE i = count + 1
    BY <1>1, <1>2, <1>4, <2>1 DEF Beyond
  <2>2. CASE i # count + 1
    <3>1. i <= count
      BY <1>2, <1>3, <1>5, <2>2
    <3> QED BY <1>1, <1>4, <3>1 DEF Noted, Beyond
  <2> QED BY <2>1, <2>2
<1>6. ParserTypes'
  BY <1>1, <1>2, <1>3 DEF ParserInv, ParserTypes
<1>7. \A k \in 1..Len(comma_idx) : comma_idx[k] < count'
  BY <1>2, <1>4
<1>8. OperatorSoFar'
  BY <1>1, <1>3, <1>4, <1>5, <1>7, MarksExceedCells DEF OperatorSoFar
<1> QED BY <1>1, <1>6, <1>8 DEF ParserInv, Room, ImeiSoFar, CcidSoFar

LEMMA CopyStep == ASSUME ParserInv, CopyName PROVE ParserInv'
<1>1. /\ fn = "operator" /\ fn \notin NumberParsers /\ LoopEnds /\ pc' = "done"
      /\ UNCHANGED <<fn, text, count, tmp_count, comma_idx>>
  BY DEF CopyName, loop, NumberParsers
<1>2. /\ Max' = Max /\ Quotes' = Quotes /\ NameLength' = NameLength
      /\ Cells' = Cells /\ Cells \subseteq Nat
      /\ \A i : (Noted(i) \/ Beyond(i))' = (Noted(i) \/ Beyond(i))
  BY <1>1, Lengths
     DEF Max, Quotes, NameLength, Cells, Noted, Beyond, ParserInv, ParserTypes
<1>3. /\ pc = "loop" /\ count = Len(text) /\ top <= Max /\ top \in Nat
      /\ text \in Seq(Chars) /\ Max \in Nat /\ Max > 0
      /\ comma_idx \in Seq(Nat) /\ result \in [Cells -> Chars \cup {NUL}]
  <2>1. pc = "loop" /\ ~More
    BY <1>1 DEF ParserInv, OperatorSoFar, LoopEnds
  <2>2. count \in 0..Len(text) /\ Len(text) \in Nat
    BY DEF ParserInv, ParserTypes
  <2>3. Max \in Nat /\ Max > 0
    BY Lengths DEF ParserInv, ParserTypes
  <2> QED BY <1>1, <2>1, <2>2, <2>3 DEF More, ParserInv, ParserTypes, OperatorSoFar
<1>4. CASE Len(comma_idx) >= 2
  <2>1. /\ result' = [c \in Cells |-> IF c < NameLength
                                      THEN CharAt(comma_idx[1] + 1 + c)
                                      ELSE result[c]]
        /\ top' = IF NameLength > top THEN NameLength ELSE top
    BY <1>4 DEF CopyName, Written
  <2>2. /\ comma_idx[1] \in Nat /\ comma_idx[2] \in Nat
        /\ comma_idx[1] < comma_idx[2]
    <3>1. 1 \in 1..Len(comma_idx) /\ 2 \in 1..Len(comma_idx)
      BY <1>3, <1>4
    <3> QED BY <1>1, <1>3, <3>1 DEF ParserInv, OperatorSoFar
  <2>3. NameLength \in 0..(Max - 1)
    BY <1>1, <1>3, <2>2 DEF NameLength, Max
  <2>4. \A j \in Nat : CharAt(j) \in Chars \cup {NUL}
    BY <1>3 DEF CharAt
  <2>5. result' \in [Cells -> Chars \cup {NUL}]
    <3>1. ASSUME NEW c \in Cells
          PROVE  (IF c < NameLength THEN CharAt(comma_idx[1] + 1 + c) ELSE result[c])
                   \in Chars \cup {NUL}
      <4>1. c \in Nat
        BY <1>2
      <4> QED BY <1>3, <2>2, <2>4, <4>1
    <3> QED BY <2>1, <3>1
  <2>6. top' \in 0..Max
    BY <1>3, <2>1, <2>3
  <2>7. ParserTypes'
    <3>1. result' \in [Cells' -> Chars \cup {NUL}]
      BY <1>2, <2>5
    <3>2. top' \in 0..(Max' + 1)
      BY <1>2, <1>3, <2>6
    <3>3. tmp_count' \in 0..Max'
      BY <1>1, <1>2 DEF ParserInv, ParserTypes
    <3> QED BY <1>1, <3>1, <3>2, <3>3 DEF ParserInv, ParserTypes
  <2>8. \A c \in Cells : c < NameLength => result'[c] = CharAt(comma_idx[1] + 1 + c)
    BY <2>1
  <2>9. \A j : CharAt(j)' = CharAt(j)
    BY <1>1 DEF CharAt
  <2>10. OperatorSoFar'
    BY <1>1, <1>2, <1>3, <2>6, <2>8, <2>9 DEF ParserInv, OperatorSoFar
  <2> QED BY <1>1, <2>7, <2>10 DEF ParserInv, Room, ImeiSoFar, CcidSoFar
<1>5. CASE ~(Len(comma_idx) >= 2)
  <2>1. UNCHANGED <<result, top>>
    BY <1>5 DEF CopyName, buffer
  <2>2. ParserTypes'
    BY <1>1, <1>2, <2>1 DEF ParserInv, ParserTypes
  <2>3. OperatorSoFar'
    BY <1>1, <1>2, <1>3, <1>5, <2>1 DEF ParserInv, OperatorSoFar
  <2> QED BY <1>1, <2>2, <2>3 DEF ParserInv, Room, ImeiSoFar, CcidSoFar
<1> QED BY <1>4, <1>5

-----------------------------------------------------------------------------
(* What the invariant says of a parser that has returned *)

\* The number ends at the first 0, and every cell before it has its digit.
LEMMA StrIsKept ==
  ASSUME ParserInv, pc = "done", fn \in NumberParsers,
         \A c \in 0..(Kept - 1) : result[c] \in Digits
  PROVE  Str = [i \in 1..Kept |-> result[i - 1]]
<1>1. /\ Kept \in Nat /\ Kept \in Cells /\ result[Kept] = NUL /\ Cells \subseteq Nat
      /\ BufferLen[fn] \in Nat /\ Kept < BufferLen[fn]
  <2>1. /\ Max \in Nat /\ Max > 0 /\ 0..(Max - 1) \subseteq Cells /\ tmp_count \in 0..Max
        /\ Cells \subseteq Nat /\ BufferLen[fn] \in Nat /\ Max <= BufferLen[fn]
    BY Lengths DEF ParserInv, ParserTypes
  <2>2. Kept \in 0..(Max - 1)
    BY <2>1 DEF Kept
  <2> QED BY <2>1, <2>2 DEF ParserInv, Room
<1>2. NUL \notin Digits
  BY ParserAssumption DEF Chars
<1> DEFINE ends == {c \in Cells : result[c] = NUL} \cup {BufferLen[fn]}
<1>3. Kept \in ends /\ ends \subseteq Nat
  BY <1>1
<1>4. ASSUME NEW c \in ends PROVE Kept <= c
  BY <1>1, <1>2, <1>4
<1>5. (CHOOSE c \in ends : \A d \in ends : c <= d) = Kept
  <2>1. \A c \in ends : (\A d \in ends : c <= d) => c = Kept
    BY <1>3, <1>4
  <2>2. \A d \in ends : Kept <= d
    BY <1>4
  <2> HIDE DEF ends
  <2> QED BY <1>3, <2>1, <2>2
<1> QED BY <1>5 DEF Str

\* A beginning of a sequence.
LEMMA CutIs ==
  ASSUME NEW S, NEW s \in Seq(S), NEW n \in Nat
  PROVE  LET k == IF Len(s) < n THEN Len(s) ELSE n
         IN  /\ k \in Nat /\ k <= Len(s)
             /\ Len(Cut(s, n)) = k
             /\ Cut(s, n) = [i \in 1..k |-> s[i]]
<1> DEFINE k == IF Len(s) < n THEN Len(s) ELSE n
<1>1. Len(s) \in Nat /\ k \in Nat /\ k <= Len(s)
  OBVIOUS
<1>2. Cut(s, n) = SubSeq(s, 1, k)
  BY DEF Cut
<1> HIDE DEF k
<1>3. SubSeq(s, 1, k) = [i \in 1..k |-> s[i]] /\ Len(SubSeq(s, 1, k)) = k
  BY <1>1
<1> QED BY <1>1, <1>2, <1>3 DEF k

LEMMA ImeiIsRight ==
  ASSUME ParserInv, pc = "done", fn = "imei"
  PROVE  Str = Cut(DigitsOf(text), ImeiMax - 1)
<1> DEFINE N == Cardinality(DigitPlaces(text))
<1>1. /\ Max = ImeiMax /\ Max \in Nat /\ Max > 0 /\ tmp_count \in 0..Max
      /\ text \in Seq(Chars) /\ Len(text) \in Nat
      /\ fn \in NumberParsers
  BY Lengths DEF ParserInv, ParserTypes, NumberParsers
<1>2. /\ tmp_count <= N
      /\ tmp_count < Max =>
           tmp_count = Cardinality({j \in DigitPlaces(text) : j <= count})
      /\ tmp_count < Max => count = Len(text)
      /\ \A c \in 0..(Kept - 1) :
           \E i \in DigitPlaces(text) : Rank(text, i) = c /\ result[c] = text[i]
  BY DEF ParserInv, ImeiSoFar
<1>3. N \in Nat
  BY <1>1, PlacesFinite
<1>4. tmp_count < Max => tmp_count = N
  <2>1. {j \in DigitPlaces(text) : j <= Len(text)} = DigitPlaces(text)
    BY DEF DigitPlaces
  <2> QED BY <1>2, <2>1
<1>5. Kept \in Nat /\ Kept = IF N < Max - 1 THEN N ELSE Max - 1
  <2> HIDE DEF N
  <2> QED BY <1>1, <1>2, <1>3, <1>4 DEF Kept
<1>6. \A c \in 0..(Kept - 1) : result[c] \in Digits
  BY <1>2 DEF DigitPlaces
<1>7. Str = [i \in 1..Kept |-> result[i - 1]]
  BY <1>1, <1>6, StrIsKept
<1> DEFINE d == DigitsOf(text)
           S == {d[n] : n \in 1..N}
<1>8. d \in Seq(S) /\ Len(d) = N
  <2>1. d = [n \in 1..N |-> d[n]]
    BY DEF DigitsOf
  <2> HIDE DEF d, N
  <2>2. d \in [1..N -> S]
    BY <2>1
  <2> QED BY <1>3, <2>2
<1>9. ASSUME NEW n \in 1..Kept PROVE result[n - 1] = DigitsOf(text)[n]
  <2>1. n \in Nat /\ n - 1 \in 0..(Kept - 1) /\ n \in 1..N
    BY <1>3, <1>5
  <2>2. PICK i \in DigitPlaces(text) : Rank(text, i) = n - 1 /\ result[n - 1] = text[i]
    BY <1>2, <2>1
  <2>3. DigitsOf(text)[n] = text[i]
    BY <1>1, <2>1, <2>2, NthDigit
  <2> QED BY <2>2, <2>3
<1> HIDE DEF d, N, S
<1>10. Cut(d, Max - 1) = [i \in 1..Kept |-> d[i]]
  BY <1>1, <1>3, <1>5, <1>8, CutIs
<1>11. Str = [i \in 1..Kept |-> d[i]]
  BY <1>7, <1>9 DEF d
<1> QED BY <1>1, <1>10, <1>11 DEF d

LEMMA CcidIsRight ==
  ASSUME ParserInv, pc = "done", fn = "ccid"
  PROVE  Str = Cut(Leading(text), CcidMax - 1)
<1>1. /\ Max = CcidMax /\ Max \in Nat /\ Max > 0 /\ tmp_count \in 0..Max
      /\ text \in Seq(Chars) /\ Len(text) \in Nat
      /\ fn \in NumberParsers
  BY Lengths DEF ParserInv, ParserTypes, NumberParsers
<1>2. /\ tmp_count <= Len(text)
      /\ \A i \in 1..tmp_count : text[i] \in Digits
      /\ \A c \in 0..(Kept - 1) : result[c] = text[c + 1]
      /\ tmp_count < Max =>
           tmp_count = Len(text) \/ text[tmp_count + 1] \notin Digits
  BY DEF ParserInv, CcidSoFar
<1> DEFINE D == {n \in 1..Len(text) : \A i \in 1..n : text[i] \in Digits}
           L == Cardinality(D)
<1>3. IsFiniteSet(D) /\ L \in Nat /\ L <= Len(text)
  <2>1. D \subseteq 1..Len(text)
    OBVIOUS
  <2>2. IsFiniteSet(1..Len(text)) /\ Cardinality(1..Len(text)) = Len(text)
    BY <1>1, FS_Interval
  <2> HIDE DEF D
  <2> QED BY <2>1, <2>2, FS_Subset, FS_CardinalityType
<1>4. 1..tmp_count \subseteq D
  BY <1>1, <1>2
<1>5. tmp_count <= L /\ (tmp_count < Max => tmp_count = L)
  <2>1. Cardinality(1..tmp_count) = tmp_count
    BY <1>1, FS_Interval
  <2>2. tmp_count < Max => D = 1..tmp_count
    <3>1. SUFFICES ASSUME tmp_count < Max, NEW n \in D PROVE n <= tmp_count
      BY <1>1, <1>4
    <3>2. CASE tmp_count = Len(text)
      BY <3>2
    <3>3. CASE text[tmp_count + 1] \notin Digits
      <4>1. ~(tmp_count + 1 \in 1..n)
        BY <3>3
      <4> QED BY <1>1, <4>1
    <3> QED BY <1>2, <3>1, <3>2, <3>3
  <2> HIDE DEF D
  <2>3. Cardinality(1..tmp_count) <= Cardinality(D)
    BY <1>3, <1>4, FS_Subset
  <2> QED BY <2>1, <2>2, <2>3
<1> HIDE DEF L
<1>6. Kept \in Nat /\ Kept = IF L < Max - 1 THEN L ELSE Max - 1
  BY <1>1, <1>3, <1>5 DEF Kept
<1>7. \A c \in 0..(Kept - 1) : c + 1 \in 1..tmp_count /\ result[c] \in Digits
  BY <1>1, <1>2, <1>6 DEF Kept
<1>8. Str = [i \in 1..Kept |-> result[i - 1]]
  BY <1>1, <1>7, StrIsKept
<1>9. Leading(text) = SubSeq(text, 1, L)
  BY DEF Leading, L
<1>10. /\ SubSeq(text, 1, L) \in Seq(Chars) /\ Len(SubSeq(text, 1, L)) = L
      /\ \A i \in 1..L : SubSeq(text, 1, L)[i] = text[i]
  BY <1>1, <1>3
<1> DEFINE lead == SubSeq(text, 1, L)
<1> HIDE DEF lead
<1>11. Cut(lead, Max - 1) = [i \in 1..Kept |-> lead[i]]
  <2>1. lead \in Seq(Chars) /\ Len(lead) = L /\ L \in Nat
    BY <1>1, <1>3, <1>10 DEF lead
  <2> QED BY <1>1, <1>6, <2>1, CutIs
<1>12. ASSUME NEW i \in 1..Kept PROVE result[i - 1] = lead[i]
  <2>1. i - 1 \in 0..(Kept - 1) /\ i \in 1..L /\ (i - 1) + 1 = i
    BY <1>1, <1>3, <1>6
  <2> QED BY <1>2, <1>10, <2>1 DEF lead
<1> QED BY <1>1, <1>8, <1>9, <1>11, <1>12 DEF lead

\* The first two marks, and what stands between them.
LEMMA QuotedIs ==
  ASSUME ParserInv, pc = "done", fn = "operator", Len(comma_idx) > 1
  PROVE  /\ comma_idx[1] \in Nat /\ comma_idx[2] \in Nat
         /\ comma_idx[1] < comma_idx[2] /\ comma_idx[2] < Len(text)
         /\ Quoted = SubSeq(text, comma_idx[1] + 2, comma_idx[2])
<1>1. /\ text \in Seq(Chars) /\ Len(text) \in Nat /\ count = Len(text)
      /\ comma_idx \in Seq(Nat) /\ Len(comma_idx) \in Nat
      /\ 1 \in 1..Len(comma_idx) /\ 2 \in 1..Len(comma_idx)
  BY DEF ParserInv, ParserTypes, OperatorSoFar
<1>2. /\ \A k \in 1..Len(comma_idx) : comma_idx[k] + 1 \in Quotes /\ comma_idx[k] < count
      /\ \A k, l \in 1..Len(comma_idx) : k < l => comma_idx[k] < comma_idx[l]
      /\ \A i \in Quotes : i <= count => Noted(i) \/ Beyond(i)
  BY DEF ParserInv, OperatorSoFar
<1> DEFINE o == comma_idx[1] + 1
           c == comma_idx[2] + 1
<1>3. /\ comma_idx[1] \in Nat /\ comma_idx[2] \in Nat
      /\ comma_idx[1] < comma_idx[2] /\ comma_idx[2] < Len(text)
      /\ o \in Quotes /\ c \in Quotes /\ o < c /\ o \in Nat /\ c \in Nat
  BY <1>1, <1>2
<1>4. Quotes \subseteq 1..Len(text) /\ Quotes \subseteq Nat
  BY DEF Quotes
<1>5. ASSUME NEW i \in Quotes PROVE i = o \/ i >= c
  <2>1. CASE Noted(i)
    <3>1. PICK k \in 1..Len(comma_idx) : comma_idx[k] = i - 1
      BY <2>1 DEF Noted
    <3>2. CASE k = 1
      BY <1>4, <3>1, <3>2
    <3>3. CASE k = 2
      BY <1>4, <3>1, <3>3
    <3>4. CASE k > 2
      <4>1. comma_idx[2] < comma_idx[k]
        BY <1>1, <1>2, <3>4
      <4> QED BY <1>3, <1>4, <3>1, <4>1
    <3> QED BY <3>2, <3>3, <3>4
  <2>2. CASE Beyond(i)
    <3>1. comma_idx[2] < i - 1
      BY <1>1, <2>2 DEF Beyond
    <3> QED BY <1>3, <1>4, <3>1
  <2> QED BY <1>1, <1>2, <1>4, <2>1, <2>2
<1> HIDE DEF o, c
<1>6. (CHOOSE i \in Quotes : \A j \in Quotes : i <= j) = o
  <2>1. \A j \in Quotes : o <= j
    BY <1>3, <1>4, <1>5
  <2>2. \A i \in Quotes : (\A j \in Quotes : i <= j) => i = o
    BY <1>3, <1>4, <2>1
  <2> QED BY <1>3, <2>1, <2>2
<1>7. (CHOOSE i \in Quotes \ {o} : \A j \in Quotes \ {o} : i <= j) = c
  <2>1. c \in Quotes \ {o} /\ \A j \in Quotes \ {o} : c <= j
    BY <1>3, <1>4, <1>5
  <2>2. \A i \in Quotes \ {o} : (\A j \in Quotes \ {o} : i <= j) => i = c
    BY <1>3, <1>4, <2>1
  <2> QED BY <2>1, <2>2
<1>8. Quoted = SubSeq(text, o + 1, c - 1)
  BY <1>6, <1>7 DEF Quoted
<1>9. o + 1 = comma_idx[1] + 2 /\ c - 1 = comma_idx[2]
  BY <1>3 DEF o, c
<1> QED BY <1>3, <1>8, <1>9

LEMMA NameIsRight ==
  ASSUME ParserInv, pc = "done", fn = "operator", Len(comma_idx) > 1
  PROVE  \A i \in 1..Len(Cut(Quoted, NameMax - 1)) : result[i - 1] = Quoted[i]
<1> DEFINE a == comma_idx[1]
           b == comma_idx[2]
<1>1. /\ Max = NameMax /\ Max \in Nat /\ Max > 0 /\ 0..(Max - 1) \subseteq Cells
      /\ text \in Seq(Chars) /\ Len(text) \in Nat
  BY Lengths DEF ParserInv, ParserTypes
<1>2. a \in Nat /\ b \in Nat /\ a < b /\ b < Len(text)
      /\ Quoted = SubSeq(text, a + 2, b)
  BY QuotedIs
<1>3. \A c \in Cells : c < NameLength => result[c] = CharAt(a + 1 + c)
  BY DEF ParserInv, OperatorSoFar
<1>4. NameLength = (IF b - a > Max THEN Max ELSE b - a) - 1
  BY DEF NameLength, Max
<1> HIDE DEF a, b
<1>5. /\ Quoted \in Seq(Chars) /\ Len(Quoted) = b - a - 1
      /\ \A i \in 1..(b - a - 1) : Quoted[i] = text[a + 1 + i]
  <2> DEFINE m == a + 2
  <2>1. m \in Int /\ b \in Int /\ \A i \in m..b : text[i] \in Chars
    <3>1. \A i \in m..b : i \in 1..Len(text)
      BY <1>1, <1>2
    <3> QED BY <1>1, <1>2, <3>1
  <2>2. b - m + 1 = b - a - 1 /\ \A i \in Int : m + i - 1 = a + 1 + i
    BY <1>2
  <2>3. b - a - 1 = IF m <= b THEN b - m + 1 ELSE 0
    BY <1>2
  <2>4. Quoted = SubSeq(text, m, b)
    BY <1>2
  <2> HIDE DEF m
  <2>5. /\ Quoted \in Seq(Chars)
        /\ Len(Quoted) = IF m <= b THEN b - m + 1 ELSE 0
        /\ \A i \in 1..(b - m + 1) : Quoted[i] = text[m + i - 1]
    BY <2>1, <2>4, SubSeqProperties
  <2>6. ASSUME NEW i \in 1..(b - a - 1) PROVE Quoted[i] = text[a + 1 + i]
    <3>1. i \in 1..(b - m + 1) /\ i \in Int
      BY <2>2
    <3>2. m + i - 1 = a + 1 + i
      BY <2>2, <3>1
    <3> QED BY <2>5, <3>1, <3>2
  <2> QED BY <2>3, <2>5, <2>6
<1>6. Len(Cut(Quoted, Max - 1)) = NameLength /\ NameLength \in Nat
      /\ NameLength <= b - a - 1 /\ NameLength < Max
  <2>1. Max - 1 \in Nat
    BY <1>1
  <2>2. Len(Cut(Quoted, Max - 1)) = IF b - a - 1 < Max - 1 THEN b - a - 1 ELSE Max - 1
    BY <1>5, <2>1, CutIs
  <2> QED BY <1>1, <1>2, <1>4, <2>2
<1>7. ASSUME NEW i \in 1..NameLength PROVE result[i - 1] = Quoted[i]
  <2>1. i \in 1..(b - a - 1) /\ i - 1 \in Nat /\ i - 1 < NameLength /\ i - 1 \in 0..(Max - 1)
    BY <1>1, <1>2, <1>6
  <2>2. result[i - 1] = CharAt(a + 1 + (i - 1))
    BY <1>1, <1>3, <2>1
  <2>3. a + 1 + (i - 1) = a + i /\ a + i < Len(text) /\ a + i + 1 = a + 1 + i
    BY <1>1, <1>2, <2>1
  <2>4. CharAt(a + i) = text[a + 1 + i]
    BY <2>3 DEF CharAt
  <2> QED BY <1>5, <2>1, <2>2, <2>3, <2>4
<1> QED BY <1>1, <1>6, <1>7

-----------------------------------------------------------------------------
(* The theorems *)

LEMMA ParserStep == ASSUME ParserInv, [Next]_vars PROVE ParserInv'
<1>1. CASE StoreDigit
  BY <1>1, StoreStep
<1>2. CASE SkipOther
  BY <1>2, SkipStep
<1>3. CASE StopAtOther
  BY <1>3, StopStep
<1>4. CASE MarkQuote
  BY <1>4, MarkStep
<1>5. CASE Terminate
  BY <1>5, TerminateStep
<1>6. CASE CopyName
  BY <1>6, CopyStep
<1>7. CASE MarkBehind
  BY <1>7, MarkBehindStep
<1>8. CASE UNCHANGED vars
  <2>1. UNCHANGED <<fn, pc, text, count, tmp_count, comma_idx, result, top>>
    BY <1>8 DEF vars, loop, buffer
  <2>2. /\ Max' = Max /\ Quotes' = Quotes /\ NameLength' = NameLength /\ Kept' = Kept
        /\ Cells' = Cells
        /\ \A i : (Noted(i) \/ Beyond(i))' = (Noted(i) \/ Beyond(i))
    BY <2>1 DEF Max, Quotes, NameLength, Kept, Cells, Noted, Beyond
  <2>3. \A j : CharAt(j)' = CharAt(j)
    BY <2>1 DEF CharAt
  <2>4. ParserTypes' /\ Room' /\ ImeiSoFar' /\ CcidSoFar'
    BY <2>1, <2>2 DEF ParserInv, ParserTypes, Room, ImeiSoFar, CcidSoFar
  <2>5. OperatorSoFar'
    BY <2>1, <2>2, <2>3 DEF ParserInv, OperatorSoFar
  <2> QED BY <2>4, <2>5 DEF ParserInv
<1> QED BY <1>1, <1>2, <1>3, <1>4, <1>5, <1>6, <1>7, <1>8 DEF Next

\* In every state of every parser the buffer holds what has been passed.
THEOREM ParserInvariant == Spec => []ParserInv
<1>1. ParserInv /\ [Next]_vars => ParserInv'
  BY ParserStep
<1> QED BY ParserStarts, <1>1, PTL DEF Spec

\* Digits of a number that have been stored are digits of the answer.
LEMMA StoredAreDigits ==
  ASSUME ParserInv, fn \in NumberParsers
  PROVE  /\ tmp_count \in Nat /\ Cardinality(DigitPlaces(text)) \in Nat
         /\ tmp_count <= Cardinality(DigitPlaces(text))
<1>1. text \in Seq(Chars) /\ Len(text) \in Nat /\ tmp_count \in Nat
  BY Lengths DEF ParserInv, ParserTypes
<1>2. IsFiniteSet(DigitPlaces(text)) /\ Cardinality(DigitPlaces(text)) \in Nat
  BY <1>1, PlacesFinite
<1>3. CASE fn = "imei"
  BY <1>1, <1>2, <1>3 DEF ParserInv, ImeiSoFar
<1>4. CASE fn = "ccid"
  <2>1. 1..tmp_count \subseteq DigitPlaces(text)
    BY <1>1, <1>4 DEF ParserInv, CcidSoFar, DigitPlaces
  <2>2. Cardinality(1..tmp_count) = tmp_count
    BY <1>1, FS_Interval
  <2>3. Cardinality(1..tmp_count) <= Cardinality(DigitPlaces(text))
    BY <1>2, <2>1, FS_Subset
  <2> QED BY <1>1, <1>2, <2>2, <2>3
<1> QED BY <1>3, <1>4 DEF NumberParsers

LEMMA WritesAreBounded == ParserInv => WritesBounded
<1> SUFFICES ASSUME ParserInv, top > BufferLen[fn]
             PROVE  /\ fn \in NumberParsers
                    /\ BufferLen[fn] = MaxLenth[fn] /\ top = MaxLenth[fn] + 1
                    /\ Cardinality(DigitPlaces(text)) >= MaxLenth[fn]
  BY DEF WritesBounded
<1>1. /\ Max \in Nat /\ BufferLen[fn] \in Nat /\ Max <= BufferLen[fn]
      /\ top \in 0..(Max + 1) /\ tmp_count \in 0..Max
  BY Lengths DEF ParserInv, ParserTypes
<1>2. fn \in NumberParsers
  <2>1. fn = "operator" => top <= Max
    BY DEF ParserInv, OperatorSoFar
  <2> QED BY <1>1, <2>1 DEF ParserInv, ParserTypes, Parsers
<1>3. top <= tmp_count + 1
  BY <1>1, <1>2 DEF ParserInv, Room
<1>4. tmp_count = Max /\ top = Max + 1 /\ BufferLen[fn] = Max
  BY <1>1, <1>3
<1>5. Cardinality(DigitPlaces(text)) >= Max
  BY <1>2, <1>4, StoredAreDigits
<1>6. Max = MaxLenth[fn]
  BY <1>2 DEF Max, NumberParsers
<1> QED BY <1>2, <1>4, <1>5, <1>6

\* A parser that has returned has left in its buffer the beginning of the IMEI,
\* IMSI or CCID in the answer, or of the operator's name, whatever the answer
\* is and whatever the buffer held.  It writes no cell behind the buffer but the
\* one next to a buffer of max_lenth cells, for max_lenth digits or more, and
\* goes astray only when the marks of the answer outnumber the cells of
\* comma_idx.
THEOREM ParsersAreCorrect == Spec => []ParsersCorrect
<1>1. ParserInv => NumberIsTheAnswers
  BY ImeiIsRight, CcidIsRight DEF NumberIsTheAnswers
<1>2. ParserInv => NameStartsRight
  BY NameIsRight DEF NameStartsRight
<1>3. ParserInv => LostByMarks
  <2> SUFFICES ASSUME ParserInv, pc = "lost" PROVE Cardinality(Quotes) > MarkCells
    BY DEF LostByMarks
  <2>1. fn = "operator"
    BY DEF ParserInv, ParserTypes, Room, Parsers
  <2> QED BY <2>1 DEF ParserInv, OperatorSoFar
<1>4. ParserInv => ParsersCorrect
  BY <1>1, <1>2, <1>3, WritesAreBounded DEF ParsersCorrect
<1> QED BY ParserInvariant, <1>4, PTL
=============================================================================
