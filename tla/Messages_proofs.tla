-------------------------- MODULE Messages_proofs ---------------------------
(***************************************************************************)
(* Proofs about StringBuilder and Messages: whatever is printed and        *)
(* whatever arrives, the builders have room for it; the parser and the     *)
(* receive controller agree about where the header of a response ends; and *)
(* what is printed, sent and received is parsed as it was.                 *)
(***************************************************************************)
EXTENDS Messages, HttpMessage_proofs

-----------------------------------------------------------------------------
(* The capacity of a string builder                                        *)

LEMMA Widths ==
  IntBits \in Nat /\ IntBits > 2
BY BuilderAssumption

LEMMA PowersAreNumbers ==
  ASSUME NEW k \in 0..(2 * IntBits)
  PROVE  Pow2[k] \in Nat
BY BuilderAssumption

(* The table grows: the least k that is no larger than a predecessor would *)
(* have one behind it that is none, too.                                   *)
LEMMA PowersGrow ==
  ASSUME NEW j \in 0..(2 * IntBits), NEW k \in 0..(2 * IntBits), j <= k
  PROVE  Pow2[j] <= Pow2[k]
<1> DEFINE bad == {i \in Nat : i \in 0..(2 * IntBits) /\ j <= i /\ Pow2[j] > Pow2[i]}
<1>0. Pow2[j] \in Nat /\ Pow2[k] \in Nat /\ k \in Nat
  BY PowersAreNumbers, Widths
<1>1. SUFFICES ASSUME bad # {} PROVE FALSE
  <2>1. bad = {} => ~(Pow2[j] > Pow2[k])
    BY <1>0
  <2> QED BY <1>0, <2>1
<1>2. PICK i \in bad : \A h \in bad : i <= h
  <2>1. bad \in SUBSET Nat
    OBVIOUS
  <2> HIDE DEF bad
  <2> QED BY <1>1, <2>1, LeastElement, Zenon
<1>3. i # j
  BY <1>2, PowersAreNumbers
<1>4. i - 1 \in 0..(2 * IntBits) /\ j <= i - 1 /\ i \in 1..(2 * IntBits) /\ i - 1 \notin bad
  BY <1>2, <1>3, BuilderAssumption
<1>5. Pow2[j] <= Pow2[i - 1] /\ Pow2[i] = 2 * Pow2[i - 1]
  BY <1>4, PowersAreNumbers, BuilderAssumption
<1> QED BY <1>2, <1>4, <1>5, PowersAreNumbers

(* A number below the last power has a bit length.                         *)
LEMMA BitLengthBounds ==
  ASSUME NEW x \in Nat, x < Pow2[IntBits]
  PROVE  /\ BitLength(x) \in 0..IntBits
         /\ x < Pow2[BitLength(x)]
         /\ BitLength(x) > 0 => Pow2[BitLength(x) - 1] <= x
<1> DEFINE longer == {k \in Nat : k \in 0..IntBits /\ x < Pow2[k]}
<1>1. longer # {} /\ longer \in SUBSET Nat
  <2>1. IntBits \in longer
    BY Widths
  <2> QED BY <2>1
<1>2. PICK k \in longer : \A h \in longer : k <= h
  <2> HIDE DEF longer
  <2> QED BY <1>1, LeastElement, Zenon
<1>3. ASSUME k > 0 PROVE Pow2[k - 1] <= x
  <2>1. k - 1 \in Nat /\ k - 1 \in 0..IntBits /\ k - 1 \in 0..(2 * IntBits) /\ k - 1 \notin longer
    BY <1>2, <1>3, Widths
  <2>2. Pow2[k - 1] \in Nat /\ ~(x < Pow2[k - 1])
    BY <2>1, PowersAreNumbers
  <2> QED BY <2>2
<1>4. \E h \in 0..IntBits : x < Pow2[h] /\ (h > 0 => Pow2[h - 1] <= x)
  BY <1>2, <1>3
<1> QED BY <1>4 DEF BitLength

(* The conversion to an unsigned keeps what is in its range.               *)
LEMMA SmallIsNotTruncated ==
  ASSUME NEW a \in Nat, NEW b \in Nat, a < b
  PROVE  a % b = a
OBVIOUS

Quarter == Pow2[IntBits - 2]

(* The shift that is made for n bytes gives the next power of 2.           *)
LEMMA ShiftIsNextPower ==
  ASSUME NEW n \in 2..Quarter, NEW s \in Shifts(n)
  PROVE  \E k \in 1..IntBits :
           ShiftedOne(s) = Pow2[k] /\ Pow2[k] \in Nat /\ Pow2[k - 1] < n /\ n <= Pow2[k]
<1> DEFINE x == n - 1
           k == BitLength(x)
<1>1. /\ IntBits - 2 \in 0..(2 * IntBits) /\ Quarter \in Nat /\ IntBits \in 0..(2 * IntBits)
      /\ Quarter <= Pow2[IntBits] /\ Pow2[IntBits] \in Nat
  <2>1. IntBits - 2 \in 0..(2 * IntBits) /\ IntBits \in 0..(2 * IntBits) /\ IntBits - 2 <= IntBits
    BY Widths
  <2> QED BY <2>1, PowersAreNumbers, PowersGrow DEF Quarter
<1>2. x \in Nat /\ x > 0 /\ x < Quarter /\ x < Pow2[IntBits]
  BY <1>1
<1>3. k \in 0..IntBits /\ x < Pow2[k] /\ (k > 0 => Pow2[k - 1] <= x)
  BY <1>2, BitLengthBounds
<1>4. (n - 1) % Pow2[IntBits] = x
  BY <1>1, <1>2, SmallIsNotTruncated
<1>5. s = IntBits + k
  BY <1>2, <1>4 DEF Shifts
<1> HIDE DEF k
<1>6. k > 0
  BY <1>2, <1>3, BuilderAssumption, PowersAreNumbers
<1>7. k - 1 < IntBits - 2
  <2>1. SUFFICES ASSUME IntBits - 2 <= k - 1 PROVE FALSE
    BY <1>3, BuilderAssumption
  <2>2. k - 1 \in 0..(2 * IntBits)
    BY <1>3, <1>6, BuilderAssumption
  <2>3. Pow2[IntBits - 2] <= Pow2[k - 1] /\ Pow2[k - 1] \in Nat
    BY <1>1, <2>1, <2>2, PowersGrow, PowersAreNumbers
  <2> QED BY <1>1, <1>2, <1>3, <1>6, <2>3 DEF Quarter
<1>8. ShiftedOne(s) = Pow2[k]
  BY <1>3, <1>5, <1>6, <1>7, Widths DEF ShiftedOne
<1>9. k \in 1..IntBits /\ Pow2[k] \in Nat /\ Pow2[k - 1] < n /\ n <= Pow2[k]
  <2>1. k \in 1..IntBits /\ k \in 0..(2 * IntBits) /\ k - 1 \in 0..(2 * IntBits)
    BY <1>3, <1>6, Widths
  <2>2. Pow2[k] \in Nat /\ Pow2[k - 1] \in Nat
    BY <2>1, PowersAreNumbers
  <2> QED BY <1>2, <1>3, <1>6, <2>1, <2>2
<1> QED BY <1>8, <1>9

(* string_builder.c:32, "new cap is next power of 2 after min_new_size or  *)
(* 64": true of 2 bytes up to a quarter of the range of an unsigned.       *)
THEOREM NextPowerOfTwo ==
  ASSUME NEW n \in 2..Quarter, NEW c \in NewCaps(n)
  PROVE  \/ c = MinCap
         \/ \E k \in 1..IntBits : c = Pow2[k] /\ Pow2[k - 1] < n /\ n <= Pow2[k]
<1>1. PICK s \in Shifts(n) : c = ShiftedOne(s) \/ c = MinCap
  BY DEF NewCaps
<1> QED BY <1>1, ShiftIsNextPower

(* For a single byte the shift is undefined, but it gives an int.          *)
LEMMA OneByteShift ==
  ASSUME NEW s \in Shifts(1)
  PROVE  ShiftedOne(s) \in Int
<1>1. Pow2[IntBits] \in Nat /\ 0 < Pow2[IntBits]
  <2>1. 0 \in 0..(2 * IntBits) /\ IntBits \in 0..(2 * IntBits) /\ Pow2[0] = 1
    BY BuilderAssumption
  <2>2. Pow2[0] <= Pow2[IntBits]
    BY <2>1, PowersGrow, BuilderAssumption
  <2> QED BY <2>1, <2>2, PowersAreNumbers
<1>2. (1 - 1) % Pow2[IntBits] = 0
  BY <1>1, SmallIsNotTruncated
<1>3. s \in IntBits..(2 * IntBits - 1)
  BY <1>2 DEF Shifts
<1>4. s - IntBits \in 0..(2 * IntBits) /\ s # 2 * IntBits
  BY <1>3, BuilderAssumption
<1> QED BY <1>4, PowersAreNumbers DEF ShiftedOne

(* The capacity is enough.                                                 *)
LEMMA NewCapIsEnough ==
  ASSUME NEW n \in 1..Quarter, NEW c \in NewCaps(n)
  PROVE  c \in Nat /\ n <= c
<1>1. PICK s \in Shifts(n) : c = IF ShiftedOne(s) > MinCap THEN ShiftedOne(s) ELSE MinCap
  BY DEF NewCaps
<1>2. Quarter \in Nat /\ MinCap \in Nat \ {0}
  BY BuilderAssumption, PowersAreNumbers DEF Quarter
<1>3. CASE n = 1
  <2>1. ShiftedOne(s) \in Int
    BY <1>3, OneByteShift
  <2> QED BY <1>1, <1>2, <1>3, <2>1
<1>4. CASE n \in 2..Quarter
  <2>1. ShiftedOne(s) \in Nat /\ n <= ShiftedOne(s)
    BY <1>4, ShiftIsNextPower
  <2> QED BY <1>1, <1>2, <1>4, <2>1
<1> QED BY <1>2, <1>3, <1>4

BuilderOf(T) == [cap : Nat, text : Seq(T)]

(* stringBuilderExpandBuf gives at least as much as it was asked for.      *)
LEMMA ExpandedHasRoom ==
  ASSUME NEW T, NEW b \in BuilderOf(T), NEW n \in 1..Quarter, NEW r \in Expanded(b, n)
  PROVE  r \in BuilderOf(T) /\ r.text = b.text /\ n <= r.cap
<1>1. PICK c \in NewCaps(n) : r = [b EXCEPT !.cap = c]
  BY DEF Expanded
<1>2. c \in Nat /\ n <= c
  BY NewCapIsEnough
<1> QED BY <1>1, <1>2 DEF BuilderOf

(* stringBuilderAppend: the text grows by the piece, and it is stored      *)
(* inside of the buffer.                                                   *)
THEOREM AppendFits ==
  ASSUME NEW T, NEW b \in BuilderOf(T), NEW piece \in Seq(T), Fits(b),
         Len(b.text) + Len(piece) <= Quarter, NEW r \in Appended(b, piece)
  PROVE  r \in BuilderOf(T) /\ r.text = b.text \o piece /\ Fits(r)
<1> DEFINE n == Len(b.text) + Len(piece)
           rooms == IF b.cap < n THEN Expanded(b, n) ELSE {b}
<1>1. b.text \in Seq(T) /\ b.cap \in Nat /\ n \in Nat /\ Len(b.text) \in Nat
  BY DEF BuilderOf
<1>2. PICK q \in rooms : r = [q EXCEPT !.text = @ \o piece]
  BY DEF Appended
<1>3. q \in BuilderOf(T) /\ q.text = b.text /\ n <= q.cap
  <2>1. CASE b.cap < n
    <3>1. n \in 1..Quarter /\ q \in Expanded(b, n)
      <4>1. Quarter \in Nat
        BY Widths, PowersAreNumbers DEF Quarter
      <4> QED BY <1>1, <1>2, <2>1, <4>1
    <3> HIDE DEF n
    <3> QED BY <3>1, ExpandedHasRoom
  <2>2. CASE ~(b.cap < n)
    BY <1>1, <1>2, <2>2
  <2> QED BY <2>1, <2>2
<1> HIDE DEF n, rooms
<1>4. r.text = b.text \o piece /\ r.cap = q.cap /\ r \in BuilderOf(T)
  <2>1. b.text \o piece \in Seq(T) /\ r = [q EXCEPT !.text = b.text \o piece]
    BY <1>1, <1>2, <1>3
  <2> HIDE <1>2
  <2> QED BY <1>3, <2>1 DEF BuilderOf
<1>5. Len(r.text) = n
  BY <1>1, <1>4 DEF n
<1> QED BY <1>3, <1>4, <1>5 DEF Fits

-----------------------------------------------------------------------------
(* The buffers are large enough                                            *)

(* The size of a text and of the room for a recv: with 32 bits, 2^30 bytes *)
(* at most, and sb_min_cap is not 0.                                       *)
Sizes == MaxText <= Quarter /\ RecvMin > 0

LEMMA BuilderTypes == Builder = BuilderOf(Units)
BY DEF Builder, BuilderOf, Text

LEMMA NoBufferIsOne == NoBuffer \in Builder /\ Fits(NoBuffer)
BY DEF NoBuffer, NewBuffer, Builder, Fits, Text

LEMMA NoMessageIsOne == NoMessage \in Message
BY DEF NoMessage, Request, Message, Methods, StructHead, Header, Text

(* stringBuilderAppend, in the terms of Messages.                          *)
LEMMA PieceFits ==
  ASSUME Sizes, NEW b \in Builder, Fits(b), NEW piece \in Text,
         Len(b.text) + Len(piece) <= MaxText, NEW r \in Appended(b, piece)
  PROVE  /\ r \in Builder /\ Fits(r)
         /\ r.text = b.text \o piece /\ Len(r.text) = Len(b.text) + Len(piece)
<1>1. b \in BuilderOf(Units) /\ piece \in Seq(Units) /\ b.text \in Seq(Units)
  BY BuilderTypes DEF Text, BuilderOf
<1>2. Len(b.text) + Len(piece) <= Quarter
  <2>1. Quarter \in Nat /\ MaxText \in Nat
    BY MessagesAssumption, Widths, PowersAreNumbers DEF Quarter
  <2> QED BY <1>1, <2>1 DEF Sizes
<1>3. r \in BuilderOf(Units) /\ r.text = b.text \o piece /\ Fits(r)
  BY <1>1, <1>2, AppendFits
<1> QED BY <1>1, <1>3, BuilderTypes

(* stringBuilderAppend of one unit.                                        *)
LEMMA UnitFits ==
  ASSUME Sizes, NEW b \in Builder, Fits(b), NEW u, <<u>> \in Text,
         Len(b.text) + 1 <= MaxText, NEW r \in Appended(b, <<u>>)
  PROVE  /\ r \in Builder /\ Fits(r)
         /\ r.text = b.text \o <<u>> /\ Len(r.text) = Len(b.text) + 1
<1>1. Len(<<u>>) = 1
  OBVIOUS
<1> QED BY <1>1, PieceFits

(* stringBuilderExpandBuf in recvAllData.                                  *)
LEMMA ExpandedFits ==
  ASSUME Sizes, NEW b \in Builder, Fits(b), NEW n \in Nat, n > 0, n <= MaxText,
         Len(b.text) <= n, NEW r \in Expanded(b, n)
  PROVE  r \in Builder /\ Fits(r) /\ r.text = b.text
<1>1. b \in BuilderOf(Units)
  BY BuilderTypes
<1>2. n \in 1..Quarter
  BY MessagesAssumption, Widths, PowersAreNumbers DEF Quarter, Sizes
<1>3. r \in BuilderOf(Units) /\ r.text = b.text /\ n <= r.cap
  BY <1>1, <1>2, ExpandedHasRoom
<1> QED BY <1>3, BuilderTypes DEF Fits, BuilderOf

(* The initial states, and then the actions one by one.                    *)
LEMMA InitIInv == Init => IInv
BY NoBufferIsOne, NoMessageIsOne DEF Init, IInv, TextsOK, TextFits, ResultIsParsed, Text

(* requestBuilderAddHeader: each of four appends keeps the builder sound.  *)
LEMMA AddedField ==
  ASSUME Sizes, IInv, NEW f \in Added, AddHeader(f)
  PROVE  /\ headSb' \in Builder /\ Fits(headSb')
         /\ headSb'.text = (((headSb.text \o f.name) \o <<":">>) \o f.value) \o <<"crlf">>
<1>1. f \in Field /\ f.name \in Text /\ f.value \in Text
  BY MessagesAssumption DEF Field
<1>2. headSb \in Builder /\ Fits(headSb)
  BY DEF IInv, TextsOK, TextFits
<1>3. PICK b1 \in Appended(headSb, f.name) : \E b2 \in Appended(b1, <<":">>) :
        \E b3 \in Appended(b2, f.value) : headSb' \in Appended(b3, <<"crlf">>)
  BY DEF AddHeader
<1>4. PICK b2 \in Appended(b1, <<":">>) :
        \E b3 \in Appended(b2, f.value) : headSb' \in Appended(b3, <<"crlf">>)
  BY <1>3
<1>5. PICK b3 \in Appended(b2, f.value) : headSb' \in Appended(b3, <<"crlf">>)
  BY <1>4
<1> DEFINE l0 == Len(headSb.text)
           n == Len(f.name)
           v == Len(f.value)
<1>6. l0 \in Nat /\ n \in Nat /\ v \in Nat /\ MaxText \in Nat
  BY <1>1, <1>2, MessagesAssumption DEF Builder, Text
<1>7. l0 + n + v + 2 <= MaxText
  BY DEF AddHeader
<1> HIDE DEF l0, n, v
<1>8. /\ l0 + n <= MaxText /\ l0 + n + 1 <= MaxText
      /\ l0 + n + 1 + v <= MaxText /\ l0 + n + 1 + v + 1 <= MaxText
  BY <1>6, <1>7
<1>9. b1 \in Builder /\ Fits(b1) /\ Len(b1.text) = l0 + n /\ b1.text = headSb.text \o f.name
  BY <1>1, <1>2, <1>8, PieceFits DEF l0, n
<1>10. b2 \in Builder /\ Fits(b2) /\ Len(b2.text) = l0 + n + 1 /\ b2.text = b1.text \o <<":">>
  BY <1>8, <1>9, UnitsAreTexts, UnitFits
<1>11. b3 \in Builder /\ Fits(b3) /\ Len(b3.text) = l0 + n + 1 + v /\ b3.text = b2.text \o f.value
  BY <1>1, <1>8, <1>10, PieceFits DEF v
<1>12. headSb' \in Builder /\ Fits(headSb') /\ headSb'.text = b3.text \o <<"crlf">>
  BY <1>5, <1>8, <1>11, UnitsAreTexts, UnitFits
<1> QED BY <1>9, <1>10, <1>11, <1>12

LEMMA AddHeaderIInv ==
  ASSUME Sizes, IInv, NEW f \in Added, AddHeader(f)
  PROVE  IInv'
<1>1. headSb' \in Builder /\ Fits(headSb')
  BY AddedField
<1>2. added' \in Seq(Field)
  BY MessagesAssumption DEF AddHeader, IInv, TextsOK
<1> QED BY <1>1, <1>2 DEF AddHeader, IInv, TextsOK, TextFits, ResultIsParsed

LEMMA PrintPieceIInv ==
  ASSUME Sizes, IInv, PrintPiece
  PROVE  IInv'
<1>1. pieces \in Seq(Text) /\ pieces # <<>> /\ sb \in Builder /\ Fits(sb)
  BY DEF PrintPiece, IInv, TextsOK, TextFits
<1>2. Head(pieces) \in Text /\ Tail(pieces) \in Seq(Text)
  BY <1>1
<1>3. sb' \in Builder /\ Fits(sb')
  BY <1>1, <1>2, PieceFits DEF PrintPiece
<1> QED BY <1>2, <1>3 DEF PrintPiece, IInv, TextsOK, TextFits, ResultIsParsed

(* recvAllData: there is room for sb_min_cap bytes before each recv, so    *)
(* that no more is read than there is room for, and than max_len allows.   *)
LEMMA ReceivedChunk ==
  ASSUME Sizes, IInv, Receive
  PROVE  /\ sb' \in Builder /\ Fits(sb') /\ stream' \in Text
         /\ \E n \in 1..Len(stream) :
              /\ Command.max < 0 \/ Len(sb.text) + n <= Command.max
              /\ sb'.text = sb.text \o SubSeq(stream, 1, n)
              /\ stream' = SubSeq(stream, n + 1, Len(stream))
              /\ Len(sb'.text) = Len(sb.text) + n
<1>1. sb \in Builder /\ Fits(sb) /\ stream \in Seq(Units)
  BY DEF IInv, TextsOK, TextFits, Text
<1>2. /\ RecvMin \in Nat /\ RecvMin > 0 /\ MaxText \in Nat
      /\ sb.text \in Seq(Units) /\ Len(sb.text) \in Nat /\ sb.cap \in Nat
  BY <1>1, MessagesAssumption DEF Sizes, Builder, Text
<1> DEFINE n0 == RecvMin + Len(sb.text)
           Chunk(b, n) ==
             /\ b.cap - Len(b.text) > 0 => /\ n <= b.cap - Len(b.text)
                                           /\ Command.max < 0 \/ Len(b.text) + n <= Command.max
             /\ sb' = [b EXCEPT !.text = @ \o SubSeq(stream, 1, n)]
             /\ stream' = SubSeq(stream, n + 1, Len(stream))
           rooms == IF sb.cap - Len(sb.text) < RecvMin THEN Expanded(sb, n0) ELSE {sb}
<1>3. PICK b \in rooms : \E n \in 1..Len(stream) : Chunk(b, n)
  BY DEF Receive
<1>4. b \in Builder /\ b.text = sb.text /\ b.cap - Len(b.text) > 0
  <2>1. CASE sb.cap - Len(sb.text) < RecvMin
    <3>1. b \in Expanded(sb, n0) /\ n0 \in 1..Quarter
      <4>1. Quarter \in Nat
        BY Widths, PowersAreNumbers DEF Quarter
      <4>2. n0 <= MaxText
        BY <1>2 DEF Receive
      <4> QED BY <1>2, <1>3, <2>1, <4>1, <4>2 DEF Sizes
    <3> HIDE DEF n0
    <3>2. b \in BuilderOf(Units) /\ b.text = sb.text /\ n0 <= b.cap
      BY <1>1, <3>1, BuilderTypes, ExpandedHasRoom
    <3> QED BY <1>2, <3>2, BuilderTypes DEF n0, BuilderOf
  <2>2. CASE ~(sb.cap - Len(sb.text) < RecvMin)
    BY <1>1, <1>2, <1>3, <2>2
  <2> QED BY <2>1, <2>2
<1>5. PICK n \in 1..Len(stream) : Chunk(b, n)
  <2> HIDE DEF Chunk
  <2> QED BY <1>3
<1>6. /\ n <= b.cap - Len(b.text)
      /\ Command.max < 0 \/ Len(b.text) + n <= Command.max
      /\ sb' = [b EXCEPT !.text = @ \o SubSeq(stream, 1, n)]
      /\ stream' = SubSeq(stream, n + 1, Len(stream))
  BY <1>4, <1>5
<1> HIDE DEF Chunk, rooms, n0
<1>7. SubSeq(stream, 1, n) \in Seq(Units) /\ Len(SubSeq(stream, 1, n)) = n
  BY <1>1
<1>8. stream' \in Text
  BY <1>1, <1>6 DEF Text
<1> DEFINE text == sb.text \o SubSeq(stream, 1, n)
<1>9. text \in Text /\ Len(text) = Len(sb.text) + n
  BY <1>2, <1>7 DEF Text
<1>10. sb' = [b EXCEPT !.text = text]
  BY <1>4, <1>6
<1> HIDE DEF text
<1>11. sb' \in Builder /\ sb'.text = text /\ sb'.cap = b.cap
  BY <1>4, <1>9, <1>10 DEF Builder
<1>12. Fits(sb')
  BY <1>2, <1>4, <1>6, <1>9, <1>11, SMTT(30) DEF Fits, Builder
<1>13. Command.max < 0 \/ Len(sb.text) + n <= Command.max
  BY <1>4, <1>6
<1> QED BY <1>6, <1>8, <1>9, <1>11, <1>12, <1>13 DEF text

LEMMA ReceiveIInv ==
  ASSUME Sizes, IInv, Receive
  PROVE  IInv'
<1>1. sb' \in Builder /\ Fits(sb') /\ stream' \in Text
  BY ReceivedChunk
<1> QED BY <1>1 DEF Receive, IInv, TextsOK, TextFits, ResultIsParsed

LEMMA StartReceiveIInv ==
  ASSUME Sizes, IInv, StartReceive
  PROVE  IInv'
<1>1. sb' \in Builder /\ Fits(sb')
  BY MessagesAssumption DEF StartReceive, NewBuffer, Builder, Text, Fits
<1> QED BY <1>1 DEF StartReceive, IInv, TextsOK, TextFits, ResultIsParsed

(* The builders and the printer give a message, and pieces that are texts. *)
LEMMA BuildIInv ==
  ASSUME IInv, NEW destroy \in BOOLEAN, Build(destroy)
  PROVE  IInv'
<1> DEFINE head == [type |-> "owned", fields |-> <<>>, text |-> headSb.text]
<1>1. msg \in Message /\ headSb \in Builder /\ Fits(headSb)
  BY DEF IInv, TextsOK, TextFits
<1>2. head \in Header
  BY <1>1 DEF Builder, Header
<1>3. msg' = [msg EXCEPT !.head = head]
  BY DEF Build
<1> HIDE DEF head
<1>4. msg' \in Message
  BY <1>1, <1>2, <1>3 DEF Message
<1>5. headSb' \in Builder /\ Fits(headSb')
  BY <1>1, NoBufferIsOne DEF Build
<1> QED BY <1>4, <1>5 DEF Build, IInv, TextsOK, TextFits, ResultIsParsed

LEMMA StartPrintIInv ==
  ASSUME IInv, NEW m \in Message, StartPrint(m)
  PROVE  IInv'
<1>1. Pieces(m) \in Seq(Text)
  BY PiecesAreTexts
<1> QED BY <1>1, NoBufferIsOne DEF StartPrint, IInv, TextsOK, TextFits, ResultIsParsed

LEMMA DifferIInv ==
  ASSUME IInv, Differ
  PROVE  IInv'
<1>1. stream \in Seq(Units)
  BY DEF IInv, TextsOK, Text
<1>2. Noise \subseteq Units /\ Foreign \subseteq Text
  BY MessagesAssumption
<1>3. ASSUME NEW i \in DOMAIN stream PROVE RemoveAt(stream, i) \in Seq(Units)
  BY <1>1 DEF RemoveAt
<1>4. ASSUME NEW i \in 1..(Len(stream) + 1), NEW u \in Noise
      PROVE  InsertAt(stream, i, u) \in Seq(Units)
  <2>1. <<u>> \in Seq(Units)
    BY <1>2
  <2>2. SubSeq(stream, 1, i - 1) \in Seq(Units) /\ SubSeq(stream, i, Len(stream)) \in Seq(Units)
    BY <1>1
  <2> QED BY <2>1, <2>2 DEF InsertAt
<1>5. ASSUME NEW i \in DOMAIN stream, NEW u \in Noise
      PROVE  [stream EXCEPT ![i] = u] \in Seq(Units)
  BY <1>1, <1>2
<1>6. Variants(stream) \subseteq Text
  <2>1. {RemoveAt(stream, i) : i \in DOMAIN stream} \subseteq Seq(Units)
    BY <1>3
  <2>2. {InsertAt(stream, i, u) : i \in 1..(Len(stream) + 1), u \in Noise} \subseteq Seq(Units)
    BY <1>4
  <2>3. {[stream EXCEPT ![i] = u] : i \in DOMAIN stream, u \in Noise} \subseteq Seq(Units)
    BY <1>5
  <2> DEFINE A == {RemoveAt(stream, i) : i \in DOMAIN stream}
             B == {InsertAt(stream, i, u) : i \in 1..(Len(stream) + 1), u \in Noise}
             C == {[stream EXCEPT ![i] = u] : i \in DOMAIN stream, u \in Noise}
  <2>4. Variants(stream) = A \cup B \cup C
    BY DEF Variants
  <2> HIDE DEF A, B, C
  <2>5. A \subseteq Seq(Units) /\ B \subseteq Seq(Units) /\ C \subseteq Seq(Units)
    BY <2>1, <2>2, <2>3 DEF A, B, C
  <2> QED BY <2>4, <2>5 DEF Text
<1>7. stream' \in Text
  BY <1>2, <1>6 DEF Differ
<1> QED BY <1>7 DEF Differ, IInv, TextsOK, TextFits, ResultIsParsed

(* Each step of a message keeps the invariant.                             *)
LEMMA NextIInv == Sizes /\ IInv /\ [Next]_vars => IInv'
<1> SUFFICES ASSUME Sizes, IInv, [Next]_vars PROVE IInv'
  OBVIOUS
<1> USE DEF IInv, TextsOK, TextFits, ResultIsParsed
<1>1. ASSUME NEW m \in Outgoing, NewBuilder(m) PROVE IInv'
  <2>1. m \in Message
    BY MessagesAssumption
  <2> QED BY <1>1, <2>1 DEF NewBuilder
<1>2. ASSUME NEW f \in Added, AddHeader(f) PROVE IInv'
  BY <1>2, AddHeaderIInv
<1>3. ASSUME NEW destroy \in BOOLEAN, Build(destroy) PROVE IInv'
  BY <1>3, BuildIInv
<1>4. CASE PrintMade
  <2>1. PICK m \in Outgoing : StartPrint(m)
    BY <1>4 DEF PrintMade
  <2>2. m \in Message
    BY MessagesAssumption
  <2> QED BY <2>1, <2>2, StartPrintIInv
<1>5. CASE PrintBuilt
  BY <1>5, StartPrintIInv DEF PrintBuilt
<1>6. CASE PrintPiece
  BY <1>6, PrintPieceIInv
<1>7. CASE PrintFails
  BY <1>7 DEF PrintFails
<1>8. CASE Send
  BY <1>8, NoBufferIsOne DEF Send, Builder
<1>9. CASE Differ
  BY <1>9, DifferIInv
<1>10. CASE StartReceive
  BY <1>10, StartReceiveIInv
<1>11. CASE Receive
  BY <1>11, ReceiveIInv
<1>12. CASE Received
  BY <1>12, NoBufferIsOne DEF Received, Builder
<1>13. CASE Rejected
  BY <1>13, NoBufferIsOne DEF Rejected
<1>14. ASSUME NEW asStruct \in BOOLEAN, ParseMessage(asStruct) PROVE IInv'
  BY <1>14 DEF ParseMessage
<1>15. CASE Finish
  BY <1>15, NoBufferIsOne, NoMessageIsOne DEF Finish, Text
<1>16. CASE UNCHANGED vars
  BY <1>16 DEF vars
<1> QED BY <1>1, <1>2, <1>3, <1>4, <1>5, <1>6, <1>7, <1>8, <1>9, <1>10, <1>11, <1>12,
           <1>13, <1>14, <1>15, <1>16 DEF Next

(* The inductive invariant of Messages.                                    *)
THEOREM Invariance == ASSUME Sizes PROVE Spec => []IInv
<1>1. IInv /\ [Next]_vars => IInv'
  BY NextIInv
<1> QED BY <1>1, InitIInv, PTL DEF Spec

(* Whatever is added, printed or received: no byte is stored outside of    *)
(* the buffer of a string builder, if no text is longer than a quarter of  *)
(* the range of an unsigned.                                               *)
THEOREM TextAlwaysFits == ASSUME Sizes PROVE Spec => []TextFits
<1>1. IInv => TextFits
  BY DEF IInv
<1> QED BY <1>1, Invariance, PTL

-----------------------------------------------------------------------------
(* The types                                                               *)

(* The parser returns a message, an error or an overrun.                   *)
LEMMA ParseType ==
  ASSUME NEW kind \in {"request", "response"}, NEW t \in Text, NEW asStruct \in BOOLEAN
  PROVE  Parse(kind, t, asStruct) \in Parsed
<1> DEFINE r == Parse(kind, t, asStruct)
<1>1. \/ r \in {Failed, Overrun}
      \/ \E x \in Message : r = [outcome |-> "ok", msg |-> x]
  BY ParseIs
<1> HIDE DEF r
<1>2. r \in Parsed
  BY <1>1 DEF Parsed, Failed, Overrun
<1> QED BY <1>2 DEF r

(* What the parser makes of a text is a message or one of two outcomes.    *)
THEOREM MessagesTypeOK == ASSUME Sizes PROVE Spec => []TypeOK
<1> DEFINE Places == {"idle", "build", "built", "print", "sent", "receive", "received", "parsed", "failed"}
           Results == [asStruct : BOOLEAN, parsed : Parsed]
<1>1. Init => TypeOK
  <2>1. Init => IInv
    BY InitIInv
  <2>2. NoResult \in Results
    BY DEF NoResult, Parsed, Failed
  <2> QED BY <2>1, <2>2 DEF Init, TypeOK, IInv
<1>2. IInv /\ IInv' /\ TypeOK /\ [Next]_vars => TypeOK'
  <2> SUFFICES ASSUME IInv, IInv', TypeOK, [Next]_vars PROVE at' \in Places /\ result' \in Results
    BY DEF TypeOK, IInv
  <2>1. at \in Places /\ result \in Results /\ NoResult \in Results
    BY DEF TypeOK, NoResult, Parsed, Failed
  <2>2. ASSUME NEW asStruct \in BOOLEAN, ParseMessage(asStruct) PROVE at' \in Places /\ result' \in Results
    <3>1. msg.kind \in {"request", "response"} /\ got \in Text
      BY DEF IInv, TextsOK, Message
    <3>2. Parse(msg.kind, got, asStruct) \in Parsed
      BY <3>1, ParseType
    <3> QED BY <2>2, <3>2 DEF ParseMessage
  <2> HIDE DEF Results
  <2>3. ASSUME NEW m \in Outgoing, NewBuilder(m) PROVE at' \in Places /\ result' \in Results
    BY <2>1, <2>3 DEF NewBuilder
  <2>4. ASSUME NEW f \in Added, AddHeader(f) PROVE at' \in Places /\ result' \in Results
    BY <2>1, <2>4 DEF AddHeader
  <2>5. CASE Finish \/ UNCHANGED vars
    BY <2>1, <2>5 DEF Finish, vars
  <2>6. ASSUME NEW destroy \in BOOLEAN, Build(destroy) PROVE at' \in Places /\ result' \in Results
    BY <2>1, <2>6 DEF Build
  <2>7. CASE PrintMade \/ PrintBuilt
    BY <2>1, <2>7 DEF PrintMade, PrintBuilt, StartPrint
  <2>8. CASE PrintPiece \/ PrintFails \/ Send \/ Differ
    BY <2>1, <2>8 DEF PrintPiece, PrintFails, Send, Differ
  <2>9. CASE StartReceive \/ Receive \/ Received \/ Rejected
    BY <2>1, <2>9 DEF StartReceive, Receive, Received, Rejected
  <2> QED BY <2>2, <2>3, <2>4, <2>5, <2>6, <2>7, <2>8, <2>9 DEF Next
<1> QED BY <1>1, <1>2, Invariance, PTL DEF Spec

-----------------------------------------------------------------------------
(* The header that the builders make                                       *)

(* The field that a builder appends is the one that the serializer prints. *)
LEMMA AddHeaderAgrees ==
  ASSUME Sizes, IInv, BuilderInv, NEW f \in Added, AddHeader(f)
  PROVE  BuilderInv'
<1>1. f \in Field /\ added \in Seq(Field)
  BY MessagesAssumption DEF IInv, TextsOK
<1>2. at = "build" /\ at' = "build" /\ added' = Append(added, f)
  BY DEF AddHeader
<1>3. headSb.text = FlattenSeq(FieldPieces(added))
  BY <1>2 DEF BuilderInv, BuilderAgreesWithPrinter
<1>4. headSb'.text = FlattenSeq(FieldPieces(added'))
  BY <1>1, <1>2, <1>3, AddedField, FlattenField
<1> QED BY <1>2, <1>4 DEF BuilderInv, BuilderAgreesWithPrinter

LEMMA BuilderStep == Sizes /\ IInv /\ BuilderInv /\ [Next]_vars => BuilderInv'
<1> SUFFICES ASSUME Sizes, IInv, BuilderInv, [Next]_vars PROVE BuilderInv'
  OBVIOUS
<1> USE DEF BuilderInv, BuilderAgreesWithPrinter
<1>1. ASSUME NEW m \in Outgoing, NewBuilder(m) PROVE BuilderInv'
  BY <1>1, NoFields DEF NewBuilder
<1>2. ASSUME NEW f \in Added, AddHeader(f) PROVE BuilderInv'
  BY <1>2, AddHeaderAgrees
<1>3. CASE Finish
  BY <1>3 DEF Finish, NoBuffer, NewBuffer
<1>4. CASE UNCHANGED vars
  BY <1>4 DEF vars
<1>5. ASSUME NEW destroy \in BOOLEAN, Build(destroy) PROVE BuilderInv'
  BY <1>5 DEF Build
<1>6. CASE PrintMade \/ PrintBuilt
  BY <1>6 DEF PrintMade, PrintBuilt, StartPrint
<1>7. CASE PrintPiece \/ PrintFails \/ Send \/ Differ
  BY <1>7 DEF PrintPiece, PrintFails, Send, Differ
<1>8. CASE StartReceive \/ Receive \/ Received \/ Rejected
  BY <1>8 DEF StartReceive, Receive, Received, Rejected
<1>9. ASSUME NEW asStruct \in BOOLEAN, ParseMessage(asStruct) PROVE BuilderInv'
  BY <1>9 DEF ParseMessage
<1> QED BY <1>1, <1>2, <1>3, <1>4, <1>5, <1>6, <1>7, <1>8, <1>9 DEF Next

(* The header that the builders of request_misc.c have made is the one that*)
(* serialization.c prints for the same fields, whatever they are and       *)
(* however many.                                                           *)
THEOREM BuilderPrintsItsFields == ASSUME Sizes PROVE Spec => []BuilderAgreesWithPrinter
<1>1. Init => BuilderInv
  BY DEF Init, BuilderInv, BuilderAgreesWithPrinter, NoBuffer, NewBuffer
<1>2. IInv /\ BuilderInv /\ [Next]_vars => BuilderInv'
  BY BuilderStep
<1>3. BuilderInv => BuilderAgreesWithPrinter
  BY DEF BuilderInv
<1> QED BY <1>1, <1>2, <1>3, Invariance, PTL DEF Spec

-----------------------------------------------------------------------------
(* The parser and the controller                                           *)

(* The first line of a response that the parser has not refused.           *)
LEMMA FirstLine ==
  ASSUME NEW t \in Text, NEW asStruct, ParseResponse(t, asStruct).outcome # "error"
  PROVE  \E e \in 7..Len(t) : \E v, n, x :
           /\ t[e] = "crlf" /\ \A j \in 1..(e - 1) : t[j] # "crlf"
           /\ ParseResponse(t, asStruct) = ParseRest(t, e + 1, asStruct, Response(v, n, x))
<1> DEFINE c == Skip(t, 3, Digits)
           e == Until(t, c + 1, {"crlf"})
           v == VersionOf[t[1]]
           n == 100 * NumberOf(t[3]) + 10 * NumberOf(t[4]) + NumberOf(t[5])
           x == SubSeq(t, 7, e - 1)
<1>1. /\ At(t, 1) \in DOMAIN VersionOf /\ At(t, 2) = "sp"
      /\ c = 6 /\ At(t, 3) \in {"1", "2", "3", "4", "5"} /\ At(t, 6) = "sp"
      /\ At(t, e) = "crlf"
      /\ ParseResponse(t, asStruct) = ParseRest(t, e + 1, asStruct, Response(v, n, x))
  BY DEF ParseResponse, Failed
<1>2. Len(t) \in Nat /\ 6 <= Len(t)
  BY <1>1 DEF At, Text
<1>3. /\ e \in 7..(Len(t) + 1)
      /\ \A j \in 7..(e - 1) : At(t, j) \notin {"crlf"}
  <2>1. 7 \in 1..(Len(t) + 1) /\ c + 1 = 7
    BY <1>1, <1>2
  <2> QED BY <2>1, UntilIs
<1>4. At(t, 4) \in Digits /\ At(t, 5) \in Digits
  <2>1. 3 \in 1..(Len(t) + 1)
    BY <1>2
  <2>2. \A j \in 3..(c - 1) : At(t, j) \in Digits
    BY <2>1, SkipIs, DigitsAreNoLineEnds
  <2>3. 4 \in 3..(c - 1) /\ 5 \in 3..(c - 1)
    BY <1>1
  <2> QED BY <2>2, <2>3
<1>5. \A j \in 1..6 : At(t, j) # "crlf"
  <2>1. At(t, 1) # "crlf"
    BY <1>1 DEF VersionOf
  <2>2. At(t, 2) # "crlf" /\ At(t, 3) # "crlf" /\ At(t, 6) # "crlf"
    BY <1>1
  <2>3. At(t, 4) # "crlf" /\ At(t, 5) # "crlf"
    BY <1>4, DigitsAreNoLineEnds
  <2>4. 1..6 = {1, 2, 3, 4, 5, 6}
    OBVIOUS
  <2> QED BY <2>1, <2>2, <2>3, <2>4
<1> HIDE DEF c, e, v, n, x
<1>6. e \in 7..Len(t) /\ t[e] = "crlf"
  BY <1>1, <1>2, <1>3 DEF At
<1>7. ASSUME NEW j \in 1..(e - 1) PROVE t[j] # "crlf"
  <2>1. j \in 1..Len(t) /\ (j \in 1..6 \/ j \in 7..(e - 1))
    BY <1>2, <1>6
  <2>2. At(t, j) # "crlf"
    BY <1>3, <1>5, <2>1
  <2> QED BY <2>1, <2>2 DEF At
<1> QED BY <1>1, <1>6, <1>7

(* parseHeaderStruct ends where the first line after which no line follows *)
(* ends, if it begins after the first line of the text.                    *)
LEMMA HeaderEndsAtBlankLine ==
  ASSUME NEW t \in Text, NEW i \in 2..Len(t), t[i - 1] = "crlf",
         \A j \in 1..(i - 2) : t[j] # "crlf",
         HeaderFields(t, i).outcome = "ok"
  PROVE  /\ HeaderEnds(t) # {}
         /\ HeaderFields(t, i).next = Lowest(HeaderEnds(t))
<1> DEFINE ends == FieldEnds(t, i)
           next == IF ends = {} THEN i ELSE Highest(ends) + 1
<1>1. HeaderFields(t, i).next = next /\ At(t, next) = "crlf"
  BY DEF HeaderFields, Failed
<1>2. Len(t) \in Nat /\ next \in 1..Len(t) /\ t[next] = "crlf"
  <2>1. At(t, next) # "end"
    BY <1>1
  <2> HIDE DEF next
  <2> QED BY <1>1, <2>1 DEF At, Text
<1>3. /\ ends \in SUBSET (i..Len(t)) /\ \A j \in ends : t[j] = "crlf"
      /\ \A j \in ends : \A b \in BlankLines(t, i) : j < b
  BY DEF FieldEnds, LineEnds
<1>4. ASSUME ends # {} PROVE Highest(ends) \in ends /\ \A k \in ends : k <= Highest(ends)
  <2>1. ends \in SUBSET (1..Len(t))
    BY <1>2, <1>3
  <2> HIDE DEF ends
  <2> QED BY <1>2, <1>4, <2>1, HighestIs
<1> HIDE DEF ends
<1>5. next \in i..Len(t) /\ t[next - 1] = "crlf"
  <2>1. CASE ends = {}
    BY <1>2, <2>1
  <2>2. CASE ends # {}
    <3>1. Highest(ends) \in i..Len(t) /\ t[Highest(ends)] = "crlf" /\ next = Highest(ends) + 1
      BY <1>3, <1>4, <2>2
    <3> QED BY <1>2, <3>1
  <2> QED BY <2>1, <2>2
<1>6. next \in HeaderEnds(t)
  BY <1>2, <1>5 DEF HeaderEnds
<1>7. ASSUME NEW k \in HeaderEnds(t) PROVE next <= k
  <2>1. k \in 2..Len(t) /\ t[k] = "crlf" /\ t[k - 1] = "crlf"
    BY DEF HeaderEnds
  <2>2. k >= i
    <3>1. k - 1 \in Nat /\ k - 1 >= 1 /\ (k < i => k - 1 \in 1..(i - 2))
      BY <2>1
    <3> QED BY <2>1, <3>1
  <2>3. k \in BlankLines(t, i)
    BY <2>1, <2>2 DEF BlankLines, LineEnds
  <2>4. CASE ends = {}
    BY <2>2, <2>4
  <2>5. CASE ends # {}
    <3>1. Highest(ends) < k /\ Highest(ends) \in i..Len(t) /\ next = Highest(ends) + 1
      BY <1>3, <1>4, <2>3, <2>5
    <3> QED BY <2>1, <3>1
  <2> QED BY <2>4, <2>5
<1> HIDE DEF next
<1>8. HeaderEnds(t) \in SUBSET Nat
  BY DEF HeaderEnds
<1>9. Lowest(HeaderEnds(t)) = next
  BY <1>6, <1>7, <1>8, LowestEquals
<1> QED BY <1>1, <1>6, <1>9

LEMMA BodyIsSet ==
  ASSUME NEW v, NEW n, NEW x, NEW head, NEW body
  PROVE  [Response(v, n, x) EXCEPT !.head = head, !.body = body].body = body
<1> DEFINE m == Response(v, n, x)
           m1 == [m EXCEPT !.head = head]
<1>1. "body" \in DOMAIN m
  BY DEF Response
<1> HIDE DEF m
<1>2. "body" \in DOMAIN m1
  BY <1>1
<1> HIDE DEF m1
<1>3. [m1 EXCEPT !.body = body].body = body
  BY <1>2
<1> QED BY <1>3 DEF m, m1

(* What follows the first line of a response is a header that both ends    *)
(* agree about and a body, or nothing.                                     *)
LEMMA ResponseParts ==
  ASSUME NEW t \in Text, NEW asStruct
  PROVE  LET r == ParseResponse(t, asStruct)
         IN  asStruct = TRUE =>
               /\ r.outcome = "ok" =>
                    /\ HeaderEnds(t) # {}
                    /\ r.msg.body = SubSeq(t, Lowest(HeaderEnds(t)) + 1, Len(t))
               /\ r.outcome = "overrun" =>
                    /\ Len(t) >= 7 /\ t[Len(t)] = "crlf"
                    /\ \A j \in 1..(Len(t) - 1) : t[j] # "crlf"
<1> DEFINE r == ParseResponse(t, asStruct)
<1>1. ASSUME r.outcome # "error"
      PROVE  \E e \in 7..Len(t) : \E v, n, x :
               /\ t[e] = "crlf" /\ \A j \in 1..(e - 1) : t[j] # "crlf"
               /\ r = ParseRest(t, e + 1, asStruct, Response(v, n, x))
  BY <1>1, FirstLine
<1> SUFFICES ASSUME r.outcome # "error", asStruct = TRUE
             PROVE  /\ r.outcome = "ok" =>
                         /\ HeaderEnds(t) # {}
                         /\ r.msg.body = SubSeq(t, Lowest(HeaderEnds(t)) + 1, Len(t))
                    /\ r.outcome = "overrun" =>
                         /\ Len(t) >= 7 /\ t[Len(t)] = "crlf"
                         /\ \A j \in 1..(Len(t) - 1) : t[j] # "crlf"
  OBVIOUS
<1> HIDE DEF r
<1>2. PICK e \in 7..Len(t) : \E v, n, x :
         /\ t[e] = "crlf" /\ \A j \in 1..(e - 1) : t[j] # "crlf"
         /\ r = ParseRest(t, e + 1, asStruct, Response(v, n, x))
  BY <1>1
<1>3. PICK v, n, x : r = ParseRest(t, e + 1, asStruct, Response(v, n, x))
  BY <1>2
<1>4. Len(t) \in Nat
  BY DEF Text
<1> DEFINE h == ParseHeaderStruct(t, e + 1)
           body == SubSeq(t, h.next + 1, Len(t))
<1>5. IF h.outcome # "ok" THEN r = h
      ELSE r = [outcome |-> "ok",
                msg |-> [Response(v, n, x) EXCEPT !.head = h.head, !.body = body]]
  BY <1>3, asStruct = TRUE DEF ParseRest
<1> HIDE DEF r, h, body
<1>6. CASE r.outcome = "ok"
  <2>1. h.outcome = "ok"
    BY <1>5, <1>6
  <2>2. e + 1 \in 2..Len(t) /\ h = HeaderFields(t, e + 1)
    BY <1>4, <2>1 DEF h, ParseHeaderStruct, Overrun
  <2>3. t[(e + 1) - 1] = "crlf" /\ \A j \in 1..((e + 1) - 2) : t[j] # "crlf"
    BY <1>2
  <2>4. HeaderEnds(t) # {} /\ h.next = Lowest(HeaderEnds(t))
    BY <2>1, <2>2, <2>3, HeaderEndsAtBlankLine
  <2>5. r.msg.body = body
    <3> DEFINE m == [Response(v, n, x) EXCEPT !.head = h.head, !.body = body]
    <3>1. m.body = body
      BY BodyIsSet
    <3>2. r = [outcome |-> "ok", msg |-> m]
      BY <1>5, <2>1
    <3> HIDE DEF m
    <3> QED BY <3>1, <3>2
  <2> QED BY <1>6, <2>4, <2>5 DEF body
<1>7. CASE r.outcome = "overrun"
  <2>1. h.outcome = "overrun"
    BY <1>5, <1>7
  <2>2. e + 1 > Len(t)
    BY <2>1 DEF h, ParseHeaderStruct, HeaderFields, Failed
  <2>3. e = Len(t)
    BY <1>4, <2>2
  <2>4. Len(t) >= 7 /\ t[Len(t)] = "crlf" /\ \A j \in 1..(Len(t) - 1) : t[j] # "crlf"
    BY <1>2, <1>4, <2>3
  <2> QED BY <1>7, <2>4
<1> QED BY <1>6, <1>7

(* Where the parser begins the body of a response, httpReceiveController   *)
(* has ended the header: for every text of every peer.                     *)
THEOREM ParserAlwaysAgrees == ASSUME Sizes PROVE Spec => []ParserAgreesWithController
<1>1. IInv => ParserAgreesWithController
  <2> SUFFICES ASSUME IInv, Accepted, msg.kind = "response"
               PROVE  /\ HeaderEnds(got) # {}
                      /\ result.parsed.msg.body
                           = SubSeq(got, Lowest(HeaderEnds(got)) + 1, Len(got))
    BY DEF ParserAgreesWithController
  <2>1. got \in Text /\ result.parsed = ParseResponse(got, result.asStruct)
    BY DEF IInv, TextsOK, ResultIsParsed, Accepted, InStructs, Parse
  <2>2. result.asStruct = TRUE /\ result.parsed.outcome = "ok"
    BY DEF IInv, ResultIsParsed, Accepted, InStructs
  <2> QED BY <2>1, <2>2, ResponseParts
<1> QED BY <1>1, Invariance, PTL

(* With its header as a struct, nothing but an empty rest is read beyond   *)
(* its end.                                                                *)
LEMMA RestOverrun ==
  ASSUME NEW t \in Text, NEW i, NEW asStruct, NEW m
  PROVE  asStruct = TRUE /\ ParseRest(t, i, asStruct, m).outcome = "overrun" => i > Len(t)
<1> DEFINE h == ParseHeaderStruct(t, i)
<1> SUFFICES ASSUME asStruct = TRUE, ParseRest(t, i, asStruct, m).outcome = "overrun"
             PROVE  i > Len(t)
  OBVIOUS
<1>1. h.outcome = "overrun"
  BY DEF ParseRest
<1> QED BY <1>1 DEF ParseHeaderStruct, HeaderFields, Failed

(* A request line is all that there is, then.                              *)
LEMMA RequestOverrun ==
  ASSUME NEW t \in Text, NEW asStruct
  PROVE  asStruct = TRUE /\ ParseRequest(t, asStruct).outcome = "overrun" =>
           Len(t) > 1 /\ t[Len(t)] = "crlf" /\ t[Len(t) - 1] # "crlf"
<1> DEFINE w == Skip(t, 1, Letters)
           u == Until(t, w + 1, {"sp"})
           m == Request(t[1], SubSeq(t, w + 1, u - 1), VersionOf[t[u + 1]])
<1>1. Len(t) \in Nat
  BY DEF Text
<1>2. ParseSimpleRequest(t, asStruct).outcome = "error"
  <2>1. At(t, Until(t, 1, {"sp"})) # "crlf"
    <3>1. 1 \in 1..(Len(t) + 1)
      BY <1>1
    <3> QED BY <3>1, UntilIs
  <2> QED BY <2>1 DEF ParseSimpleRequest, Failed
<1>3. ASSUME ParseRequest(t, asStruct).outcome = "overrun"
      PROVE  /\ At(t, 1) \in Methods /\ At(t, w) = "sp" /\ u > w + 1
             /\ At(t, u + 1) \in DOMAIN VersionOf /\ At(t, u + 2) = "crlf"
             /\ ParseRequest(t, asStruct) = ParseRest(t, u + 3, asStruct, m)
  BY <1>2, <1>3 DEF ParseRequest, Failed
<1> SUFFICES ASSUME asStruct = TRUE, ParseRequest(t, asStruct).outcome = "overrun"
             PROVE  Len(t) > 1 /\ t[Len(t)] = "crlf" /\ t[Len(t) - 1] # "crlf"
  OBVIOUS
<1> HIDE DEF w, u, m
<1>4. u + 3 > Len(t)
  BY <1>3, RestOverrun
<1>5. u + 2 \in 1..Len(t) /\ t[u + 2] = "crlf"
  BY <1>3 DEF At
<1>6. u + 1 \in 1..Len(t) /\ t[u + 1] # "crlf"
  BY <1>3 DEF At, VersionOf
<1>7. u \in Int /\ u + 2 = Len(t)
  <2>1. u \in Int
    <3>1. 1 \in 1..(Len(t) + 1) /\ "end" \notin Letters
      BY <1>1, EndIsNoLetter
    <3>2. w \in 1..(Len(t) + 1) /\ w \in 1..Len(t)
      BY <1>3, <3>1, SkipIs DEF w, At
    <3>3. w + 1 \in 1..(Len(t) + 1)
      BY <1>1, <3>2
    <3>4. u \in (w + 1)..(Len(t) + 1)
      BY <3>3, UntilIs DEF u
    <3> QED BY <3>4
  <2> QED BY <1>1, <1>4, <1>5, <2>1
<1> QED BY <1>1, <1>5, <1>6, <1>7

(* parseHeaderStruct reads beyond the end of a text only where the text    *)
(* ends with its first line.                                               *)
THEOREM OnlyFirstLinesAreOverrun == ASSUME Sizes PROVE Spec => []OnlyAFirstLineIsOverrun
<1>1. IInv => OnlyAFirstLineIsOverrun
  <2> SUFFICES ASSUME IInv, InStructs, result.parsed.outcome = "overrun"
               PROVE  /\ got[Len(got)] = "crlf" /\ got[Len(got) - 1] # "crlf"
                      /\ msg.kind = "response" => LineEnds(got, 1) = {Len(got)}
    BY DEF OnlyAFirstLineIsOverrun
  <2>1. /\ got \in Text /\ result.asStruct = TRUE
        /\ result.parsed = Parse(msg.kind, got, result.asStruct)
    BY DEF IInv, TextsOK, ResultIsParsed, InStructs
  <2>2. CASE msg.kind = "request"
    <3>1. result.parsed = ParseRequest(got, result.asStruct)
      BY <2>1, <2>2 DEF Parse
    <3> QED BY <2>1, <2>2, <3>1, RequestOverrun
  <2>3. CASE msg.kind # "request"
    <3>1. result.parsed = ParseResponse(got, result.asStruct)
      BY <2>1, <2>3 DEF Parse
    <3>2. /\ Len(got) >= 7 /\ got[Len(got)] = "crlf"
          /\ \A j \in 1..(Len(got) - 1) : got[j] # "crlf"
      BY <2>1, <3>1, ResponseParts
    <3>3. Len(got) \in Nat
      BY <2>1 DEF Text
    <3>4. got[Len(got) - 1] # "crlf"
      BY <3>2, <3>3
    <3>5. LineEnds(got, 1) = {Len(got)}
      BY <3>2, <3>3 DEF LineEnds
    <3> QED BY <3>2, <3>4, <3>5
  <2> QED BY <2>2, <2>3
<1> QED BY <1>1, Invariance, PTL

-----------------------------------------------------------------------------
(* The parser and the printer                                              *)

(* A message that is printed, cut into any chunks by the network and parsed*)
(* is the same message (serialization.c, utils.c and parsing.c together).  *)
THEOREM ParsingInvertsPrinting == ASSUME Sizes PROVE Spec => []ParseInvertsPrint
<1>1. ASSUME IInv PROVE ParseInvertsPrint
  <2> SUFFICES ASSUME InStructs, got = Printed(msg), WellFormed(msg)
               PROVE  result.parsed = [outcome |-> "ok", msg |-> msg]
    BY DEF ParseInvertsPrint
  <2>1. msg \in Message
    BY <1>1 DEF IInv, TextsOK
  <2>2. result.parsed = Parse(msg.kind, got, result.asStruct) /\ result.asStruct = TRUE
    BY <1>1 DEF IInv, ResultIsParsed, InStructs
  <2> QED BY <2>1, <2>2, ParsingInverts
<1> QED BY <1>1, Invariance, PTL

(* Whatever text of whatever peer parsing.c accepts, the message is one    *)
(* that serialization.c prints so that it is parsed as the same message.   *)
THEOREM ReparsingIsStable == ASSUME Sizes PROVE Spec => []ReparseIsStable
<1>1. ASSUME IInv PROVE ReparseIsStable
  <2> SUFFICES ASSUME Accepted
               PROVE  Parse(msg.kind, Printed(result.parsed.msg), TRUE) = result.parsed
    BY DEF ReparseIsStable
  <2>1. msg.kind \in {"request", "response"} /\ got \in Text
    BY <1>1 DEF IInv, TextsOK, Message
  <2>2. /\ result.parsed = Parse(msg.kind, got, TRUE) /\ result.parsed.outcome = "ok"
    BY <1>1 DEF IInv, ResultIsParsed, InStructs, Accepted
  <2>3. PICK x \in Message : /\ result.parsed = [outcome |-> "ok", msg |-> x]
                             /\ x.kind = msg.kind /\ WellFormed(x)
    <3>1. Failed.outcome # "ok" /\ Overrun.outcome # "ok"
      BY DEF Failed, Overrun
    <3>2. result.parsed \notin {Failed, Overrun}
      BY <2>2, <3>1
    <3> QED BY <2>1, <2>2, <3>2, ParseIs
  <2>4. result.parsed.msg = x
    BY <2>3
  <2>5. Parse(x.kind, Printed(x), TRUE) = [outcome |-> "ok", msg |-> x]
    BY <2>3, ParsingInverts
  <2> QED BY <2>3, <2>4, <2>5
<1> QED BY <1>1, Invariance, PTL

-----------------------------------------------------------------------------
(* The controller and a framed response                                    *)

(* The controller finds the line end behind the fields.                    *)
LEMMA HeaderEndsThere ==
  ASSUME NEW t \in Text, NEW fields \in Seq(Field), NEW p, HeaderLies(t, fields, p),
         \A j \in 1..(p[0] - 1) : t[j] # "crlf"
  PROVE  /\ p[Len(fields)] + 1 \in HeaderEnds(t)
         /\ \A j \in HeaderEnds(t) : p[Len(fields)] + 1 <= j
<1> DEFINE n == Len(fields)
           e == p[n] + 1
<1>1. /\ n \in Nat /\ FieldsLie(t, fields, p) /\ \A k \in 0..n : p[k] \in Nat
      /\ Len(t) \in Nat
  BY HeaderPositions DEF HeaderLies, Text
<1>2. /\ p[0] \in Nat /\ p[n] \in Nat /\ p[0] >= 1 /\ p[0] <= p[n] /\ t[p[0]] = "crlf"
      /\ e <= Len(t) /\ t[e] = "crlf"
  <2>1. 0 \in 0..n /\ n \in 0..n /\ 0 <= n
    BY <1>1
  <2>2. p[0] <= p[n] /\ p[0] \in Nat /\ p[n] \in Nat
    BY <1>1, <2>1, PositionsGrow
  <2> QED BY <2>2 DEF HeaderLies
<1>3. t[p[n]] = "crlf"
  <2>1. CASE n = 0
    BY <1>2, <2>1
  <2>2. CASE n # 0
    <3>1. n \in 1..n
      BY <1>1, <2>2
    <3> QED BY <1>1, <3>1 DEF FieldsLie, FieldLies
  <2> QED BY <2>1, <2>2
<1>4. e \in HeaderEnds(t)
  <2>1. e \in 2..Len(t) /\ e - 1 = p[n]
    BY <1>1, <1>2
  <2> HIDE DEF e
  <2> QED BY <1>2, <1>3, <2>1 DEF HeaderEnds
<1>5. ASSUME NEW j \in HeaderEnds(t) PROVE e <= j
  <2>1. j \in 2..Len(t) /\ t[j] = "crlf" /\ t[j - 1] = "crlf"
    BY DEF HeaderEnds
  <2>2. SUFFICES ASSUME j < e PROVE FALSE
    BY <1>2, <2>1
  <2>3. j - 1 >= p[0]
    <3>1. SUFFICES ASSUME j - 1 < p[0] PROVE FALSE
      BY <1>2, <2>1
    <3>2. j - 1 \in 1..(p[0] - 1)
      BY <1>2, <2>1, <3>1
    <3> QED BY <2>1, <3>2
  <2>4. j \in Nat /\ p[0] < j /\ j <= p[n]
    BY <1>1, <1>2, <2>1, <2>2, <2>3
  <2>5. PICK k \in 1..n : j = p[k]
    BY <2>1, <2>4, HeaderLineEnds
  <2>6. k - 1 \in 0..n /\ k \in 0..n /\ k - 1 < k /\ k - 1 <= k
    BY <1>1
  <2>7. p[k - 1] \in Nat /\ p[k - 1] + 2 <= p[k]
    BY <1>1, <2>6, PositionsGrow
  <2>8. /\ fields[k] \in Field /\ OneLine(fields[k])
        /\ FieldLies(t, fields[k], p[k - 1], p[k])
    BY <1>1 DEF HeaderLies, FieldsLie
  <2>9. j - 1 \in Nat /\ p[k - 1] < j - 1 /\ j - 1 < p[k] /\ p[k] \in Nat
    BY <2>4, <2>5, <2>7
  <2>10. t[j - 1] # "crlf"
    BY <2>7, <2>8, <2>9, NoEndInField
  <2> QED BY <2>1, <2>10
<1> QED BY <1>4, <1>5

(* What a text is without, its parts are without.                          *)
LEMMA WithoutParts ==
  ASSUME NEW a \in Text, NEW b \in Text, NEW u, Without(a \o b, u)
  PROVE  Without(a, u) /\ Without(b, u)
<1>1. /\ a \o b \in Text /\ Len(a) \in Nat /\ Len(b) \in Nat /\ Len(a \o b) = Len(a) + Len(b)
      /\ \A i \in 1..Len(a) : (a \o b)[i] = a[i]
      /\ \A i \in 1..Len(b) : (a \o b)[Len(a) + i] = b[i]
  BY Joined
<1> DEFINE x == a \o b
           n == Len(a)
           v == Len(b)
<1>2. DOMAIN x = 1..(n + v) /\ DOMAIN a = 1..n /\ DOMAIN b = 1..v
  BY <1>1 DEF Text
<1> HIDE DEF x
<1>3. \A i \in 1..(n + v) : x[i] # u
  BY <1>2 DEF Without, x
<1>4. ASSUME NEW i \in 1..n PROVE a[i] # u
  <2>1. i \in 1..(n + v)
    BY <1>1
  <2> QED BY <1>1, <1>3, <2>1 DEF x
<1>5. ASSUME NEW i \in 1..v PROVE b[i] # u
  <2>1. n + i \in 1..(n + v)
    BY <1>1
  <2>2. x[n + i] = b[i]
    BY <1>1 DEF x
  <2> QED BY <1>3, <2>1, <2>2
<1> QED BY <1>2, <1>4, <1>5 DEF Without

(* Content-Length is neither a digit nor a version.                        *)
LEMMA LengthIsNoOther ==
  /\ "Content-Length" \notin Digits
  /\ "Content-Length" \notin DOMAIN VersionOf
BY DEF Digits, Digit, VersionOf

(* The fields of a framed response: one of them is the length.             *)
LEMMA FramedFields ==
  ASSUME NEW m \in Message, Framed(m)
  PROVE  LET fields == m.head.fields
         IN  /\ fields \in Seq(Field) /\ Len(m.body) \in 0..9
             /\ \A i \in 1..Len(fields) : OneLine(fields[i])
             /\ \E k \in 1..Len(fields) :
                  /\ fields[k] = LengthField(m)
                  /\ \A i \in 1..Len(fields) \ {k} :
                       /\ Without(fields[i].name, "Content-Length")
                       /\ Without(fields[i].value, "Content-Length")
<1> DEFINE fields == m.head.fields
           n == Len(fields)
           b == Len(m.body)
<1>1. m.head \in Header /\ m.body \in Text
  BY DEF Message
<1>2. fields \in Seq(Field) /\ n \in Nat /\ DOMAIN fields = 1..n
  BY <1>1 DEF Header
<1>3. b \in 0..9
  <2>1. b \in Nat
    BY <1>1 DEF Text
  <2>2. b < 10
    BY DEF Framed
  <2> HIDE DEF b
  <2> QED BY <2>1, <2>2
<1>4. PICK k \in 1..n :
        /\ fields[k] = LengthField(m)
        /\ \A i \in 1..n \ {k} :
             LET f == fields[i].name \o fields[i].value
             IN  f # <<>> /\ Without(f, "Content-Length") /\ Without(f, "crlf")
  BY <1>2 DEF Framed
<1>5. ASSUME NEW i \in 1..n, i # k
      PROVE  /\ Without(fields[i].name, "Content-Length")
             /\ Without(fields[i].value, "Content-Length")
             /\ OneLine(fields[i])
  <2> DEFINE a == fields[i].name
             v == fields[i].value
  <2>1. a \in Text /\ v \in Text
    <3>1. fields[i] \in Field
      BY <1>2
    <3> QED BY <3>1 DEF Field
  <2>2. Without(a \o v, "Content-Length") /\ Without(a \o v, "crlf")
    BY <1>4, <1>5
  <2>3. /\ Without(a, "Content-Length") /\ Without(v, "Content-Length")
        /\ Without(a, "crlf") /\ Without(v, "crlf")
    <3> HIDE DEF a, v
    <3> QED BY <2>1, <2>2, WithoutParts
  <2> QED BY <2>3 DEF OneLine
<1>6. OneLine(fields[k])
  <2> DEFINE d == Digit[b + 1]
  <2>1. d # "crlf"
    <3>1. b + 1 \in 1..10
      <4> HIDE DEF b
      <4> QED BY <1>3
    <3>2. d \in Digits
      BY <3>1 DEF Digits
    <3> QED BY <3>2, DigitsAreNoLineEnds
  <2>2. fields[k].name = <<"Content-Length">> /\ fields[k].value = <<d>>
    BY <1>4 DEF LengthField
  <2> HIDE DEF d
  <2>3. Without(<<"Content-Length">>, "crlf") /\ Without(<<d>>, "crlf")
    BY <2>1 DEF Without
  <2> QED BY <2>2, <2>3 DEF OneLine
<1>7. \A i \in 1..n : OneLine(fields[i])
  BY <1>5, <1>6
<1> QED BY <1>2, <1>3, <1>4, <1>5, <1>7

(* The first line of a framed response.                                    *)
LEMMA FramedLine ==
  ASSUME NEW m \in Message, Framed(m)
  PROVE  LET line == FlattenSeq(LinePieces(m))
         IN  /\ Len(line) \in Nat /\ Len(line) >= 7 /\ line[Len(line)] = "crlf"
             /\ line[1] = "HTTP/1.1"
             /\ \A j \in 1..(Len(line) - 1) : line[j] # "crlf"
             /\ \A j \in 1..Len(line) : line[j] # "Content-Length"
<1> DEFINE line == FlattenSeq(LinePieces(m))
           n == Len(m.msg)
           x == CodeUnits(m.code)
<1>1. /\ m.kind = "response" /\ m.version = 11
      /\ Without(m.msg, "crlf") /\ Without(m.msg, "Content-Length")
      /\ m.msg \in Text /\ m.code \in Nat
  BY DEF Framed, Message
<1>2. /\ Len(line) = n + 7
      /\ line[1] = VersionUnit(m.version) /\ line[2] = "sp"
      /\ line[3] = x[1] /\ line[4] = x[2] /\ line[5] = x[3] /\ line[6] = "sp"
      /\ \A j \in 1..n : line[6 + j] = m.msg[j]
      /\ line[n + 7] = "crlf"
  BY <1>1, ResponseLine
<1>3. x[1] \in Digits /\ x[2] \in Digits /\ x[3] \in Digits
  <2>1. \A i \in 1..3 : x[i] \in Digits
    BY <1>1, CodeHasThreeDigits
  <2> QED BY <2>1
<1>4. VersionUnit(m.version) = "HTTP/1.1"
  BY <1>1 DEF VersionUnit
<1>5. n \in Nat /\ DOMAIN m.msg = 1..n
  BY <1>1 DEF Text
<1> HIDE DEF line, x
<1>6. ASSUME NEW j \in 1..(n + 6) PROVE line[j] # "crlf" /\ line[j] # "Content-Length"
  <2>1. CASE j \in 1..6
    <3>1. j = 1 \/ j = 2 \/ j = 3 \/ j = 4 \/ j = 5 \/ j = 6
      BY <2>1
    <3> QED BY <1>2, <1>3, <1>4, <3>1, DigitsAreNoLineEnds, LengthIsNoOther
  <2>2. CASE j \notin 1..6
    <3>1. j - 6 \in 1..n /\ 6 + (j - 6) = j
      BY <1>5, <2>2
    <3>2. line[j] = m.msg[j - 6]
      BY <1>2, <3>1
    <3> QED BY <1>1, <1>5, <3>1, <3>2 DEF Without
  <2> QED BY <2>1, <2>2
<1>7. Len(line) \in Nat /\ Len(line) >= 7 /\ Len(line) - 1 = n + 6
  BY <1>2, <1>5
<1>8. ASSUME NEW j \in 1..Len(line) PROVE line[j] # "Content-Length"
  <2>1. j \in 1..(n + 6) \/ j = n + 7
    BY <1>2, <1>5
  <2> QED BY <1>2, <1>6, <2>1
<1> QED BY <1>2, <1>4, <1>6, <1>7, <1>8 DEF line

(* The text of a framed response: its version, the end e of its header,    *)
(* and the only Content-Length c, which gives the rest.                    *)
IsFramed(t, e, c, d) ==
  /\ t \in Text /\ e \in HeaderEnds(t) /\ \A j \in HeaderEnds(t) : e <= j
  /\ t[1] = "HTTP/1.1" /\ d \in 0..9 /\ Len(t) = e + d
  /\ c \in Nat /\ c > 1 /\ c + 3 < e
  /\ t[c] = "Content-Length" /\ t[c + 1] = ":" /\ t[c + 2] = Digit[d + 1] /\ t[c + 3] = "crlf"
  /\ \A j \in 1..e : t[j] = "Content-Length" => j = c

(* The four units of the field that gives the length.                      *)
LEMMA LengthLies ==
  ASSUME NEW m \in Message, NEW t, NEW a \in Nat, NEW b \in Nat,
         FieldLies(t, LengthField(m), a, b)
  PROVE  /\ b = a + 4 /\ t[a + 1] = "Content-Length" /\ t[a + 2] = ":"
         /\ t[a + 3] = Digit[Len(m.body) + 1] /\ t[a + 4] = "crlf"
<1> DEFINE d == Digit[Len(m.body) + 1]
           f == LengthField(m)
<1>1. f.name = <<"Content-Length">> /\ f.value = <<d>>
  BY DEF LengthField
<1> HIDE DEF d, f
<1>2. /\ Len(f.name) = 1 /\ Len(f.value) = 1 /\ f.name[1] = "Content-Length" /\ f.value[1] = d
  BY <1>1
<1>3. /\ b = a + Len(f.name) + Len(f.value) + 2
      /\ \A j \in 1..Len(f.name) : t[a + j] = f.name[j]
      /\ t[a + Len(f.name) + 1] = ":"
      /\ \A j \in 1..Len(f.value) : t[a + Len(f.name) + 1 + j] = f.value[j]
      /\ t[b] = "crlf"
  BY DEF FieldLies, f
<1>4. /\ 1 \in 1..Len(f.name) /\ 1 \in 1..Len(f.value) /\ a + Len(f.name) + 1 = a + 2
      /\ a + Len(f.name) + 1 + 1 = a + 3 /\ b = a + 4
  BY <1>2, <1>3
<1>5. t[a + 1] = "Content-Length" /\ t[a + 2] = ":"
  BY <1>2, <1>3, <1>4
<1>6. t[a + 3] = d
  <2>1. t[a + Len(f.name) + 1 + 1] = f.value[1]
    BY <1>3, <1>4
  <2> QED BY <1>2, <1>4, <2>1
<1> QED BY <1>3, <1>4, <1>5, <1>6 DEF d

(* The printed text of a framed response is framed.                        *)
LEMMA FramedText ==
  ASSUME NEW m \in Message, Framed(m)
  PROVE  \E e, c : IsFramed(Printed(m), e, c, Len(m.body))
<1> DEFINE t == Printed(m)
           line == FlattenSeq(LinePieces(m))
           fields == m.head.fields
           h == FlattenSeq(FieldPieces(fields))
           n == Len(fields)
           d == Len(m.body)
<1>1. /\ fields \in Seq(Field) /\ n \in Nat /\ d \in 0..9
      /\ \A i \in 1..n : OneLine(fields[i])
  BY FramedFields
<1>2. PICK k \in 1..n :
        /\ fields[k] = LengthField(m)
        /\ \A i \in 1..n \ {k} :
             /\ Without(fields[i].name, "Content-Length")
             /\ Without(fields[i].value, "Content-Length")
  BY FramedFields
<1>3. t \in Text /\ line \in Text /\ Lies(t, line, h, m.body) /\ m.body \in Text /\ h \in Text
  <2>1. m.head.type = "struct"
    BY DEF Framed
  <2>2. h \in Text
    BY <1>1, PrintedFieldsLie
  <2> QED BY <2>1, <2>2, PrintedLies DEF Message
<1>4. /\ Len(line) \in Nat /\ Len(line) >= 7 /\ line[Len(line)] = "crlf"
      /\ line[1] = "HTTP/1.1"
      /\ \A j \in 1..(Len(line) - 1) : line[j] # "crlf"
      /\ \A j \in 1..Len(line) : line[j] # "Content-Length"
  BY FramedLine
<1>5. PICK p : HeaderLies(t, fields, p) /\ p[0] = Len(line) /\ p[n] = Len(line) + Len(h)
  <2>1. Len(line) >= 1
    BY <1>4
  <2> HIDE DEF t, line, fields
  <2> DEFINE b == m.body
  <2>2. b \in Text /\ Lies(t, line, FlattenSeq(FieldPieces(fields)), b)
    BY <1>3
  <2> HIDE DEF b
  <2> QED BY <1>1, <1>3, <1>4, <2>1, <2>2, HeaderIsThere DEF h, n
<1> HIDE DEF t, line, h
<1> DEFINE e == p[n] + 1
           a == p[k - 1]
           c == a + 1
           l == Len(line)
<1>6. /\ Len(t) = l + Len(h) + 1 + d
      /\ \A j \in 1..l : t[j] = line[j]
  BY <1>3 DEF Lies
<1>7. \A i \in 0..n : p[i] \in Nat
  BY <1>3, <1>1, <1>5, HeaderPositions
<1>8. ASSUME NEW i \in 1..n
      PROVE  /\ p[i - 1] \in Nat /\ p[i] \in Nat /\ p[0] <= p[i - 1] /\ p[i] <= p[n]
             /\ p[i - 1] + 2 <= p[i] /\ FieldLies(t, fields[i], p[i - 1], p[i])
             /\ fields[i] \in Field
  <2>1. /\ 0 \in 0..n /\ n \in 0..n /\ i - 1 \in 0..n /\ i \in 0..n /\ 0 <= i - 1 /\ i <= n
        /\ i - 1 <= i /\ i - 1 < i
    BY <1>1
  <2>2. FieldsLie(t, fields, p)
    BY <1>5 DEF HeaderLies
  <2>3. p[0] <= p[i - 1]
    BY <1>1, <2>1, <2>2, PositionsGrow
  <2>4. p[i] <= p[n]
    BY <1>1, <2>1, <2>2, PositionsGrow
  <2>5. p[i - 1] + 2 <= p[i]
    BY <1>1, <2>1, <2>2, PositionsGrow
  <2>6. FieldLies(t, fields[i], p[i - 1], p[i])
    BY <2>2 DEF FieldsLie
  <2>7. fields[i] \in Field
    BY <1>1
  <2> QED BY <1>7, <2>1, <2>3, <2>4, <2>5, <2>6, <2>7
<1>9. e \in HeaderEnds(t) /\ \A j \in HeaderEnds(t) : e <= j
  <2>1. ASSUME NEW j \in 1..(p[0] - 1) PROVE t[j] # "crlf"
    <3>1. j \in 1..(l - 1) /\ j \in 1..l
      BY <1>4, <1>5
    <3> QED BY <1>4, <1>6, <3>1
  <2> QED BY <1>1, <1>3, <1>5, <2>1, HeaderEndsThere
<1>10. t[1] = "HTTP/1.1" /\ Len(t) = e + d
  <2>1. 1 \in 1..l
    BY <1>4
  <2>2. t[1] = line[1]
    BY <1>6, <2>1
  <2>3. Len(h) \in Nat
    BY <1>3 DEF Text
  <2>4. Len(t) = e + d
    <3> HIDE DEF d, n
    <3> QED BY <1>1, <1>4, <1>5, <1>6, <2>3
  <2> QED BY <1>4, <2>2, <2>4
<1>11. FieldLies(t, LengthField(m), a, p[k]) /\ a \in Nat /\ p[k] \in Nat /\ p[0] <= a /\ p[k] <= p[n]
  BY <1>2, <1>8
<1>12. /\ p[k] = a + 4 /\ t[a + 1] = "Content-Length" /\ t[a + 2] = ":"
       /\ t[a + 3] = Digit[d + 1] /\ t[a + 4] = "crlf"
  <2> HIDE DEF a
  <2> QED BY <1>11, LengthLies
<1>13. /\ c \in Nat /\ c > 1 /\ c + 3 < e
       /\ t[c] = "Content-Length" /\ t[c + 1] = ":" /\ t[c + 2] = Digit[d + 1] /\ t[c + 3] = "crlf"
  <2>1. p[n] \in Nat /\ p[0] >= 7
    BY <1>1, <1>4, <1>5, <1>7
  <2> HIDE DEF a, n, d
  <2>2. c \in Nat /\ c > 1 /\ c + 3 < e /\ c + 1 = a + 2 /\ c + 2 = a + 3 /\ c + 3 = a + 4
    BY <1>4, <1>5, <1>11, <1>12, <2>1
  <2> QED BY <1>12, <2>2
<1>14. ASSUME NEW j \in 1..e, t[j] = "Content-Length" PROVE j = c
  <2>1. j \in Nat /\ p[0] < j /\ j <= p[n] /\ p[0] \in Nat /\ p[n] \in Nat
    <3>1. p[0] \in Nat /\ p[n] \in Nat
      BY <1>1, <1>7
    <3>2. ~(j <= p[0])
      <4>1. SUFFICES ASSUME j <= p[0] PROVE FALSE
        OBVIOUS
      <4>2. j \in 1..l
        BY <1>5, <3>1, <4>1
      <4> QED BY <1>4, <1>6, <1>14, <4>2
    <3>3. t[e] = "crlf"
      BY <1>9 DEF HeaderEnds
    <3>4. j # e
      BY <1>14, <3>3
    <3> QED BY <3>1, <3>2, <3>4
  <2>2. PICK i \in 1..n : p[i - 1] < j /\ j <= p[i]
    <3>1. FieldsLie(t, fields, p)
      BY <1>5 DEF HeaderLies
    <3> QED BY <1>1, <2>1, <3>1, FieldOf
  <2>3. t[p[i]] = "crlf"
    BY <1>8 DEF FieldLies
  <2>4. j < p[i]
    BY <1>8, <1>14, <2>1, <2>2, <2>3
  <2>5. i = k
    <3>1. SUFFICES ASSUME i # k PROVE FALSE
      OBVIOUS
    <3> DEFINE f == fields[i]
               x == p[i - 1]
               y == p[i]
    <3>2. /\ f \in Field /\ x \in Nat /\ y \in Nat /\ FieldLies(t, f, x, y) /\ x < j /\ j < y
          /\ Without(f.name, "Content-Length") /\ Without(f.value, "Content-Length")
      BY <1>2, <1>8, <2>2, <2>4, <3>1
    <3> HIDE DEF f, x, y
    <3> QED BY <1>14, <2>1, <3>2, NotInField
  <2>6. a < j /\ j < a + 4
    BY <1>12, <2>2, <2>4, <2>5
  <2>7. j = a + 1 \/ j = a + 2 \/ j = a + 3
    <3>1. a \in Nat /\ j \in Nat
      BY <1>11, <2>1
    <3> HIDE DEF a
    <3> QED BY <2>6, <3>1
  <2>8. t[a + 3] # "Content-Length"
    <3>1. d + 1 \in 1..10
      <4> HIDE DEF d
      <4> QED BY <1>1
    <3>2. Digit[d + 1] \in Digits
      BY <3>1 DEF Digits
    <3> QED BY <1>12, <3>2, LengthIsNoOther
  <2> QED BY <1>12, <1>14, <2>7, <2>8
<1> HIDE DEF e, c, d
<1>15. IsFramed(t, e, c, d)
  BY <1>1, <1>3, <1>9, <1>10, <1>13, <1>14 DEF IsFramed
<1> QED BY <1>15 DEF t, d

(* A number of a text is far below the sign bit of a ssize_t.              *)
LEMMA WrappedIs ==
  ASSUME NEW v \in Nat, v < Pow2[2 * IntBits - 1]
  PROVE  Wrapped(v) = v
<1> DEFINE top == 2 * IntBits
           half == Pow2[top - 1]
           all == Pow2[top]
<1>1. top \in 1..top /\ top - 1 \in 0..top /\ top \in 0..top
  BY Widths
<1>2. half \in Nat /\ all \in Nat /\ all = 2 * half
  BY <1>1, PowersAreNumbers, BuilderAssumption
<1> HIDE DEF top, half, all
<1>3. v < half
  BY DEF half, top
<1>4. v % all = v /\ ~(v >= half)
  BY <1>2, <1>3
<1> QED BY <1>4 DEF Wrapped, half, all, top

(* What a builder may be asked for, and a digit, is below the sign bit of a*)
(* ssize_t.                                                                *)
LEMMA SmallIsLess ==
  ASSUME NEW v \in Nat, v <= Quarter \/ v < 10
  PROVE  v < Pow2[2 * IntBits - 1]
<1>1. Pow2[1] = 2 /\ Pow2[2] = 4 /\ Pow2[3] = 8 /\ Pow2[4] = 16
  <2>1. 1 \in 1..(2 * IntBits) /\ 2 \in 1..(2 * IntBits) /\ 3 \in 1..(2 * IntBits) /\ 4 \in 1..(2 * IntBits)
    BY Widths
  <2>2. Pow2[0] = 1 /\ \A k \in 1..(2 * IntBits) : Pow2[k] = 2 * Pow2[k - 1]
    BY BuilderAssumption
  <2>3. Pow2[1] = 2 * Pow2[1 - 1] /\ Pow2[2] = 2 * Pow2[2 - 1] /\ Pow2[3] = 2 * Pow2[3 - 1]
        /\ Pow2[4] = 2 * Pow2[4 - 1]
    BY <2>1, <2>2
  <2>4. 1 - 1 = 0 /\ 2 - 1 = 1 /\ 3 - 1 = 2 /\ 4 - 1 = 3
    OBVIOUS
  <2> QED BY <2>2, <2>3, <2>4
<1> DEFINE top == 2 * IntBits
<1>2. top \in Nat /\ top >= 6 /\ IntBits \in Nat /\ IntBits < top - 1 /\ IntBits - 2 \in 0..top /\ IntBits > 2
      /\ top - 1 \in 0..top
  BY Widths
<1> HIDE DEF top
<1>3. 4 \in 0..top /\ 4 <= top - 1
  BY <1>2
<1>4. Pow2[4] <= Pow2[top - 1] /\ Pow2[top - 1] \in Nat
  BY <1>2, <1>3, PowersGrow, PowersAreNumbers DEF top
<1>5. IntBits - 1 \in 1..top /\ IntBits - 1 <= top - 1 /\ IntBits - 1 \in 0..top
  BY <1>2
<1>6. Pow2[IntBits - 1] = 2 * Pow2[IntBits - 2]
  <2>1. (IntBits - 1) - 1 = IntBits - 2
    BY <1>2
  <2> QED BY <1>5, <2>1, BuilderAssumption DEF top
<1>7. Pow2[IntBits - 1] <= Pow2[top - 1] /\ Pow2[IntBits - 2] \in Nat /\ Pow2[0] <= Pow2[IntBits - 2]
  BY <1>2, <1>5, PowersGrow, PowersAreNumbers DEF top
<1>8. Quarter \in Nat /\ Quarter < Pow2[top - 1]
  <2> DEFINE x == Pow2[IntBits - 2]
             y == Pow2[IntBits - 1]
             z == Pow2[top - 1]
  <2>1. Pow2[0] = 1
    BY BuilderAssumption
  <2>2. x \in Nat /\ x >= 1 /\ y = 2 * x /\ y <= z /\ z \in Nat
    BY <1>4, <1>6, <1>7, <2>1
  <2> HIDE DEF x, y, z
  <2>3. x < z
    BY <2>2
  <2> QED BY <2>2, <2>3 DEF Quarter, x, z
<1>9. v < Pow2[top - 1]
  <2> DEFINE z == Pow2[top - 1]
  <2>1. z \in Nat /\ z >= 16 /\ Quarter < z
    BY <1>1, <1>4, <1>8
  <2> HIDE DEF z
  <2> QED BY <1>8, <2>1 DEF z
<1> QED BY <1>9 DEF top

LEMMA SpaceIsNoDigit == "sp" \notin Digits
BY DEF Digits, Digit

(* The length that one digit between a colon and a line end gives.         *)
LEMMA LengthIs ==
  ASSUME NEW h \in Text, NEW d \in 0..9, NEW c \in Nat, c > 1, c + 3 <= Len(h),
         h[c] = "Content-Length", h[c + 1] = ":", h[c + 2] = Digit[d + 1], h[c + 3] = "crlf",
         \A j \in 1..Len(h) : h[j] = "Content-Length" => j = c
  PROVE  LengthFields(h) # {} /\ ContentLength(h) = d
<1>1. Len(h) \in Nat
  BY DEF Text
<1>2. LengthFields(h) = {c}
  BY <1>1 DEF LengthFields
<1>3. Lowest(LengthFields(h)) = c
  BY <1>2, LowestEquals
<1> DEFINE from == Lowest(LengthFields(h)) + 2
           run == SubSeq(h, from, Skip(h, from, Digits \cup {"sp"}) - 1)
           value[k \in 0..Len(run)] ==
             IF k = 0 THEN 0
             ELSE IF run[k] = "sp" THEN value[k - 1]
             ELSE Wrapped(10 * value[k - 1] + NumberOf(run[k]))
<1>4. ContentLength(h) = IF \A k \in DOMAIN run : run[k] = "sp" THEN -1 ELSE value[Len(run)]
  BY DEF ContentLength
<1> DEFINE S == Digits \cup {"sp"}
<1>5. from = c + 2
  BY <1>3
<1>6. /\ At(h, c + 2) \in Digits /\ At(h, c + 3) = "crlf"
      /\ NumberOf(At(h, c + 2)) = d /\ h[c + 2] = At(h, c + 2)
  <2>1. d + 1 \in 1..10 /\ c + 2 \in 1..Len(h) /\ c + 3 \in 1..Len(h)
    BY <1>1
  <2> QED BY <2>1, NumberOfIs DEF At, Digits
<1>7. Skip(h, from, S) = c + 3
  <2>1. c + 2 \in 1..(Len(h) + 1) /\ c + 3 \in (c + 2)..(Len(h) + 1)
    BY <1>1
  <2>2. \A j \in (c + 2)..((c + 3) - 1) : j = c + 2
    OBVIOUS
  <2>3. "crlf" \notin S
    BY DigitsAreNoLineEnds
  <2>4. \A j \in (c + 2)..((c + 3) - 1) : At(h, j) \in S
    BY <1>6, <2>2
  <2> HIDE DEF S
  <2>5. Skip(h, c + 2, S) = c + 3
    BY <1>6, <2>1, <2>3, <2>4, SkipEquals
  <2> QED BY <1>5, <2>5
<1>8. run \in Text /\ Len(run) = 1 /\ run[1] = h[c + 2]
  <2>1. run = SubSeq(h, c + 2, c + 2)
    <3>1. (c + 3) - 1 = c + 2
      OBVIOUS
    <3> QED BY <1>5, <1>7, <3>1
  <2> DEFINE r == SubSeq(h, c + 2, c + 2)
             i == c + 2
  <2>2. i \in Int /\ i >= 1 /\ i <= Len(h) /\ i <= i /\ i - i + 1 = 1 /\ i + 1 - 1 = i /\ 1 \in 1..1
    BY <1>1
  <2>3. r \in Text /\ Len(r) = 1 /\ r[1] = h[i]
    <3> HIDE DEF i
    <3>1. /\ SubSeq(h, i, i) \in Text
          /\ Len(SubSeq(h, i, i)) = IF i <= i THEN i - i + 1 ELSE 0
          /\ \A k \in 1..(i - i + 1) : SubSeq(h, i, i)[k] = h[i + k - 1]
      BY <2>2, SubText
    <3> QED BY <2>2, <3>1 DEF i
  <2> QED BY <2>1, <2>3
<1> HIDE DEF run, from
<1>9. run[1] \in Digits /\ NumberOf(run[1]) = d /\ run[1] # "sp" /\ DOMAIN run = 1..1
  <2>1. "sp" \notin Digits
    BY SpaceIsNoDigit
  <2> QED BY <1>6, <1>8, <2>1 DEF Text
<1>10. ContentLength(h) = value[1]
  <2>1. ~(\A k \in DOMAIN run : run[k] = "sp")
    BY <1>9
  <2> HIDE DEF value
  <2> QED BY <1>4, <1>8, <2>1
<1>11. Wrapped(d) = d
  BY SmallIsLess, WrappedIs
<1> DEFINE Step(g) == [k \in 0..Len(run) |->
                        IF k = 0 THEN 0
                        ELSE IF run[k] = "sp" THEN g[k - 1]
                        ELSE Wrapped(10 * g[k - 1] + NumberOf(run[k]))]
           w == [k \in 0..1 |-> IF k = 0 THEN 0 ELSE d]
<1>12. w = Step(w)
  <2>1. ASSUME NEW k \in 0..1
        PROVE  w[k] = IF k = 0 THEN 0 ELSE IF run[k] = "sp" THEN w[k - 1]
                      ELSE Wrapped(10 * w[k - 1] + NumberOf(run[k]))
    <3>1. CASE k = 0
      BY <3>1
    <3>2. CASE k = 1
      <4>1. w[0] = 0 /\ w[1] = d /\ k - 1 = 0 /\ 10 * 0 + d = d
        BY <3>2
      <4> HIDE DEF w
      <4> QED BY <1>9, <1>11, <3>2, <4>1
    <3> QED BY <3>1, <3>2
  <2>2. 0..Len(run) = 0..1
    BY <1>8
  <2> QED BY <2>1, <2>2
<1>13. value = Step(value)
  <2>1. value = CHOOSE g : g = Step(g)
    OBVIOUS
  <2> HIDE DEF value, Step, w
  <2> QED BY <1>12, <2>1
<1> HIDE DEF value
<1>14. value[0] = 0 /\ value[1] = Wrapped(10 * value[0] + NumberOf(run[1]))
  <2>1. 0 \in 0..Len(run) /\ 1 \in 0..Len(run) /\ 1 - 1 = 0 /\ 1 # 0
    BY <1>8
  <2>2. \A k \in 0..Len(run) :
          value[k] = IF k = 0 THEN 0 ELSE IF run[k] = "sp" THEN value[k - 1]
                     ELSE Wrapped(10 * value[k - 1] + NumberOf(run[k]))
    BY <1>13
  <2> QED BY <1>9, <2>1, <2>2
<1>15. 10 * 0 + d = d
  OBVIOUS
<1> QED BY <1>2, <1>9, <1>10, <1>11, <1>14, <1>15

(* Any beginning of a framed text tells the controller to go on, no further*)
(* than to its end, and to go on unless it is the whole.                   *)
LEMMA ControlledPrefix ==
  ASSUME NEW t, NEW e, NEW c, NEW d, IsFramed(t, e, c, d), Len(t) <= Quarter,
         NEW x \in Text, Len(x) <= Len(t), \A j \in 1..Len(x) : x[j] = t[j]
  PROVE  /\ Controlled(x).act = "receive"
         /\ Controlled(x).max \in Nat /\ Controlled(x).max <= Len(t)
         /\ Controlled(x).max <= Len(x) => Len(x) = Len(t)
<1> DEFINE n == Len(x)
           l == Len(t)
           r == Controlled(x)
<1>1. /\ t \in Text /\ e \in HeaderEnds(t) /\ \A j \in HeaderEnds(t) : e <= j
      /\ t[1] = "HTTP/1.1" /\ d \in 0..9 /\ l = e + d
      /\ c \in Nat /\ c > 1 /\ c + 3 < e
      /\ t[c] = "Content-Length" /\ t[c + 1] = ":" /\ t[c + 2] = Digit[d + 1] /\ t[c + 3] = "crlf"
      /\ \A j \in 1..e : t[j] = "Content-Length" => j = c
  BY DEF IsFramed
<1>2. n \in Nat /\ l \in Nat /\ n <= l /\ l <= Quarter
  BY <1>1 DEF Text
<1>3. e \in Nat /\ e >= 2 /\ e <= l /\ t[e] = "crlf" /\ t[e - 1] = "crlf"
  BY <1>1, <1>2 DEF HeaderEnds
<1>4. \A j \in 1..n : x[j] = t[j]
  OBVIOUS
<1> HIDE DEF n, l
<1>5. CASE LineEnds(x, 1) = {}
  <2>1. n < c + 3
    <3>1. SUFFICES ASSUME ~(n < c + 3) PROVE FALSE
      OBVIOUS
    <3>2. c + 3 \in 1..n
      BY <1>1, <1>2, <3>1
    <3>3. c + 3 \in LineEnds(x, 1)
      BY <1>1, <1>4, <3>2 DEF LineEnds, n
    <3> QED BY <1>5, <3>3
  <2>2. r = Limit(n + 1)
    BY <1>5 DEF Controlled, n
  <2>3. r.act = "receive" /\ r.max = n + 1
    BY <2>2 DEF Limit
  <2>4. r.max \in Nat /\ r.max <= l /\ ~(r.max <= n)
    BY <1>1, <1>2, <1>3, <2>1, <2>3
  <2> QED BY <2>3, <2>4 DEF n, l
<1>6. CASE LineEnds(x, 1) # {}
  <2>1. n >= 1
    BY <1>2, <1>6 DEF LineEnds, n
  <2>2. x[1] = "HTTP/1.1" /\ At(x, 1) = "HTTP/1.1"
    <3>1. 1 \in 1..n
      BY <1>2, <2>1
    <3> QED BY <1>1, <1>4, <3>1 DEF At, n
  <2>3. "HTTP/1.1" \in DOMAIN VersionOf /\ VersionOf["HTTP/1.1"] = 11
    BY DEF VersionOf
  <2>4. r = IF HeaderEnds(x) = {} THEN Limit(n + 1) ELSE EndOfMessage(x)
    <3>1. ~(VersionOf[x[1]] < 11)
      BY <2>2, <2>3
    <3> QED BY <1>6, <2>2, <2>3, <3>1 DEF Controlled, n
  <2>5. ASSUME NEW j \in HeaderEnds(x) PROVE j \in HeaderEnds(t) /\ j <= n
    <3>1. j \in 2..n /\ x[j] = "crlf" /\ x[j - 1] = "crlf"
      BY DEF HeaderEnds, n
    <3>2. j \in 1..n /\ j - 1 \in 1..n /\ j \in 2..l
      BY <1>2, <3>1
    <3> QED BY <1>4, <3>1, <3>2 DEF HeaderEnds, l
  <2>6. CASE HeaderEnds(x) = {}
    <3>1. n < e
      <4>1. SUFFICES ASSUME ~(n < e) PROVE FALSE
        OBVIOUS
      <4>2. e \in 2..n /\ e \in 1..n /\ e - 1 \in 1..n
        BY <1>2, <1>3, <4>1
      <4>3. e \in HeaderEnds(x)
        BY <1>3, <1>4, <4>2 DEF HeaderEnds, n
      <4> QED BY <2>6, <4>3
    <3>2. r.act = "receive" /\ r.max = n + 1
      BY <2>4, <2>6 DEF Limit
    <3>3. r.max \in Nat /\ r.max <= l /\ ~(r.max <= n)
      BY <1>2, <1>3, <3>1, <3>2
    <3> QED BY <3>2, <3>3 DEF n, l
  <2>7. CASE HeaderEnds(x) # {}
    <3>1. e <= n
      <4>1. PICK j \in HeaderEnds(x) : TRUE
        BY <2>7
      <4>2. e <= j /\ j <= n /\ j \in Nat
        BY <1>1, <2>5, <4>1 DEF HeaderEnds
      <4> QED BY <1>2, <1>3, <4>2
    <3>2. Lowest(HeaderEnds(x)) = e
      <4>1. e \in 2..n /\ e \in 1..n /\ e - 1 \in 1..n
        BY <1>2, <1>3, <3>1
      <4>2. e \in HeaderEnds(x)
        BY <1>3, <1>4, <4>1 DEF HeaderEnds, n
      <4>3. \A j \in HeaderEnds(x) : e <= j
        BY <1>1, <2>5
      <4>4. HeaderEnds(x) \in SUBSET Nat
        BY DEF HeaderEnds
      <4> QED BY <4>2, <4>3, <4>4, LowestEquals
    <3> DEFINE h == SubSeq(x, 1, e)
    <3>3. h \in Text /\ Len(h) = e /\ \A j \in 1..e : h[j] = t[j]
      <4>1. 1 \in Int /\ e \in Int /\ 1 >= 1 /\ e <= Len(x) /\ 1 <= e /\ e - 1 + 1 = e
        BY <1>3, <3>1 DEF n
      <4>2. /\ h \in Text
            /\ Len(h) = IF 1 <= e THEN e - 1 + 1 ELSE 0
            /\ \A k \in 1..(e - 1 + 1) : h[k] = x[1 + k - 1]
        BY <4>1, SubText
      <4>3. ASSUME NEW j \in 1..e PROVE h[j] = t[j]
        <5>1. j \in 1..(e - 1 + 1) /\ 1 + j - 1 = j /\ j \in 1..n
          BY <1>2, <1>3, <3>1
        <5>2. h[j] = x[1 + j - 1]
          BY <4>2, <5>1
        <5> HIDE DEF h
        <5> QED BY <1>4, <5>1, <5>2
      <4> HIDE DEF h
      <4> QED BY <4>1, <4>2, <4>3
    <3> HIDE DEF h
    <3>4. LengthFields(h) # {} /\ ContentLength(h) = d
      <4>1. /\ c \in 1..e /\ c + 1 \in 1..e /\ c + 2 \in 1..e /\ c + 3 \in 1..e /\ c + 3 <= Len(h)
            /\ Len(h) = e
        BY <1>1, <1>3, <3>3
      <4>2. /\ h[c] = "Content-Length" /\ h[c + 1] = ":" /\ h[c + 2] = Digit[d + 1]
            /\ h[c + 3] = "crlf"
            /\ \A j \in 1..Len(h) : h[j] = "Content-Length" => j = c
        BY <1>1, <3>3, <4>1
      <4> QED BY <1>1, <3>3, <4>1, <4>2, LengthIs
    <3>5. EndOfMessage(x) = Limit(Wrapped(d + e))
      <4>1. ~(d < 0)
        BY <1>1
      <4> QED BY <3>2, <3>3, <3>4, <4>1 DEF EndOfMessage, h
    <3>6. d + e = l /\ Wrapped(l) = l
      <4>1. d + e = l
        BY <1>1, <1>3
      <4>2. l < Pow2[2 * IntBits - 1]
        BY <1>2, SmallIsLess
      <4> QED BY <1>2, <4>1, <4>2, WrappedIs
    <3>7. r.act = "receive" /\ r.max = l
      BY <2>4, <2>7, <3>5, <3>6 DEF Limit
    <3>8. l <= n => n = l
      BY <1>2
    <3> QED BY <1>2, <3>7, <3>8 DEF n, l
  <2> QED BY <2>6, <2>7
<1> QED BY <1>5, <1>6

(* A prefix has the units of the text.                                     *)
LEMMA PrefixUnits ==
  ASSUME NEW a \in Text, NEW b \in Text
  PROVE  IsPrefix(a, b) <=> Len(a) <= Len(b) /\ \A j \in 1..Len(a) : a[j] = b[j]
<1> DEFINE n == Len(a)
<1>1. n \in Nat /\ Len(b) \in Nat /\ a \in Seq(Units)
  BY DEF Text
<1>2. SubSeq(a, 1, n) = a
  BY <1>1, SubSeqFull
<1>3. SUFFICES ASSUME n <= Len(b)
               PROVE  SubSeq(b, 1, n) = a <=> \A j \in 1..n : a[j] = b[j]
  BY <1>1, <1>2 DEF IsPrefix
<1> DEFINE s == SubSeq(b, 1, n)
<1>4. s \in Text /\ Len(s) = n /\ \A j \in 1..n : s[j] = b[j]
  <2> HIDE DEF n
  <2>1. 1 \in Int /\ n \in Int /\ 1 >= 1 /\ n <= Len(b) /\ n - 1 + 1 = n
    BY <1>1, <1>3
  <2>2. /\ s \in Text
        /\ Len(s) = IF 1 <= n THEN n - 1 + 1 ELSE 0
        /\ \A k \in 1..(n - 1 + 1) : s[k] = b[1 + k - 1]
    BY <2>1, SubText
  <2> HIDE DEF s
  <2>3. Len(s) = n
    BY <1>1, <2>2
  <2>4. ASSUME NEW j \in 1..n PROVE s[j] = b[j]
    <3>1. j \in 1..(n - 1 + 1) /\ 1 + j - 1 = j
      BY <1>1
    <3> QED BY <2>2, <3>1
  <2> QED BY <2>2, <2>3, <2>4
<1> HIDE DEF s
<1>5. (\A j \in 1..n : a[j] = b[j]) => s = a
  <2>1. SUFFICES ASSUME \A j \in 1..n : a[j] = b[j] PROVE s = a
    OBVIOUS
  <2>2. s \in Seq(Units) /\ a \in Seq(Units) /\ Len(s) = Len(a) /\ \A j \in 1..Len(s) : s[j] = a[j]
    BY <1>1, <1>4, <2>1 DEF Text
  <2> QED BY <2>2, SeqEqual
<1>6. s = a => \A j \in 1..n : a[j] = b[j]
  BY <1>4
<1> QED BY <1>5, <1>6 DEF s

(* What has been received of a text that begins with t is a beginning of t,*)
(* if it is not longer.                                                    *)
LEMMA ReceivedIsPrefix ==
  ASSUME NEW x \in Text, NEW s \in Text, NEW t \in Text, IsPrefix(t, x \o s), Len(x) <= Len(t)
  PROVE  \A j \in 1..Len(x) : x[j] = t[j]
<1> DEFINE w == x \o s
<1>1. /\ w \in Text /\ Len(x) \in Nat
      /\ \A j \in 1..Len(x) : w[j] = x[j]
  BY Joined
<1>2. Len(t) \in Nat
  BY DEF Text
<1> HIDE DEF w
<1>3. \A j \in 1..Len(t) : t[j] = w[j]
  BY <1>1, PrefixUnits DEF w
<1>4. ASSUME NEW j \in 1..Len(x) PROVE x[j] = t[j]
  <2>1. j \in 1..Len(t)
    BY <1>1, <1>2
  <2> QED BY <1>1, <1>3, <2>1
<1> QED BY <1>4

LEMMA Associates ==
  ASSUME NEW x \in Text, NEW a \in Text, NEW b \in Text
  PROVE  (x \o a) \o b = x \o (a \o b)
<1>1. x \in Seq(Units) /\ a \in Seq(Units) /\ b \in Seq(Units)
  BY DEF Text
<1> QED BY <1>1, ConcatAssociative

(* A recv moves units from the stream to the builder.                      *)
LEMMA ChunkMoves ==
  ASSUME NEW x \in Text, NEW s \in Text, NEW n \in 1..Len(s)
  PROVE  (x \o SubSeq(s, 1, n)) \o SubSeq(s, n + 1, Len(s)) = x \o s
<1> DEFINE l == Len(s)
           a == SubSeq(s, 1, n)
           b == SubSeq(s, n + 1, l)
<1>1. x \in Seq(Units) /\ s \in Seq(Units) /\ l \in Nat
  BY DEF Text
<1>2. a \in Seq(Units) /\ b \in Seq(Units)
  BY <1>1, SMTT(30)
<1>3. a \o b = s
  <2>1. 1 \in 1..(l + 1) /\ n \in (1 - 1)..l /\ l \in n..l
    BY <1>1
  <2>2. SubSeq(s, 1, n) \o SubSeq(s, n + 1, l) = SubSeq(s, 1, l)
    <3> HIDE DEF a, b
    <3> QED BY <1>1, <2>1, ConcatAdjacentSubSeq
  <2>3. SubSeq(s, 1, l) = s
    BY <1>1, SubSeqFull
  <2> QED BY <2>2, <2>3
<1> HIDE DEF a, b
<1>4. (x \o a) \o b = x \o (a \o b)
  BY <1>1, <1>2, Associates DEF Text
<1> QED BY <1>3, <1>4 DEF a, b, l

(* Appending a piece moves it from what is still to be printed to the      *)
(* builder.                                                                *)
LEMMA PieceMoves ==
  ASSUME NEW x \in Text, NEW p \in Seq(Text), p # <<>>
  PROVE  (x \o Head(p)) \o FlattenSeq(Tail(p)) = x \o FlattenSeq(p)
<1> DEFINE T == Seq(Units)
           a == Head(p)
           r == Tail(p)
<1>1. x \in T /\ p \in Seq(T) /\ p # <<>>
  BY DEF Text
<1>2. a \in T /\ r \in Seq(T)
  <2> HIDE DEF T
  <2> QED BY <1>1, HeadTailProperties
<1>3. p = <<a>> \o r
  <2> HIDE DEF T
  <2>1. Len(p) \in Nat /\ Len(p) >= 1
    BY <1>1, EmptySeq
  <2>2. 1 \in 1..Len(p) /\ Len(p) \in 1..Len(p)
    BY <2>1
  <2>3. SubSeq(p, 1, Len(p)) = <<p[1]>> \o SubSeq(p, 1 + 1, Len(p))
    BY <1>1, <2>2, SubSeqRecursiveFirst
  <2>4. SubSeq(p, 1, Len(p)) = p
    BY <1>1, SubSeqFull
  <2>5. r = SubSeq(p, 2, Len(p))
    BY <1>1, TailIsSubSeq
  <2>6. a = p[1] /\ 1 + 1 = 2
    BY <1>1
  <2> QED BY <2>3, <2>4, <2>5, <2>6
<1>4. FlattenSeq(p) = a \o FlattenSeq(r) /\ FlattenSeq(r) \in T
  <2> HIDE DEF a, r
  <2>1. <<a>> \in Seq(Seq(Units))
    BY <1>2
  <2>2. FlattenSeq(<<a>> \o r) = FlattenSeq(<<a>>) \o FlattenSeq(r)
    BY <1>2, <2>1, FlattenConcat
  <2>3. FlattenSeq(<<a>>) = a
    BY <1>2, FlattenOne
  <2>4. FlattenSeq(r) \in T
    BY <1>2, FlattenType
  <2> QED BY <1>3, <2>2, <2>3, <2>4
<1> HIDE DEF a, r
<1>5. (x \o a) \o FlattenSeq(r) = x \o (a \o FlattenSeq(r))
  <2> DEFINE f == FlattenSeq(r)
  <2>1. x \in Text /\ a \in Text /\ f \in Text
    BY <1>1, <1>2, <1>4 DEF Text
  <2> HIDE DEF f
  <2>2. (x \o a) \o f = x \o (a \o f)
    BY <2>1, Associates
  <2> QED BY <2>2 DEF f
<1> QED BY <1>4, <1>5 DEF a, r

(* PrintInv is inductive relative to IInv.                                 *)
LEMMA StartPrintInv ==
  ASSUME NEW m \in Message, StartPrint(m)
  PROVE  PrintInv'
<1>1. Pieces(m) \in Seq(Seq(Units))
  BY PiecesAreTexts DEF Text
<1>2. FlattenSeq(Pieces(m)) \in Seq(Units)
  BY <1>1, FlattenType
<1>3. <<>> \o FlattenSeq(Pieces(m)) = FlattenSeq(Pieces(m))
  BY <1>2, ConcatEmptySeq
<1>4. sb'.text = <<>> /\ at' = "print" /\ pieces' = Pieces(m) /\ msg' = m
  BY DEF StartPrint, NoBuffer, NewBuffer
<1>5. Len(<<>>) = 0 /\ MaxText \in Nat
  BY MessagesAssumption
<1> QED BY <1>3, <1>4, <1>5 DEF PrintInv, Printed

LEMMA PrintPiecePrintInv ==
  ASSUME Sizes, IInv, PrintInv, PrintPiece
  PROVE  PrintInv'
<1>1. /\ pieces \in Seq(Text) /\ pieces # <<>> /\ sb \in Builder /\ Fits(sb) /\ sb.text \in Text
      /\ at = "print" /\ at' = "print" /\ msg' = msg /\ pieces' = Tail(pieces)
      /\ Len(sb.text) + Len(Head(pieces)) <= MaxText
  BY DEF PrintPiece, IInv, TextsOK, TextFits, Builder
<1>2. Head(pieces) \in Text
  BY <1>1
<1>3. sb'.text = sb.text \o Head(pieces) /\ Len(sb'.text) = Len(sb.text) + Len(Head(pieces))
  BY <1>1, <1>2, PieceFits DEF PrintPiece
<1>4. sb'.text \o FlattenSeq(pieces') = sb.text \o FlattenSeq(pieces)
  BY <1>1, <1>3, PieceMoves
<1>5. Len(sb'.text) <= MaxText
  BY <1>1, <1>3
<1> QED BY <1>1, <1>4, <1>5 DEF PrintInv

LEMMA SendPrintInv ==
  ASSUME IInv, PrintInv, Send
  PROVE  PrintInv'
<1>1. sb.text \in Seq(Units) /\ pieces = <<>> /\ at = "print" /\ at' = "sent" /\ msg' = msg
  BY DEF Send, IInv, TextsOK, Builder, Text
<1>2. sb.text \o FlattenSeq(pieces) = sb.text
  BY <1>1, FlattenEmpty, ConcatEmptySeq
<1> QED BY <1>1, <1>2 DEF PrintInv

LEMMA PrintStep == Sizes /\ IInv /\ PrintInv /\ [Next]_vars => PrintInv'
<1> SUFFICES ASSUME Sizes, IInv, PrintInv, [Next]_vars PROVE PrintInv'
  OBVIOUS
<1>1. ASSUME NEW m \in Outgoing, NewBuilder(m) PROVE PrintInv'
  BY <1>1 DEF NewBuilder, PrintInv
<1>2. ASSUME NEW f \in Added, AddHeader(f) PROVE PrintInv'
  BY <1>2 DEF AddHeader, PrintInv
<1>3. ASSUME NEW destroy \in BOOLEAN, Build(destroy) PROVE PrintInv'
  BY <1>3 DEF Build, PrintInv
<1>4. CASE PrintMade
  <2>1. PICK m \in Outgoing : StartPrint(m)
    BY <1>4 DEF PrintMade
  <2>2. m \in Message
    BY MessagesAssumption
  <2> QED BY <2>1, <2>2, StartPrintInv
<1>5. CASE PrintBuilt
  <2>1. msg \in Message
    BY DEF IInv, TextsOK
  <2> QED BY <1>5, <2>1, StartPrintInv DEF PrintBuilt
<1>6. CASE PrintPiece
  BY <1>6, PrintPiecePrintInv
<1>7. CASE Send
  BY <1>7, SendPrintInv
<1>8. CASE PrintFails \/ Differ
  BY <1>8 DEF PrintFails, Differ, PrintInv
<1>9. CASE StartReceive \/ Receive \/ Received \/ Rejected
  BY <1>9 DEF StartReceive, Receive, Received, Rejected, PrintInv
<1>10. ASSUME NEW asStruct \in BOOLEAN, ParseMessage(asStruct) PROVE PrintInv'
  BY <1>10 DEF ParseMessage, PrintInv
<1>11. CASE Finish
  BY <1>11 DEF Finish, PrintInv
<1>12. CASE UNCHANGED vars
  BY <1>12 DEF vars, PrintInv
<1> QED BY <1>1, <1>2, <1>3, <1>4, <1>5, <1>6, <1>7, <1>8, <1>9, <1>10, <1>11, <1>12 DEF Next

(* What the controller says while a framed response arrives.               *)
LEMMA CommandWhileFramed ==
  ASSUME Sizes, IInv, PrintInv, at = "receive", Framed(msg),
         IsPrefix(Printed(msg), sb.text \o stream), Len(sb.text) <= Len(Printed(msg))
  PROVE  /\ Command.act = "receive"
         /\ Command.max \in Nat /\ Command.max <= Len(Printed(msg))
         /\ Command.max <= Len(sb.text) => Len(sb.text) = Len(Printed(msg))
         /\ Printed(msg) \in Text /\ sb.text \in Text
         /\ \A j \in 1..Len(sb.text) : sb.text[j] = Printed(msg)[j]
<1> DEFINE t == Printed(msg)
           x == sb.text
           d == Len(msg.body)
<1>1. msg \in Message /\ x \in Text /\ stream \in Text
  BY DEF IInv, TextsOK, Builder
<1>2. PICK e, c : IsFramed(t, e, c, d)
  BY <1>1, FramedText
<1>3. Len(t) <= Quarter /\ t \in Text
  <2>1. Len(t) <= MaxText
    BY DEF PrintInv
  <2>2. t \in Text
    BY <1>2 DEF IsFramed
  <2>3. Len(t) \in Nat /\ MaxText \in Nat /\ MaxText <= Quarter /\ Quarter \in Nat
    BY <2>2, MessagesAssumption, Widths, PowersAreNumbers DEF Text, Sizes, Quarter
  <2> HIDE DEF t
  <2> QED BY <2>1, <2>2, <2>3
<1>4. \A j \in 1..Len(x) : x[j] = t[j]
  <2>1. IsPrefix(t, x \o stream) /\ Len(x) <= Len(t)
    OBVIOUS
  <2> HIDE DEF t, x
  <2> QED BY <1>1, <1>3, <2>1, ReceivedIsPrefix
<1>5. Command = Controlled(x)
  BY DEF Command, Framed
<1>6. Len(x) <= Len(t)
  OBVIOUS
<1> HIDE DEF t, x, d
<1>7. /\ Controlled(x).act = "receive"
      /\ Controlled(x).max \in Nat /\ Controlled(x).max <= Len(t)
      /\ Controlled(x).max <= Len(x) => Len(x) = Len(t)
  BY <1>1, <1>2, <1>3, <1>4, <1>6, ControlledPrefix
<1> QED BY <1>1, <1>3, <1>4, <1>5, <1>7 DEF t, x

(* ReceiveInv is inductive relative to both: a recv asks for no more than  *)
(* is missing.                                                             *)
LEMMA ReceiveReceiveInv ==
  ASSUME Sizes, IInv, PrintInv, ReceiveInv, Receive
  PROVE  ReceiveInv'
<1>1. /\ at = "receive" /\ msg' = msg /\ sb.text \in Text /\ stream \in Text
  BY DEF Receive, IInv, TextsOK, Builder
<1>2. SUFFICES ASSUME Framed(msg), IsPrefix(Printed(msg), sb'.text \o stream')
               PROVE  Len(sb'.text) <= Len(Printed(msg))
  BY <1>1 DEF ReceiveInv
<1>3. PICK n \in 1..Len(stream) :
        /\ Command.max < 0 \/ Len(sb.text) + n <= Command.max
        /\ sb'.text = sb.text \o SubSeq(stream, 1, n)
        /\ stream' = SubSeq(stream, n + 1, Len(stream))
        /\ Len(sb'.text) = Len(sb.text) + n
  BY ReceivedChunk
<1>4. sb'.text \o stream' = sb.text \o stream
  BY <1>1, <1>3, ChunkMoves
<1>5. Len(sb.text) <= Len(Printed(msg))
  BY <1>1, <1>2, <1>4 DEF ReceiveInv
<1>6. Command.max \in Nat /\ Command.max <= Len(Printed(msg)) /\ Printed(msg) \in Text
  BY <1>1, <1>2, <1>4, <1>5, CommandWhileFramed
<1> DEFINE a == Len(sb.text)
           b == Len(Printed(msg))
           k == Command.max
<1>7. a \in Nat /\ b \in Nat /\ n \in Nat /\ k \in Nat /\ k <= b /\ (k < 0 \/ a + n <= k)
      /\ Len(sb'.text) = a + n
  BY <1>1, <1>3, <1>6 DEF Text
<1> HIDE DEF a, b, k
<1> QED BY <1>7 DEF b

LEMMA ReceiveStep == Sizes /\ IInv /\ PrintInv /\ ReceiveInv /\ [Next]_vars => ReceiveInv'
<1> SUFFICES ASSUME Sizes, IInv, PrintInv, ReceiveInv, [Next]_vars PROVE ReceiveInv'
  OBVIOUS
<1>1. ASSUME NEW m \in Outgoing, NewBuilder(m) PROVE ReceiveInv'
  BY <1>1 DEF NewBuilder, ReceiveInv
<1>2. ASSUME NEW f \in Added, AddHeader(f) PROVE ReceiveInv'
  BY <1>2 DEF AddHeader, ReceiveInv
<1>3. ASSUME NEW destroy \in BOOLEAN, Build(destroy) PROVE ReceiveInv'
  BY <1>3 DEF Build, ReceiveInv
<1>4. CASE PrintMade \/ PrintBuilt
  BY <1>4 DEF PrintMade, PrintBuilt, StartPrint, ReceiveInv
<1>5. CASE PrintPiece \/ PrintFails \/ Send \/ Differ
  BY <1>5 DEF PrintPiece, PrintFails, Send, Differ, ReceiveInv
<1>6. CASE StartReceive
  <2>1. msg \in Message /\ msg' = msg
    BY <1>6 DEF StartReceive, IInv, TextsOK
  <2>2. Pieces(msg) \in Seq(Seq(Units))
    BY <2>1, PiecesAreTexts DEF Text
  <2>3. Printed(msg) \in Seq(Units)
    BY <2>2, FlattenType DEF Printed
  <2>4. Len(sb'.text) = 0 /\ Len(Printed(msg)) \in Nat
    BY <1>6, <2>3 DEF StartReceive, NewBuffer
  <2> QED BY <2>1, <2>4 DEF ReceiveInv
<1>7. CASE Receive
  BY <1>7, ReceiveReceiveInv
<1>8. CASE Received \/ Rejected
  BY <1>8 DEF Received, Rejected, ReceiveInv
<1>9. ASSUME NEW asStruct \in BOOLEAN, ParseMessage(asStruct) PROVE ReceiveInv'
  BY <1>9 DEF ParseMessage, ReceiveInv
<1>10. CASE Finish
  BY <1>10 DEF Finish, ReceiveInv
<1>11. CASE UNCHANGED vars
  BY <1>11 DEF vars, ReceiveInv, Framed
<1> QED BY <1>1, <1>2, <1>3, <1>4, <1>5, <1>6, <1>7, <1>8, <1>9, <1>10, <1>11 DEF Next

(* What the three invariants say together.                                 *)
LEMMA FindsTheEnd ==
  ASSUME Sizes, IInv, PrintInv, ReceiveInv
  PROVE  ControllerFindsTheEnd
<1>1. SUFFICES ASSUME at = "receive", Framed(msg), IsPrefix(Printed(msg), sb.text \o stream)
               PROVE  /\ Command.act = "receive"
                      /\ IsPrefix(sb.text, Printed(msg))
                      /\ ~More => sb.text = Printed(msg)
  BY DEF ControllerFindsTheEnd
<1> DEFINE t == Printed(msg)
           x == sb.text
           k == Command.max
<1>2. Len(x) <= Len(t)
  BY <1>1 DEF ReceiveInv
<1>3. /\ Command.act = "receive" /\ k \in Nat /\ t \in Text /\ x \in Text
      /\ k <= Len(x) => Len(x) = Len(t)
      /\ \A j \in 1..Len(x) : x[j] = t[j]
  BY <1>1, <1>2, CommandWhileFramed
<1>4. More <=> k < 0 \/ Len(x) < k
  BY DEF More
<1> HIDE DEF t, x, k
<1>5. IsPrefix(x, t)
  BY <1>2, <1>3, PrefixUnits
<1>6. ASSUME ~More PROVE x = t
  <2>1. Len(x) \in Nat /\ x \in Seq(Units) /\ t \in Seq(Units)
    BY <1>3 DEF Text
  <2>2. Len(x) = Len(t)
    BY <1>3, <1>4, <1>6, <2>1
  <2> QED BY <1>3, <2>1, <2>2, SeqEqual
<1> QED BY <1>3, <1>5, <1>6 DEF t, x

(* A 1.1 response that says how long its body is, in a number of one digit,*)
(* is received to its end and not beyond, whatever its fields, however many*)
(* bytes come at a time and whatever follows in the connection.            *)
THEOREM ControllerAlwaysFindsTheEnd == ASSUME Sizes PROVE Spec => []ControllerFindsTheEnd
<1>1. Init => PrintInv /\ ReceiveInv
  BY DEF Init, PrintInv, ReceiveInv
<1>2. IInv /\ PrintInv /\ [Next]_vars => PrintInv'
  BY PrintStep
<1>3. IInv /\ PrintInv /\ ReceiveInv /\ [Next]_vars => ReceiveInv'
  BY ReceiveStep
<1>4. IInv /\ PrintInv /\ ReceiveInv => ControllerFindsTheEnd
  BY FindsTheEnd
<1> QED BY <1>1, <1>2, <1>3, <1>4, Invariance, PTL DEF Spec
=============================================================================
