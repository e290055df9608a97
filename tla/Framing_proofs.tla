---------------------------- MODULE Framing_proofs ----------------------------
(***************************************************************************)
(* Proofs about the byte protocol, for messages of any length and number,  *)
(* any number of lost bytes and printed characters, and a line that holds  *)
(* any number of bytes: types, where the parser is in step with the sender *)
(* (LossIsLocal), what the buffer holds, and order (DeliveredInOrder).      *)
(***************************************************************************)
EXTENDS Framing, TLAPS

-----------------------------------------------------------------------------
(* The bytes under way and, behind them, the one send_message puts next.   *)

Upcoming ==
  [frame |-> IF place = 0 THEN Len(sent) + 1 ELSE Len(sent),
   part  |-> IF place = 0 THEN "start"
             ELSE IF place = Len(Message) + 1 THEN "end"
             ELSE IF place = Len(Message) + 2 THEN "text"
             ELSE IF Special(Message[place]) /\ ~escaped THEN "escape"
             ELSE "data",
   at    |-> place,
   byte  |-> IF place = 0 THEN START_BYTE
             ELSE IF place = Len(Message) + 1 THEN END_BYTE
             ELSE IF place = Len(Message) + 2 THEN newline
             ELSE IF Special(Message[place])
                  THEN IF escaped THEN Flip(Message[place]) ELSE ESCAPE
             ELSE Message[place]]

Stream(i) == IF i <= Len(line) THEN line[i] ELSE Upcoming
Front == Stream(1)

-----------------------------------------------------------------------------
(* What is under way: each byte as send_message makes it, and one behind   *)
(* the other as send_message puts them, but for frames printed into.       *)

InMessage(e) == e.frame \in 1..Len(sent) /\ e.at \in 1..Len(sent[e.frame])
Original(e) == sent[e.frame][e.at]

Made(e) ==
  /\ e.part = "start" =>
       e.frame \in 1..Len(sent) + 1 /\ e.at = 0 /\ e.byte = START_BYTE
  /\ e.part = "escape" =>
       InMessage(e) /\ Special(Original(e)) /\ e.byte = ESCAPE
  /\ e.part = "data" =>
       /\ InMessage(e)
       /\ e.byte = IF Special(Original(e)) THEN Flip(Original(e))
                                           ELSE Original(e)
  /\ e.part = "end" =>
       /\ e.frame \in 1..Len(sent) /\ e.at = Len(sent[e.frame]) + 1
       /\ e.byte = END_BYTE
  /\ e.part = "text" =>
       e.frame \in 0..Len(sent) /\ e.byte \in Text \cup {newline}

(* The first byte that stands for the i-th of message n, or its end.       *)
Opens(e, n, i) ==
  /\ e.frame = n /\ e.at = i
  /\ e.part \in {"escape", "data", "end"}
  /\ e.part = "data" => ~Special(Original(e))

Follows(e, f) ==
  \/ e.part = "start" /\ Opens(f, e.frame, 1)
  \/ e.part = "data" /\ Opens(f, e.frame, e.at + 1)
  \/ /\ e.part = "escape"
     /\ f.part = "data" /\ f.frame = e.frame /\ f.at = e.at
  \/ /\ e.part \in {"end", "text"}
     /\ \/ f.part = "text" /\ f.frame = e.frame
        \/ f.part = "start" /\ f.frame = e.frame + 1

Linked(e, f) ==
  Follows(e, f)
    \/ (e.frame \in split /\ f.frame = e.frame /\ f.part # "start")

Lined ==
  /\ escaped => AtByte
  /\ \A i \in 1..Len(line) + 1 : Made(Stream(i))
  /\ \A i \in 1..Len(line) : Linked(Stream(i), Stream(i + 1))

-----------------------------------------------------------------------------
(* What the parser makes of it: behind an intact frame it agrees with the  *)
(* sender on which bytes are escaped, and the frame it reads is in the     *)
(* buffer as far as it was read.                                           *)

Expects(e) == e.part = "data" /\ Special(Original(e))
Agreed(e) == Intact(IF e.part = "start" THEN e.frame - 1 ELSE e.frame)

InStep(e) == Agreed(e) => is_escaped = Expects(e)

Sound(n) == Intact(n) /\ Intact(n - 1) /\ Receivable(sent[n])

Reading(e) ==
  e.part \in {"escape", "data", "end"} /\ Sound(e.frame) =>
    /\ msg_index = e.at - 1
    /\ \A j \in 1..e.at - 1 : buffer[j - 1] = sent[e.frame][j]

(* The frames the parser is through with when e comes next.                *)
Behind(n, e) == n < e.frame \/ (n = e.frame /\ e.part = "text")

Read(e) ==
  \A n \in 1..Len(sent) :
    Behind(n, e) /\ Sound(n) => sent[n] \in Range(delivered)

Synced(e) == InStep(e) /\ Reading(e) /\ Read(e)

SyncInv == Lined /\ Synced(Front)

-----------------------------------------------------------------------------
(* What the buffer holds: bytes as they were sent, or with an ESCAPE too    *)
(* many or too few.                                                        *)

Backs(e, b) ==
  /\ b \notin {START_BYTE, END_BYTE}
  /\ IF e.part = "data" THEN b \in Readings(Original(e)) ELSE b \in Stray

Filled == \A i \in 1..msg_index : Backs(origin[i], buffer[i - 1])

(* A message is accepted with the CRC of its own frame, whatever frames or  *)
(* pieces of frames the parser ran together.                               *)
AcceptsWithOwnCRC ==
  Valid(Contents) =>
    \E n \in 1..Len(sent) :
      /\ Contents = sent[n]
      /\ origin[crc + 1].frame = n
      /\ origin[crc + 1].part = "data"
      /\ origin[crc + 1].at = crc + 1

-----------------------------------------------------------------------------
(* What the buffer holds and what is under way, in order.                  *)

Trail(i) == IF i <= msg_index THEN origin[i] ELSE line[i - msg_index]
Traces == 1..msg_index + Len(line)
DataTraces == {i \in Traces : Trail(i).part = "data"}

Before(e, f) == e.frame < f.frame \/ (e.frame = f.frame /\ e.at < f.at)

(* The sender has put this byte and is past its place.                     *)
Out(e) ==
  /\ InMessage(e)
  /\ e.frame = Len(sent) => place = 0 \/ e.at < place

Rising ==
  /\ \A i \in DataTraces : Out(Trail(i))
  /\ \A i, j \in DataTraces : i < j => Before(Trail(i), Trail(j))

Distinct == \A n, p \in 1..Len(sent) : sent[n] = sent[p] => n = p

(* The sender is past the CRC of frame n.                                  *)
Past(n) == n = Len(sent) => place = 0 \/ place > crc + 1

(* A message that was delivered cannot be accepted again: its CRC is gone.  *)
(* What follows the CRC in its frame may still arrive.                     *)
Used(n) ==
  /\ Past(n)
  /\ \A i \in DataTraces :
       n < Trail(i).frame \/ (n = Trail(i).frame /\ Trail(i).at > crc + 1)

Ordered ==
  \A i \in 1..Len(delivered) : \E n \in 1..Len(sent) :
    /\ delivered[i] = sent[n] /\ Used(n)
    /\ \A j \in 1..Len(delivered), p \in 1..Len(sent) :
         i < j /\ delivered[j] = sent[p] => n < p

OrderInv == Rising /\ Distinct /\ Ordered

-----------------------------------------------------------------------------
(* Types.                                                                  *)

LEMMA Flips ==
  /\ \A b \in Byte : Flip(b) \in Byte
  /\ Flip(START_BYTE) = 50 /\ Flip(END_BYTE) = 51 /\ Flip(ESCAPE) = 93
  /\ Flip(50) = START_BYTE /\ Flip(51) = END_BYTE /\ Flip(93) = ESCAPE
<1>1. ASSUME NEW b \in Byte PROVE Flip(b) \in Byte
  <2>1. b \in Int /\ 0 <= b /\ b <= 255
    BY DEF Byte
  <2> DEFINE q == b \div 32
  <2>2. q \in Int /\ 32 * q <= b /\ b < 32 * q + 32
    BY <2>1
  <2>3. q % 2 = 0 \/ q % 2 = 1
    BY <2>2
  <2>4. Flip(b) = IF q % 2 = 0 THEN b + 32 ELSE b - 32
    BY DEF Flip
  <2> HIDE DEF q
  <2>5. q % 2 = 0 => q # 7
    OBVIOUS
  <2>6. q % 2 = 1 => q # 0
    OBVIOUS
  <2>7. Flip(b) \in Int /\ 0 <= Flip(b) /\ Flip(b) <= 255
    BY <2>1, <2>2, <2>3, <2>4, <2>5, <2>6
  <2> QED
    BY <2>7 DEF Byte
<1>2. /\ (18 \div 32) % 2 = 0 /\ (19 \div 32) % 2 = 0 /\ (125 \div 32) % 2 = 1
      /\ (50 \div 32) % 2 = 1 /\ (51 \div 32) % 2 = 1 /\ (93 \div 32) % 2 = 0
  OBVIOUS
<1> QED
  BY <1>1, <1>2 DEF Flip, START_BYTE, END_BYTE, ESCAPE

LEMMA MessageTypes ==
  ASSUME NEW m \in Messages
  PROVE  m \in Seq(Byte) /\ Len(m) \in 2..MaxLen
BY FramingAssumption

(* The message that is being sent.                                         *)
LEMMA OnMessage ==
  ASSUME TypeOK, place # 0
  PROVE  /\ Len(sent) \in Nat \ {0} /\ Message \in Messages
         /\ Message \in Seq(Byte) /\ Len(Message) \in 2..MaxLen
         /\ place \in 1..Len(Message) + 2
<1>1. Len(sent) \in Nat /\ Len(sent) # 0 /\ sent \in Seq(Messages)
  BY DEF TypeOK
<1>2. Message \in Messages
  BY <1>1 DEF Message
<1>3. Message \in Seq(Byte) /\ Len(Message) \in 2..MaxLen
  BY <1>2, MessageTypes
<1>4. place \in Nat /\ place <= Len(Message) + 2
  BY <1>3 DEF TypeOK
<1> QED
  BY <1>1, <1>2, <1>3, <1>4

LEMMA InitTypeOK == Init => TypeOK
<1> SUFFICES ASSUME Init PROVE TypeOK
  OBVIOUS
<1>1. 0 \in Byte /\ MaxLen \in Nat
  BY FramingAssumption DEF Byte
<1>2. buffer \in [0..MaxLen - 1 -> Byte]
  BY <1>1 DEF Init
<1>3. 0 \in 0..MaxLen + 2 /\ 0 \in 0..MaxLen
  BY <1>1
<1> QED
  <2>1. /\ trailer \in {<<>>, <<newline>>} /\ place = 0 /\ msg_index = 0
        /\ sent = <<>> /\ line = <<>> /\ origin = <<>> /\ delivered = <<>>
        /\ escaped = FALSE /\ is_escaped = FALSE
        /\ lost = 0 /\ printed = 0 /\ damaged = {} /\ split = {}
    BY DEF Init
  <2> QED
    <3>1. Len(origin) = msg_index
      BY <2>1
    <3>2. <<>> \in Seq(Messages) /\ <<>> \in Seq(Sending)
      OBVIOUS
    <3> QED
      BY <1>2, <1>3, <2>1, <3>1, <3>2 DEF TypeOK

LEMMA PutTypes ==
  ASSUME NEW n \in Nat, NEW part \in Parts, NEW byte \in Byte, TypeOK,
         Put(n, part, byte)
  PROVE  line' \in Seq(Sending)
BY DEF Put, TypeOK, Sending

LEMMA StepTypeOK == TypeOK /\ [Next]_vars => TypeOK'
<1> SUFFICES ASSUME TypeOK, [Next]_vars PROVE TypeOK'
  OBVIOUS
<1>1. /\ MaxLen \in Nat /\ MaxLen >= 2 /\ Text \subseteq Byte
      /\ START_BYTE \in Byte /\ END_BYTE \in Byte /\ ESCAPE \in Byte
      /\ newline \in Byte
  BY FramingAssumption DEF START_BYTE, END_BYTE, ESCAPE, newline, Byte
<1>2. ASSUME NEW m \in Messages, BeginFrame(m) PROVE TypeOK'
  <2>1. /\ sent' = Append(sent, m) /\ place' = 1
        /\ Put(Len(sent) + 1, "start", START_BYTE)
        /\ UNCHANGED trailer /\ UNCHANGED escaped /\ UNCHANGED parser
        /\ UNCHANGED delivered /\ UNCHANGED faults
    BY <1>2 DEF BeginFrame
  <2>2. line' \in Seq(Sending)
    <3>1. Len(sent) + 1 \in Nat
      BY DEF TypeOK
    <3> QED
      BY <1>1, <2>1, <3>1, PutTypes DEF Parts
  <2>3. sent' \in Seq(Messages) /\ sent' # <<>> /\ Message' = m
    BY <2>1 DEF TypeOK, Message
  <2>4. Len(m) \in Nat
    BY MessageTypes
  <2> QED
    BY <1>1, <2>1, <2>2, <2>3, <2>4 DEF TypeOK, parser, faults
<1>3. ASSUME SendMessage PROVE TypeOK'
  <2>1. /\ place # 0 /\ UNCHANGED sent /\ UNCHANGED trailer
        /\ UNCHANGED parser /\ UNCHANGED delivered /\ UNCHANGED faults
    BY <1>3 DEF SendMessage, SendEscape, SendByte, SendEnd, SendTrailer, AtByte
  <2>2. /\ Len(sent) \in Nat \ {0} /\ Len(Message) \in 2..MaxLen
        /\ Message \in Seq(Byte) /\ place \in Nat /\ Message' = Message
    BY <2>1, OnMessage DEF Message
  <2>3. trailer # <<>> => trailer[1] = newline
    BY DEF TypeOK
  <2>4. CASE SendEscape
    <3>1. line' \in Seq(Sending)
      BY <1>1, <2>2, <2>4, PutTypes DEF SendEscape, Parts
    <3> QED
      BY <2>1, <2>2, <2>4, <3>1 DEF SendEscape, TypeOK, parser, faults
  <2>5. CASE SendByte
    <3>1. Message[place] \in Byte
      BY <2>2, <2>5 DEF SendByte, AtByte
    <3>2. line' \in Seq(Sending)
      BY <2>2, <2>5, <3>1, PutTypes, Flips DEF SendByte, Parts
    <3>3. place' = place + 1 /\ place <= Len(Message) /\ escaped' = FALSE
      BY <2>5 DEF SendByte, AtByte
    <3>4. /\ place' \in 0..MaxLen + 2 /\ escaped' \in BOOLEAN
          /\ place' <= Len(Message') + 1
      <4>1. /\ place + 1 \in 0..MaxLen + 2 /\ place + 1 <= Len(Message) + 1
            /\ FALSE \in BOOLEAN
        BY <1>1, <2>2, <3>3
      <4> QED
        BY <2>2, <3>3, <4>1
    <3>5. place' <= Len(Message') + IF trailer = <<>> THEN 1 ELSE 2
      BY <1>1, <2>2, <3>4
    <3> QED
      BY <2>1, <2>2, <3>2, <3>4, <3>5 DEF TypeOK, parser, faults
  <2>6. CASE SendEnd
    <3>1. line' \in Seq(Sending)
      BY <1>1, <2>2, <2>6, PutTypes DEF SendEnd, Parts
    <3>2. /\ place' = (IF trailer = <<>> THEN 0 ELSE place + 1)
          /\ place = Len(Message) + 1 /\ escaped' = escaped
      BY <2>6 DEF SendEnd
    <3>3. /\ place' \in 0..MaxLen + 2
          /\ place' # 0 =>
               place' <= Len(Message') + IF trailer = <<>> THEN 1 ELSE 2
      BY <1>1, <2>2, <2>3, <3>2
    <3> QED
      BY <2>1, <2>2, <3>1, <3>2, <3>3 DEF TypeOK, parser, faults
  <2>7. CASE SendTrailer
    <3>1. trailer # <<>>
      BY <2>2, <2>7, Len(<<>>) = 0 DEF SendTrailer, TypeOK
    <3>2. line' \in Seq(Sending)
      BY <1>1, <2>2, <2>3, <2>7, <3>1, PutTypes DEF SendTrailer, Parts
    <3>3. place' = 0 /\ escaped' = escaped /\ 0 \in 0..MaxLen + 2
      BY <1>1, <2>7 DEF SendTrailer
    <3> QED
      BY <2>1, <2>2, <3>2, <3>3 DEF TypeOK, parser, faults
  <2> QED
    BY <1>3, <2>4, <2>5, <2>6, <2>7 DEF SendMessage
<1>4. ASSUME NEW c \in Text, PutText(c) PROVE TypeOK'
  <2>1. Len(sent) \in Nat /\ Open \subseteq Nat
    BY DEF TypeOK, Open
  <2>2. line' \in Seq(Sending)
    BY <1>1, <1>4, <2>1, PutTypes DEF PutText, Parts
  <2> QED
    BY <1>4, <2>1, <2>2 DEF PutText, TypeOK, Message, sender, parser
<1>5. ASSUME LoseByte PROVE TypeOK'
  <2>1. Head(line) \in Sending /\ line' \in Seq(Sending)
    BY <1>5 DEF LoseByte, TypeOK
  <2>2. lost' = lost + 1 /\ damaged' \subseteq damaged \cup {Head(line).frame}
    BY <1>5 DEF LoseByte
  <2>3. lost' \in Nat /\ damaged' \subseteq Nat
    BY <2>1, <2>2 DEF Sending, TypeOK
  <2>4. /\ UNCHANGED sender /\ UNCHANGED parser /\ UNCHANGED delivered
        /\ UNCHANGED printed /\ UNCHANGED split
    BY <1>5 DEF LoseByte
  <2> QED
    BY <2>1, <2>3, <2>4 DEF TypeOK, Message, sender, parser
<1>6. ASSUME SkipByte PROVE TypeOK'
  <2>1. line' \in Seq(Sending)
    BY <1>6 DEF SkipByte, TypeOK
  <2> QED
    BY <1>6, <2>1 DEF SkipByte, TypeOK, Message, sender, parser, faults
<1>7. ASSUME ParseMessage PROVE TypeOK'
  <2>1. /\ line # <<>> /\ line' = Tail(line)
        /\ UNCHANGED sender /\ UNCHANGED faults
    BY <1>7 DEF ParseMessage, ParseEscape, ParseStart, ParseEnd, ParseData,
                ParseCharacter, Parsing
  <2>2. Head(line) \in Sending /\ line' \in Seq(Sending)
    BY <2>1 DEF TypeOK
  <2>3. Current \in Byte
    BY <2>2, Flips DEF Current, Sending
  <2>4. SUFFICES /\ msg_index' \in 0..MaxLen /\ is_escaped' \in BOOLEAN
                 /\ buffer' \in [0..MaxLen - 1 -> Byte]
                 /\ origin' \in Seq(Sending) /\ Len(origin') = msg_index'
                 /\ delivered' \in Seq(Messages)
    BY <2>1, <2>2 DEF TypeOK, Message, sender, faults
  <2>5. Empty => msg_index' = 0 /\ origin' \in Seq(Sending) /\ Len(origin') = 0
    BY DEF Empty
  <2>6. Store /\ msg_index < MaxLen =>
          /\ msg_index' \in 0..MaxLen /\ buffer' \in [0..MaxLen - 1 -> Byte]
          /\ origin' \in Seq(Sending) /\ Len(origin') = msg_index'
    BY <1>1, <2>2, <2>3 DEF Store, TypeOK
  <2>7. Validate => /\ buffer' \in [0..MaxLen - 1 -> Byte]
                    /\ delivered' \in Seq(Messages)
    <3>1. \A m \in Range(sent) : m \in Messages
      BY DEF Range, TypeOK
    <3>2. 0 \in Byte
      BY DEF Byte
    <3>3. /\ buffer \in [0..MaxLen - 1 -> Byte]
          /\ delivered \in Seq(Messages)
      BY DEF TypeOK
    <3>4. ASSUME Validate PROVE buffer' \in [0..MaxLen - 1 -> Byte]
      BY <3>2, <3>3, <3>4 DEF Validate
    <3>5. ASSUME Validate PROVE delivered' \in Seq(Messages)
      <4>1. CASE Valid(Contents)
        <5>1. Contents \in Messages
          BY <3>1, <4>1 DEF Valid
        <5>2. delivered' = Append(delivered, Contents)
          BY <3>5, <4>1 DEF Validate
        <5> QED
          BY <3>3, <5>1, <5>2
      <4>2. CASE ~Valid(Contents)
        BY <3>3, <3>5, <4>2 DEF Validate
      <4> QED
        BY <4>1, <4>2
    <3> QED
      BY <3>4, <3>5
  <2>8. CASE ParseEscape
    BY <2>8 DEF ParseEscape, TypeOK
  <2>9. CASE ParseStart
    <3>1. /\ Empty /\ buffer' = buffer /\ delivered' = delivered
          /\ is_escaped' = FALSE
      BY <2>9 DEF ParseStart, ParseCharacter
    <3>2. /\ buffer \in [0..MaxLen - 1 -> Byte]
          /\ delivered \in Seq(Messages)
      BY DEF TypeOK
    <3> QED
      BY <1>1, <2>5, <3>1, <3>2
  <2>10. CASE ParseEnd
    <3>1. Empty /\ Validate /\ is_escaped' = FALSE
      BY <2>10 DEF ParseEnd, ParseCharacter
    <3>2. msg_index' \in 0..MaxLen
      BY <1>1, <2>5, <3>1
    <3> QED
      BY <2>5, <2>7, <3>1, <3>2
  <2>11. CASE ParseData
    <3>1. /\ is_escaped' = FALSE /\ delivered' = delivered
          /\ IF msg_index >= MaxLen THEN Empty /\ buffer' = buffer ELSE Store
      BY <2>11 DEF ParseData, ParseCharacter
    <3>2. msg_index \in 0..MaxLen /\ buffer \in [0..MaxLen - 1 -> Byte]
          /\ delivered \in Seq(Messages)
      BY DEF TypeOK
    <3>3. CASE msg_index >= MaxLen
      BY <1>1, <2>5, <3>1, <3>2, <3>3
    <3>4. CASE ~(msg_index >= MaxLen)
      BY <1>1, <2>6, <3>1, <3>2, <3>4
    <3> QED
      BY <3>3, <3>4
  <2> QED
    BY <1>7, <2>8, <2>9, <2>10, <2>11 DEF ParseMessage
<1>8. CASE UNCHANGED vars
  BY <1>8 DEF vars, sender, parser, faults, TypeOK, Message
<1> QED
  BY <1>2, <1>3, <1>4, <1>5, <1>6, <1>7, <1>8 DEF Next

\* Every variable keeps its type, for messages of any length: no run of lost,
\* printed or unexpected bytes makes parse_message store outside its buffer.
THEOREM TypeCorrect == Spec => []TypeOK
BY InitTypeOK, StepTypeOK, PTL DEF Spec

-----------------------------------------------------------------------------
(* The line and the sender.                                                *)

LEMMA UpcomingMade ==
  TypeOK /\ (escaped => AtByte) => Upcoming \in Sending /\ Made(Upcoming)
<1> SUFFICES ASSUME TypeOK, escaped => AtByte
             PROVE  Upcoming \in Sending /\ Made(Upcoming)
  OBVIOUS
<1>1. Len(sent) \in Nat /\ START_BYTE \in Byte
  BY DEF TypeOK, START_BYTE, Byte
<1>2. CASE place = 0
  BY <1>1, <1>2 DEF Upcoming, Made, Sending, Parts
<1>3. CASE place # 0
  <2>1. /\ Len(sent) \in Nat \ {0} /\ Message \in Seq(Byte)
        /\ Len(Message) \in Nat /\ place \in 1..Len(Message) + 2
        /\ Message = sent[Len(sent)]
    BY <1>3, OnMessage DEF Message
  <2>2. CASE place = Len(Message) + 1
    BY <1>3, <2>1, <2>2 DEF Upcoming, Made, Sending, Parts, END_BYTE, Byte
  <2>3. CASE place = Len(Message) + 2
    BY <1>3, <2>1, <2>3 DEF Upcoming, Made, Sending, Parts, newline, Byte
  <2>4. CASE place <= Len(Message)
    <3>1. Message[place] \in Byte /\ Flip(Message[place]) \in Byte
      BY <2>1, <2>4, Flips
    <3>2. place # Len(Message) + 1 /\ place # Len(Message) + 2
      BY <2>1, <2>4
    <3> QED
      BY <1>3, <2>1, <2>4, <3>1, <3>2
         DEF Upcoming, Made, InMessage, Original, Sending, Parts, ESCAPE, Byte
  <2> QED
    BY <2>1, <2>2, <2>3, <2>4
<1> QED
  BY <1>2, <1>3

LEMMA StreamMade ==
  ASSUME TypeOK, Lined, NEW i \in 1..Len(line) + 1
  PROVE  Stream(i) \in Sending /\ Made(Stream(i))
<1>1. CASE i <= Len(line)
  BY <1>1 DEF Lined, Stream, TypeOK
<1>2. CASE ~(i <= Len(line))
  BY <1>2, UpcomingMade DEF Lined, Stream
<1> QED
  BY <1>1, <1>2

(* What was sent stays, and what was split stays split.                    *)
Further ==
  /\ sent' \in Seq(Messages) /\ Len(sent) <= Len(sent')
  /\ \A n \in 1..Len(sent) : sent'[n] = sent[n]
  /\ split \subseteq split' /\ damaged \subseteq damaged'
  /\ trailer' = trailer

LEMMA MadeStays ==
  ASSUME TypeOK, Further, NEW e \in Sending, Made(e)
  PROVE  Made(e)'
<1>1. Len(sent) \in Nat /\ Len(sent') \in Nat /\ e.frame \in Nat
  BY DEF TypeOK, Further, Sending
<1> QED
  BY <1>1 DEF Made, InMessage, Original, Further

LEMMA LinkStays ==
  ASSUME TypeOK, Further, NEW e \in Sending, NEW f \in Sending,
         Made(f), Linked(e, f)
  PROVE  Linked(e, f)'
<1>1. Len(sent) \in Nat /\ f.frame \in Nat
  BY DEF TypeOK, Sending
<1>2. f.part = "data" => Original(f)' = Original(f)
  BY <1>1 DEF Made, InMessage, Original, Further
<1> QED
  BY <1>2 DEF Linked, Follows, Opens, Further

(* A byte of a frame goes out.                                             *)
LEMMA PutLined ==
  ASSUME TypeOK, TypeOK', Lined, Further, line' = Append(line, Upcoming),
         escaped' => AtByte', NEW e, e = Upcoming, NEW f, f = Upcoming',
         Linked(e, f)'
  PROVE  Lined' /\ Front' = Front
<1>1. /\ Len(line) \in Nat /\ Len(line') = Len(line) + 1
      /\ \A i \in 1..Len(line) : line'[i] = line[i]
      /\ line'[Len(line) + 1] = Upcoming
  <2>1. Upcoming \in Sending
    BY UpcomingMade DEF Lined
  <2> QED
    BY <2>1 DEF TypeOK
<1>2. \A i \in 1..Len(line) + 1 : Stream(i)' = Stream(i)
  BY <1>1 DEF Stream
<1>3. ASSUME NEW i, i = Len(line) + 2 PROVE Stream(i)' = f
  BY <1>1, <1>3 DEF Stream
<1>4. ASSUME NEW i, i = Len(line) + 1 PROVE Stream(i)' = e
  BY <1>1, <1>2, <1>4 DEF Stream
<1>5. e \in Sending /\ Made(e)
  BY UpcomingMade DEF Lined
<1>6. f \in Sending /\ Made(f)'
  <2>1. (TypeOK /\ (escaped => AtByte)
           => Upcoming \in Sending /\ Made(Upcoming))'
    BY UpcomingMade, PTL
  <2>2. Upcoming' \in Sending /\ Made(Upcoming)'
    BY <2>1
  <2> QED
    BY <2>2 DEF Made
<1>7. ASSUME NEW i \in 1..Len(line) + 1
      PROVE  \E g \in Sending : /\ g = Stream(i) /\ g = Stream(i)'
                               /\ Made(g) /\ Made(g)'
  BY <1>2, StreamMade, MadeStays
<1>8. ASSUME NEW i \in 1..Len(line') + 1 PROVE Made(Stream(i))'
  <2>1. CASE i <= Len(line) + 1
    <3>1. PICK g \in Sending : g = Stream(i)' /\ Made(g)'
      BY <1>1, <1>7, <2>1
    <3> QED
      BY <3>1 DEF Made
  <2>2. CASE i = Len(line) + 2
    <3>1. Stream(i)' = f
      BY <1>3, <2>2
    <3> QED
      BY <1>6, <3>1 DEF Made
  <2> QED
    BY <1>1, <2>1, <2>2
<1>9. ASSUME NEW i \in 1..Len(line')
      PROVE  Linked(Stream(i), Stream(i + 1))'
  <2>1. CASE i <= Len(line)
    <3>1. i \in 1..Len(line) + 1 /\ i + 1 \in 1..Len(line) + 1
      BY <1>1, <2>1
    <3>2. PICK g \in Sending : g = Stream(i) /\ g = Stream(i)'
      BY <1>7, <3>1
    <3>3. PICK h \in Sending :
            h = Stream(i + 1) /\ h = Stream(i + 1)' /\ Made(h)
      BY <1>7, <3>1
    <3>4. Linked(g, h)
      <4>1. i \in 1..Len(line)
        BY <2>1
      <4>2. Linked(Stream(i), Stream(i + 1))
        BY <4>1 DEF Lined
      <4> QED
        BY <3>2, <3>3, <4>2
    <3>5. Linked(g, h)'
      BY <3>3, <3>4, LinkStays
    <3> QED
      BY <3>2, <3>3, <3>5 DEF Linked, Follows, Opens
  <2>2. CASE i = Len(line) + 1
    <3>1. Stream(i)' = e /\ Stream(i + 1)' = f
      <4>1. Stream(i)' = e
        BY <1>4, <2>2
      <4>2. \A k : k = Len(line) + 2 => Stream(k)' = f
        BY <1>3
      <4>3. i + 1 = Len(line) + 2
        BY <1>1, <2>2
      <4> QED
        BY <4>1, <4>2, <4>3
    <3> QED
      BY <3>1 DEF Linked, Follows, Opens
  <2> QED
    BY <1>1, <2>1, <2>2
<1>10. Front' = Front
  BY <1>1, <1>2 DEF Front
<1> QED
  BY <1>8, <1>9, <1>10 DEF Lined
(* A character goes out, behind e and before u.                            *)
LEMMA TextBetween ==
  ASSUME TypeOK, Lined, Further, UNCHANGED sender,
         split' = split \cup Open, NEW u, u = Upcoming,
         NEW t \in Sending, t.frame = Len(sent), t.part = "text"
  PROVE  /\ Linked(t, u)'
         /\ \A e \in Sending : Linked(e, u) => Linked(e, t)'
<1>1. Len(sent) \in Nat /\ sent' = sent
  BY DEF TypeOK, sender
<1>2. CASE place = 0
  <2>1. u.frame = Len(sent) + 1 /\ u.part = "start"
    BY <1>2 DEF Upcoming
  <2> QED
    BY <1>1, <2>1 DEF Linked, Follows, Opens, Sending
<1>3. CASE place # 0
  <2>1. /\ Len(Message) \in Nat /\ place \in 1..Len(Message) + 2
        /\ u.frame = Len(sent) /\ u.part # "start"
    BY <1>3, OnMessage DEF Upcoming
  <2>2. CASE place = Len(Message) + 2
    <3>1. u.part = "text"
      BY <1>3, <2>1, <2>2 DEF Upcoming
    <3> QED
      BY <1>1, <2>1, <3>1 DEF Linked, Follows, Opens, Further
  <2>3. CASE place <= Len(Message) + 1
    <3>1. Len(sent) \in split'
      BY <1>3, <2>3 DEF Open
    <3>2. ASSUME NEW e \in Sending, Linked(e, u)
          PROVE  e.frame = Len(sent)
      BY <2>1, <3>2 DEF Linked, Follows, Opens
    <3> QED
      BY <1>1, <2>1, <3>1, <3>2 DEF Linked
  <2> QED
    BY <2>1, <2>2, <2>3
<1> QED
  BY <1>2, <1>3

LEMMA TextLined ==
  ASSUME TypeOK, TypeOK', Lined, Further, UNCHANGED sender,
         split' = split \cup Open, NEW t \in Sending,
         t.frame = Len(sent), t.part = "text", t.byte \in Text,
         line' = Append(line, t)
  PROVE  /\ Lined'
         /\ line # <<>> => Front' = Front
         /\ line = <<>> => Front' = t
<1>1. /\ Len(line) \in Nat /\ Len(line') = Len(line) + 1
      /\ \A i \in 1..Len(line) : line'[i] = line[i]
      /\ line'[Len(line) + 1] = t
  BY DEF TypeOK
<1>2. Upcoming' = Upcoming /\ (escaped => AtByte)'
  BY DEF Upcoming, Message, sender, Lined, AtByte
<1>3. PICK u \in Sending : u = Upcoming /\ Made(u) /\ Made(u)'
  BY UpcomingMade, MadeStays DEF Lined
<1>4. ASSUME NEW i, i = Len(line) + 2 PROVE Stream(i)' = u
  BY <1>1, <1>2, <1>3, <1>4 DEF Stream
<1>5. ASSUME NEW i, i = Len(line) + 1
      PROVE  Stream(i)' = t /\ Stream(i) = u
  BY <1>1, <1>3, <1>5 DEF Stream
<1>6. ASSUME NEW i \in 1..Len(line)
      PROVE  \E g \in Sending : /\ g = Stream(i) /\ g = Stream(i)'
                               /\ Made(g) /\ Made(g)'
  <2>1. Stream(i)' = Stream(i)
    BY <1>1 DEF Stream
  <2> QED
    BY <1>1, <2>1, StreamMade, MadeStays
<1>7. Made(t)'
  BY <1>1 DEF Made, TypeOK, sender
<1>8. ASSUME NEW i \in 1..Len(line') + 1 PROVE Made(Stream(i))'
  <2>1. CASE i <= Len(line)
    <3>1. PICK g \in Sending : g = Stream(i)' /\ Made(g)'
      BY <1>1, <1>6, <2>1
    <3> QED
      BY <3>1 DEF Made
  <2>2. CASE i = Len(line) + 1
    <3>1. Stream(i)' = t
      BY <1>5, <2>2
    <3> QED
      BY <1>7, <3>1 DEF Made
  <2>3. CASE i = Len(line) + 2
    <3>1. Stream(i)' = u
      BY <1>4, <2>3
    <3> QED
      BY <1>3, <3>1 DEF Made
  <2> QED
    BY <1>1, <2>1, <2>2, <2>3
<1>9. ASSUME NEW i \in 1..Len(line')
      PROVE  Linked(Stream(i), Stream(i + 1))'
  <2>1. CASE i < Len(line)
    <3>1. i \in 1..Len(line) /\ i + 1 \in 1..Len(line)
      BY <1>1, <2>1
    <3>2. PICK g \in Sending : g = Stream(i) /\ g = Stream(i)'
      BY <1>6, <3>1
    <3>3. PICK h \in Sending :
            h = Stream(i + 1) /\ h = Stream(i + 1)' /\ Made(h)
      BY <1>6, <3>1
    <3>4. Linked(Stream(i), Stream(i + 1))
      BY <3>1 DEF Lined
    <3>5. Linked(g, h)'
      BY <3>2, <3>3, <3>4, LinkStays
    <3> QED
      BY <3>2, <3>3, <3>5 DEF Linked, Follows, Opens
  <2>2. CASE i = Len(line)
    <3>1. i \in 1..Len(line)
      BY <1>1, <2>2
    <3>2. PICK g \in Sending : g = Stream(i) /\ g = Stream(i)'
      BY <1>6, <3>1
    <3>3. Stream(i + 1) = u /\ Stream(i + 1)' = t
      <4>1. \A k : k = Len(line) + 1 => Stream(k)' = t /\ Stream(k) = u
        BY <1>5
      <4>2. i + 1 = Len(line) + 1
        BY <2>2
      <4> QED
        BY <4>1, <4>2
    <3>4. Linked(Stream(i), Stream(i + 1))
      BY <3>1 DEF Lined
    <3>5. Linked(g, t)'
      BY <1>3, <3>2, <3>3, <3>4, TextBetween
    <3> QED
      BY <3>2, <3>3, <3>5 DEF Linked, Follows, Opens
  <2>3. CASE i = Len(line) + 1
    <3>1. Stream(i)' = t
      BY <1>5, <2>3
    <3>2. Stream(i + 1)' = u
      <4>1. \A k : k = Len(line) + 2 => Stream(k)' = u
        BY <1>4
      <4>2. i + 1 = Len(line) + 2
        BY <1>1, <2>3
      <4> QED
        BY <4>1, <4>2
    <3>3. Linked(t, u)'
      BY <1>3, TextBetween
    <3> QED
      BY <3>1, <3>2, <3>3 DEF Linked, Follows, Opens
  <2> QED
    BY <1>1, <2>1, <2>2, <2>3
<1>10. line # <<>> => Front' = Front
  <2>1. line # <<>> => Len(line) >= 1
    BY <1>1 DEF TypeOK
  <2> QED
    BY <1>1, <2>1 DEF Front, Stream
<1>11. line = <<>> => Front' = t
  BY <1>5 DEF Front
<1> QED
  BY <1>2, <1>8, <1>9, <1>10, <1>11 DEF Lined

(* A byte is taken off the line, by the parser or by nobody.               *)
LEMMA TakeLined ==
  ASSUME TypeOK, TypeOK', Lined, Further, UNCHANGED sender, split' = split,
         line # <<>>, line' = Tail(line)
  PROVE  /\ Lined'
         /\ \E h, f \in Sending : /\ h = Head(line) /\ h = Front /\ f = Front'
                                 /\ Made(h) /\ Made(f) /\ Linked(h, f)
<1>1. /\ Len(line) \in Nat /\ Len(line) >= 1 /\ Len(line') = Len(line) - 1
      /\ \A i \in 1..Len(line) - 1 : line'[i] = line[i + 1]
      /\ Head(line) = line[1]
  BY DEF TypeOK
<1>2. Upcoming' = Upcoming /\ (escaped => AtByte)'
  BY DEF Upcoming, Message, sender, Lined, AtByte
<1>3. ASSUME NEW i \in 1..Len(line) PROVE Stream(i)' = Stream(i + 1)
  BY <1>1, <1>2 DEF Stream
<1>4. sent' = sent /\ split' = split
  BY DEF sender
<1>5. ASSUME NEW i \in 1..Len(line') + 1 PROVE Made(Stream(i))'
  <2>1. i \in 1..Len(line) /\ i + 1 \in 1..Len(line) + 1
    BY <1>1
  <2>2. Made(Stream(i + 1))
    BY <2>1 DEF Lined
  <2> QED
    BY <1>3, <1>4, <2>1, <2>2 DEF Made, InMessage, Original
<1>6. ASSUME NEW i \in 1..Len(line')
      PROVE  Linked(Stream(i), Stream(i + 1))'
  <2>1. i \in 1..Len(line) /\ i + 1 \in 1..Len(line)
    BY <1>1
  <2>2. Linked(Stream(i + 1), Stream(i + 1 + 1))
    BY <2>1 DEF Lined
  <2>3. Stream(i)' = Stream(i + 1) /\ Stream(i + 1)' = Stream(i + 1 + 1)
    BY <1>3, <2>1
  <2> QED
    BY <1>4, <2>2, <2>3 DEF Linked, Follows, Opens, Original
<1>7. \E h, f \in Sending : /\ h = Head(line) /\ h = Front /\ f = Front'
                           /\ Made(h) /\ Made(f) /\ Linked(h, f)
  <2>1. /\ 1 \in 1..Len(line) + 1 /\ 1 + 1 \in 1..Len(line) + 1
        /\ 1 \in 1..Len(line)
    BY <1>1
  <2>2. Front = Head(line) /\ Front = Stream(1) /\ Front' = Stream(1 + 1)
    <3>1. Front = Head(line) /\ Front = Stream(1)
      BY <1>1 DEF Front, Stream
    <3>2. Front' = Stream(1 + 1)
      BY <1>3, <2>1 DEF Front
    <3> QED
      BY <3>1, <3>2
  <2>3. Linked(Stream(1), Stream(1 + 1))
    BY <2>1 DEF Lined
  <2> QED
    BY <2>1, <2>2, <2>3, StreamMade
<1> QED
  BY <1>2, <1>5, <1>6, <1>7 DEF Lined
-----------------------------------------------------------------------------
(* The parser.                                                             *)

\* The sender puts a byte behind others, or begins a frame.
LEMMA SyncedStays ==
  ASSUME TypeOK, Further, UNCHANGED <<parser, delivered>>,
         NEW e \in Sending, Made(e), Synced(e)
  PROVE  Synced(e)'
<1>1. /\ Len(sent) \in Nat /\ e.frame \in Nat
      /\ UNCHANGED msg_index /\ UNCHANGED is_escaped /\ UNCHANGED buffer
      /\ UNCHANGED delivered
  BY DEF TypeOK, Sending, parser
<1>2. \A n : Intact(n)' => Intact(n)
  BY DEF Intact, Further
<1>3. ASSUME NEW n \in 1..Len(sent), Sound(n)'
      PROVE  sent'[n] = sent[n] /\ Sound(n)
  BY <1>2, <1>3 DEF Sound, Further, Receivable, Plain, TakenForNone, ToPC
<1>4. InStep(e)'
  <2>1. Expects(e)' = Expects(e)
    BY <1>1 DEF Expects, Made, InMessage, Original, Further
  <2> QED
    BY <1>1, <1>2, <2>1 DEF InStep, Agreed, Synced
<1>5. Reading(e)'
  <2> SUFFICES ASSUME e.part \in {"escape", "data", "end"}, Sound(e.frame)'
               PROVE  /\ msg_index = e.at - 1
                      /\ \A j \in 1..e.at - 1 :
                           buffer[j - 1] = sent'[e.frame][j]
    BY <1>1 DEF Reading
  <2>1. e.frame \in 1..Len(sent)
    BY DEF Made, InMessage
  <2> QED
    BY <1>3, <2>1 DEF Reading, Synced
<1>6. Read(e)'
  <2> SUFFICES ASSUME NEW n \in 1..Len(sent'), Behind(n, e), Sound(n)'
               PROVE  sent'[n] \in Range(delivered)
    BY <1>1 DEF Read, Behind
  <2>1. n \in 1..Len(sent)
    <3>1. e.part = "text" => e.frame <= Len(sent)
      BY <1>1 DEF Made
    <3>2. e.frame <= Len(sent) + 1
      BY <1>1 DEF Made, InMessage, Sending, Parts
    <3>3. n \in Nat /\ 1 <= n
      OBVIOUS
    <3> QED
      BY <1>1, <3>1, <3>2, <3>3 DEF Behind
  <2> QED
    BY <1>3, <2>1 DEF Read, Synced
<1> QED
  BY <1>4, <1>5, <1>6 DEF Synced

\* A character is put on an empty line.
LEMMA SyncedText ==
  ASSUME TypeOK, Further, UNCHANGED sender, UNCHANGED <<parser, delivered>>,
         split' = split \cup Open, Synced(Upcoming),
         NEW t \in Sending, t.frame = Len(sent), t.part = "text"
  PROVE  Synced(t)'
<1>1. /\ Len(sent) \in Nat /\ UNCHANGED sent /\ UNCHANGED is_escaped
      /\ UNCHANGED delivered
  BY DEF TypeOK, sender, parser
<1>2. \A n : Intact(n)' => Intact(n)
  BY DEF Intact, Further
<1>3. \A n : Sound(n)' => Sound(n)
  BY <1>1, <1>2 DEF Sound, Receivable, Plain, TakenForNone, ToPC, sender
<1>4. ASSUME Intact(Len(sent))'
      PROVE  \/ Upcoming.part = "start" /\ Upcoming.frame = Len(sent) + 1
             \/ Upcoming.part = "text" /\ Upcoming.frame = Len(sent)
  <2>1. Open = {}
    BY <1>1, <1>4 DEF Intact, Open
  <2>2. CASE place = 0
    BY <2>2 DEF Upcoming
  <2>3. CASE place # 0
    <3>1. Len(Message) \in Nat /\ place \in 1..Len(Message) + 2
      BY <2>3, OnMessage
    <3>2. place = Len(Message) + 2
      BY <2>1, <2>3, <3>1 DEF Open
    <3> QED
      BY <2>3, <3>1, <3>2 DEF Upcoming
  <2> QED
    BY <2>2, <2>3
<1>5. InStep(t)'
  <2>1. Expects(t)' = FALSE
    BY DEF Expects
  <2>2. ASSUME Agreed(t)' PROVE is_escaped' = FALSE
    <3>1. Intact(Len(sent))'
      BY <1>1, <2>2 DEF Agreed, Intact
    <3>2. Intact(Len(sent))
      BY <1>1, <1>2, <3>1
    <3>3. Agreed(Upcoming) /\ Expects(Upcoming) = FALSE
      BY <1>1, <1>4, <3>1, <3>2 DEF Agreed, Expects
    <3>4. is_escaped = Expects(Upcoming)
      BY <3>3 DEF Synced, InStep
    <3> QED
      BY <1>1, <3>3, <3>4
  <2> QED
    BY <2>1, <2>2 DEF InStep
<1>6. Reading(t)'
  BY DEF Reading
<1>7. Read(t)'
  <2> SUFFICES ASSUME NEW n \in 1..Len(sent), Behind(n, t), Sound(n)'
               PROVE  sent[n] \in Range(delivered)
    BY <1>1 DEF Read, Behind
  <2>1. Sound(n)
    BY <1>3
  <2>2. Behind(n, Upcoming)
    <3>1. CASE n = Len(sent)
      <4>1. Intact(Len(sent))'
        BY <1>1, <3>1 DEF Sound, Intact
      <4> QED
        BY <1>1, <1>4, <3>1, <4>1 DEF Behind
    <3>2. CASE n # Len(sent)
      <4>1. n < Len(sent)
        BY <1>1, <3>2
      <4>2. Upcoming.frame = Len(sent) \/ Upcoming.frame = Len(sent) + 1
        BY <1>1 DEF Upcoming
      <4> QED
        BY <1>1, <4>1, <4>2 DEF Behind
    <3> QED
      BY <3>1, <3>2
  <2> QED
    BY <2>1, <2>2 DEF Synced, Read
<1> QED
  BY <1>5, <1>6, <1>7 DEF Synced

\* Where the stream may go from one byte to the next.
LEMMA Successor ==
  ASSUME TypeOK, NEW h \in Sending, NEW f \in Sending,
         Made(h), Made(f), Linked(h, f)
  PROVE  /\ f.part = "start" => f.frame = h.frame + 1
         /\ f.part # "start" => f.frame = h.frame
         /\ Agreed(f) = Intact(h.frame)
         /\ Intact(h.frame) => Follows(h, f)
         /\ \A n \in Nat : Behind(n, f) =>
              Behind(n, h) \/ (n = h.frame /\ f.part \in {"start", "text"})
<1>1. h.frame \in Nat /\ f.frame \in Nat
  BY DEF Sending
<1>2. /\ f.part = "start" => f.frame = h.frame + 1
      /\ f.part # "start" => f.frame = h.frame
  BY DEF Linked, Follows, Opens
<1>3. Agreed(f) = Intact(h.frame)
  <2>1. CASE f.part = "start"
    <3>1. f.frame - 1 = h.frame
      BY <1>1, <1>2, <2>1
    <3> QED
      BY <2>1, <3>1 DEF Agreed
  <2>2. CASE f.part # "start"
    BY <1>2, <2>2 DEF Agreed
  <2> QED
    BY <2>1, <2>2
<1>4. Intact(h.frame) => Follows(h, f)
  BY DEF Linked, Intact
<1>5. ASSUME NEW n \in Nat
      PROVE  Behind(n, f) =>
               Behind(n, h) \/ (n = h.frame /\ f.part \in {"start", "text"})
  BY <1>1, <1>2 DEF Behind
<1> QED
  BY <1>2, <1>3, <1>4, <1>5
LEMMA SyncedLost ==
  ASSUME TypeOK, NEW h \in Sending, NEW f \in Sending,
         Made(h), Made(f), Linked(h, f), Synced(h),
         UNCHANGED sender, UNCHANGED <<parser, delivered>>, split' = split,
         damaged' = IF h.part = "text" THEN damaged
                    ELSE damaged \cup {h.frame}
  PROVE  Synced(f)'
<1>1. /\ UNCHANGED sent /\ UNCHANGED is_escaped /\ UNCHANGED msg_index
      /\ UNCHANGED buffer /\ UNCHANGED delivered
  BY DEF sender, parser
<1>2. /\ \A n : Intact(n)' => Intact(n)
      /\ Intact(h.frame)' => h.part = "text"
  BY DEF Intact
<1>3. \A n : Sound(n)' => Sound(n) /\ Intact(n)'
  BY <1>1, <1>2 DEF Sound, Receivable, Plain, TakenForNone, ToPC, sender
<1>4. Intact(h.frame)' => /\ f.part \in {"start", "text"}
                          /\ Agreed(h) /\ Expects(h) = FALSE
  <2> SUFFICES ASSUME Intact(h.frame)'
               PROVE  /\ f.part \in {"start", "text"}
                      /\ Agreed(h) /\ Expects(h) = FALSE
    OBVIOUS
  <2>1. Intact(h.frame) /\ h.part = "text"
    BY <1>2
  <2>2. Follows(h, f)
    BY <2>1, Successor
  <2> QED
    BY <2>1, <2>2 DEF Follows, Agreed, Expects
<1>5. InStep(f)'
  <2> SUFFICES ASSUME Agreed(f)' PROVE is_escaped' = Expects(f)'
    BY DEF InStep
  <2>1. Intact(h.frame)'
    <3>1. CASE f.part = "start"
      <4>1. f.frame = h.frame + 1 /\ h.frame \in Nat
        BY <3>1, Successor DEF Sending
      <4>2. f.frame - 1 = h.frame
        BY <4>1
      <4> QED
        BY <3>1, <4>2 DEF Agreed, Intact
    <3>2. CASE f.part # "start"
      <4>1. f.frame = h.frame
        BY <3>2, Successor
      <4> QED
        BY <3>2, <4>1 DEF Agreed, Intact
    <3> QED
      BY <3>1, <3>2
  <2>2. Expects(f)' = FALSE
    BY <1>4, <2>1 DEF Expects
  <2>3. is_escaped = FALSE
    BY <1>4, <2>1 DEF Synced, InStep
  <2> QED
    BY <1>1, <2>2, <2>3
<1>6. Reading(f)'
  <2> SUFFICES ASSUME f.part \in {"escape", "data", "end"}, Sound(f.frame)'
               PROVE  FALSE
    BY DEF Reading
  <2>1. f.frame = h.frame
    BY Successor
  <2>2. Intact(h.frame)'
    BY <2>1 DEF Sound, Intact
  <2> QED
    BY <1>4, <2>2
<1>7. Read(f)'
  <2> SUFFICES ASSUME NEW n \in 1..Len(sent), Behind(n, f), Sound(n)'
               PROVE  sent[n] \in Range(delivered)
    BY <1>1 DEF Read, Behind
  <2>1. Sound(n) /\ Intact(n)' /\ n \in Nat
    BY <1>3 DEF TypeOK
  <2>2. n = h.frame => Intact(h.frame)'
    BY <2>1 DEF Intact
  <2>3. Behind(n, h)
    <3>1. Behind(n, h) \/ n = h.frame
      BY <2>1, Successor
    <3>2. n = h.frame => Behind(n, h)
      BY <1>2, <2>2 DEF Behind
    <3> QED
      BY <3>1, <3>2
  <2> QED
    BY <2>1, <2>3 DEF Synced, Read
<1> QED
  BY <1>5, <1>6, <1>7 DEF Synced

LEMMA RangeGrows ==
  ASSUME NEW S, NEW s \in Seq(S), NEW x \in S
  PROVE  Range(Append(s, x)) = Range(s) \cup {x}
<1>1. /\ Len(s) \in Nat /\ DOMAIN s = 1..Len(s)
      /\ DOMAIN Append(s, x) = 1..Len(s) + 1
      /\ \A i \in 1..Len(s) : Append(s, x)[i] = s[i]
      /\ Append(s, x)[Len(s) + 1] = x
  OBVIOUS
<1>2. ASSUME NEW y \in Range(Append(s, x)) PROVE y \in Range(s) \cup {x}
  <2>1. PICK i \in 1..Len(s) + 1 : Append(s, x)[i] = y
    BY <1>1 DEF Range
  <2>2. i \in 1..Len(s) \/ i = Len(s) + 1
    BY <1>1
  <2> QED
    BY <1>1, <2>1, <2>2 DEF Range
<1>3. ASSUME NEW y \in Range(s) \cup {x} PROVE y \in Range(Append(s, x))
  <2>1. PICK i \in 1..Len(s) + 1 : Append(s, x)[i] = y
    BY <1>1 DEF Range
  <2> QED
    BY <1>1, <2>1 DEF Range
<1> QED
  BY <1>2, <1>3

\* Behind an intact byte the parser agrees on whether the next is escaped.
LEMMA StaysInStep ==
  ASSUME TypeOK, NEW h \in Sending, NEW f \in Sending, h = Head(line),
         Made(h), Made(f), Follows(h, f), Agreed(h) \/ h.part = "start",
         InStep(h), ParseMessage
  PROVE  is_escaped' = Expects(f)
<1>1. \/ ParseEscape
      \/ is_escaped' = FALSE /\ (is_escaped = TRUE \/ h.byte # ESCAPE)
  BY DEF ParseMessage, ParseStart, ParseEnd, ParseData, ParseCharacter, TypeOK
<1>2. ParseEscape =>
        is_escaped' = TRUE /\ is_escaped = FALSE /\ h.byte = ESCAPE
  BY DEF ParseEscape, TypeOK
<1>3. START_BYTE # ESCAPE /\ END_BYTE # ESCAPE /\ newline # ESCAPE
      /\ ESCAPE \notin Text
  BY FramingAssumption DEF START_BYTE, END_BYTE, ESCAPE, newline
<1>4. CASE h.part = "start"
  <2>1. h.byte # ESCAPE /\ Expects(f) = FALSE
    BY <1>3, <1>4 DEF Made, Follows, Opens, Expects
  <2> QED
    BY <1>1, <1>2, <2>1
<1>5. CASE h.part = "escape"
  <2>1. h.byte = ESCAPE /\ Special(Original(h)) /\ Expects(h) = FALSE
    BY <1>5 DEF Made, Expects
  <2>2. is_escaped = FALSE
    BY <1>5, <2>1 DEF InStep
  <2>3. f.part = "data" /\ Original(f) = Original(h)
    BY <1>5 DEF Follows, Original
  <2>4. Expects(f) = TRUE
    BY <2>1, <2>3 DEF Expects
  <2> QED
    BY <1>1, <1>2, <2>1, <2>2, <2>4
<1>6. CASE h.part = "data"
  <2>1. is_escaped = Special(Original(h))
    <3>1. is_escaped = Expects(h)
      BY <1>6 DEF InStep
    <3>2. Expects(h) = Special(Original(h))
      BY <1>6 DEF Expects, Special
    <3> QED
      BY <3>1, <3>2
  <2>2. h.byte = ESCAPE => Special(Original(h))
    BY <1>6 DEF Made, Special
  <2>3. Expects(f) = FALSE
    BY <1>6 DEF Follows, Opens, Expects
  <2> QED
    BY <1>1, <1>2, <2>1, <2>2, <2>3
<1>7. CASE h.part \in {"end", "text"}
  <2>1. h.byte # ESCAPE /\ Expects(f) = FALSE
    BY <1>3, <1>7 DEF Made, Follows, Opens, Expects
  <2> QED
    BY <1>1, <1>2, <2>1
<1> QED
  BY <1>4, <1>5, <1>6, <1>7 DEF Sending, Parts
\* A plain intact frame ends up in the buffer byte by byte.
LEMMA StaysReading ==
  ASSUME TypeOK, NEW h \in Sending, NEW f \in Sending, h = Head(line),
         Made(h), Made(f), Follows(h, f), Synced(h), Agreed(h),
         f.part \in {"escape", "data", "end"}, Sound(h.frame), ParseMessage
  PROVE  /\ msg_index' = f.at - 1
         /\ \A j \in 1..f.at - 1 : buffer'[j - 1] = sent[h.frame][j]
<1>1. is_escaped = Expects(h) /\ is_escaped \in BOOLEAN
  BY DEF Synced, InStep, TypeOK
<1>2. ParseEscape <=> (is_escaped = FALSE /\ h.byte = ESCAPE)
  BY <1>1 DEF ParseMessage, ParseEscape, ParseStart, ParseEnd, ParseData,
              ParseCharacter
<1>3. h.part \in {"start", "escape", "data"}
  BY DEF Follows, Sending, Parts
<1>4. CASE h.part = "start"
  <2>1. is_escaped = FALSE /\ h.byte = START_BYTE /\ f.at = 1
    BY <1>1, <1>4 DEF Expects, Made, Follows, Opens
  <2>2. Current = START_BYTE /\ ~ParseEscape
    BY <1>2, <2>1 DEF Current, START_BYTE, ESCAPE
  <2>3. ParseStart
    BY <2>2 DEF ParseMessage, ParseEnd, ParseData, START_BYTE, END_BYTE
  <2> QED
    BY <2>1, <2>3 DEF ParseStart, Empty
<1>5. CASE h.part = "escape"
  <2>1. is_escaped = FALSE /\ h.byte = ESCAPE
    BY <1>1, <1>5 DEF Expects, Made
  <2>2. msg_index' = msg_index /\ buffer' = buffer
    BY <1>2, <2>1 DEF ParseEscape
  <2>3. f.frame = h.frame /\ f.at = h.at
    BY <1>5 DEF Follows
  <2>4. /\ msg_index = h.at - 1
        /\ \A j \in 1..h.at - 1 : buffer[j - 1] = sent[h.frame][j]
    BY <1>5 DEF Synced, Reading
  <2> QED
    BY <2>2, <2>3, <2>4
<1>6. CASE h.part = "data"
  <2>1. /\ h.frame \in 1..Len(sent) /\ h.at \in 1..Len(sent[h.frame])
        /\ sent[h.frame] \in Messages
    BY <1>6 DEF Made, InMessage, TypeOK
  <2>2. /\ Len(sent[h.frame]) \in Nat /\ Len(sent[h.frame]) <= MaxLen
        /\ MaxLen \in Nat
    BY <2>1, MessageTypes, FramingAssumption
  <2>3. Original(h) \notin {START_BYTE, END_BYTE}
    BY <2>1 DEF Sound, Receivable, Plain, Original
  <2>4. is_escaped = Special(Original(h))
    <3>1. Expects(h) = Special(Original(h))
      BY <1>6 DEF Expects, Special
    <3> QED
      BY <1>1, <3>1
  <2>5. Current = Original(h) /\ ~ParseEscape
    <3>1. CASE Original(h) = ESCAPE
      <4>1. is_escaped = TRUE /\ h.byte = Flip(ESCAPE)
        BY <1>6, <2>4, <3>1 DEF Made, Special
      <4> QED
        BY <1>2, <3>1, <4>1, Flips DEF Current
    <3>2. CASE Original(h) # ESCAPE
      <4>1. Special(Original(h)) = FALSE
        BY <2>3, <3>2 DEF Special
      <4>2. is_escaped = FALSE /\ h.byte = Original(h)
        BY <1>6, <2>4, <4>1 DEF Made
      <4> QED
        BY <1>2, <3>2, <4>2 DEF Current
    <3> QED
      BY <3>1, <3>2
  <2>6. ParseData
    BY <2>3, <2>5 DEF ParseMessage, ParseStart, ParseEnd
  <2>7. /\ msg_index = h.at - 1
        /\ \A j \in 1..h.at - 1 : buffer[j - 1] = sent[h.frame][j]
    BY <1>6 DEF Synced, Reading
  <2>8. f.at = h.at + 1
    BY <1>6 DEF Follows, Opens
  <2>9. Store
    BY <2>1, <2>2, <2>6, <2>7 DEF ParseData
  <2>10. /\ msg_index' = h.at
         /\ buffer' = [buffer EXCEPT ![h.at - 1] = Original(h)]
    BY <2>1, <2>2, <2>5, <2>7, <2>9 DEF Store
  <2>11. buffer \in [0..MaxLen - 1 -> Byte] /\ h.at - 1 \in 0..MaxLen - 1
    BY <2>1, <2>2 DEF TypeOK
  <2>12. ASSUME NEW j \in 1..h.at
         PROVE  buffer'[j - 1] = sent[h.frame][j]
    <3>1. CASE j = h.at
      BY <2>1, <2>2, <2>10, <2>11, <3>1 DEF Original
    <3>2. CASE j # h.at
      <4>1. j \in 1..h.at - 1 /\ j - 1 # h.at - 1 /\ j - 1 \in 0..MaxLen - 1
        BY <2>1, <2>2, <3>2
      <4> QED
        BY <2>7, <2>10, <2>11, <4>1
    <3> QED
      BY <3>1, <3>2
  <2> QED
    BY <2>1, <2>2, <2>8, <2>10, <2>12
<1> QED
  BY <1>3, <1>4, <1>5, <1>6

\* At the end of such a frame the message is delivered.
LEMMA EndDelivers ==
  ASSUME TypeOK, NEW h \in Sending, h = Head(line), h.part = "end",
         Made(h), Synced(h), Agreed(h), Sound(h.frame), ParseMessage
  PROVE  sent[h.frame] \in Range(delivered')
<1>1. is_escaped = FALSE /\ h.byte = END_BYTE /\ h.frame \in 1..Len(sent)
  BY DEF Synced, InStep, Expects, Made
<1>2. Current = END_BYTE /\ ~ParseEscape
  BY <1>1 DEF Current, ParseEscape, END_BYTE, ESCAPE
<1>3. ParseEnd
  BY <1>2 DEF ParseMessage, ParseStart, ParseData, START_BYTE, END_BYTE
<1>4. PICK m \in Messages : m = sent[h.frame]
  BY <1>1 DEF TypeOK
<1>5. /\ m \in Seq(Byte) /\ Len(m) \in Nat /\ h.at = Len(m) + 1
      /\ DOMAIN m = 1..Len(m)
  BY <1>4, MessageTypes DEF Made
<1>6. /\ msg_index = Len(m)
      /\ \A j \in 1..Len(m) : buffer[j - 1] = m[j]
  BY <1>4, <1>5 DEF Synced, Reading
<1>7. Contents = m
  <2>1. m = [j \in 1..Len(m) |-> m[j]]
    BY <1>5
  <2> QED
    BY <1>6, <2>1 DEF Contents
<1>8. Valid(Contents)
  BY <1>1, <1>4, <1>7 DEF Valid, Range, TypeOK
<1>9. delivered' = Append(delivered, m) /\ delivered \in Seq(Messages)
  BY <1>3, <1>7, <1>8 DEF ParseEnd, Validate, TypeOK
<1> QED
  BY <1>4, <1>9, RangeGrows

LEMMA DeliveredGrows ==
  ASSUME TypeOK, ParseMessage
  PROVE  Range(delivered) \subseteq Range(delivered')
<1>1. delivered \in Seq(Messages)
  BY DEF TypeOK
<1>2. CASE ParseEnd /\ Valid(Contents)
  <2>1. Contents \in Messages
    BY <1>2 DEF Valid, Range, TypeOK
  <2>2. delivered' = Append(delivered, Contents)
    BY <1>2 DEF ParseEnd, Validate
  <2> QED
    BY <1>1, <2>1, <2>2, RangeGrows
<1>3. CASE ~(ParseEnd /\ Valid(Contents))
  BY <1>3 DEF ParseMessage, ParseEscape, ParseStart, ParseEnd, ParseData,
              Validate
<1> QED
  BY <1>2, <1>3

LEMMA SyncedParsed ==
  ASSUME TypeOK, NEW h \in Sending, NEW f \in Sending, h = Head(line),
         Made(h), Made(f), Linked(h, f), Synced(h), ParseMessage
  PROVE  Synced(f)'
<1>1. /\ UNCHANGED sent /\ UNCHANGED damaged /\ UNCHANGED split
      /\ UNCHANGED trailer
  BY DEF ParseMessage, ParseEscape, ParseStart, ParseEnd, ParseData,
         ParseCharacter, Parsing, sender, faults
<1>2. \A n : Sound(n)' = Sound(n) /\ Intact(n)' = Intact(n)
  BY <1>1 DEF Sound, Intact, Receivable, Plain, TakenForNone, ToPC
<1>3. Expects(f)' = Expects(f) /\ Agreed(f)' = Agreed(f)
  BY <1>1 DEF Expects, Original, Agreed, Intact
<1>4. h.part # "start" => Agreed(h) = Intact(h.frame)
  BY DEF Agreed
<1>5. InStep(f)'
  <2> SUFFICES ASSUME Agreed(f) PROVE is_escaped' = Expects(f)
    BY <1>3 DEF InStep
  <2>1. Intact(h.frame) /\ Follows(h, f)
    BY Successor
  <2> QED
    BY <1>4, <2>1, StaysInStep DEF Synced
<1>6. Reading(f)'
  <2> SUFFICES ASSUME f.part \in {"escape", "data", "end"}, Sound(f.frame)
               PROVE  /\ msg_index' = f.at - 1
                      /\ \A j \in 1..f.at - 1 :
                           buffer'[j - 1] = sent[f.frame][j]
    BY <1>1, <1>2 DEF Reading
  <2>1. f.frame = h.frame
    BY Successor
  <2>2. Follows(h, f)
    BY <2>1, Successor DEF Sound
  <2>3. Agreed(h)
    BY <2>1 DEF Agreed, Sound
  <2> QED
    BY <2>1, <2>2, <2>3, StaysReading
<1>7. Read(f)'
  <2> SUFFICES ASSUME NEW n \in 1..Len(sent), Behind(n, f), Sound(n)
               PROVE  sent[n] \in Range(delivered')
    BY <1>1, <1>2 DEF Read, Behind
  <2>1. CASE Behind(n, h)
    BY <2>1, DeliveredGrows DEF Synced, Read
  <2>2. CASE ~Behind(n, h)
    <3>1. n = h.frame /\ f.part \in {"start", "text"} /\ h.part # "text"
      BY <2>2, Successor DEF Behind, TypeOK
    <3>2. Follows(h, f)
      BY <3>1, Successor DEF Sound
    <3>3. h.part = "end"
      BY <3>1, <3>2 DEF Follows, Opens
    <3>4. Agreed(h)
      BY <3>1, <3>3 DEF Agreed, Sound
    <3> QED
      BY <3>1, <3>3, <3>4, EndDelivers
  <2> QED
    BY <2>1, <2>2
<1> QED
  BY <1>5, <1>6, <1>7 DEF Synced
\* A byte the PC takes for none: of a message it cannot get, or text.
LEMMA SyncedSkipped ==
  ASSUME TypeOK, NEW h \in Sending, NEW f \in Sending,
         Made(h), Made(f), Linked(h, f), Synced(h), TakenForNone(h.byte),
         UNCHANGED <<sender, parser, delivered, faults>>
  PROVE  Synced(f)'
<1>1. /\ UNCHANGED sent /\ UNCHANGED trailer /\ UNCHANGED is_escaped
      /\ UNCHANGED msg_index /\ UNCHANGED buffer /\ UNCHANGED delivered
      /\ UNCHANGED damaged /\ UNCHANGED split
  BY DEF sender, parser, faults
<1>2. h.byte = 255 /\ ToPC
  BY DEF TakenForNone, NO_BYTE
<1>3. h.part \in {"data", "text"}
  BY <1>2 DEF Made, Sending, Parts, START_BYTE, END_BYTE, ESCAPE
<1>4. h.part = "data" =>
        Special(Original(h)) = FALSE /\ Original(h) = 255 /\ InMessage(h)
  BY <1>2, Flips DEF Made, Special, START_BYTE, END_BYTE, ESCAPE
<1>5. Expects(h) = FALSE
  BY <1>4 DEF Expects
<1>6. Follows(h, f) => Expects(f) = FALSE
  BY <1>3 DEF Follows, Opens, Expects
<1>7. InStep(f)
  <2> SUFFICES ASSUME Agreed(f) PROVE is_escaped = Expects(f)
    BY DEF InStep
  <2>1. Intact(h.frame) /\ Follows(h, f)
    BY Successor
  <2>2. Agreed(h)
    BY <1>3, <2>1 DEF Agreed
  <2>3. is_escaped = Expects(h)
    BY <2>2 DEF Synced, InStep
  <2> QED
    BY <1>5, <1>6, <2>1, <2>3
<1>8. Reading(f)
  <2> SUFFICES ASSUME f.part \in {"escape", "data", "end"}, Sound(f.frame)
               PROVE  FALSE
    BY DEF Reading
  <2>1. f.frame = h.frame
    BY Successor
  <2>2. Follows(h, f)
    BY <2>1, Successor DEF Sound
  <2>3. h.part = "data"
    BY <1>3, <2>2 DEF Follows
  <2>4. /\ h.at \in 1..Len(sent[h.frame]) /\ sent[h.frame][h.at] = 255
        /\ Receivable(sent[h.frame])
    BY <1>4, <2>1, <2>3 DEF InMessage, Original, Sound
  <2> QED
    BY <1>2, <2>4 DEF Receivable, TakenForNone, NO_BYTE
<1>9. Read(f)
  <2> SUFFICES ASSUME NEW n \in 1..Len(sent), Behind(n, f), Sound(n)
               PROVE  sent[n] \in Range(delivered)
    BY DEF Read
  <2>1. CASE Behind(n, h)
    BY <2>1 DEF Synced, Read
  <2>2. CASE ~Behind(n, h)
    <3>1. n = h.frame /\ f.part \in {"start", "text"} /\ h.part # "text"
      BY <2>2, Successor DEF Behind, TypeOK
    <3>2. Follows(h, f)
      BY <3>1, Successor DEF Sound
    <3> QED
      BY <1>3, <3>1, <3>2 DEF Follows, Opens
  <2> QED
    BY <2>1, <2>2
<1> QED
  BY <1>1, <1>7, <1>8, <1>9
  DEF Synced, InStep, Agreed, Intact, Expects, Original, Reading, Read, Behind,
      Sound, Receivable, Plain, TakenForNone, ToPC

-----------------------------------------------------------------------------
(* Every step keeps line, sender and parser together.                      *)

LEMMA InitSyncInv == Init => SyncInv
<1> SUFFICES ASSUME Init PROVE SyncInv
  OBVIOUS
<1>1. /\ sent = <<>> /\ line = <<>> /\ place = 0 /\ escaped = FALSE
      /\ is_escaped = FALSE /\ TypeOK
  BY InitTypeOK DEF Init
<1>2. Len(line) = 0 /\ Len(sent) = 0
  BY <1>1
<1>3. \A i \in 1..Len(line) + 1 : Stream(i) = Upcoming
  BY <1>2 DEF Stream
<1>4. Lined
  BY <1>1, <1>2, <1>3, UpcomingMade DEF Lined
<1>5. Front = Upcoming /\ Upcoming.part = "start"
  BY <1>1, <1>2 DEF Front, Stream, Upcoming
<1>6. Synced(Front)
  <2>1. InStep(Front)
    <3>1. Expects(Front) = FALSE
      BY <1>5 DEF Expects
    <3> QED
      BY <1>1, <3>1 DEF InStep
  <2>2. Reading(Front)
    BY <1>5 DEF Reading
  <2>3. Read(Front)
    BY <1>2 DEF Read
  <2> QED
    BY <2>1, <2>2, <2>3 DEF Synced
<1> QED
  BY <1>4, <1>6 DEF SyncInv

\* What a step of the sender has to show.
LEMMA PutSyncInv ==
  ASSUME TypeOK, TypeOK', SyncInv, Further, UNCHANGED <<parser, delivered>>,
         line' = Append(line, Upcoming), escaped' => AtByte',
         NEW e, e = Upcoming, NEW f, f = Upcoming', Linked(e, f)'
  PROVE  SyncInv'
<1>1. Lined' /\ Front' = Front
  BY PutLined DEF SyncInv
<1>2. PICK h \in Sending : h = Front /\ Made(h)
  <2>1. 1 \in 1..Len(line) + 1
    BY DEF TypeOK
  <2> QED
    BY <2>1, StreamMade DEF SyncInv, Front
<1>3. Synced(h)'
  BY <1>2, SyncedStays DEF SyncInv
<1>4. Synced(Front)'
  <2>1. Front' = h
    BY <1>1, <1>2
  <2> QED
    BY <1>3, <2>1 DEF Synced, InStep, Agreed, Expects, Original, Reading, Read,
                      Behind
<1> QED
  BY <1>1, <1>4 DEF SyncInv

LEMMA BeginSync ==
  ASSUME TypeOK, TypeOK', SyncInv, NEW m \in Messages, BeginFrame(m)
  PROVE  SyncInv'
<1>1. /\ place = 0 /\ place' = 1 /\ sent' = Append(sent, m)
      /\ escaped' = escaped /\ trailer' = trailer
      /\ Put(Len(sent) + 1, "start", START_BYTE)
      /\ UNCHANGED <<parser, delivered>> /\ UNCHANGED faults
  BY DEF BeginFrame
<1>2. /\ Len(sent) \in Nat /\ Len(sent') = Len(sent) + 1
      /\ \A n \in 1..Len(sent) : sent'[n] = sent[n]
      /\ sent'[Len(sent) + 1] = m
  BY <1>1 DEF TypeOK
<1>3. Further
  BY <1>1, <1>2 DEF Further, TypeOK, faults
<1>4. Message' = m /\ Len(m) \in Nat /\ Len(m) >= 2
  BY <1>2, MessageTypes, FramingAssumption DEF Message
<1>5. escaped = FALSE
  BY <1>1 DEF TypeOK, SyncInv, Lined, AtByte
<1>6. line' = Append(line, Upcoming)
  BY <1>1 DEF Put, Upcoming
<1>7. PICK e : e = Upcoming
  OBVIOUS
<1>8. PICK f : f = Upcoming'
  OBVIOUS
<1>9. e.part = "start" /\ e.frame = Len(sent) + 1
  BY <1>1, <1>7 DEF Upcoming
<1>10. /\ f.frame = Len(sent) + 1 /\ f.at = 1
       /\ f.part = IF Special(m[1]) THEN "escape" ELSE "data"
  BY <1>1, <1>2, <1>4, <1>5, <1>8 DEF Upcoming
<1>11. Linked(e, f)'
  BY <1>2, <1>9, <1>10 DEF Linked, Follows, Opens, Original
<1> QED
  BY <1>1, <1>3, <1>5, <1>6, <1>7, <1>8, <1>11, PutSyncInv

LEMMA SendSync ==
  ASSUME TypeOK, TypeOK', SyncInv, SendMessage
  PROVE  SyncInv'
<1>1. /\ place # 0 /\ UNCHANGED sent /\ UNCHANGED trailer
      /\ UNCHANGED <<parser, delivered>> /\ UNCHANGED faults
  BY DEF SendMessage, SendEscape, SendByte, SendEnd, SendTrailer, AtByte
<1>2. /\ Len(sent) \in Nat \ {0} /\ Len(Message) \in Nat
      /\ Len(Message) >= 2 /\ Message' = Message
      /\ place \in 1..Len(Message) + 2 /\ Message = sent[Len(sent)]
  BY <1>1, OnMessage, FramingAssumption DEF Message
<1>3. Further
  BY <1>1 DEF Further, TypeOK, faults
<1>4. PICK e : e = Upcoming
  OBVIOUS
<1>5. PICK f : f = Upcoming'
  OBVIOUS
<1>6. e.frame = Len(sent) /\ e.at = place
  BY <1>1, <1>4 DEF Upcoming
<1>7. CASE SendEscape
  <2>1. /\ place <= Len(Message) /\ Special(Message[place]) /\ ~escaped
        /\ Put(Len(sent), "escape", ESCAPE)
        /\ escaped' = TRUE /\ place' = place
    BY <1>7 DEF SendEscape, AtByte
  <2>2. place # Len(Message) + 1 /\ place # Len(Message) + 2
    BY <1>2, <2>1
  <2>3. line' = Append(line, Upcoming)
    BY <1>1, <2>1, <2>2 DEF Put, Upcoming
  <2>4. e.part = "escape"
    BY <1>1, <1>4, <2>1, <2>2 DEF Upcoming
  <2>5. f.part = "data" /\ f.frame = Len(sent) /\ f.at = place
    BY <1>1, <1>2, <1>5, <2>1, <2>2 DEF Upcoming
  <2>6. Linked(e, f)'
    BY <1>6, <2>4, <2>5 DEF Linked, Follows
  <2>7. AtByte'
    BY <1>1, <1>2, <2>1 DEF AtByte
  <2> QED
    BY <1>1, <1>3, <1>4, <1>5, <2>3, <2>6, <2>7, PutSyncInv
<1>8. CASE SendByte
  <2>1. /\ place <= Len(Message) /\ escaped' = FALSE /\ place' = place + 1
        /\ IF Special(Message[place])
           THEN escaped /\ Put(Len(sent), "data", Flip(Message[place]))
           ELSE Put(Len(sent), "data", Message[place])
    BY <1>8 DEF SendByte, AtByte
  <2>2. place # Len(Message) + 1 /\ place # Len(Message) + 2
    BY <1>2, <2>1
  <2>3. line' = Append(line, Upcoming) /\ e.part = "data"
    BY <1>1, <1>4, <2>1, <2>2 DEF Put, Upcoming
  <2>4. place' # 0 /\ place' # Len(Message) + 2
    BY <1>2, <2>1
  <2>5. /\ f.frame = Len(sent) /\ f.at = place + 1
        /\ f.part = IF place + 1 = Len(Message) + 1 THEN "end"
                    ELSE IF Special(Message[place + 1]) THEN "escape"
                    ELSE "data"
    BY <1>1, <1>2, <1>5, <2>1, <2>4 DEF Upcoming
  <2>6. Original(f)' = Message[place + 1]
    BY <1>1, <1>2, <2>5 DEF Original
  <2>7. Linked(e, f)'
    BY <1>6, <2>3, <2>5, <2>6 DEF Linked, Follows, Opens
  <2> QED
    BY <1>1, <1>3, <1>4, <1>5, <2>1, <2>3, <2>7, PutSyncInv
<1>9. CASE SendEnd
  <2>1. /\ place = Len(Message) + 1 /\ escaped' = escaped
        /\ Put(Len(sent), "end", END_BYTE)
        /\ place' = IF trailer = <<>> THEN 0 ELSE place + 1
    BY <1>9 DEF SendEnd
  <2>2. line' = Append(line, Upcoming) /\ e.part = "end"
    BY <1>1, <1>4, <2>1 DEF Put, Upcoming
  <2>3. escaped = FALSE
    BY <1>2, <2>1 DEF TypeOK, SyncInv, Lined, AtByte
  <2>4. CASE trailer = <<>>
    <3>1. f.part = "start" /\ f.frame = Len(sent) + 1
      BY <1>1, <1>5, <2>1, <2>4 DEF Upcoming
    <3>2. Linked(e, f)'
      BY <1>6, <2>2, <3>1 DEF Linked, Follows
    <3> QED
      BY <1>1, <1>3, <1>4, <1>5, <2>1, <2>2, <2>3, <3>2, PutSyncInv
  <2>5. CASE trailer # <<>>
    <3>1. place' = Len(Message) + 2 /\ place' # 0 /\ place' # Len(Message) + 1
      BY <1>2, <2>1, <2>5
    <3>2. f.part = "text" /\ f.frame = Len(sent)
      BY <1>1, <1>2, <1>5, <3>1 DEF Upcoming
    <3>3. Linked(e, f)'
      BY <1>6, <2>2, <3>2 DEF Linked, Follows
    <3> QED
      BY <1>1, <1>3, <1>4, <1>5, <2>1, <2>2, <2>3, <3>3, PutSyncInv
  <2> QED
    BY <2>4, <2>5
<1>10. CASE SendTrailer
  <2>1. /\ place = Len(Message) + 2 /\ escaped' = escaped /\ place' = 0
        /\ Put(Len(sent), "text", trailer[1])
    BY <1>10 DEF SendTrailer
  <2>2. trailer[1] = newline
    <3>1. trailer # <<>>
      BY <1>1, <1>2, <2>1 DEF TypeOK
    <3> QED
      BY <3>1 DEF TypeOK
  <2>3. place # Len(Message) + 1
    BY <1>2, <2>1
  <2>4. line' = Append(line, Upcoming) /\ e.part = "text"
    BY <1>1, <1>4, <2>1, <2>2, <2>3 DEF Put, Upcoming
  <2>5. escaped = FALSE
    BY <1>2, <2>1 DEF TypeOK, SyncInv, Lined, AtByte
  <2>6. f.part = "start" /\ f.frame = Len(sent) + 1
    BY <1>1, <1>5, <2>1 DEF Upcoming
  <2>7. Linked(e, f)'
    BY <1>6, <2>4, <2>6 DEF Linked, Follows
  <2> QED
    BY <1>1, <1>3, <1>4, <1>5, <2>1, <2>4, <2>5, <2>7, PutSyncInv
<1> QED
  BY <1>7, <1>8, <1>9, <1>10 DEF SendMessage

LEMMA TextSync ==
  ASSUME TypeOK, TypeOK', SyncInv, NEW c \in Text, PutText(c)
  PROVE  SyncInv'
<1>1. /\ UNCHANGED sender /\ UNCHANGED <<parser, delivered>>
      /\ damaged' = damaged /\ split' = split \cup Open
      /\ Put(Len(sent), "text", c)
  BY DEF PutText
<1>2. Further
  BY <1>1 DEF Further, TypeOK, sender
<1>3. PICK t \in Sending : /\ t.frame = Len(sent) /\ t.part = "text"
                          /\ t.byte = c /\ line' = Append(line, t)
  <2> DEFINE t == [frame |-> Len(sent), part |-> "text", at |-> place,
                   byte |-> c]
  <2>1. t \in Sending
    BY FramingAssumption DEF TypeOK, Sending, Parts
  <2>2. line' = Append(line, t)
    BY <1>1 DEF Put
  <2> QED
    BY <2>1, <2>2
<1>4. /\ Lined'
      /\ line # <<>> => Front' = Front
      /\ line = <<>> => Front' = t
  BY <1>1, <1>2, <1>3, TextLined DEF SyncInv
<1>5. CASE line # <<>>
  <2>1. PICK h \in Sending : h = Front /\ Made(h)
    <3>1. 1 \in 1..Len(line) + 1
      BY DEF TypeOK
    <3> QED
      BY <3>1, StreamMade DEF SyncInv, Front
  <2>2. Synced(h)'
    BY <1>1, <1>2, <2>1, SyncedStays DEF SyncInv
  <2>3. Front' = h
    BY <1>4, <1>5, <2>1
  <2> QED
    BY <1>4, <2>2, <2>3 DEF SyncInv, Synced, InStep, Agreed, Expects, Original,
                            Reading, Read, Behind
<1>6. CASE line = <<>>
  <2>1. Front = Upcoming
    BY <1>6 DEF Front, Stream
  <2>2. Synced(t)'
    BY <1>1, <1>2, <1>3, <2>1, SyncedText DEF SyncInv
  <2> QED
    BY <1>4, <1>6, <2>2 DEF SyncInv, Synced, InStep, Agreed, Expects, Original,
                            Reading, Read, Behind
<1> QED
  BY <1>5, <1>6

LEMMA TakeSync ==
  ASSUME TypeOK, TypeOK', SyncInv, LoseByte \/ SkipByte \/ ParseMessage
  PROVE  SyncInv'
<1>1. /\ line # <<>> /\ line' = Tail(line) /\ UNCHANGED sender
      /\ split' = split
  BY DEF LoseByte, SkipByte, ParseMessage, ParseEscape, ParseStart, ParseEnd,
         ParseData, ParseCharacter, Parsing, faults
<1>2. Further
  BY <1>1 DEF Further, TypeOK, sender, LoseByte, SkipByte, ParseMessage,
              ParseEscape, ParseStart, ParseEnd, ParseData, ParseCharacter,
              Parsing, faults
<1>3. Lined'
  BY <1>1, <1>2, TakeLined DEF SyncInv
<1>4. PICK h, f \in Sending : /\ h = Head(line) /\ h = Front /\ f = Front'
                              /\ Made(h) /\ Made(f) /\ Linked(h, f)
  BY <1>1, <1>2, TakeLined DEF SyncInv
<1>5. Synced(h)
  BY <1>4 DEF SyncInv
<1>6. ASSUME LoseByte PROVE Synced(f)'
  <2>1. /\ UNCHANGED <<parser, delivered>>
        /\ damaged' = IF h.part = "text" THEN damaged
                      ELSE damaged \cup {h.frame}
    BY <1>4, <1>6 DEF LoseByte
  <2> QED
    BY <1>1, <1>4, <1>5, <2>1, SyncedLost
<1>7. ASSUME ParseMessage PROVE Synced(f)'
  BY <1>4, <1>5, <1>7, SyncedParsed
<1>8. ASSUME SkipByte PROVE Synced(f)'
  BY <1>4, <1>5, <1>8, SyncedSkipped DEF SkipByte
<1>9. Synced(f)'
  BY <1>6, <1>7, <1>8
<1> QED
  BY <1>3, <1>4, <1>9 DEF SyncInv, Synced, InStep, Agreed, Expects, Original,
                          Reading, Read, Behind

LEMMA StepSyncInv == TypeOK /\ TypeOK' /\ SyncInv /\ [Next]_vars => SyncInv'
<1> SUFFICES ASSUME TypeOK, TypeOK', SyncInv, [Next]_vars PROVE SyncInv'
  OBVIOUS
<1>1. CASE UNCHANGED vars
  <2>1. /\ UNCHANGED sent /\ UNCHANGED place /\ UNCHANGED escaped
        /\ UNCHANGED line /\ UNCHANGED msg_index /\ UNCHANGED is_escaped
        /\ UNCHANGED buffer /\ UNCHANGED delivered /\ UNCHANGED damaged
        /\ UNCHANGED split /\ UNCHANGED trailer
    BY <1>1 DEF vars, sender, parser, faults
  <2>2. Upcoming' = Upcoming
    BY <2>1 DEF Upcoming, Message
  <2>3. Lined'
    BY <2>1, <2>2 DEF SyncInv, Lined, AtByte, Message, Stream, Made, InMessage,
                      Original, Linked, Follows, Opens
  <2>4. Front' = Front
    BY <2>1, <2>2 DEF Front, Stream
  <2> QED
    BY <2>1, <2>3, <2>4 DEF SyncInv, Synced, InStep, Agreed, Expects, Original,
                            Reading, Read, Behind, Sound, Intact, Receivable,
                            Plain, TakenForNone, ToPC
<1> QED
  BY <1>1, BeginSync, SendSync, TextSync, TakeSync DEF Next

THEOREM InStepAlways == Spec => []SyncInv
<1>1. Init => TypeOK /\ SyncInv
  BY InitTypeOK, InitSyncInv
<1>2. TypeOK /\ SyncInv /\ [Next]_vars => (TypeOK /\ SyncInv)'
  BY StepTypeOK, StepSyncInv
<1> QED
  BY <1>1, <1>2, PTL DEF Spec

(* A frame that has passed is behind the next byte.                        *)
LEMMA PassedIsBehind ==
  ASSUME TypeOK, NEW n \in 1..Len(sent), Passed(n)
  PROVE  Behind(n, Front)
<1>1. Len(line) \in Nat /\ Len(sent) \in Nat /\ n \in Nat
  BY DEF TypeOK
<1>2. CASE Len(line) >= 1
  BY <1>1, <1>2 DEF Passed, Behind, Front, Stream
<1>3. CASE ~(Len(line) >= 1)
  <2>1. Front = Upcoming
    BY <1>1, <1>3 DEF Front, Stream
  <2>2. CASE place = 0
    <3>1. Upcoming.frame = Len(sent) + 1
      BY <2>2 DEF Upcoming
    <3> QED
      BY <1>1, <2>1, <3>1 DEF Behind
  <2>3. CASE place # 0
    <3>1. /\ Len(Message) \in Nat /\ place \in 1..Len(Message) + 2
          /\ Upcoming.frame = Len(sent)
      BY <2>3, OnMessage DEF Upcoming
    <3>2. CASE n = Len(sent)
      <4>1. place = Len(Message) + 2
        BY <2>3, <3>1, <3>2 DEF Passed, Open
      <4>2. Upcoming.part = "text"
        BY <2>3, <3>1, <4>1 DEF Upcoming
      <4> QED
        BY <2>1, <3>1, <3>2, <4>2 DEF Behind
    <3>3. CASE n # Len(sent)
      BY <1>1, <2>1, <3>1, <3>3 DEF Behind
    <3> QED
      BY <3>2, <3>3
  <2> QED
    BY <2>2, <2>3
<1> QED
  BY <1>2, <1>3

\* Whatever is lost or printed, however long the messages are: an intact frame
\* behind an intact frame is delivered, if its message has no byte that the
\* parser takes for a delimiter or, on the PC, for none.
THEOREM DamageIsLocal == Spec => []LossIsLocal
<1>1. TypeOK /\ SyncInv => LossIsLocal
  BY PassedIsBehind DEF SyncInv, Synced, Read, Sound, LossIsLocal
<1> QED
  BY <1>1, TypeCorrect, InStepAlways, PTL
-----------------------------------------------------------------------------
(* Order.  Whatever moves in buffer and line keeps its order; g tells where *)
(* a byte was before the step.                                             *)

Thinned(g) ==
  /\ \A i \in DataTraces' : g[i] \in DataTraces /\ Trail(i)' = Trail(g[i])
  /\ \A i, j \in DataTraces' : i < j => g[i] < g[j]

(* The sender goes on: what it was past it is still past.                  *)
GoesOn ==
  /\ Len(sent) <= Len(sent') /\ \A n \in 1..Len(sent) : sent'[n] = sent[n]
  /\ \A p \in 1..Len(sent') : p \in 1..Len(sent) \/ p > Len(sent)
  /\ \A e \in Sending : Out(e) => Out(e)'
  /\ \A n \in 1..Len(sent) : Past(n) => Past(n)'
  /\ Distinct'

LEMMA TrailTypes ==
  ASSUME TypeOK
  PROVE  /\ msg_index \in Nat /\ Len(line) \in Nat /\ Len(sent) \in Nat
         /\ Len(delivered) \in Nat
         /\ \A i \in Traces : Trail(i) \in Sending
<1>1. msg_index \in Nat /\ Len(line) \in Nat /\ Len(origin) = msg_index
  BY FramingAssumption DEF TypeOK
<1>2. ASSUME NEW i \in Traces PROVE Trail(i) \in Sending
  <2>1. CASE i <= msg_index
    BY <1>1, <2>1 DEF Traces, Trail, TypeOK
  <2>2. CASE ~(i <= msg_index)
    <3>1. i - msg_index \in 1..Len(line)
      BY <1>1, <2>2 DEF Traces
    <3> QED
      BY <2>2, <3>1 DEF Trail, TypeOK
  <2> QED
    BY <2>1, <2>2
<1> QED
  BY <1>1, <1>2 DEF TypeOK

LEMMA ThinnedRises ==
  ASSUME TypeOK, Rising, GoesOn, NEW g, Thinned(g)
  PROVE  /\ Rising'
         /\ \A n \in 1..Len(sent) : Used(n) => Used(n)'
<1>1. \A i \in DataTraces : Trail(i) \in Sending
  BY TrailTypes DEF DataTraces
<1>2. ASSUME NEW i \in DataTraces' PROVE Out(Trail(i))'
  <2>1. PICK e \in Sending : e = Trail(g[i]) /\ e = Trail(i)' /\ Out(e)
    BY <1>1 DEF Thinned, Rising
  <2>2. Out(e)'
    BY <2>1 DEF GoesOn
  <2> QED
    BY <2>1, <2>2 DEF Out, InMessage
<1>3. ASSUME NEW i \in DataTraces', NEW j \in DataTraces', i < j
      PROVE  Before(Trail(i), Trail(j))'
  <2>1. Before(Trail(g[i]), Trail(g[j]))
    BY <1>3 DEF Thinned, Rising
  <2> QED
    BY <2>1 DEF Thinned, Before
<1>4. ASSUME NEW n \in 1..Len(sent), Used(n) PROVE Used(n)'
  BY <1>4 DEF Used, Thinned, GoesOn, Past
<1> QED
  BY <1>2, <1>3, <1>4 DEF Rising

LEMMA ThinnedOrder ==
  ASSUME TypeOK, OrderInv, GoesOn, delivered' = delivered, NEW g, Thinned(g)
  PROVE  OrderInv'
<1>1. Rising' /\ \A n \in 1..Len(sent) : Used(n) => Used(n)'
  BY ThinnedRises DEF OrderInv
<1>2. ASSUME NEW i \in 1..Len(delivered)
      PROVE  \E n \in 1..Len(sent') :
               /\ delivered[i] = sent'[n] /\ Used(n)'
               /\ \A j \in 1..Len(delivered), p \in 1..Len(sent') :
                    i < j /\ delivered[j] = sent'[p] => n < p
  <2>1. PICK n \in 1..Len(sent) :
          /\ delivered[i] = sent[n] /\ Used(n)
          /\ \A j \in 1..Len(delivered), p \in 1..Len(sent) :
               i < j /\ delivered[j] = sent[p] => n < p
    BY DEF OrderInv, Ordered
  <2>2. Len(sent) \in Nat
    BY TrailTypes
  <2>3. n \in 1..Len(sent') /\ delivered[i] = sent'[n]
    BY <2>1, <2>2 DEF GoesOn
  <2>4. ASSUME NEW j \in 1..Len(delivered), NEW p \in 1..Len(sent'),
               i < j, delivered[j] = sent'[p]
        PROVE  n < p
    BY <2>1, <2>2, <2>4 DEF GoesOn
  <2> QED
    BY <1>1, <2>1, <2>3, <2>4
<1> QED
  BY <1>1, <1>2 DEF OrderInv, Ordered, GoesOn
(* Nothing changes for the sender.                                         *)
LEMMA SenderRests ==
  ASSUME TypeOK, Distinct, UNCHANGED sender
  PROVE  GoesOn
<1>1. UNCHANGED sent /\ UNCHANGED place /\ Len(sent) \in Nat
  BY DEF sender, TypeOK
<1> QED
  BY <1>1 DEF GoesOn, Out, InMessage, Past, Message, Distinct

LEMMA SenderSends ==
  ASSUME TypeOK, Distinct, SendMessage
  PROVE  GoesOn
<1>1. /\ place # 0 /\ UNCHANGED sent
      /\ place' \in {0, place, place + 1}
      /\ place' = 0 \/ place' >= place
  <2>1. place \in Nat
    BY FramingAssumption DEF TypeOK
  <2> QED
    BY <2>1 DEF SendMessage, SendEscape, SendByte, SendEnd, SendTrailer, AtByte
<1>2. /\ Len(sent) \in Nat /\ Len(Message) \in Nat /\ place \in Nat
      /\ Message' = Message
  BY <1>1, OnMessage, FramingAssumption DEF Message
<1>3. ASSUME NEW e \in Sending, Out(e) PROVE Out(e)'
  BY <1>1, <1>2, <1>3 DEF Out, InMessage, Sending
<1>4. ASSUME NEW n \in 1..Len(sent), Past(n) PROVE Past(n)'
  BY <1>1, <1>2, <1>4 DEF Past, crc
<1> QED
  BY <1>1, <1>2, <1>3, <1>4 DEF GoesOn, Distinct

LEMMA SenderBegins ==
  ASSUME TypeOK, Distinct, NEW m \in Messages, BeginFrame(m)
  PROVE  GoesOn
<1>1. sent' = Append(sent, m) /\ m \notin Range(sent)
  BY DEF BeginFrame
<1>2. /\ Len(sent) \in Nat /\ Len(sent') = Len(sent) + 1
      /\ \A n \in 1..Len(sent) : sent'[n] = sent[n]
      /\ sent'[Len(sent) + 1] = m
  BY <1>1 DEF TypeOK
<1>3. \A n \in 1..Len(sent) : sent[n] # m
  BY <1>1 DEF Range, TypeOK
<1>4. Distinct'
  <2> SUFFICES ASSUME NEW n \in 1..Len(sent'), NEW p \in 1..Len(sent'),
                      sent'[n] = sent'[p]
               PROVE  n = p
    BY DEF Distinct
  <2>1. /\ n \in 1..Len(sent) \/ n = Len(sent) + 1
        /\ p \in 1..Len(sent) \/ p = Len(sent) + 1
    BY <1>2
  <2> QED
    BY <1>2, <1>3, <2>1 DEF Distinct
<1>5. ASSUME NEW e \in Sending, Out(e) PROVE Out(e)'
  BY <1>2, <1>5 DEF Out, InMessage, Sending
<1>6. ASSUME NEW n \in 1..Len(sent) PROVE Past(n)'
  BY <1>2 DEF Past
<1> QED
  BY <1>2, <1>4, <1>5, <1>6 DEF GoesOn

(* A byte that is no data goes out.                                        *)
LEMMA OthersPut ==
  ASSUME TypeOK, OrderInv, GoesOn, UNCHANGED parser, delivered' = delivered,
         NEW x \in Sending, x.part # "data", line' = Append(line, x)
  PROVE  OrderInv'
<1>1. /\ msg_index \in Nat /\ Len(line) \in Nat /\ msg_index' = msg_index
      /\ origin' = origin /\ Len(line') = Len(line) + 1
      /\ \A i \in 1..Len(line) : line'[i] = line[i]
      /\ line'[Len(line) + 1] = x
  BY TrailTypes DEF TypeOK, parser
<1>2. ASSUME NEW i \in DataTraces'
      PROVE  i \in DataTraces /\ Trail(i)' = Trail(i)
  <2>1. i \in 1..msg_index + Len(line) + 1 /\ Trail(i)'.part = "data"
    BY <1>1 DEF DataTraces, Traces
  <2>2. i # msg_index + Len(line) + 1
    <3> SUFFICES ASSUME i = msg_index + Len(line) + 1 PROVE FALSE
      OBVIOUS
    <3>1. ~(i <= msg_index) /\ i - msg_index = Len(line) + 1
      BY <1>1
    <3>2. Trail(i)' = x
      BY <1>1, <3>1 DEF Trail
    <3> QED
      BY <2>1, <3>2
  <2>3. i \in Traces
    BY <1>1, <2>1, <2>2 DEF Traces
  <2>4. Trail(i)' = Trail(i)
    BY <1>1, <2>3 DEF Trail, Traces
  <2> QED
    BY <2>1, <2>3, <2>4 DEF DataTraces
<1>3. PICK g : g = [i \in DataTraces' |-> i]
  OBVIOUS
<1>4. Thinned(g)
  BY <1>2, <1>3 DEF Thinned
<1> QED
  BY <1>4, ThinnedOrder

LEMMA SameTrail ==
  ASSUME TypeOK, OrderInv, GoesOn, delivered' = delivered,
         DataTraces' = DataTraces,
         \A i \in DataTraces : Trail(i)' = Trail(i)
  PROVE  OrderInv'
<1>1. PICK g : g = [i \in DataTraces |-> i]
  OBVIOUS
<1>2. Thinned(g)
  BY <1>1 DEF Thinned
<1> QED
  BY <1>2, ThinnedOrder

(* A byte is taken off the line and not stored.                            *)
LEMMA DroppedOrder ==
  ASSUME TypeOK, OrderInv, GoesOn, delivered' = delivered,
         line # <<>>, line' = Tail(line), UNCHANGED <<msg_index, origin>>
  PROVE  OrderInv'
<1>1. /\ msg_index \in Nat /\ Len(line) \in Nat /\ msg_index' = msg_index
      /\ origin' = origin /\ Len(line) >= 1 /\ Len(line') = Len(line) - 1
      /\ \A i \in 1..Len(line) - 1 : line'[i] = line[i + 1]
  BY TrailTypes DEF TypeOK
<1>2. ASSUME NEW i \in DataTraces'
      PROVE  LET k == IF i <= msg_index THEN i ELSE i + 1
             IN  k \in DataTraces /\ Trail(i)' = Trail(k)
  <2>1. i \in 1..msg_index + (Len(line) - 1) /\ Trail(i)'.part = "data"
    BY <1>1 DEF DataTraces, Traces
  <2>2. CASE i <= msg_index
    <3>1. Trail(i)' = Trail(i) /\ i \in Traces
      BY <1>1, <2>1, <2>2 DEF Trail, Traces
    <3> QED
      BY <2>1, <2>2, <3>1 DEF DataTraces
  <2>3. CASE ~(i <= msg_index)
    <3>1. /\ i - msg_index \in 1..Len(line) - 1 /\ ~(i + 1 <= msg_index)
          /\ i + 1 - msg_index = i - msg_index + 1
      BY <1>1, <2>1, <2>3
    <3>2. Trail(i)' = Trail(i + 1) /\ i + 1 \in Traces
      BY <1>1, <2>1, <2>3, <3>1 DEF Trail, Traces
    <3> QED
      BY <2>1, <2>3, <3>2 DEF DataTraces
  <2> QED
    BY <2>2, <2>3
<1>3. PICK g : g = [i \in DataTraces' |-> IF i <= msg_index THEN i ELSE i + 1]
  OBVIOUS
<1>4. \A i \in DataTraces' : i \in Int
  BY <1>1 DEF DataTraces, Traces
<1>5. Thinned(g)
  BY <1>1, <1>2, <1>3, <1>4 DEF Thinned
<1> QED
  BY <1>5, ThinnedOrder

(* The buffer is emptied.                                                  *)
LEMMA EmptiedThins ==
  ASSUME TypeOK, line # <<>>, line' = Tail(line), Empty
  PROVE  \E g : /\ Thinned(g)
               /\ \A i \in DataTraces' : g[i] > msg_index
<1>1. /\ msg_index \in Nat /\ Len(line) \in Nat /\ msg_index' = 0
      /\ Len(line) >= 1 /\ Len(line') = Len(line) - 1
      /\ \A i \in 1..Len(line) - 1 : line'[i] = line[i + 1]
  BY TrailTypes DEF TypeOK, Empty
<1>2. ASSUME NEW i \in DataTraces'
      PROVE  /\ i \in Nat
             /\ i + msg_index + 1 \in DataTraces
             /\ Trail(i)' = Trail(i + msg_index + 1)
  <2>1. i \in 1..Len(line) - 1 /\ Trail(i)'.part = "data"
    BY <1>1 DEF DataTraces, Traces
  <2>2. /\ ~(i + msg_index + 1 <= msg_index) /\ ~(i <= 0) /\ i - 0 = i
        /\ i + msg_index + 1 - msg_index = i + 1
        /\ i + msg_index + 1 \in 1..msg_index + Len(line)
    BY <1>1, <2>1
  <2>3. Trail(i)' = line[i + 1]
    BY <1>1, <2>1, <2>2 DEF Trail
  <2>4. Trail(i + msg_index + 1) = line[i + 1]
    <3>1. PICK k : k = i + msg_index + 1
      OBVIOUS
    <3>2. ~(k <= msg_index) /\ k - msg_index = i + 1
      BY <1>1, <2>1, <3>1
    <3>3. Trail(k) = line[i + 1]
      BY <3>2 DEF Trail
    <3> QED
      BY <3>1, <3>3
  <2> QED
    BY <2>1, <2>2, <2>3, <2>4 DEF DataTraces, Traces
<1>3. PICK g : g = [i \in DataTraces' |-> i + msg_index + 1]
  OBVIOUS
<1>4. Thinned(g)
  BY <1>1, <1>2, <1>3 DEF Thinned
<1>5. \A i \in DataTraces' : g[i] > msg_index
  BY <1>1, <1>2, <1>3
<1> QED
  BY <1>4, <1>5

(* The byte taken off the line is stored: it keeps its place.              *)
LEMMA StoredOrder ==
  ASSUME TypeOK, OrderInv, GoesOn, delivered' = delivered,
         line # <<>>, line' = Tail(line), Store
  PROVE  OrderInv'
<1>1. /\ msg_index \in Nat /\ Len(line) \in Nat /\ msg_index' = msg_index + 1
      /\ Len(line) >= 1 /\ Len(line') = Len(line) - 1
      /\ \A i \in 1..Len(line) - 1 : line'[i] = line[i + 1]
      /\ \A i \in 1..msg_index : origin'[i] = origin[i]
      /\ origin'[msg_index + 1] = line[1]
  BY TrailTypes DEF TypeOK, Store
<1>2. Traces' = Traces
  BY <1>1 DEF Traces
<1>3. ASSUME NEW i \in Traces PROVE Trail(i)' = Trail(i)
  <2>1. CASE i <= msg_index
    BY <1>1, <2>1 DEF Trail, Traces
  <2>2. CASE i = msg_index + 1
    <3>1. i - msg_index = 1 /\ ~(i <= msg_index) /\ i <= msg_index + 1
      BY <1>1, <2>2
    <3> QED
      BY <1>1, <2>2, <3>1 DEF Trail
  <2>3. CASE i > msg_index + 1
    <3>1. /\ i - (msg_index + 1) \in 1..Len(line) - 1
          /\ i - (msg_index + 1) + 1 = i - msg_index
          /\ ~(i <= msg_index) /\ ~(i <= msg_index + 1)
      BY <1>1, <2>3 DEF Traces
    <3> QED
      BY <1>1, <3>1 DEF Trail
  <2> QED
    BY <1>1, <2>1, <2>2, <2>3 DEF Traces
<1>4. DataTraces' = DataTraces
  BY <1>2, <1>3 DEF DataTraces
<1>5. \A i \in DataTraces : Trail(i)' = Trail(i)
  BY <1>3 DEF DataTraces
<1> QED
  BY <1>4, <1>5, SameTrail
(* A byte of a message goes out: it is behind all others.                  *)
LEMMA DataOrder ==
  ASSUME TypeOK, OrderInv, SendByte
  PROVE  OrderInv'
<1>1. PICK x \in Sending :
        /\ x.frame = Len(sent) /\ x.part = "data" /\ x.at = place
        /\ line' = Append(line, x)
  <2>1. Len(sent) \in Nat /\ place \in Nat /\ AtByte /\ place # 0
    BY FramingAssumption DEF TypeOK, SendByte, AtByte
  <2>2. Message[place] \in Byte /\ Flip(Message[place]) \in Byte
    BY <2>1, OnMessage, Flips DEF AtByte
  <2>3. ASSUME NEW b \in Byte, Put(Len(sent), "data", b)
        PROVE  \E x \in Sending :
                 /\ x.frame = Len(sent) /\ x.part = "data" /\ x.at = place
                 /\ line' = Append(line, x)
    <3> DEFINE x == [frame |-> Len(sent), part |-> "data", at |-> place,
                     byte |-> b]
    <3>1. x \in Sending
      BY <2>1 DEF Sending, Parts
    <3>2. line' = Append(line, x)
      BY <2>3 DEF Put
    <3> QED
      BY <3>1, <3>2
  <2> QED
    BY <2>2, <2>3 DEF SendByte
<1>2. /\ msg_index \in Nat /\ Len(line) \in Nat /\ msg_index' = msg_index
      /\ origin' = origin /\ Len(line') = Len(line) + 1
      /\ \A i \in 1..Len(line) : line'[i] = line[i]
      /\ line'[Len(line) + 1] = x
  BY <1>1, TrailTypes DEF TypeOK, SendByte, parser
<1>3. /\ UNCHANGED sent /\ UNCHANGED delivered
      /\ place' = place + 1 /\ place # 0
      /\ Len(sent) \in Nat \ {0} /\ place \in 1..Len(Message)
      /\ Len(Message) \in Nat /\ Message = sent[Len(sent)]
  BY OnMessage, FramingAssumption DEF SendByte, AtByte, Message
<1>4. GoesOn
  BY SenderSends DEF SendMessage, OrderInv
<1>5. ASSUME NEW i \in DataTraces'
      PROVE  \/ i \in DataTraces /\ Trail(i)' = Trail(i)
             \/ i = msg_index + Len(line) + 1 /\ Trail(i)' = x
  <2>1. i \in 1..msg_index + Len(line) + 1 /\ Trail(i)'.part = "data"
    BY <1>2 DEF DataTraces, Traces
  <2>2. CASE i = msg_index + Len(line) + 1
    <3>1. ~(i <= msg_index) /\ i - msg_index = Len(line) + 1
      BY <1>2, <2>2
    <3> QED
      BY <1>2, <2>2, <3>1 DEF Trail
  <2>3. CASE i # msg_index + Len(line) + 1
    <3>1. i \in Traces
      BY <1>2, <2>1, <2>3 DEF Traces
    <3>2. Trail(i)' = Trail(i)
      BY <1>2, <3>1 DEF Trail, Traces
    <3> QED
      BY <2>1, <3>1, <3>2 DEF DataTraces
  <2> QED
    BY <2>2, <2>3
<1>6. \A i \in DataTraces :
        i <= msg_index + Len(line) /\ i \in Nat /\ Trail(i) \in Sending
  BY <1>2, TrailTypes DEF DataTraces, Traces
<1>7. Out(x)'
  BY <1>1, <1>3 DEF Out, InMessage
<1>8. ASSUME NEW i \in DataTraces' PROVE Out(Trail(i))'
  <2>1. CASE i \in DataTraces /\ Trail(i)' = Trail(i)
    <3>1. PICK e \in Sending : e = Trail(i) /\ e = Trail(i)' /\ Out(e)
      BY <1>6, <2>1 DEF OrderInv, Rising
    <3>2. Out(e)'
      BY <1>4, <3>1 DEF GoesOn
    <3> QED
      BY <3>1, <3>2 DEF Out, InMessage
  <2>2. CASE Trail(i)' = x
    BY <1>7, <2>2 DEF Out, InMessage
  <2> QED
    BY <1>5, <2>1, <2>2
<1>9. ASSUME NEW i \in DataTraces PROVE Before(Trail(i), x)
  <2>1. Out(Trail(i)) /\ Trail(i) \in Sending
    BY <1>6 DEF OrderInv, Rising
  <2> QED
    BY <1>1, <1>3, <2>1 DEF Out, InMessage, Before, Sending
<1>10. ASSUME NEW i \in DataTraces', NEW j \in DataTraces', i < j
       PROVE  Before(Trail(i), Trail(j))'
  <2>1. i \in DataTraces /\ Trail(i)' = Trail(i)
    BY <1>2, <1>5, <1>6, <1>10
  <2>2. CASE j \in DataTraces /\ Trail(j)' = Trail(j)
    <3>1. Before(Trail(i), Trail(j))
      BY <1>10, <2>1, <2>2 DEF OrderInv, Rising
    <3> QED
      BY <2>1, <2>2, <3>1 DEF Before
  <2>3. CASE Trail(j)' = x
    <3>1. Before(Trail(i), x)
      BY <1>9, <2>1
    <3> QED
      BY <2>1, <2>3, <3>1 DEF Before
  <2> QED
    BY <1>5, <2>2, <2>3
<1>11. ASSUME NEW n \in 1..Len(sent), Used(n) PROVE Used(n)'
  <2>1. n < Len(sent) \/ (n = Len(sent) /\ place > crc + 1)
    BY <1>3, <1>11 DEF Used, Past
  <2>2. ASSUME NEW i \in DataTraces'
        PROVE  \/ n < Trail(i)'.frame
               \/ n = Trail(i)'.frame /\ Trail(i)'.at > crc + 1
    BY <1>1, <1>5, <1>11, <2>1 DEF Used
  <2>3. Past(n)'
    BY <1>3, <2>1 DEF Past, crc
  <2> QED
    BY <2>2, <2>3 DEF Used, crc
<1>12. Ordered'
  BY <1>3, <1>11 DEF OrderInv, Ordered
<1> QED
  BY <1>3, <1>8, <1>10, <1>12 DEF OrderInv, Rising, Distinct

(* A message is delivered.                                                 *)
LEMMA DeliveryOrder ==
  ASSUME TypeOK, OrderInv, AcceptsWithOwnCRC, ParseEnd, Valid(Contents)
  PROVE  OrderInv'
<1>1. /\ line # <<>> /\ line' = Tail(line) /\ Empty /\ UNCHANGED sender
      /\ delivered' = Append(delivered, Contents)
  BY DEF ParseEnd, Validate, ParseCharacter, Parsing
<1>2. GoesOn /\ UNCHANGED sent /\ UNCHANGED place
  BY <1>1, SenderRests DEF OrderInv, sender
<1>3. PICK g : Thinned(g) /\ \A i \in DataTraces' : g[i] > msg_index
  BY <1>1, EmptiedThins
<1>4. Rising' /\ \A n \in 1..Len(sent) : Used(n) => Used(n)'
  BY <1>2, <1>3, ThinnedRises DEF OrderInv
<1>5. PICK n \in 1..Len(sent) :
        /\ Contents = sent[n]
        /\ origin[crc + 1].frame = n /\ origin[crc + 1].part = "data"
        /\ origin[crc + 1].at = crc + 1
  BY DEF AcceptsWithOwnCRC
<1>6. /\ Contents \in Messages /\ Len(sent) \in Nat
      /\ msg_index = Len(sent[n]) /\ msg_index \in Nat /\ msg_index >= 2
  <2>1. sent[n] \in Messages /\ Len(sent) \in Nat
    BY DEF TypeOK
  <2>2. Len(sent[n]) \in Nat /\ Len(sent[n]) >= 2 /\ sent[n] \in Seq(Byte)
    BY <2>1, MessageTypes, FramingAssumption
  <2>3. msg_index \in Nat
    BY TrailTypes
  <2>4. DOMAIN Contents = 1..msg_index
    BY DEF Contents
  <2>5. DOMAIN sent[n] = 1..Len(sent[n])
    BY <2>2
  <2>6. msg_index = Len(sent[n])
    <3>1. 1..msg_index = 1..Len(sent[n])
      BY <1>5, <2>4, <2>5
    <3>2. \A a, b \in Nat : 1..a = 1..b => a = b
      <4> SUFFICES ASSUME NEW a \in Nat, NEW b \in Nat, 1..a = 1..b PROVE a = b
        OBVIOUS
      <4>1. \A k \in Nat : k \in 1..a <=> k \in 1..b
        OBVIOUS
      <4>2. a >= 1 => a <= b
        BY <4>1
      <4>3. b >= 1 => b <= a
        BY <4>1
      <4> QED
        BY <4>2, <4>3
    <3> QED
      BY <2>2, <2>3, <3>1, <3>2
  <2> QED
    BY <1>5, <2>1, <2>2, <2>3, <2>6
<1>7. /\ crc + 1 \in DataTraces /\ crc + 1 <= msg_index
      /\ Trail(crc + 1).frame = n /\ Trail(crc + 1).at = crc + 1
  <2>1. Len(line) \in Nat
    BY TrailTypes
  <2> QED
    BY <1>5, <1>6, <2>1 DEF DataTraces, Traces, Trail, crc
<1>8. Used(n)'
  <2>1. ASSUME NEW k \in DataTraces'
        PROVE  \/ n < Trail(k)'.frame
               \/ n = Trail(k)'.frame /\ Trail(k)'.at > crc + 1
    <3>1. g[k] \in DataTraces /\ g[k] > msg_index /\ Trail(k)' = Trail(g[k])
      BY <1>3 DEF Thinned
    <3>2. g[k] \in Nat /\ Trail(g[k]) \in Sending
      BY <3>1, TrailTypes DEF DataTraces, Traces
    <3>3. Before(Trail(crc + 1), Trail(g[k]))
      BY <1>6, <1>7, <3>1, <3>2 DEF OrderInv, Rising, crc
    <3> QED
      BY <1>7, <3>1, <3>2, <3>3 DEF Before, Sending, crc
  <2>2. Past(n)
    <3>1. Out(Trail(crc + 1))
      BY <1>7 DEF OrderInv, Rising
    <3>2. place \in Nat
      BY FramingAssumption DEF TypeOK
    <3> QED
      BY <1>7, <3>1, <3>2 DEF Out, Past, crc
  <2>3. Past(n)'
    BY <1>2, <2>2 DEF Past, crc
  <2> QED
    BY <2>1, <2>3 DEF Used, crc
<1>9. /\ Len(delivered) \in Nat /\ Len(delivered') = Len(delivered) + 1
      /\ \A i \in 1..Len(delivered) : delivered'[i] = delivered[i]
      /\ delivered'[Len(delivered) + 1] = sent[n]
  BY <1>1, <1>5, <1>6 DEF TypeOK
<1>10. ASSUME NEW i \in 1..Len(delivered')
       PROVE  \E k \in 1..Len(sent) :
                /\ delivered'[i] = sent[k] /\ Used(k)'
                /\ \A j \in 1..Len(delivered'), p \in 1..Len(sent) :
                     i < j /\ delivered'[j] = sent[p] => k < p
  <2>1. CASE i = Len(delivered) + 1
    <3>1. \A j \in 1..Len(delivered') : ~(i < j)
      BY <1>9, <2>1
    <3> QED
      BY <1>8, <1>9, <2>1, <3>1
  <2>2. CASE i # Len(delivered) + 1
    <3>1. i \in 1..Len(delivered)
      BY <1>9, <2>2
    <3>2. PICK k \in 1..Len(sent) :
            /\ delivered[i] = sent[k] /\ Used(k)
            /\ \A j \in 1..Len(delivered), p \in 1..Len(sent) :
                 i < j /\ delivered[j] = sent[p] => k < p
      BY <3>1 DEF OrderInv, Ordered
    <3>3. k < n
      BY <1>7, <3>2 DEF Used, crc
    <3>4. ASSUME NEW j \in 1..Len(delivered'), NEW p \in 1..Len(sent),
                 i < j, delivered'[j] = sent[p]
          PROVE  k < p
      <4>1. CASE j = Len(delivered) + 1
        <5>1. sent[p] = sent[n]
          BY <1>9, <3>4, <4>1
        <5>2. p = n
          BY <5>1 DEF OrderInv, Distinct
        <5> QED
          BY <3>3, <5>2
      <4>2. CASE j # Len(delivered) + 1
        <5>1. j \in 1..Len(delivered)
          BY <1>9, <4>2
        <5> QED
          BY <1>9, <3>2, <3>4, <5>1
      <4> QED
        BY <4>1, <4>2
    <3> QED
      BY <1>4, <1>9, <3>1, <3>2, <3>4
  <2> QED
    BY <2>1, <2>2
<1> QED
  BY <1>2, <1>4, <1>10 DEF OrderInv, Ordered, Distinct
-----------------------------------------------------------------------------
(* What is stored: a byte as it was sent or flipped, or a stray one.       *)

LEMMA StoredBacks ==
  ASSUME TypeOK, Lined, line # <<>>, Current \notin {START_BYTE, END_BYTE},
         is_escaped \/ Head(line).byte # ESCAPE
  PROVE  Backs(Head(line), Current)
<1> DEFINE e == Head(line)
<1>1. e \in Sending /\ Made(e)
  <2>1. Len(line) \in Nat \ {0} /\ e = line[1] /\ e \in Sending
    BY DEF TypeOK
  <2>2. Stream(1) = e
    BY <2>1 DEF Stream
  <2> QED
    BY <2>1, <2>2 DEF Lined
<1>2. Current = e.byte \/ Current = Flip(e.byte)
  BY DEF Current
<1> HIDE DEF e
<1>3. /\ e.byte \in Text \cup {newline} => Current \in Stray
      /\ e.byte \in {START_BYTE, END_BYTE, ESCAPE} =>
           Flip(e.byte) \in Stray
  BY <1>2 DEF Stray
<1>4. CASE e.part \in {"start", "end"}
  BY <1>1, <1>2, <1>3, <1>4 DEF Made, Backs, e
<1>5. CASE e.part = "escape"
  <2>1. e.byte = ESCAPE /\ Current = Flip(e.byte)
    BY <1>1, <1>5 DEF Made, Current, e
  <2> QED
    BY <1>3, <1>5, <2>1 DEF Backs, e
<1>6. CASE e.part = "text"
  BY <1>1, <1>3, <1>6 DEF Made, Backs, e
<1>7. CASE e.part = "data"
  <2>1. Special(Original(e)) => Flip(Flip(Original(e))) = Original(e)
    BY Flips DEF Special
  <2>2. e.byte = IF Special(Original(e)) THEN Flip(Original(e))
                                         ELSE Original(e)
    BY <1>1, <1>7 DEF Made
  <2>3. Current \in Readings(Original(e))
    BY <1>2, <2>1, <2>2 DEF Readings
  <2> QED
    BY <1>7, <2>3 DEF Backs, e
<1> QED
  BY <1>1, <1>4, <1>5, <1>6, <1>7 DEF Sending, Parts

(* What was sent stays what it was.                                        *)
LEMMA BacksStays ==
  ASSUME TypeOK, Rising, GoesOn, NEW i \in 1..msg_index, NEW b,
         Backs(origin[i], b)
  PROVE  \A e : e = origin[i] => Backs(e, b)'
<1> SUFFICES ASSUME NEW e, e = origin[i] PROVE Backs(e, b)'
  OBVIOUS
<1>1. e.part = "data" => sent'[e.frame] = sent[e.frame]
  <2> SUFFICES ASSUME e.part = "data" PROVE sent'[e.frame] = sent[e.frame]
    OBVIOUS
  <2>1. i \in DataTraces /\ Trail(i) = e
    BY TrailTypes DEF DataTraces, Traces, Trail
  <2> QED
    BY <2>1 DEF Rising, Out, InMessage, GoesOn
<1> QED
  BY <1>1 DEF Backs, Original

LEMMA HeldFilled ==
  ASSUME TypeOK, Rising, Filled, GoesOn,
         UNCHANGED msg_index, UNCHANGED buffer, UNCHANGED origin
  PROVE  Filled'
<1> SUFFICES ASSUME NEW i \in 1..msg_index
             PROVE  Backs(origin[i], buffer[i - 1])'
  BY DEF Filled
<1>1. Backs(origin[i], buffer[i - 1])
  BY DEF Filled
<1> QED
  BY <1>1, BacksStays DEF Backs, Original

LEMMA StoredFilled ==
  ASSUME TypeOK, Rising, Filled, GoesOn, UNCHANGED sent, Lined,
         line # <<>>, Current \notin {START_BYTE, END_BYTE},
         is_escaped \/ Head(line).byte # ESCAPE,
         msg_index < MaxLen, Store
  PROVE  Filled'
<1>1. /\ msg_index \in Nat /\ msg_index' = msg_index + 1 /\ MaxLen \in Nat
      /\ \A i \in 1..msg_index : origin'[i] = origin[i]
      /\ origin'[msg_index + 1] = Head(line)
  BY TrailTypes, FramingAssumption DEF TypeOK, Store
<1>2. /\ buffer'[msg_index] = Current
      /\ \A i \in 1..msg_index : buffer'[i - 1] = buffer[i - 1]
  BY <1>1 DEF TypeOK, Store
<1> SUFFICES ASSUME NEW i \in 1..msg_index + 1
             PROVE  Backs(origin[i], buffer[i - 1])'
  BY <1>1 DEF Filled
<1>3. CASE i \in 1..msg_index
  <2>1. Backs(origin[i], buffer[i - 1])
    BY <1>3 DEF Filled
  <2> QED
    BY <1>1, <1>2, <1>3, <2>1 DEF Backs, Original
<1>4. CASE i = msg_index + 1
  <2>1. Backs(Head(line), Current) /\ i - 1 = msg_index
    BY <1>1, <1>4, StoredBacks
  <2>2. origin'[i] = Head(line) /\ buffer'[i - 1] = Current
    BY <1>1, <1>2, <1>4, <2>1
  <2> QED
    BY <2>1, <2>2 DEF Backs, Original
<1> QED
  BY <1>1, <1>3, <1>4

LEMMA StepFilled ==
  ASSUME TypeOK, Lined, OrderInv, Filled, [Next]_vars
  PROVE  Filled'
<1>1. ASSUME Empty PROVE Filled'
  <2>1. \A i \in 1..msg_index' : FALSE
    BY <1>1 DEF Empty
  <2> QED
    BY <2>1 DEF Filled
<1>2. ASSUME GoesOn, UNCHANGED msg_index, UNCHANGED buffer, UNCHANGED origin
      PROVE  Filled'
  BY <1>2, HeldFilled DEF OrderInv
<1>3. ASSUME NEW m \in Messages, BeginFrame(m) PROVE Filled'
  <2>1. GoesOn
    BY <1>3, SenderBegins DEF OrderInv
  <2> QED
    BY <1>2, <1>3, <2>1 DEF BeginFrame, parser
<1>4. ASSUME SendMessage PROVE Filled'
  <2>1. GoesOn
    BY <1>4, SenderSends DEF OrderInv
  <2> QED
    BY <1>2, <1>4, <2>1
    DEF SendMessage, SendEscape, SendByte, SendEnd, SendTrailer, parser
<1>5. ASSUME \/ \E c \in Text : PutText(c)
             \/ LoseByte \/ SkipByte \/ ParseEscape \/ UNCHANGED vars
      PROVE  Filled'
  <2>1. /\ UNCHANGED sender /\ UNCHANGED msg_index
        /\ UNCHANGED buffer /\ UNCHANGED origin
    BY <1>5 DEF PutText, LoseByte, SkipByte, ParseEscape, Parsing, vars,
                parser
  <2>2. GoesOn
    BY <2>1, SenderRests DEF OrderInv
  <2> QED
    BY <1>2, <2>1, <2>2
<1>6. ASSUME ParseStart \/ ParseEnd PROVE Filled'
  BY <1>1, <1>6 DEF ParseStart, ParseEnd
<1>7. ASSUME ParseData PROVE Filled'
  <2>1. /\ UNCHANGED sender /\ line # <<>>
        /\ Current \notin {START_BYTE, END_BYTE}
        /\ is_escaped \/ Head(line).byte # ESCAPE
    BY <1>7 DEF ParseData, ParseCharacter, Parsing
  <2>2. GoesOn /\ UNCHANGED sent
    BY <2>1, SenderRests DEF OrderInv, sender
  <2>3. Empty \/ (msg_index < MaxLen /\ Store)
    <3>1. msg_index \in Nat /\ MaxLen \in Nat
      BY TrailTypes, FramingAssumption
    <3> QED
      BY <1>7, <3>1 DEF ParseData
  <2> QED
    BY <1>1, <2>1, <2>2, <2>3, StoredFilled DEF OrderInv
<1> QED
  BY <1>3, <1>4, <1>5, <1>6, <1>7 DEF Next, ParseMessage

(* The CRC of an accepted message is stored from its own frame: no other   *)
(* byte, flipped or not, is taken for it.                                  *)
LEMMA FilledMeans ==
  ASSUME TypeOK, Rising, Filled
  PROVE  AcceptsWithOwnCRC
<1> SUFFICES ASSUME Valid(Contents)
             PROVE  \E n \in 1..Len(sent) :
                      /\ Contents = sent[n]
                      /\ origin[crc + 1].frame = n
                      /\ origin[crc + 1].part = "data"
                      /\ origin[crc + 1].at = crc + 1
  BY DEF AcceptsWithOwnCRC
<1> DEFINE m == Contents
           e == origin[crc + 1]
<1>1. m \in Messages /\ m \in Seq(Byte) /\ Len(m) \in Nat /\ Len(m) >= 2
  <2>1. m \in Messages
    BY DEF Valid, Range, TypeOK
  <2> QED
    BY <2>1, MessageTypes, FramingAssumption
<1>2. Len(m) = msg_index /\ msg_index \in Nat
  BY <1>1, TrailTypes DEF Contents
<1>3. \A i \in 1..Len(m) : m[i] = buffer[i - 1] /\ Backs(origin[i], m[i])
  BY <1>1, <1>2 DEF Contents, Filled
<1> HIDE DEF m
<1>4. Plain(m)
  BY <1>3 DEF Plain, Backs
<1>5. crc + 1 \in 1..Len(m) /\ Backs(e, m[crc + 1])
  BY <1>1, <1>3 DEF crc
<1>6. e.part = "data" /\ m[crc + 1] \in Readings(Original(e))
  BY <1>1, <1>4, <1>5, CRCAssumption DEF Backs
<1>7. InMessage(e)
  <2>1. crc + 1 \in DataTraces /\ Trail(crc + 1) = e
    BY <1>2, <1>5, <1>6, TrailTypes DEF DataTraces, Traces, Trail
  <2> QED
    BY <2>1 DEF Rising, Out
<1>8. sent[e.frame] = m /\ e.at = crc + 1
  <2>1. sent[e.frame] \in Messages
    BY <1>7 DEF InMessage, TypeOK
  <2>2. e.at \in 1..Len(sent[e.frame])
    BY <1>7 DEF InMessage
  <2> QED
    BY <1>1, <1>4, <1>6, <2>1, <2>2, CRCAssumption DEF Original
<1> QED
  BY <1>6, <1>7, <1>8 DEF InMessage, m

LEMMA InitFilled == Init => Filled
<1> SUFFICES ASSUME Init PROVE Filled
  OBVIOUS
<1>1. \A i \in 1..msg_index : FALSE
  BY DEF Init
<1> QED
  BY <1>1 DEF Filled

-----------------------------------------------------------------------------
(* Order is kept by every step.                                            *)

LEMMA InitOrderInv == Init => OrderInv
<1> SUFFICES ASSUME Init PROVE OrderInv
  OBVIOUS
<1>1. /\ Len(sent) = 0 /\ Len(line) = 0 /\ Len(delivered) = 0
      /\ msg_index = 0
  BY DEF Init
<1>2. DataTraces = {}
  BY <1>1 DEF DataTraces, Traces
<1> QED
  BY <1>1, <1>2 DEF OrderInv, Rising, Distinct, Ordered

LEMMA SenderOrder ==
  ASSUME TypeOK, OrderInv,
         \/ \E m \in Messages : BeginFrame(m)
         \/ SendMessage
         \/ \E c \in Text : PutText(c)
  PROVE  OrderInv'
<1>1. /\ Len(sent) \in Nat /\ place \in Nat
      /\ {START_BYTE, END_BYTE, ESCAPE, newline} \subseteq Byte
      /\ Text \subseteq Byte
  BY FramingAssumption
     DEF TypeOK, START_BYTE, END_BYTE, ESCAPE, newline, Byte
<1>2. ASSUME NEW k \in Nat, NEW part \in Parts, NEW byte \in Byte,
             Put(k, part, byte), part # "data"
      PROVE  \E x \in Sending : x.part # "data" /\ line' = Append(line, x)
  <2> DEFINE x == [frame |-> k, part |-> part, at |-> place, byte |-> byte]
  <2>1. x \in Sending
    BY <1>1 DEF Sending
  <2>2. line' = Append(line, x)
    BY <1>2 DEF Put
  <2> QED
    BY <1>2, <2>1, <2>2
<1>3. ASSUME NEW m \in Messages, BeginFrame(m) PROVE OrderInv'
  <2>1. UNCHANGED parser /\ delivered' = delivered
    BY <1>3 DEF BeginFrame
  <2>2. \E x \in Sending : x.part # "data" /\ line' = Append(line, x)
    BY <1>1, <1>2, <1>3 DEF BeginFrame, Parts
  <2>3. GoesOn
    BY <1>3, SenderBegins DEF OrderInv
  <2> QED
    BY <2>1, <2>2, <2>3, OthersPut
<1>4. ASSUME SendEscape \/ SendEnd \/ SendTrailer PROVE OrderInv'
  <2>1. UNCHANGED parser /\ delivered' = delivered
    BY <1>4 DEF SendEscape, SendEnd, SendTrailer
  <2>2. SendTrailer => trailer[1] = newline
    <3>1. SendTrailer => trailer # <<>>
      BY OnMessage DEF SendTrailer, TypeOK
    <3> QED
      BY <3>1 DEF TypeOK
  <2>3. \E x \in Sending : x.part # "data" /\ line' = Append(line, x)
    BY <1>1, <1>2, <1>4, <2>2 DEF SendEscape, SendEnd, SendTrailer, Parts
  <2>4. GoesOn
    BY <1>4, SenderSends DEF OrderInv, SendMessage
  <2> QED
    BY <2>1, <2>3, <2>4, OthersPut
<1>5. ASSUME NEW c \in Text, PutText(c) PROVE OrderInv'
  <2>1. UNCHANGED sender /\ UNCHANGED parser /\ delivered' = delivered
    BY <1>5 DEF PutText
  <2>2. \E x \in Sending : x.part # "data" /\ line' = Append(line, x)
    BY <1>1, <1>2, <1>5 DEF PutText, Parts
  <2>3. GoesOn
    BY <2>1, SenderRests DEF OrderInv
  <2> QED
    BY <2>1, <2>2, <2>3, OthersPut
<1> QED
  BY <1>3, <1>4, <1>5, DataOrder DEF SendMessage

LEMMA TakerOrder ==
  ASSUME TypeOK, OrderInv, AcceptsWithOwnCRC,
         LoseByte \/ SkipByte \/ ParseMessage
  PROVE  OrderInv'
<1>1. line # <<>> /\ line' = Tail(line) /\ UNCHANGED sender
  BY DEF LoseByte, SkipByte, ParseMessage, ParseEscape, ParseStart, ParseEnd,
         ParseData, ParseCharacter, Parsing
<1>2. GoesOn
  BY <1>1, SenderRests DEF OrderInv
<1>3. CASE LoseByte \/ SkipByte \/ ParseEscape
  <2>1. UNCHANGED <<msg_index, origin>> /\ delivered' = delivered
    BY <1>3 DEF LoseByte, SkipByte, ParseEscape, parser
  <2> QED
    BY <1>1, <1>2, <2>1, DroppedOrder
<1>4. ASSUME Empty, delivered' = delivered PROVE OrderInv'
  BY <1>1, <1>2, <1>4, EmptiedThins, ThinnedOrder
<1>5. CASE ParseEnd /\ Valid(Contents)
  BY <1>5, DeliveryOrder
<1>6. CASE ParseEnd /\ ~Valid(Contents)
  BY <1>4, <1>6 DEF ParseEnd, Validate
<1>7. CASE ParseStart
  BY <1>4, <1>7 DEF ParseStart
<1>8. CASE ParseData
  <2>1. Empty \/ Store
    BY <1>8 DEF ParseData
  <2>2. delivered' = delivered
    BY <1>8 DEF ParseData
  <2> QED
    BY <1>1, <1>2, <1>4, <2>1, <2>2, StoredOrder
<1> QED
  BY <1>3, <1>5, <1>6, <1>7, <1>8 DEF ParseMessage

LEMMA StepOrderInv ==
  TypeOK /\ OrderInv /\ AcceptsWithOwnCRC /\ [Next]_vars => OrderInv'
<1> SUFFICES ASSUME TypeOK, OrderInv, AcceptsWithOwnCRC, [Next]_vars
             PROVE  OrderInv'
  OBVIOUS
<1>1. CASE UNCHANGED vars
  <2>1. /\ UNCHANGED sender /\ UNCHANGED line /\ UNCHANGED msg_index
        /\ UNCHANGED origin /\ UNCHANGED delivered
    BY <1>1 DEF vars, parser
  <2>2. GoesOn
    BY <2>1, SenderRests DEF OrderInv
  <2>3. /\ DataTraces' = DataTraces
        /\ \A i \in DataTraces : Trail(i)' = Trail(i)
    BY <2>1 DEF DataTraces, Traces, Trail
  <2> QED
    BY <2>1, <2>2, <2>3, SameTrail
<1> QED
  BY <1>1, SenderOrder, TakerOrder DEF Next

(* Together they are inductive.                                            *)
TraceInv == OrderInv /\ Filled

\* Every byte in the buffer is a byte of a message, flipped or not, or a stray
\* one, those of messages are in the order they were sent in, and no CRC of a
\* message that was delivered is left in the buffer or under way.
THEOREM TracesBytes == Spec => []TraceInv
<1>1. Init => TraceInv
  BY InitOrderInv, InitFilled DEF TraceInv
<1>2. TypeOK /\ SyncInv /\ TraceInv /\ [Next]_vars => TraceInv'
  <2> SUFFICES ASSUME TypeOK, SyncInv, TraceInv, [Next]_vars PROVE TraceInv'
    OBVIOUS
  <2>1. AcceptsWithOwnCRC
    BY FilledMeans DEF TraceInv, OrderInv
  <2>2. OrderInv'
    BY <2>1, StepOrderInv DEF TraceInv
  <2>3. Filled'
    BY StepFilled DEF TraceInv, SyncInv
  <2> QED
    BY <2>2, <2>3 DEF TraceInv
<1> QED
  BY <1>1, <1>2, TypeCorrect, InStepAlways, PTL DEF Spec

(* Position in what was sent, as far as messages are concerned that were.  *)
LEMMA NumberIs ==
  TypeOK /\ OrderInv => \A n \in 1..Len(sent) : Number(sent[n]) = n
<1> SUFFICES ASSUME TypeOK, OrderInv, NEW n \in 1..Len(sent)
             PROVE  Number(sent[n]) = n
  OBVIOUS
<1>1. \A p \in 1..Len(sent) : sent[p] = sent[n] <=> p = n
  BY DEF OrderInv, Distinct
<1> QED
  BY <1>1 DEF Number

LEMMA OrderedMeans ==
  TypeOK /\ OrderInv => DeliveredInOrder
<1> SUFFICES ASSUME TypeOK, OrderInv,
                    NEW i \in 1..Len(delivered), NEW j \in 1..Len(delivered),
                    i < j
             PROVE  Number(delivered[i]) < Number(delivered[j])
  BY DEF DeliveredInOrder
<1>1. PICK n \in 1..Len(sent) :
        /\ delivered[i] = sent[n]
        /\ \A k \in 1..Len(delivered), p \in 1..Len(sent) :
             i < k /\ delivered[k] = sent[p] => n < p
  BY DEF OrderInv, Ordered
<1>2. PICK p \in 1..Len(sent) : delivered[j] = sent[p]
  BY DEF OrderInv, Ordered
<1>3. n < p
  BY <1>1, <1>2
<1> QED
  BY <1>1, <1>2, <1>3, NumberIs

\* No message is delivered twice and none overtakes another, whatever is lost
\* or printed.
THEOREM DeliversInOrder == Spec => []DeliveredInOrder
<1>1. TypeOK /\ TraceInv => DeliveredInOrder
  BY OrderedMeans DEF TraceInv
<1> QED
  BY <1>1, TypeCorrect, TracesBytes, PTL
=============================================================================
