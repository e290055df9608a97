------------------------------- MODULE Framing -------------------------------
(***************************************************************************)
(* The byte protocol of message/message.c, one direction of it: a sender   *)
(* that frames messages byte by byte (send_message of the drone or of the  *)
(* PC), a serial line that may lose bytes, and the receiver's loop with    *)
(* parse_message.  On the drone's side printf shares the line: the main    *)
(* thread prints between frames, and the error branch of the serial and of *)
(* the bus interrupt prints into the frame that is being sent.  The PC     *)
(* takes one byte value for "nothing received".                            *)
(*                                                                         *)
(* A message is the byte string build_message returns, type first and then *)
(* the CRC, here one byte; the messages of a behaviour are distinct, so    *)
(* that a delivery can be traced to its frame.  The CRC is ideal: it       *)
(* accepts exactly the byte strings that were sent, and no other byte is   *)
(* taken for it (CRCAssumption).                                           *)
(***************************************************************************)
EXTENDS Integers, Sequences, Functions

CONSTANTS
  MaxLen,     \* sizeof(message_t)
  Messages,   \* the byte strings that may be sent
  Text,       \* characters printf may put on the line
  MaxLine,    \* bound on the bytes under way
  MaxLost,    \* bound on the bytes the line loses
  MaxPrinted  \* bound on the characters printed

Byte == 0..255
START_BYTE == 18
END_BYTE == 19
ESCAPE == 125

ASSUME FramingAssumption ==
  /\ MaxLen \in Nat \ {0, 1}
  /\ Messages \subseteq Seq(Byte)
  /\ \A m \in Messages : Len(m) \in 2..MaxLen
  /\ MaxLine \in Nat /\ MaxLost \in Nat /\ MaxPrinted \in Nat
  /\ Text \subseteq Byte \ {START_BYTE, END_BYTE, ESCAPE}

newline == 10
crc == 1     \* place of the CRC in the buffer
NO_BYTE == 255  \* -1, where it is kept in a char

\* XOR with 0x20.
Flip(b) == IF (b \div 32) % 2 = 0 THEN b + 32 ELSE b - 32

\* No byte of the message needs escaping because it is START or END.  Such a
\* message is never delivered: parse_message looks at what a byte means after
\* it has undone the escape.
Plain(m) == \A i \in 1..Len(m) : m[i] \notin {START_BYTE, END_BYTE}

\* What a byte may be stored as: an ESCAPE too many or too few flips it.
Readings(b) == {b, Flip(b)}

\* Bytes in the buffer that come from no message.
Stray ==
  LET printable == Text \cup {newline}
  IN  printable \cup
        {Flip(c) : c \in printable \cup {START_BYTE, END_BYTE, ESCAPE}}

\* The CRC of a message is the mark of this message.  Messages may share all
\* their other bytes, as those of one type share the first.
ASSUME CRCAssumption ==
  \A m \in Messages : Plain(m) =>
    /\ m[crc + 1] \notin Stray
    /\ \A p \in Messages : \A i \in 1..Len(p) :
         m[crc + 1] \in Readings(p[i]) => p = m /\ i = crc + 1

VARIABLES
  trailer,     \* what the sender adds after END_BYTE: a newline or nothing
  sent,        \* messages of which sending has begun, in order
  place,       \* where send_message is: 0 when it is not running, then the
               \* index into the message, beyond its end for what follows it
  escaped,     \* the ESCAPE of the byte at this place is out
  line,        \* bytes under way, each with its frame and its part in it
  msg_index, is_escaped, buffer,  \* the receiver's parser
  origin,      \* which bytes of the line the buffer was filled with
  delivered,   \* messages parse_message returned, in order
  lost,        \* number of bytes lost
  damaged,     \* frames that lost a byte
  printed,     \* number of characters printed
  split        \* frames with a character printed into them

sender == <<trailer, sent, place, escaped>>
parser == <<msg_index, is_escaped, buffer, origin>>
faults == <<lost, damaged, printed, split>>
vars == <<sender, line, parser, delivered, faults>>

Init ==
  /\ trailer \in {<<>>, <<newline>>}
  /\ sent = <<>> /\ place = 0 /\ escaped = FALSE
  /\ line = <<>>
  /\ msg_index = 0 /\ is_escaped = FALSE
  /\ buffer = [i \in 0..MaxLen - 1 |-> 0] /\ origin = <<>>
  /\ delivered = <<>>
  /\ lost = 0 /\ damaged = {} /\ printed = 0 /\ split = {}

-----------------------------------------------------------------------------
(* The sender.                                                             *)

Special(b) == b \in {START_BYTE, END_BYTE, ESCAPE}

\* One byte of the n-th frame goes out, or a character behind it.
Put(n, part, byte) ==
  /\ Len(line) < MaxLine
  /\ line' = Append(line, [frame |-> n, part |-> part,
                           at |-> place, byte |-> byte])

Message == sent[Len(sent)]
AtByte == place # 0 /\ place <= Len(Message)

BeginFrame(m) ==
  /\ place = 0
  /\ m \notin Range(sent)
  /\ sent' = Append(sent, m)
  /\ Put(Len(sent) + 1, "start", START_BYTE)
  /\ place' = 1
  /\ UNCHANGED <<trailer, escaped, parser, delivered, faults>>

SendEscape ==
  /\ AtByte
  /\ Special(Message[place]) /\ ~escaped
  /\ Put(Len(sent), "escape", ESCAPE)
  /\ escaped' = TRUE
  /\ UNCHANGED <<trailer, sent, place, parser, delivered, faults>>

SendByte ==
  /\ AtByte
  /\ IF Special(Message[place])
     THEN escaped /\ Put(Len(sent), "data", Flip(Message[place]))
     ELSE Put(Len(sent), "data", Message[place])
  /\ escaped' = FALSE
  /\ place' = place + 1
  /\ UNCHANGED <<trailer, sent, parser, delivered, faults>>

SendEnd ==
  /\ place # 0 /\ place = Len(Message) + 1
  /\ Put(Len(sent), "end", END_BYTE)
  /\ place' = IF trailer = <<>> THEN 0 ELSE place + 1
  /\ UNCHANGED <<trailer, sent, escaped, parser, delivered, faults>>

SendTrailer ==
  /\ place # 0 /\ place = Len(Message) + 2
  /\ Put(Len(sent), "text", trailer[1])
  /\ place' = 0
  /\ UNCHANGED <<trailer, sent, escaped, parser, delivered, faults>>

SendMessage == SendEscape \/ SendByte \/ SendEnd \/ SendTrailer

\* The frame that has its START_BYTE out but not its END_BYTE.
Open == IF place # 0 /\ place <= Len(Message) + 1 THEN {Len(sent)} ELSE {}

\* A character of printf, wherever send_message is.  Only the drone, the side
\* with a trailer, prints on the line.
PutText(c) ==
  /\ trailer # <<>>
  /\ printed < MaxPrinted /\ printed' = printed + 1
  /\ Put(Len(sent), "text", c)
  /\ split' = split \cup Open
  /\ UNCHANGED <<sender, parser, delivered, lost, damaged>>

\* The line drops a byte.  (A receive queue that is overrun does worse, see
\* Uart, and is left out.)
LoseByte ==
  /\ line # <<>> /\ line' = Tail(line)
  /\ lost < MaxLost /\ lost' = lost + 1
  /\ damaged' = IF Head(line).part = "text" THEN damaged
                ELSE damaged \cup {Head(line).frame}
  /\ UNCHANGED <<sender, parser, delivered, printed, split>>

-----------------------------------------------------------------------------
(* parse_message, one action per way through it.                           *)

\* The drone adds a trailer, so the receiver is the PC: it keeps the result of
\* rs232_getchar_nb in a char before it compares it with -1.
ToPC == trailer # <<>>
TakenForNone(byte) == ToPC /\ byte = NO_BYTE

SkipByte ==
  /\ line # <<>> /\ line' = Tail(line)
  /\ TakenForNone(Head(line).byte)
  /\ UNCHANGED <<sender, parser, delivered, faults>>

Parsing ==
  /\ line # <<>> /\ line' = Tail(line)
  /\ ~TakenForNone(Head(line).byte)
  /\ UNCHANGED <<sender, faults>>

ParseEscape ==
  /\ Parsing
  /\ ~is_escaped
  /\ Head(line).byte = ESCAPE
  /\ is_escaped' = TRUE
  /\ UNCHANGED <<msg_index, buffer, origin, delivered>>

\* The escape is undone before anything looks at what the byte means.
Current == IF is_escaped THEN Flip(Head(line).byte) ELSE Head(line).byte

ParseCharacter ==
  /\ Parsing
  /\ is_escaped \/ Head(line).byte # ESCAPE
  /\ is_escaped' = FALSE

\* Mutant: a frame is appended to what the buffer holds.
ParseStartAppends ==
  /\ ParseCharacter
  /\ Current = START_BYTE
  /\ UNCHANGED <<msg_index, origin, buffer, delivered>>

Empty == msg_index' = 0 /\ origin' = <<>>

ParseStart ==
  /\ ParseCharacter
  /\ Current = START_BYTE
  /\ Empty
  /\ UNCHANGED <<buffer, delivered>>

Contents == [i \in 1..msg_index |-> buffer[i - 1]]

Valid(bytes) == bytes \in Range(sent)

\* validate_message clears the CRC in the buffer, whatever it finds.
Validate ==
  /\ delivered' = IF Valid(Contents) THEN Append(delivered, Contents)
                                     ELSE delivered
  /\ buffer' = [buffer EXCEPT ![crc] = 0]

\* Mutant: the buffer still counts as filled after the end byte.
ParseEndKeepsIndex ==
  /\ ParseCharacter
  /\ Current = END_BYTE
  /\ Validate
  /\ UNCHANGED <<msg_index, origin>>

ParseEnd ==
  /\ ParseCharacter
  /\ Current = END_BYTE
  /\ Empty
  /\ Validate

Store ==
  /\ buffer' = [buffer EXCEPT ![msg_index] = Current]
  /\ msg_index' = msg_index + 1
  /\ origin' = Append(origin, Head(line))

\* Mutant: one byte too many fits.
ParseDataOffByOne ==
  /\ ParseCharacter
  /\ Current \notin {START_BYTE, END_BYTE}
  /\ IF msg_index > MaxLen THEN Empty /\ UNCHANGED buffer ELSE Store
  /\ UNCHANGED delivered

ParseData ==
  /\ ParseCharacter
  /\ Current \notin {START_BYTE, END_BYTE}
  /\ IF msg_index >= MaxLen THEN Empty /\ UNCHANGED buffer ELSE Store
  /\ UNCHANGED delivered

ParseMessage == ParseEscape \/ ParseStart \/ ParseEnd \/ ParseData

Next ==
  \/ \E m \in Messages : BeginFrame(m)
  \/ SendMessage
  \/ \E c \in Text : PutText(c)
  \/ LoseByte
  \/ SkipByte
  \/ ParseMessage

Spec == Init /\ [][Next]_vars

-----------------------------------------------------------------------------
(* Properties.                                                             *)

Parts == {"start", "escape", "data", "end", "text"}
Sending == [frame : Nat, part : Parts, at : Nat, byte : Byte]

\* Every variable keeps its type; in particular msg_index never passes the
\* size of the buffer, so that no byte is stored outside it.
TypeOK ==
  /\ trailer \in {<<>>, <<newline>>}
  /\ sent \in Seq(Messages)
  /\ place \in 0..MaxLen + 2 /\ escaped \in BOOLEAN
  /\ place # 0 =>
       /\ sent # <<>>
       /\ place <= Len(Message) + IF trailer = <<>> THEN 1 ELSE 2
  /\ line \in Seq(Sending)
  /\ msg_index \in 0..MaxLen /\ is_escaped \in BOOLEAN
  /\ buffer \in [0..MaxLen - 1 -> Byte]
  /\ origin \in Seq(Sending) /\ Len(origin) = msg_index
  /\ delivered \in Seq(Messages)
  /\ lost \in Nat /\ damaged \subseteq Nat
  /\ printed \in Nat /\ split \subseteq Nat

\* Position of a message in what was sent.
Number(m) == CHOOSE n \in 1..Len(sent) : sent[n] = m

\* Whatever bytes get lost or put in, no message is delivered twice and none
\* overtakes another: an acted-upon mode request is never acted upon again.
DeliveredInOrder ==
  \A i, j \in 1..Len(delivered) :
    i < j => Number(delivered[i]) < Number(delivered[j])

\* All bytes of the first n frames have reached the receiver, or were lost;
\* only text behind them may still be under way.
Passed(n) ==
  /\ n <= Len(sent) /\ n \notin Open
  /\ \A i \in 1..Len(line) :
       line[i].frame > n \/ (line[i].frame = n /\ line[i].part = "text")

Intact(n) == n \notin damaged \cup split

Receivable(m) == Plain(m) /\ \A i \in 1..Len(m) : ~TakenForNone(m[i])

\* A lost byte or a character printed into a frame costs that frame and at
\* most the next one (an ESCAPE whose partner was lost swallows the next
\* START): an intact frame behind an intact frame is delivered, whatever state
\* the damage before left the parser in and whatever is printed between them.
\* Messages the receiver cannot get are excepted; they harm no other.
LossIsLocal ==
  \A n \in 1..Len(sent) :
    Passed(n) /\ Intact(n) /\ Intact(n - 1) /\ Receivable(sent[n])
      => sent[n] \in Range(delivered)
=============================================================================
