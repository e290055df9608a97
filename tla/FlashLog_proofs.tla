--------------------------- MODULE FlashLog_proofs ---------------------------
(***************************************************************************)
(* The log is readable whenever the logger rests (FlashLog), for a chip of *)
(* any size and records of any length.  The inductive invariant says what  *)
(* has been programmed after each command of a record, of an erase and of  *)
(* the boot sequence.                                                      *)
(***************************************************************************)
EXTENDS FlashLog, Modular

-----------------------------------------------------------------------------
(* The command sequences and what is left of them.                         *)

Names == {"WREN", "WRDI", "EWSR", "WRSR", "ERASE", "AAI", "ADVANCE"}

\* What remains of a record with n bytes to program.
Rest(n) == [k \in 1..n |-> "AAI"] \o <<"WRDI", "ADVANCE">>

Boot7 == <<"EWSR", "WRSR", "WREN", "ERASE", "WREN", "WREN", "ERASE">>
Boot6 == <<"WRSR", "WREN", "ERASE", "WREN", "WREN", "ERASE">>
Boot5 == <<"WREN", "ERASE", "WREN", "WREN", "ERASE">>
Boot4 == <<"ERASE", "WREN", "WREN", "ERASE">>
Boot3 == <<"WREN", "WREN", "ERASE">>
Boot2 == <<"WREN", "ERASE">>
Boot1 == <<"ERASE">>

LEMMA BootCommands == Boot = Boot7 /\ chip_erase = Boot2
BY DEF Boot, chip_erase, Boot7, Boot2

LEMMA BootTails ==
  /\ Head(Boot7) = "EWSR" /\ Tail(Boot7) = Boot6
  /\ Head(Boot6) = "WRSR" /\ Tail(Boot6) = Boot5
  /\ Head(Boot5) = "WREN" /\ Tail(Boot5) = Boot4
  /\ Head(Boot4) = "ERASE" /\ Tail(Boot4) = Boot3
  /\ Head(Boot3) = "WREN" /\ Tail(Boot3) = Boot2
  /\ Head(Boot2) = "WREN" /\ Tail(Boot2) = Boot1
  /\ Head(Boot1) = "ERASE" /\ Tail(Boot1) = <<>>
BY DEF Boot7, Boot6, Boot5, Boot4, Boot3, Boot2, Boot1

LEMMA SameElements ==
  ASSUME NEW S, NEW s \in Seq(S), NEW t \in Seq(S), Len(s) = Len(t),
         \A i \in 1..Len(t) : s[i] = t[i]
  PROVE  s = t
OBVIOUS

LEMMA Concatenation ==
  ASSUME NEW S, NEW s \in Seq(S), NEW t \in Seq(S)
  PROVE  /\ s \o t \in Seq(S) /\ Len(s \o t) = Len(s) + Len(t)
         /\ \A i \in 1..Len(s) : (s \o t)[i] = s[i]
         /\ \A i \in 1..Len(t) : (s \o t)[Len(s) + i] = t[i]
OBVIOUS

LEMMA RestShape ==
  ASSUME NEW n \in Nat
  PROVE  /\ Rest(n) \in Seq(Names) /\ Len(Rest(n)) = n + 2
         /\ \A i \in 1..n : Rest(n)[i] = "AAI"
         /\ Rest(n)[n + 1] = "WRDI" /\ Rest(n)[n + 2] = "ADVANCE"
<1> DEFINE bytes == [k \in 1..n |-> "AAI"]
           close == <<"WRDI", "ADVANCE">>
<1>1. bytes \in Seq(Names) /\ Len(bytes) = n
  BY DEF Names
<1>2. close \in Seq(Names) /\ Len(close) = 2 /\ close[1] = "WRDI"
      /\ close[2] = "ADVANCE"
  BY DEF Names
<1>3. \A i \in 1..n : bytes[i] = "AAI"
  OBVIOUS
<1> HIDE DEF bytes, close
<1>4. /\ bytes \o close \in Seq(Names) /\ Len(bytes \o close) = n + 2
      /\ \A i \in 1..n : (bytes \o close)[i] = bytes[i]
      /\ (bytes \o close)[n + 1] = close[1]
      /\ (bytes \o close)[n + 2] = close[2]
  <2>1. 1 \in 1..Len(close) /\ 2 \in 1..Len(close)
    BY <1>2
  <2> QED
    BY <1>1, <1>2, <2>1, Concatenation
<1>5. Rest(n) = bytes \o close
  BY DEF Rest, bytes, close
<1> QED
  BY <1>2, <1>3, <1>4, <1>5

LEMMA RestTails ==
  /\ \A n \in Nat \ {0} : /\ Rest(n) # <<>> /\ Head(Rest(n)) = "AAI"
                          /\ Tail(Rest(n)) = Rest(n - 1)
  /\ Rest(0) # <<>> /\ Head(Rest(0)) = "WRDI" /\ Tail(Rest(0)) = <<"ADVANCE">>
<1>1. ASSUME NEW n \in Nat \ {0}
      PROVE  Rest(n) # <<>> /\ Head(Rest(n)) = "AAI" /\ Tail(Rest(n)) = Rest(n - 1)
  <2>1. n - 1 \in Nat
    OBVIOUS
  <2> DEFINE s == Rest(n)
             t == Rest(n - 1)
  <2>2. /\ s \in Seq(Names) /\ Len(s) = n + 2
        /\ \A i \in 1..n : s[i] = "AAI"
        /\ s[n + 1] = "WRDI" /\ s[n + 2] = "ADVANCE"
    BY RestShape
  <2>3. /\ t \in Seq(Names) /\ Len(t) = n + 1
        /\ \A i \in 1..n - 1 : t[i] = "AAI"
        /\ t[n] = "WRDI" /\ t[n + 1] = "ADVANCE"
    BY <2>1, RestShape
  <2> HIDE DEF s, t
  <2>4. Tail(s) \in Seq(Names) /\ Len(Tail(s)) = n + 1
        /\ \A i \in 1..n + 1 : Tail(s)[i] = s[i + 1]
    BY <2>2
  <2>5. ASSUME NEW i \in 1..n + 1 PROVE Tail(s)[i] = t[i]
    <3>1. CASE i < n
      BY <2>2, <2>3, <2>4, <3>1
    <3>2. CASE i = n
      BY <2>2, <2>3, <2>4, <3>2
    <3>3. CASE i = n + 1
      BY <2>2, <2>3, <2>4, <3>3
    <3>4. i < n \/ i = n \/ i = n + 1
      OBVIOUS
    <3> QED
      BY <3>1, <3>2, <3>3, <3>4
  <2>6. Tail(s) = t
    BY <2>3, <2>4, <2>5, SameElements
  <2>7. s # <<>> /\ Head(s) = "AAI"
    BY <2>2
  <2> QED
    BY <2>6, <2>7 DEF s, t
<1>2. Rest(0) # <<>> /\ Head(Rest(0)) = "WRDI" /\ Tail(Rest(0)) = <<"ADVANCE">>
  <2>1. Rest(0) \in Seq(Names) /\ Len(Rest(0)) = 2
        /\ Rest(0)[1] = "WRDI" /\ Rest(0)[2] = "ADVANCE"
    <3>1. 0 \in Nat /\ 0 + 2 = 2 /\ 0 + 1 = 1
      OBVIOUS
    <3> QED
      BY <3>1, RestShape
  <2> DEFINE s == Rest(0)
  <2> HIDE DEF s
  <2>2. s \in Seq(Names) /\ Len(s) = 2 /\ s[1] = "WRDI" /\ s[2] = "ADVANCE"
    BY <2>1 DEF s
  <2>3. s # <<>> /\ Head(s) = "WRDI"
    BY <2>2
  <2>4. Tail(s) \in Seq(Names) /\ Len(Tail(s)) = 1 /\ Tail(s)[1] = "ADVANCE"
    <3>1. /\ Tail(s) \in Seq(Names) /\ Len(Tail(s)) = 1
          /\ \A i \in 1..1 : Tail(s)[i] = s[i + 1]
      BY <2>2
    <3>2. 1 \in 1..1 /\ 1 + 1 = 2
      OBVIOUS
    <3> QED
      BY <2>2, <3>1, <3>2
  <2>5. <<"ADVANCE">> \in Seq(Names)
    BY DEF Names
  <2>6. Len(<<"ADVANCE">>) = 1 /\ \A i \in 1..1 : <<"ADVANCE">>[i] = "ADVANCE"
    OBVIOUS
  <2> DEFINE one == <<"ADVANCE">>
  <2>7. /\ one \in Seq(Names) /\ Len(one) = 1
        /\ \A i \in 1..1 : one[i] = "ADVANCE" /\ Tail(s)[i] = "ADVANCE"
    BY <2>4, <2>5, <2>6
  <2> HIDE DEF one
  <2>8. Tail(s) = one
    BY <2>4, <2>7, SameElements
  <2> QED
    BY <2>3, <2>8 DEF s, one
<1> QED
  BY <1>1, <1>2

\* Where a record may start.
Starts == {p \in Addresses : p % Stride = 0 /\ p + Stride <= LastAddress + 1}

\* A record that starts there is written to its end and closed.
LEMMA RecordCommands ==
  ASSUME free_pointer \in Starts
  PROVE  /\ Record \o <<"ADVANCE">> # <<>>
         /\ Head(Record \o <<"ADVANCE">>) = "WREN"
         /\ Tail(Record \o <<"ADVANCE">>) = Rest(RecordSize)
<1>1. {k \in 1..RecordSize - 1 : free_pointer + k >= LastAddress} = {}
  BY FlashAssumption DEF Starts, Addresses
<1> DEFINE bytes == [k \in 1..RecordSize |-> "AAI"]
           full == (<<"WREN">> \o bytes \o <<"WRDI">>) \o <<"ADVANCE">>
<1>2. Record \o <<"ADVANCE">> = full
  BY <1>1 DEF Record
<1>3. RecordSize \in Nat
  BY FlashAssumption
<1>4. bytes \in Seq(Names) /\ Len(bytes) = RecordSize
      /\ \A i \in 1..RecordSize : bytes[i] = "AAI"
  BY <1>3 DEF Names
<1> HIDE DEF bytes
<1>5. /\ full \in Seq(Names) /\ Len(full) = RecordSize + 3
      /\ full[1] = "WREN"
      /\ \A i \in 1..RecordSize : full[i + 1] = "AAI"
      /\ full[RecordSize + 2] = "WRDI" /\ full[RecordSize + 3] = "ADVANCE"
  <2> DEFINE one == <<"WREN">>
             two == <<"WRDI">>
             three == <<"ADVANCE">>
             head == one \o bytes
             body == head \o two
  <2>1. /\ one \in Seq(Names) /\ Len(one) = 1 /\ one[1] = "WREN"
        /\ two \in Seq(Names) /\ Len(two) = 1 /\ two[1] = "WRDI"
        /\ three \in Seq(Names) /\ Len(three) = 1 /\ three[1] = "ADVANCE"
    BY DEF Names
  <2> HIDE DEF one, two, three
  <2>2. /\ head \in Seq(Names) /\ Len(head) = RecordSize + 1
        /\ head[1] = "WREN"
        /\ \A i \in 1..RecordSize : head[1 + i] = "AAI"
    BY <1>3, <1>4, <2>1, Concatenation
  <2> HIDE DEF head
  <2>3. /\ body \in Seq(Names) /\ Len(body) = RecordSize + 2
        /\ \A i \in 1..RecordSize + 1 : body[i] = head[i]
        /\ body[RecordSize + 2] = "WRDI"
    BY <1>3, <2>1, <2>2, Concatenation
  <2> HIDE DEF body
  <2>4. /\ body \o three \in Seq(Names) /\ Len(body \o three) = RecordSize + 3
        /\ \A i \in 1..RecordSize + 2 : (body \o three)[i] = body[i]
        /\ (body \o three)[RecordSize + 3] = "ADVANCE"
    BY <1>3, <2>1, <2>3, Concatenation
  <2>5. full = body \o three
    BY DEF full, body, head, one, two, three
  <2>6. \A i \in 1..RecordSize : full[i + 1] = "AAI"
    <3>1. ASSUME NEW i \in 1..RecordSize PROVE full[i + 1] = "AAI"
      <4>1. i + 1 \in 1..RecordSize + 1 /\ i + 1 \in 1..RecordSize + 2
            /\ i + 1 = 1 + i
        BY <1>3
      <4> QED
        BY <2>2, <2>3, <2>4, <2>5, <4>1
    <3> QED
      BY <3>1
  <2>7. full[1] = "WREN" /\ full[RecordSize + 2] = "WRDI"
    <3>1. 1 \in 1..RecordSize + 1 /\ 1 \in 1..RecordSize + 2
          /\ RecordSize + 2 \in 1..RecordSize + 2
      BY <1>3
    <3> QED
      BY <2>2, <2>3, <2>4, <2>5, <3>1
  <2> QED
    BY <2>4, <2>5, <2>6, <2>7
<1> HIDE DEF full
<1>6. Tail(full) \in Seq(Names) /\ Len(Tail(full)) = RecordSize + 2
      /\ \A i \in 1..RecordSize + 2 : Tail(full)[i] = full[i + 1]
  BY <1>3, <1>5
<1> DEFINE t == Rest(RecordSize)
<1>7. /\ t \in Seq(Names) /\ Len(t) = RecordSize + 2
      /\ \A i \in 1..RecordSize : t[i] = "AAI"
      /\ t[RecordSize + 1] = "WRDI" /\ t[RecordSize + 2] = "ADVANCE"
  BY <1>3, RestShape
<1> HIDE DEF t
<1>8. ASSUME NEW i \in 1..RecordSize + 2 PROVE Tail(full)[i] = t[i]
  <2>1. CASE i <= RecordSize
    BY <1>3, <1>5, <1>6, <1>7, <2>1
  <2>2. CASE i = RecordSize + 1
    BY <1>3, <1>5, <1>6, <1>7, <2>2
  <2>3. CASE i = RecordSize + 2
    BY <1>3, <1>5, <1>6, <1>7, <2>3
  <2>4. i <= RecordSize \/ i = RecordSize + 1 \/ i = RecordSize + 2
    BY <1>3
  <2> QED
    BY <2>1, <2>2, <2>3, <2>4
<1>9. Tail(full) = t
  BY <1>6, <1>7, <1>8, SameElements
<1>10. full # <<>> /\ Head(full) = "WREN"
  BY <1>3, <1>5
<1> QED
  BY <1>2, <1>9, <1>10 DEF t

-----------------------------------------------------------------------------
(* What the chip does with each command in the state it is sent in.        *)

LEMMA WriteEnable ==
  ASSUME SendCommand, Head(commands) = "WREN", aai = -1
  PROVE  /\ wel' = TRUE /\ UNCHANGED <<cells, wsr, protected, aai, free_pointer>>
         /\ commands' = Tail(commands)
BY DEF SendCommand, Accepts, Obey

LEMMA WriteDisable ==
  ASSUME SendCommand, Head(commands) = "WRDI"
  PROVE  /\ wel' = FALSE /\ aai' = -1
         /\ UNCHANGED <<cells, wsr, protected, free_pointer>>
         /\ commands' = Tail(commands)
BY DEF SendCommand, Accepts, Obey

LEMMA EnableStatus ==
  ASSUME SendCommand, Head(commands) = "EWSR", aai = -1
  PROVE  /\ wsr' = TRUE
         /\ UNCHANGED <<cells, wel, protected, aai, free_pointer>>
         /\ commands' = Tail(commands)
BY DEF SendCommand, Accepts, Obey

LEMMA WriteStatus ==
  ASSUME SendCommand, Head(commands) = "WRSR", aai = -1, wsr
  PROVE  /\ protected' = FALSE /\ UNCHANGED <<cells, wel, aai, free_pointer>>
         /\ commands' = Tail(commands)
BY DEF SendCommand, Accepts, Obey

LEMMA ChipErase ==
  ASSUME SendCommand, Head(commands) = "ERASE", aai = -1, wel, ~protected
  PROVE  /\ cells' = Erased /\ wel' = FALSE
         /\ UNCHANGED <<wsr, protected, aai, free_pointer>>
         /\ commands' = Tail(commands)
BY DEF SendCommand, Accepts, Obey

LEMMA ProgramByte ==
  ASSUME SendCommand, Head(commands) = "AAI", wel, ~protected,
         Programmed # LastAddress
  PROVE  /\ cells' = [cells EXCEPT ![Programmed] =
                         IF @ = "erased" THEN "data" ELSE "mixed"]
         /\ aai' = Programmed + 1 /\ wel' = TRUE
         /\ UNCHANGED <<wsr, protected, free_pointer>>
         /\ commands' = Tail(commands)
BY DEF SendCommand, Accepts, Obey

-----------------------------------------------------------------------------
(* The inductive invariant.                                                *)

\* The records below free_pointer and n bytes of the next one.
Written(n) ==
  [a \in Addresses |->
     IF a \in Recorded \/ (free_pointer <= a /\ a < free_pointer + n)
     THEN "data" ELSE "erased"]

Closed == wel = FALSE /\ aai = -1
Unlocked == protected = FALSE

Resting == commands = <<>> /\ Closed /\ Unlocked /\ cells = Written(0)

Opening ==
  /\ commands # <<>> /\ Head(commands) = "WREN"
  /\ Tail(commands) = Rest(RecordSize)
  /\ Closed /\ Unlocked /\ cells = Written(0)

Programming ==
  \E n \in 0..RecordSize :
    /\ commands = Rest(RecordSize - n)
    /\ wel = TRUE /\ aai = IF n = 0 THEN -1 ELSE free_pointer + n
    /\ Unlocked /\ cells = Written(n)

Finished ==
  /\ commands = <<"ADVANCE">> /\ Closed /\ Unlocked
  /\ cells = Written(RecordSize)

Booting ==
  /\ free_pointer = 0 /\ aai = -1
  /\ \/ commands = Boot7
     \/ commands = Boot6 /\ wsr = TRUE
     \/ commands \in {Boot5, Boot3, Boot2} /\ Unlocked
     \/ commands \in {Boot4, Boot1} /\ Unlocked /\ wel = TRUE

FlashInv ==
  /\ free_pointer \in Starts
  /\ Resting \/ Opening \/ Programming \/ Finished \/ Booting

-----------------------------------------------------------------------------
LEMMA ZeroStarts == 0 \in Starts
<1>1. 0 = Stride * 0 + 0 /\ 0 \in 0..Stride - 1 /\ Stride \in Nat \ {0}
  BY FlashAssumption
<1>2. 0 % Stride = 0
  BY <1>1
<1> QED
  BY <1>2, FlashAssumption DEF Starts, Addresses

\* An erased chip holds what the pointer 0 promises.
LEMMA NothingWritten ==
  ASSUME free_pointer = 0
  PROVE  Written(0) = Erased
BY FlashAssumption DEF Written, Erased, Recorded, Addresses

LEMMA InitFlashInv == FlashInit => FlashInv
BY ZeroStarts, BootCommands DEF FlashInit, FlashInv, Booting

LEMMA BootStep ==
  ASSUME FlashInv, Booting, SendCommand
  PROVE  FlashInv'
<1>1. aai = -1 /\ free_pointer = 0
  BY DEF Booting
<1>2. Head(commands) # "ADVANCE"
  BY BootTails DEF Booting
<1>3. free_pointer' = 0
  BY <1>1, <1>2 DEF SendCommand
<1>4. free_pointer' \in Starts
  BY <1>3, ZeroStarts
<1>5. CASE commands = Boot7
  BY <1>1, <1>3, <1>4, <1>5, BootTails, EnableStatus DEF FlashInv, Booting
<1>6. CASE commands = Boot6 /\ wsr = TRUE
  BY <1>1, <1>3, <1>4, <1>6, BootTails, WriteStatus
     DEF FlashInv, Booting, Unlocked
<1>7. CASE commands \in {Boot5, Boot2} /\ Unlocked
  BY <1>1, <1>3, <1>4, <1>7, BootTails, WriteEnable
     DEF FlashInv, Booting, Unlocked
<1>8. CASE commands = Boot3 /\ Unlocked
  BY <1>1, <1>3, <1>4, <1>8, BootTails, WriteEnable
     DEF FlashInv, Booting, Unlocked
<1>9. CASE commands = Boot4 /\ Unlocked /\ wel = TRUE
  BY <1>1, <1>3, <1>4, <1>9, BootTails, ChipErase
     DEF FlashInv, Booting, Unlocked
<1>10. CASE commands = Boot1 /\ Unlocked /\ wel = TRUE
  <2>1. commands' = <<>> /\ cells' = Erased /\ wel' = FALSE /\ aai' = -1
        /\ protected' = FALSE
    BY <1>1, <1>10, BootTails, ChipErase DEF Unlocked
  <2>2. Written(0)' = Erased
    BY <1>3, FlashAssumption DEF Written, Erased, Recorded, Addresses
  <2> QED
    BY <1>4, <2>1, <2>2 DEF FlashInv, Resting, Closed, Unlocked
<1> QED
  BY <1>5, <1>6, <1>7, <1>8, <1>9, <1>10 DEF Booting

-----------------------------------------------------------------------------
LEMMA OpenStep ==
  ASSUME FlashInv, Opening, SendCommand
  PROVE  FlashInv'
<1>1. /\ wel' = TRUE /\ UNCHANGED <<cells, wsr, protected, aai, free_pointer>>
      /\ commands' = Rest(RecordSize)
  BY WriteEnable DEF Opening, Closed
<1>2. Written(0)' = Written(0)
  BY <1>1 DEF Written, Recorded
<1>3. 0 \in 0..RecordSize /\ RecordSize - 0 = RecordSize
  BY FlashAssumption
<1>4. Programming'
  BY <1>1, <1>2, <1>3 DEF Opening, Programming, Closed, Unlocked
<1> QED
  BY <1>1, <1>4 DEF FlashInv

\* One more byte: it goes behind the last one, into an erased cell.
LEMMA ProgramStep ==
  ASSUME FlashInv, SendCommand, NEW n \in 0..RecordSize, n # RecordSize,
         commands = Rest(RecordSize - n), wel = TRUE,
         aai = (IF n = 0 THEN -1 ELSE free_pointer + n),
         Unlocked, cells = Written(n)
  PROVE  FlashInv'
<1>1. RecordSize - n \in Nat \ {0} /\ RecordSize - n - 1 = RecordSize - (n + 1)
      /\ n + 1 \in 0..RecordSize
  BY FlashAssumption
<1>2. Head(commands) = "AAI" /\ Tail(commands) = Rest(RecordSize - (n + 1))
  BY <1>1, RestTails
<1>3. free_pointer \in Nat /\ free_pointer + Stride <= LastAddress + 1
  BY FlashAssumption DEF FlashInv, Starts, Addresses
<1>4. Programmed = free_pointer + n
  BY <1>3, FlashAssumption DEF Programmed
<1>5. free_pointer + n \in Addresses /\ free_pointer + n # LastAddress
  BY <1>1, <1>3, FlashAssumption DEF Addresses
<1>6. /\ cells' = [cells EXCEPT ![free_pointer + n] =
                     IF @ = "erased" THEN "data" ELSE "mixed"]
      /\ aai' = free_pointer + (n + 1) /\ wel' = TRUE
      /\ UNCHANGED <<wsr, protected, free_pointer>>
      /\ commands' = Rest(RecordSize - (n + 1))
  <2>1. Programmed + 1 = free_pointer + (n + 1)
    BY <1>3, <1>4
  <2> QED
    BY <1>2, <1>4, <1>5, <2>1, ProgramByte DEF Unlocked
<1>7. cells[free_pointer + n] = "erased"
  BY <1>3, <1>5 DEF Written, Recorded
<1>8. cells' = [cells EXCEPT ![free_pointer + n] = "data"]
  BY <1>6, <1>7
<1>9. cells' = Written(n + 1)
  <2>1. \A a \in Addresses :
          a < free_pointer + (n + 1) <=> a < free_pointer + n \/ a = free_pointer + n
    BY <1>3 DEF Addresses
  <2> QED
    BY <1>3, <1>5, <1>8, <2>1 DEF Written, Recorded
<1>10. Written(n + 1)' = Written(n + 1)
  BY <1>6 DEF Written, Recorded
<1>11. n + 1 # 0
  OBVIOUS
<1>12. Programming'
  BY <1>1, <1>6, <1>9, <1>10, <1>11 DEF Programming, Unlocked
<1> QED
  BY <1>6, <1>12 DEF FlashInv

LEMMA CloseStep ==
  ASSUME FlashInv, SendCommand, commands = Rest(0), Unlocked,
         cells = Written(RecordSize)
  PROVE  FlashInv'
<1>1. /\ wel' = FALSE /\ aai' = -1
      /\ UNCHANGED <<cells, wsr, protected, free_pointer>>
      /\ commands' = <<"ADVANCE">>
  BY RestTails, WriteDisable
<1>2. Written(RecordSize)' = Written(RecordSize)
  BY <1>1 DEF Written, Recorded
<1>3. Finished'
  BY <1>1, <1>2 DEF Finished, Closed, Unlocked
<1> QED
  BY <1>1, <1>3 DEF FlashInv

\* The pointer goes to the next start, or to 0 with the erase to follow.
LEMMA AdvanceStep ==
  ASSUME FlashInv, Finished, SendCommand
  PROVE  FlashInv'
<1> DEFINE next == free_pointer + Stride
<1>1. UNCHANGED chip /\ Advance
  <2>1. Head(<<"ADVANCE">>) = "ADVANCE"
    OBVIOUS
  <2> QED
    BY <2>1 DEF Finished, SendCommand
<1>2. /\ free_pointer \in Nat /\ free_pointer % Stride = 0
      /\ next <= LastAddress + 1 /\ Stride \in Nat \ {0, 1}
  <2>1. /\ free_pointer \in 0..LastAddress /\ free_pointer % Stride = 0
        /\ free_pointer + Stride <= LastAddress + 1
    BY DEF FlashInv, Starts, Addresses
  <2>2. LastAddress \in Nat /\ Stride \in Nat \ {0, 1}
    BY FlashAssumption
  <2> QED
    BY <2>1, <2>2
<1>3. next \in Nat /\ next % Stride = 0
  <2>1. Stride \in Nat \ {0}
    BY <1>2
  <2>2. (free_pointer + Stride) % Stride = 0
    BY <1>2, <2>1, NextMultiple
  <2>3. free_pointer + Stride \in Nat
    BY <1>2
  <2> QED
    BY <2>2, <2>3
<1>4. CASE LastAddress <= next
  <2>1. free_pointer' = 0 /\ commands' = Boot2 /\ aai' = -1 /\ Unlocked'
    BY <1>1, <1>4, BootCommands DEF Advance, Finished, Closed, Unlocked, chip
  <2> QED
    BY <2>1, ZeroStarts DEF FlashInv, Booting
<1>5. CASE ~(LastAddress <= next)
  <2>1. free_pointer' = next /\ commands' = <<>>
    BY <1>1, <1>5 DEF Advance
  <2>2. next < LastAddress + 1 /\ LastAddress + 1 \in Nat
    BY <1>3, <1>5, FlashAssumption
  <2>3. next + Stride <= LastAddress + 1
    BY <1>2, <1>3, <2>2, MultiplesApart, FlashAssumption
  <2>4. free_pointer' \in Starts
    BY <1>2, <1>3, <1>5, <2>1, <2>3, FlashAssumption DEF Starts, Addresses
  <2>5. ASSUME NEW a \in Addresses
        PROVE  (a < next /\ a % Stride < RecordSize)
                 <=> \/ a < free_pointer /\ a % Stride < RecordSize
                     \/ free_pointer <= a /\ a < free_pointer + RecordSize
    <3>1. a \in Nat
      BY DEF Addresses
    <3>2. CASE a < free_pointer
      BY <1>2, <3>1, <3>2
    <3>3. CASE free_pointer <= a /\ a < next
      <4>1. a - free_pointer \in 0..Stride - 1
            /\ a = free_pointer + (a - free_pointer)
        BY <1>2, <3>1, <3>3
      <4>2. a % Stride = a - free_pointer
        BY <1>2, <4>1, PastMultiple
      <4> QED
        BY <1>2, <3>1, <3>3, <4>2, FlashAssumption
    <3>4. CASE next <= a
      BY <1>2, <3>1, <3>4, FlashAssumption
    <3> QED
      BY <1>2, <3>1, <3>2, <3>3, <3>4
  <2>6. Written(0)' = Written(RecordSize)
    <3>1. \A a \in Addresses :
            a \in Recorded' \/ (free_pointer' <= a /\ a < free_pointer' + 0)
              <=> a \in Recorded \/ (free_pointer <= a
                                     /\ a < free_pointer + RecordSize)
      <4>1. \A a \in Addresses : ~(next <= a /\ a < next + 0)
        BY <1>3 DEF Addresses
      <4>2. \A a \in Addresses :
              a \in Recorded' <=> a < next /\ a % Stride < RecordSize
        BY <2>1 DEF Recorded
      <4> QED
        BY <2>1, <2>5, <4>1, <4>2 DEF Recorded
    <3> QED
      BY <3>1 DEF Written
  <2>7. Resting'
    BY <1>1, <2>1, <2>6 DEF Finished, Resting, Closed, Unlocked, chip
  <2> QED
    BY <2>4, <2>7 DEF FlashInv
<1> QED
  BY <1>4, <1>5

LEMMA CommandStep ==
  ASSUME FlashInv, SendCommand
  PROVE  FlashInv'
<1>1. CASE Resting
  BY <1>1 DEF Resting, SendCommand
<1>2. CASE Programming
  <2>1. PICK n \in 0..RecordSize :
          /\ commands = Rest(RecordSize - n)
          /\ wel = TRUE /\ aai = IF n = 0 THEN -1 ELSE free_pointer + n
          /\ Unlocked /\ cells = Written(n)
    BY <1>2 DEF Programming
  <2>2. CASE n = RecordSize
    <3>1. RecordSize - n = 0
      BY <2>2, FlashAssumption
    <3> QED
      BY <2>1, <2>2, <3>1, CloseStep
  <2>3. CASE n # RecordSize
    BY <2>1, <2>3, ProgramStep
  <2> QED
    BY <2>2, <2>3
<1> QED
  BY <1>1, <1>2, OpenStep, AdvanceStep, BootStep DEF FlashInv

LEMMA LogStep ==
  ASSUME FlashInv, LogData
  PROVE  FlashInv'
<1>1. Resting
  BY RestTails, FlashAssumption
     DEF FlashInv, LogData, Opening, Programming, Finished, Booting, Boot1,
         Boot2, Boot3, Boot4, Boot5, Boot6, Boot7
<1>2. UNCHANGED <<chip, free_pointer>> /\ commands' = Record \o <<"ADVANCE">>
  BY DEF LogData
<1>3. commands' # <<>> /\ Head(commands') = "WREN"
      /\ Tail(commands') = Rest(RecordSize)
  BY <1>2, RecordCommands DEF FlashInv
<1>4. Written(0)' = Written(0)
  BY <1>2 DEF Written, Recorded
<1>5. Opening'
  BY <1>1, <1>2, <1>3, <1>4 DEF Opening, Resting, Closed, Unlocked, chip
<1> QED
  BY <1>2, <1>5 DEF FlashInv

LEMMA RestartStep ==
  ASSUME FlashInv, PowerLoss \/ FlashReset
  PROVE  FlashInv'
<1>1. free_pointer' = 0 /\ commands' = Boot7
  BY BootCommands DEF PowerLoss, FlashReset
<1>2. aai' = -1
  <2>1. CASE FlashReset
    <3>1. Resting
      BY <2>1, RestTails, FlashAssumption
         DEF FlashInv, FlashReset, Opening, Programming, Finished, Booting,
             Boot1, Boot2, Boot3, Boot4, Boot5, Boot6, Boot7
    <3> QED
      BY <2>1, <3>1 DEF FlashReset, Resting, Closed, chip
  <2> QED
    BY <2>1 DEF PowerLoss
<1> QED
  BY <1>1, <1>2, ZeroStarts DEF FlashInv, Booting

LEMMA StepFlashInv == FlashInv /\ [FlashNext]_flashVars => FlashInv'
<1>1. ASSUME FlashInv, UNCHANGED flashVars PROVE FlashInv'
  <2>1. \A n \in 0..RecordSize : Written(n)' = Written(n)
    BY <1>1 DEF Written, Recorded, flashVars
  <2>2. Written(0)' = Written(0) /\ Written(RecordSize)' = Written(RecordSize)
    BY <1>1 DEF Written, Recorded, flashVars
  <2> QED
    BY <1>1, <2>1, <2>2
       DEF FlashInv, Resting, Opening, Programming, Finished, Booting, Closed,
           Unlocked, flashVars, chip
<1> QED
  BY <1>1, CommandStep, LogStep, RestartStep DEF FlashNext

-----------------------------------------------------------------------------
\* The inductive invariant holds of every behaviour of the logger.
THEOREM FlashInStep == FlashSpec => []FlashInv
<1> QED
  BY InitFlashInv, StepFlashInv, PTL DEF FlashSpec

LEMMA InvReadable == FlashInv => LogReadable
<1> SUFFICES ASSUME FlashInv, commands = <<>> PROVE LogReadable
  BY DEF LogReadable
<1>1. Resting
  BY RestTails, FlashAssumption
     DEF FlashInv, Opening, Programming, Finished, Booting, Boot1, Boot2,
         Boot3, Boot4, Boot5, Boot6, Boot7
<1>2. Written(0) = [a \in Addresses |->
                      IF a \in Recorded THEN "data" ELSE "erased"]
  <2>1. free_pointer \in Nat
    BY FlashAssumption DEF FlashInv, Starts, Addresses
  <2>2. \A a \in Addresses : ~(free_pointer <= a /\ a < free_pointer + 0)
    BY <2>1 DEF Addresses
  <2> QED
    BY <2>2 DEF Written
<1> QED
  BY <1>1, <1>2 DEF Resting, Closed, LogReadable

\* Whenever the logger rests, the chip holds exactly the records below
\* free_pointer and is closed for writing.
THEOREM LogIsReadable == FlashSpec => []LogReadable
<1> QED
  BY InvReadable, FlashInStep, PTL
=============================================================================
