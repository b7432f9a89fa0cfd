---------------------------- MODULE TerminalProofs ----------------------------
(***************************************************************************)
(* Theorems about Terminal, for every set of messages and every size of    *)
(* the memory: types, that a packet that fits in memory can end, that no   *)
(* binary command runs but one that was sent, that a message which finds   *)
(* nothing left over is answered once, as it was sent, and that only a     *)
(* host that is stopped in the middle of a message leaves something over.  *)
(***************************************************************************)
EXTENDS Terminal, TLAPS, SequenceTheorems

\* A size below the modulus is not changed by it.
LEMMA NoWrap ==
  ASSUME NEW n \in Nat, NEW w \in Nat, n < w
  PROVE  n % w = n
BY SMT

\* A function on 1 .. n is a sequence.
LEMMA FunctionIsSeq ==
  ASSUME NEW S, NEW n \in Nat, NEW f \in [1 .. n -> S]
  PROVE  f \in Seq(S) /\ Len(f) = n
BY SMT

\* What PlainAll makes of bytes are units.
LEMMA PlainAllType ==
  ASSUME NEW bytes \in Seq(Byte)
  PROVE  PlainAll(bytes) \in Seq(Unit)
<1>1. Len(bytes) \in Nat /\ DOMAIN bytes = 1 .. Len(bytes)
  OBVIOUS
<1>2. << >> \in Seq(Byte)
  OBVIOUS
<1>3. \A i \in 1 .. Len(bytes) : Plain(bytes[i]) \in Unit
  BY <1>2 DEF Plain, Unit
<1>4. PlainAll(bytes) \in [1 .. Len(bytes) -> Unit]
  BY <1>1, <1>3 DEF PlainAll
<1> QED
  BY <1>1, <1>4, FunctionIsSeq

\* The bytes before the checksum are bytes.
LEMMA FrontType ==
  ASSUME NEW m \in PacketMsg
  PROVE  Front(m) \in Seq(Byte)
<1> DEFINE header == <<HEADER_1, HEADER_2, m.type, m.id, Len(m.payload)>>
<1>1. m.type \in Byte /\ m.id \in Byte /\ m.payload \in Seq(Byte)
  BY DEF PacketMsg
<1>2. Len(m.payload) \in Byte
  BY <1>1 DEF Byte
<1>3. header \in Seq(Byte)
  BY <1>1, <1>2, TerminalConstants
<1>4. header \o m.payload \in Seq(Byte)
  BY <1>1, <1>3
<1> QED
  BY <1>4 DEF Front

\* A message of the host is a sequence of units.
LEMMA UnitsType ==
  ASSUME NEW m \in Messages
  PROVE  Units(m) \in Seq(Unit)
<1>1. CASE m \in TextMsg
  <2>1. m.kind = "text" /\ m.word \in Byte
    BY <1>1, TerminalConstants DEF TextMsg
  <2>2. <<m.word, ENTER>> \in Seq(Byte)
    BY <2>1, TerminalConstants
  <2> QED
    BY <2>1, <2>2, PlainAllType DEF Units
<1>2. CASE m \in PacketMsg
  <2>1. m.kind # "text"
    BY <1>2 DEF PacketMsg
  <2>2. Front(m) \in Seq(Byte)
    BY <1>2, FrontType
  <2>3. [byte |-> CrcByte, covers |-> Front(m)] \in Unit
    BY <2>2, TerminalConstants DEF Unit
  <2>4. Append(PlainAll(Front(m)), [byte |-> CrcByte, covers |-> Front(m)]) \in Seq(Unit)
    BY <2>2, <2>3, PlainAllType
  <2> QED
    BY <2>1, <2>4 DEF Units
<1> QED
  BY <1>1, <1>2, TerminalConstants

\* A line runs commands only.
LEMMA HandleCmdType ==
  ASSUME NEW line
  PROVE  HandleCmd(line) \in Seq(AnswerType)
<1>1. CASE Len(line) = 1 /\ line[1] \in Words
  <2>1. [word |-> line[1]] \in AnswerType
    BY <1>1 DEF AnswerType
  <2> QED
    BY <1>1, <2>1 DEF HandleCmd
<1>2. CASE ~(Len(line) = 1 /\ line[1] \in Words)
  BY <1>2 DEF HandleCmd
<1> QED
  BY <1>1, <1>2

\* A handler of a command answers with one of the three statuses.
LEMMA AnswerInType ==
  ASSUME NEW type \in Byte, NEW id \in Byte, NEW payload \in Seq(Byte)
  PROVE  Answer(type, id, payload) \in Seq(AnswerType)
<1>1. CASE id \in Commands
  <2>1. Status(type, id, payload) \in {"SUCCESS", "INVALID_PAYLOAD", "UNSUPPORTED_CMP_TYPE"}
    BY DEF Status
  <2>2. [type |-> type, id |-> id, payload |-> payload, status |-> Status(type, id, payload)]
          \in AnswerType
    BY <1>1, <2>1 DEF AnswerType
  <2> QED
    BY <1>1, <2>2 DEF Answer
<1>2. CASE id \notin Commands
  BY <1>2 DEF Answer
<1> QED
  BY <1>1, <1>2

\* A whole packet is answered as a command or not at all.
LEMMA HandleBinaryPacketType ==
  ASSUME NEW packet \in Seq(Unit), Complete(packet), ~PayloadImpossible(packet)
  PROVE  HandleBinaryPacket(packet) \in Seq(AnswerType)
<1> DEFINE bytes == BytesOf(packet)
           front == SubSeq(bytes, 1, Len(bytes) - BINARY_MODE_CRC_32_SIZE_BYTES)
           payload == SubSeq(front, BINARY_MODE_HEADER_SIZE_BYTES + 1, Len(front))
<1>1. bytes \in Seq(Byte) /\ Len(bytes) = Len(packet)
  <2>1. Len(packet) \in Nat /\ DOMAIN packet = 1 .. Len(packet)
    OBVIOUS
  <2>2. \A i \in 1 .. Len(packet) : packet[i].byte \in Byte
    <3>1. \A i \in 1 .. Len(packet) : packet[i] \in Unit
      BY ElementOfSeq
    <3> QED
      BY <3>1, Zenon DEF Unit
  <2>3. bytes \in [1 .. Len(packet) -> Byte]
    BY <2>1, <2>2 DEF BytesOf
  <2> QED
    BY <2>1, <2>3, FunctionIsSeq
<1>2. Len(bytes) \in Nat /\ Len(bytes) >= 5
  BY <1>1 DEF Complete, BINARY_MODE_HEADER_SIZE_BYTES
<1>3. bytes[3] \in Byte /\ bytes[4] \in Byte
  BY <1>1, <1>2
<1>4. front \in Seq(Byte)
  <2>1. \A i \in 1 .. Len(bytes) - 1 : bytes[i] \in Byte
    BY <1>1, <1>2
  <2> QED
    BY <1>1, <1>2, <2>1 DEF BINARY_MODE_CRC_32_SIZE_BYTES
<1>5. payload \in Seq(Byte)
  <2> HIDE DEF front
  <2>1. \A i \in BINARY_MODE_HEADER_SIZE_BYTES + 1 .. Len(front) : front[i] \in Byte
    BY <1>4 DEF BINARY_MODE_HEADER_SIZE_BYTES
  <2> QED
    BY <1>4, <2>1 DEF BINARY_MODE_HEADER_SIZE_BYTES
<1>6. Answer(bytes[3], bytes[4], payload) \in Seq(AnswerType)
  BY <1>3, <1>5, AnswerInType
<1>7. << >> \in Seq(AnswerType)
  OBVIOUS
<1> QED
  BY <1>6, <1>7, Zenon DEF HandleBinaryPacket

LEMMA InitTyped == Init => TypeOK
<1> SUFFICES ASSUME Init PROVE TypeOK
  OBVIOUS
<1>1. outgoing \in Seq(Unit)
  BY UnitsType DEF Init
<1>2. cuts \in 0 .. MaxCuts
  BY TerminalConstants DEF Init
<1>3. Len(text_buffer) <= MaxChars
  BY TerminalConstants DEF Init
<1>4. /\ text_buffer \in Seq(Printable) /\ binary_buffer \in Seq(Unit)
      /\ answers \in Seq(AnswerType)
  BY DEF Init
<1> QED
  BY <1>1, <1>2, <1>3, <1>4 DEF Init, TypeOK

\* Types hold initially and are kept by every action, which append typed bytes
\* to the buffers and typed answers to the answers.
THEOREM SpecTypeOK == Spec => []TypeOK
<1>1. Init => TypeOK
  BY InitTyped
<1>2. TypeOK /\ [Next]_vars => TypeOK'
  <2> SUFFICES ASSUME TypeOK, [Next]_vars PROVE TypeOK'
    OBVIOUS
  <2>1. ASSUME NEW m \in Messages, Send(m) PROVE TypeOK'
    <3>1. outgoing' \in Seq(Unit)
      BY <2>1, UnitsType DEF Send
    <3>2. in_sync' \in BOOLEAN
      BY <2>1 DEF Send
    <3>3. answers' \in Seq(AnswerType)
      BY <2>1 DEF Send
    <3> QED
      BY <2>1, <3>1, <3>2, <3>3 DEF Send, TypeOK
  <2>2. ASSUME Cut PROVE TypeOK'
    <3>1. cuts' \in 0 .. MaxCuts
      BY <2>2, TerminalConstants DEF Cut, TypeOK
    <3> QED
      BY <2>2, <3>1 DEF Cut, TypeOK
  <2>3. ASSUME NEW u, Read(u)
        PROVE  /\ u \in Unit /\ outgoing' \in Seq(Unit)
               /\ Append(binary_buffer, u) \in Seq(Unit)
    <3>1. u \in Unit /\ outgoing' \in Seq(Unit)
      BY <2>3 DEF Read, TypeOK
    <3> QED
      BY <3>1 DEF TypeOK
  <2>4. ASSUME NEW u, BinaryByte(u) PROVE TypeOK'
    <3>1. outgoing' \in Seq(Unit) /\ binary_buffer' \in Seq(Unit)
      BY <2>3, <2>4 DEF BinaryByte
    <3> QED
      BY <2>4, <3>1 DEF BinaryByte, Read, TypeOK
  <2>5. ASSUME NEW u, BinaryPacket(u) PROVE TypeOK'
    <3>1. outgoing' \in Seq(Unit) /\ Append(binary_buffer, u) \in Seq(Unit)
      BY <2>3, <2>5 DEF BinaryPacket
    <3>2. HandleBinaryPacket(Append(binary_buffer, u)) \in Seq(AnswerType)
      BY <2>5, <3>1, HandleBinaryPacketType DEF BinaryPacket
    <3>3. answers' \in Seq(AnswerType)
      BY <2>5, <3>2, ConcatProperties DEF BinaryPacket, TypeOK
    <3>4. binary_buffer' \in Seq(Unit) /\ binary_mode' \in BOOLEAN
      <4>1. binary_buffer' = << >> /\ binary_mode' = FALSE
        BY <2>5 DEF BinaryPacket
      <4>2. << >> \in Seq(Unit)
        OBVIOUS
      <4> QED
        BY <4>1, <4>2, Zenon
    <3> QED
      BY <2>5, <3>1, <3>3, <3>4 DEF BinaryPacket, Read, TypeOK
  <2>6. ASSUME NEW u, BinaryStops(u) PROVE TypeOK'
    <3>1. outgoing' \in Seq(Unit) /\ binary_buffer' \in Seq(Unit)
      BY <2>3, <2>6 DEF BinaryStops, TypeOK
    <3> QED
      BY <2>6, <3>1 DEF BinaryStops, Read, TypeOK
  <2>7. ASSUME NEW u, TextEnter(u) PROVE TypeOK'
    <3>1. outgoing' \in Seq(Unit)
      BY <2>3, <2>7 DEF TextEnter
    <3>2. answers' \in Seq(AnswerType)
      BY <2>7, HandleCmdType, ConcatProperties DEF TextEnter, TypeOK
    <3>3. text_buffer' \in Seq(Printable) /\ Len(text_buffer') <= MaxChars
      BY <2>7, TerminalConstants DEF TextEnter
    <3>4. halted' \in BOOLEAN
      BY <2>7 DEF TextEnter
    <3> QED
      BY <2>7, <3>1, <3>2, <3>3, <3>4 DEF TextEnter, Read, TypeOK
  <2>8. ASSUME NEW u, TextBackspace(u) PROVE TypeOK'
    <3>1. outgoing' \in Seq(Unit)
      BY <2>3, <2>8 DEF TextBackspace
    <3>2. Len(text_buffer) \in Nat /\ \A i \in 1 .. Len(text_buffer) - 1 : text_buffer[i] \in Printable
      BY DEF TypeOK
    <3>3. text_buffer' \in Seq(Printable) /\ Len(text_buffer') <= MaxChars
      BY <2>8, <3>2, SubSeqProperties, TerminalConstants DEF TextBackspace, TypeOK
    <3> QED
      BY <2>8, <3>1, <3>3 DEF TextBackspace, Read, TypeOK
  <2>9. ASSUME NEW u, TextChar(u) PROVE TypeOK'
    <3>1. outgoing' \in Seq(Unit)
      BY <2>3, <2>9 DEF TextChar
    <3>2. text_buffer' \in Seq(Printable) /\ Len(text_buffer') <= MaxChars
      BY <2>9, TerminalConstants DEF TextChar, TypeOK
    <3> QED
      BY <2>9, <3>1, <3>2 DEF TextChar, Read, TypeOK
  <2>10. CASE UNCHANGED vars
    BY <2>10 DEF vars, TypeOK
  <2> QED
    BY <2>1, <2>2, <2>4, <2>5, <2>6, <2>7, <2>8, <2>9, <2>10 DEF Next, Receive
<1> QED
  BY <1>1, <1>2, PTL DEF Spec

\* What is announced does not change as bytes are added after the header.
LEMMA AnnouncedSizeKept ==
  ASSUME NEW buffer \in Seq(Unit), NEW u \in Unit, Len(buffer) >= BINARY_MODE_HEADER_SIZE_BYTES
  PROVE  AnnouncedSize(Append(buffer, u)) = AnnouncedSize(buffer)
BY DEF AnnouncedSize, BINARY_MODE_HEADER_SIZE_BYTES

\* A size that fits in memory does not wrap and exceeds the header's.
LEMMA FittingSize ==
  ASSUME NEW buffer \in Seq(Unit), Len(buffer) >= BINARY_MODE_HEADER_SIZE_BYTES, ~TooLong(buffer)
  PROVE  /\ FullPacketSize(buffer) = AnnouncedSize(buffer)
         /\ AnnouncedSize(buffer) \in Nat /\ AnnouncedSize(buffer) <= Heap
         /\ AnnouncedSize(buffer) > BINARY_MODE_HEADER_SIZE_BYTES
<1>1. buffer[BINARY_MODE_HEADER_SIZE_BYTES] \in Unit
  BY ElementOfSeq DEF BINARY_MODE_HEADER_SIZE_BYTES
<1>2. buffer[BINARY_MODE_HEADER_SIZE_BYTES].byte \in Nat
  BY <1>1, Zenon DEF Unit, Byte
<1>3. /\ AnnouncedSize(buffer) \in Nat
      /\ AnnouncedSize(buffer) > BINARY_MODE_HEADER_SIZE_BYTES
  BY <1>2 DEF AnnouncedSize, BINARY_MODE_HEADER_SIZE_BYTES, BINARY_MODE_CRC_32_SIZE_BYTES
<1>4. AnnouncedSize(buffer) <= Heap
  BY <1>3, TerminalConstants DEF TooLong
<1>5. AnnouncedSize(buffer) % SizeModulus = AnnouncedSize(buffer)
  BY <1>3, <1>4, NoWrap, TerminalConstants
<1> QED
  BY <1>3, <1>4, <1>5 DEF FullPacketSize

\* A buffer that is not complete after one more byte can still end, if it fits.
LEMMA ByteKeepsPacketCanEnd ==
  ASSUME TypeOK, PacketCanEnd, NEW u \in Unit,
         ~Complete(Append(binary_buffer, u)),
         Len(Append(binary_buffer, u)) >= BINARY_MODE_HEADER_SIZE_BYTES,
         ~TooLong(Append(binary_buffer, u))
  PROVE  Len(Append(binary_buffer, u)) < FullPacketSize(Append(binary_buffer, u))
<1> DEFINE buffer == Append(binary_buffer, u)
<1>1. /\ buffer \in Seq(Unit) /\ Len(buffer) = Len(binary_buffer) + 1
      /\ Len(binary_buffer) \in Nat /\ binary_buffer \in Seq(Unit)
  BY DEF TypeOK
<1>2. /\ FullPacketSize(buffer) = AnnouncedSize(buffer) /\ AnnouncedSize(buffer) \in Nat
      /\ AnnouncedSize(buffer) > BINARY_MODE_HEADER_SIZE_BYTES
  BY <1>1, FittingSize
<1>3. Len(buffer) # FullPacketSize(buffer)
  BY DEF Complete
<1>4. CASE Len(binary_buffer) < BINARY_MODE_HEADER_SIZE_BYTES
  BY <1>1, <1>2, <1>3, <1>4 DEF BINARY_MODE_HEADER_SIZE_BYTES
<1>5. CASE Len(binary_buffer) >= BINARY_MODE_HEADER_SIZE_BYTES
  <2>1. AnnouncedSize(buffer) = AnnouncedSize(binary_buffer)
    BY <1>1, <1>5, AnnouncedSizeKept
  <2>2. ~TooLong(binary_buffer)
    BY <1>5, <2>1 DEF TooLong
  <2>3. Len(binary_buffer) < AnnouncedSize(binary_buffer)
    BY <1>1, <1>5, <2>2, FittingSize DEF PacketCanEnd
  <2> QED
    BY <1>1, <1>2, <1>3, <2>1, <2>3
<1> QED
  BY <1>1, <1>4, <1>5 DEF BINARY_MODE_HEADER_SIZE_BYTES

\* The buffer never outgrows the packet that was announced, so that the
\* comparison for equality ends each packet that fits in memory; and only one
\* that does not fit stops the firmware in binary mode.
THEOREM SpecPacketCanEnd == Spec => []PacketCanEnd
<1>1. Init => PacketCanEnd
  BY DEF Init, PacketCanEnd, BINARY_MODE_HEADER_SIZE_BYTES
<1>2. TypeOK /\ PacketCanEnd /\ [Next]_vars => PacketCanEnd'
  <2> SUFFICES ASSUME TypeOK, PacketCanEnd, [Next]_vars PROVE PacketCanEnd'
    OBVIOUS
  <2>1. ASSUME NEW m \in Messages, Send(m) PROVE PacketCanEnd'
    BY <2>1 DEF Send, PacketCanEnd, TooLong, FullPacketSize, AnnouncedSize
  <2>2. ASSUME Cut PROVE PacketCanEnd'
    BY <2>2 DEF Cut, PacketCanEnd, TooLong, FullPacketSize, AnnouncedSize
  <2>3. ASSUME NEW u, Read(u)
        PROVE  /\ u \in Unit /\ ~halted
               /\ Append(binary_buffer, u) \in Seq(Unit) /\ Append(binary_buffer, u) # << >>
               /\ Len(Append(binary_buffer, u)) = Len(binary_buffer) + 1
               /\ Len(binary_buffer) \in Nat
    <3>1. u \in Unit /\ ~halted
      BY <2>3 DEF Read, TypeOK
    <3> QED
      BY <3>1 DEF TypeOK
  <2>4. ASSUME NEW u, BinaryByte(u) PROVE PacketCanEnd'
    <3> DEFINE buffer == Append(binary_buffer, u)
    <3>1. /\ Read(u) /\ ~Complete(buffer)
          /\ binary_buffer' = buffer /\ binary_mode' = TRUE /\ halted' = halted
      BY <2>4 DEF BinaryByte
    <3>2. Len(buffer) >= BINARY_MODE_HEADER_SIZE_BYTES /\ ~TooLong(buffer)
            => Len(buffer) < FullPacketSize(buffer)
      BY <2>3, <3>1, ByteKeepsPacketCanEnd
    <3>3. buffer # << >> /\ ~halted
      BY <2>3, <3>1
    <3> HIDE DEF buffer
    <3> QED
      BY <3>1, <3>2, <3>3 DEF PacketCanEnd, TooLong, FullPacketSize, AnnouncedSize
  <2>5. ASSUME NEW u, BinaryPacket(u) PROVE PacketCanEnd'
    <3>1. binary_buffer' = << >> /\ binary_mode' = FALSE
      BY <2>5 DEF BinaryPacket
    <3> QED
      BY <3>1 DEF PacketCanEnd, BINARY_MODE_HEADER_SIZE_BYTES
  <2>6. ASSUME NEW u, BinaryStops(u) PROVE PacketCanEnd'
    <3> DEFINE buffer == Append(binary_buffer, u)
    <3>1. /\ Read(u) /\ binary_mode' = TRUE
          /\ binary_buffer' = IF Len(buffer) > Heap THEN binary_buffer ELSE buffer
          /\ Len(buffer) > Heap \/ (Complete(buffer) /\ PayloadImpossible(buffer))
      BY <2>6 DEF BinaryStops
    <3>2. /\ buffer \in Seq(Unit) /\ buffer # << >> /\ Len(buffer) = Len(binary_buffer) + 1
          /\ Len(binary_buffer) \in Nat /\ binary_buffer \in Seq(Unit)
      BY <2>3, <3>1 DEF TypeOK
    <3> HIDE DEF buffer
    <3>3. CASE Len(buffer) > Heap
      <4>1. binary_buffer' = binary_buffer /\ Len(binary_buffer) >= Heap
        BY <3>1, <3>2, <3>3, TerminalConstants
      <4>2. Len(binary_buffer) >= BINARY_MODE_HEADER_SIZE_BYTES
        BY <3>2, <4>1, TerminalConstants DEF BINARY_MODE_HEADER_SIZE_BYTES
      <4>3. TooLong(binary_buffer)
        <5> SUFFICES ASSUME ~TooLong(binary_buffer) PROVE FALSE
          OBVIOUS
        <5>1. Len(binary_buffer) < AnnouncedSize(binary_buffer)
          BY <3>2, <4>2, FittingSize DEF PacketCanEnd
        <5> QED
          BY <3>2, <4>1, <4>2, <5>1, FittingSize, TerminalConstants
      <4>4. binary_buffer # << >>
        BY <4>2 DEF BINARY_MODE_HEADER_SIZE_BYTES
      <4> QED
        BY <3>1, <4>1, <4>3, <4>4 DEF PacketCanEnd, TooLong, AnnouncedSize
    <3>4. CASE ~(Len(buffer) > Heap)
      <4>1. binary_buffer' = buffer /\ Complete(buffer) /\ PayloadImpossible(buffer)
        BY <3>1, <3>4
      <4>2. /\ Len(buffer) >= BINARY_MODE_HEADER_SIZE_BYTES
            /\ Len(buffer) = FullPacketSize(buffer)
            /\ Len(buffer) <= BINARY_MODE_HEADER_SIZE_BYTES
        BY <3>2, <4>1 DEF Complete, PayloadImpossible, BINARY_MODE_HEADER_SIZE_BYTES,
                          BINARY_MODE_CRC_32_SIZE_BYTES
      <4>3. TooLong(buffer)
        <5> SUFFICES ASSUME ~TooLong(buffer) PROVE FALSE
          OBVIOUS
        <5> QED
          BY <3>2, <4>2, FittingSize DEF BINARY_MODE_HEADER_SIZE_BYTES
      <4> QED
        BY <3>1, <3>2, <4>1, <4>3 DEF PacketCanEnd, TooLong, AnnouncedSize
    <3> QED
      BY <3>3, <3>4
  <2>7. ASSUME NEW u, TextEnter(u) \/ TextBackspace(u) \/ TextChar(u) PROVE PacketCanEnd'
    <3>1. ~binary_mode /\ UNCHANGED <<binary_mode, binary_buffer>>
      BY <2>7 DEF TextEnter, TextBackspace, TextChar, ToBinary
    <3> QED
      BY <3>1 DEF PacketCanEnd, TooLong, FullPacketSize, AnnouncedSize
  <2>8. CASE UNCHANGED vars
    BY <2>8 DEF vars, PacketCanEnd, TooLong, FullPacketSize, AnnouncedSize
  <2> QED
    BY <2>1, <2>2, <2>4, <2>5, <2>6, <2>7, <2>8 DEF Next, Receive
<1> QED
  BY <1>1, <1>2, SpecTypeOK, PTL DEF Spec

-----------------------------------------------------------------------------
(* The bytes of a packet, and what is answered to them. *)

LEMMA BytesOfUnits ==
  ASSUME NEW packet \in Seq(Unit)
  PROVE  /\ BytesOf(packet) \in Seq(Byte) /\ Len(BytesOf(packet)) = Len(packet)
         /\ \A i \in 1 .. Len(packet) : BytesOf(packet)[i] = packet[i].byte
<1>1. Len(packet) \in Nat /\ DOMAIN packet = 1 .. Len(packet)
  OBVIOUS
<1>2. \A i \in 1 .. Len(packet) : packet[i] \in Unit
  BY ElementOfSeq
<1>3. \A i \in 1 .. Len(packet) : packet[i].byte \in Byte
  BY <1>2, Zenon DEF Unit
<1>4. BytesOf(packet) \in [1 .. Len(packet) -> Byte]
  BY <1>1, <1>3 DEF BytesOf
<1>5. BytesOf(packet) \in Seq(Byte) /\ Len(BytesOf(packet)) = Len(packet)
  BY <1>1, <1>4, FunctionIsSeq
<1>6. \A i \in 1 .. Len(packet) : BytesOf(packet)[i] = packet[i].byte
  BY <1>1 DEF BytesOf
<1> QED
  BY <1>5, <1>6

LEMMA PlainUnits ==
  ASSUME NEW bytes \in Seq(Byte)
  PROVE  /\ Len(PlainAll(bytes)) = Len(bytes)
         /\ \A i \in 1 .. Len(bytes) : PlainAll(bytes)[i] = Plain(bytes[i])
<1>1. Len(bytes) \in Nat /\ DOMAIN bytes = 1 .. Len(bytes)
  OBVIOUS
<1>2. PlainAll(bytes) = [i \in 1 .. Len(bytes) |-> Plain(bytes[i])]
  BY <1>1 DEF PlainAll
<1>3. \A i \in 1 .. Len(bytes) : PlainAll(bytes)[i] = Plain(bytes[i])
  BY <1>2
<1>4. DOMAIN PlainAll(bytes) = 1 .. Len(bytes) /\ PlainAll(bytes) \in Seq(Unit)
  BY <1>2, PlainAllType
<1>5. Len(PlainAll(bytes)) = Len(bytes)
  BY <1>1, <1>4, LenProperties
<1> QED
  BY <1>3, <1>5

\* Five bytes before others, and the others again.
LEMMA FiveBefore ==
  ASSUME NEW h \in Seq(Byte), NEW p \in Seq(Byte), Len(h) = 5
  PROVE  /\ h \o p \in Seq(Byte) /\ Len(h \o p) = 5 + Len(p)
         /\ \A i \in 1 .. 5 : (h \o p)[i] = h[i]
         /\ \A i \in 1 .. Len(p) : (h \o p)[5 + i] = p[i]
<1> DEFINE f == h \o p
<1>1. /\ f \in Seq(Byte) /\ Len(f) = Len(h) + Len(p)
      /\ \A i \in 1 .. Len(h) + Len(p) : f[i] = IF i <= Len(h) THEN h[i] ELSE p[i - Len(h)]
  BY ConcatProperties
<1>2. Len(p) \in Nat
  BY LenProperties
<1> HIDE DEF f
<1>3. \A i \in 1 .. 5 : f[i] = h[i]
  BY <1>1, <1>2
<1>4. ASSUME NEW i \in 1 .. Len(p) PROVE f[5 + i] = p[i]
  <2>1. 5 + i \in 1 .. Len(h) + Len(p) /\ ~(5 + i <= Len(h)) /\ 5 + i - Len(h) = i
    BY <1>2
  <2> QED
    BY <1>1, <2>1
<1> QED
  BY <1>1, <1>3, <1>4 DEF f

LEMMA FromSixth ==
  ASSUME NEW f \in Seq(Byte), Len(f) >= 5
  PROVE  /\ SubSeq(f, 6, Len(f)) \in Seq(Byte) /\ Len(SubSeq(f, 6, Len(f))) = Len(f) - 5
         /\ \A i \in 1 .. Len(f) - 5 : SubSeq(f, 6, Len(f))[i] = f[5 + i]
<1>1. Len(f) \in Nat /\ \A i \in 6 .. Len(f) : f[i] \in Byte
  BY LenProperties
<1>2. /\ SubSeq(f, 6, Len(f)) \in Seq(Byte)
      /\ Len(SubSeq(f, 6, Len(f))) = IF 6 <= Len(f) THEN Len(f) - 6 + 1 ELSE 0
      /\ \A i \in 1 .. Len(f) - 6 + 1 : SubSeq(f, 6, Len(f))[i] = f[6 + i - 1]
  BY <1>1, SubSeqProperties
<1>3. /\ Len(f) - 6 + 1 = Len(f) - 5
      /\ \A i \in 1 .. Len(f) - 5 : 6 + i - 1 = 5 + i
  BY <1>1
<1> QED
  BY <1>1, <1>2, <1>3

LEMMA FrontBytes ==
  ASSUME NEW m \in PacketMsg
  PROVE  /\ Front(m) \in Seq(Byte)
         /\ Len(m.payload) \in Nat /\ Len(Front(m)) = BINARY_MODE_HEADER_SIZE_BYTES + Len(m.payload)
         /\ Front(m)[1] = HEADER_1 /\ Front(m)[2] = HEADER_2
         /\ Front(m)[3] = m.type /\ Front(m)[4] = m.id
         /\ Front(m)[BINARY_MODE_HEADER_SIZE_BYTES] = Len(m.payload)
         /\ \A i \in 1 .. Len(m.payload) :
              Front(m)[BINARY_MODE_HEADER_SIZE_BYTES + i] = m.payload[i]
<1> DEFINE h == <<HEADER_1, HEADER_2, m.type, m.id, Len(m.payload)>>
<1>1. m.type \in Byte /\ m.id \in Byte /\ m.payload \in Seq(Byte)
  BY DEF PacketMsg
<1>2. Len(m.payload) \in Nat
  BY <1>1
<1>3. h \in Seq(Byte) /\ Len(h) = 5
  <2>1. Len(m.payload) \in Byte
    BY <1>2 DEF Byte
  <2>2. HEADER_1 \in Byte /\ HEADER_2 \in Byte
    BY TerminalConstants
  <2>3. h \in Seq(Byte)
    BY <1>1, <2>1, <2>2
  <2>4. Len(h) = 5
    OBVIOUS
  <2> QED
    BY <2>3, <2>4
<1>4. /\ h[1] = HEADER_1 /\ h[2] = HEADER_2 /\ h[3] = m.type /\ h[4] = m.id
      /\ h[5] = Len(m.payload)
  OBVIOUS
<1>5. Front(m) = h \o m.payload
  BY DEF Front
<1> HIDE DEF h
<1>6. /\ Front(m) \in Seq(Byte) /\ Len(Front(m)) = 5 + Len(m.payload)
      /\ \A i \in 1 .. 5 : Front(m)[i] = h[i]
      /\ \A i \in 1 .. Len(m.payload) : Front(m)[5 + i] = m.payload[i]
  <2>1. h \in Seq(Byte) /\ m.payload \in Seq(Byte) /\ Len(h) = 5
    BY <1>1, <1>3
  <2>2. /\ h \o m.payload \in Seq(Byte) /\ Len(h \o m.payload) = 5 + Len(m.payload)
        /\ \A i \in 1 .. 5 : (h \o m.payload)[i] = h[i]
        /\ \A i \in 1 .. Len(m.payload) : (h \o m.payload)[5 + i] = m.payload[i]
    BY <2>1, FiveBefore, Zenon
  <2> QED
    BY <1>5, <2>2, Zenon
<1>7. /\ Front(m)[1] = h[1] /\ Front(m)[2] = h[2] /\ Front(m)[3] = h[3]
      /\ Front(m)[4] = h[4] /\ Front(m)[5] = h[5]
  BY <1>6
<1> QED
  BY <1>2, <1>4, <1>6, <1>7 DEF BINARY_MODE_HEADER_SIZE_BYTES

LEMMA PacketUnits ==
  ASSUME NEW m \in PacketMsg
  PROVE  /\ Units(m) \in Seq(Unit) /\ Len(Units(m)) = Len(Front(m)) + 1
         /\ \A i \in 1 .. Len(Front(m)) : Units(m)[i] = Plain(Front(m)[i])
         /\ Units(m)[Len(Front(m)) + 1] = [byte |-> CrcByte, covers |-> Front(m)]
<1> DEFINE p == PlainAll(Front(m))
           c == [byte |-> CrcByte, covers |-> Front(m)]
<1>1. /\ p \in Seq(Unit) /\ Len(p) = Len(Front(m)) /\ Len(Front(m)) \in Nat
      /\ \A i \in 1 .. Len(Front(m)) : p[i] = Plain(Front(m)[i])
  BY FrontBytes, PlainAllType, PlainUnits, LenProperties
<1>2. c \in Unit
  BY FrontBytes, TerminalConstants DEF Unit
<1>3. Units(m) = Append(p, c)
  BY DEF Units, PacketMsg
<1> HIDE DEF p, c
<1>4. /\ Units(m) \in Seq(Unit) /\ Len(Units(m)) = Len(p) + 1
      /\ Units(m)[Len(p) + 1] = c
      /\ \A i \in 1 .. Len(p) : Units(m)[i] = p[i]
  BY <1>1, <1>2, <1>3, AppendProperties
<1> QED
  BY <1>1, <1>4 DEF c

\* A packet with the bytes and the checksum of a message is answered as the message.
LEMMA PacketAnswer ==
  ASSUME NEW packet \in Seq(Unit), NEW m \in PacketMsg, Len(packet) \in Nat \ {0},
         SubSeq(BytesOf(packet), 1, Len(BytesOf(packet)) - BINARY_MODE_CRC_32_SIZE_BYTES)
           = Front(m),
         packet[Len(packet)].covers = Front(m)
  PROVE  HandleBinaryPacket(packet) = Answer(m.type, m.id, m.payload)
<1> DEFINE bytes == BytesOf(packet)
           payload == SubSeq(Front(m), BINARY_MODE_HEADER_SIZE_BYTES + 1, Len(Front(m)))
<1>1. bytes \in Seq(Byte) /\ Len(bytes) = Len(packet)
  BY BytesOfUnits
<1>2. /\ Front(m) \in Seq(Byte) /\ Len(Front(m)) = 5 + Len(m.payload)
      /\ Len(m.payload) \in Nat /\ m.payload \in Seq(Byte)
      /\ Front(m)[2] = HEADER_2 /\ Front(m)[3] = m.type /\ Front(m)[4] = m.id
      /\ \A i \in 1 .. Len(m.payload) : Front(m)[5 + i] = m.payload[i]
  BY FrontBytes DEF BINARY_MODE_HEADER_SIZE_BYTES, PacketMsg
<1>3. Front(m) = SubSeq(bytes, 1, Len(bytes) - 1)
  BY DEF BINARY_MODE_CRC_32_SIZE_BYTES
<1> HIDE DEF bytes
<1>4. /\ Len(Front(m)) = Len(bytes) - 1
      /\ \A i \in 1 .. Len(bytes) - 1 : Front(m)[i] = bytes[i]
  <2> DEFINE n == Len(bytes) - 1
  <2>1. \A i \in 1 .. n : bytes[i] \in Byte
    BY <1>1, LenProperties
  <2>2. n \in Nat
    BY <1>1
  <2> HIDE DEF n
  <2>3. /\ Len(SubSeq(bytes, 1, n)) = n
        /\ \A i \in 1 .. n : SubSeq(bytes, 1, n)[i] = bytes[i]
    BY <2>1, <2>2, SubSeqProperties
  <2> QED
    BY <1>3, <2>3 DEF n
<1>5. bytes[2] = HEADER_2 /\ bytes[3] = m.type /\ bytes[4] = m.id
  BY <1>1, <1>2, <1>4
<1>6. payload = m.payload
  <2>1. payload = SubSeq(Front(m), 6, Len(Front(m)))
    BY DEF BINARY_MODE_HEADER_SIZE_BYTES
  <2>2. Len(Front(m)) >= 5 /\ Len(Front(m)) - 5 = Len(m.payload)
    BY <1>2
  <2>3. /\ payload \in Seq(Byte) /\ Len(payload) = Len(m.payload)
        /\ \A i \in 1 .. Len(m.payload) : payload[i] = Front(m)[5 + i]
    <3>1. /\ SubSeq(Front(m), 6, Len(Front(m))) \in Seq(Byte)
          /\ Len(SubSeq(Front(m), 6, Len(Front(m)))) = Len(Front(m)) - 5
          /\ \A i \in 1 .. Len(Front(m)) - 5 :
               SubSeq(Front(m), 6, Len(Front(m)))[i] = Front(m)[5 + i]
      BY <1>2, <2>2, FromSixth, Zenon
    <3> QED
      BY <2>1, <2>2, <3>1, Zenon
  <2> HIDE DEF payload
  <2> QED
    BY <1>2, <2>3, SeqEqual
<1> QED
  BY <1>5, <1>6, Zenon DEF HandleBinaryPacket, bytes

-----------------------------------------------------------------------------
(* No command runs that was not sent.  A packet is answered only on a checksum *)
(* that covers what is before it, and the only checksum among the units of a   *)
(* message is its last, which covers the message: wherever the packet began.   *)

\* A binary command ran.
Ran(a) == "status" \in DOMAIN a

ChecksumLast ==
  \A i \in 1 .. Len(outgoing) :
    \/ outgoing[i].covers = << >>
    \/ i = Len(outgoing) /\ message.kind = "packet" /\ outgoing[i].covers = Front(message)

NoneYet == outgoing # << >> => \A i \in 1 .. Len(answers) : ~Ran(answers[i])

CrcInv == TypeOK /\ ChecksumLast /\ NoneYet /\ CrcProtects

LEMMA MessageKinds ==
  ASSUME NEW m \in Messages
  PROVE  /\ m.kind = "packet" => m \in PacketMsg
         /\ m.kind = "text" => m \in TextMsg
         /\ m.kind \in {"text", "packet"}
BY TerminalConstants DEF TextMsg, PacketMsg

LEMMA TextUnits ==
  ASSUME NEW m \in TextMsg
  PROVE  /\ Units(m) \in Seq(Unit) /\ Len(Units(m)) = 2
         /\ Units(m)[1] = Plain(m.word) /\ Units(m)[2] = Plain(ENTER)
<1> DEFINE line == <<m.word, ENTER>>
<1>1. m.kind = "text" /\ m.word \in Byte /\ ENTER \in Byte
  BY TerminalConstants DEF TextMsg
<1>2. line \in Seq(Byte) /\ Len(line) = 2 /\ line[1] = m.word /\ line[2] = ENTER
  BY <1>1
<1>3. Units(m) = PlainAll(line)
  BY <1>1 DEF Units
<1> HIDE DEF line
<1>4. /\ Len(PlainAll(line)) = 2 /\ PlainAll(line) \in Seq(Unit)
      /\ \A i \in 1 .. 2 : PlainAll(line)[i] = Plain(line[i])
  BY <1>2, PlainUnits, PlainAllType
<1> QED
  BY <1>2, <1>3, <1>4

LEMMA UnitsChecksum ==
  ASSUME NEW m \in Messages
  PROVE  /\ Units(m) \in Seq(Unit) /\ Units(m) # << >>
         /\ \A i \in 1 .. Len(Units(m)) :
              \/ Units(m)[i].covers = << >>
              \/ i = Len(Units(m)) /\ m.kind = "packet" /\ Units(m)[i].covers = Front(m)
<1>0. \A b : Plain(b).covers = << >>
  BY DEF Plain
<1>1. CASE m.kind = "text"
  <2>1. m \in TextMsg
    BY <1>1, MessageKinds
  <2>2. \A i \in 1 .. 2 : Units(m)[i].covers = << >>
    BY <1>0, <2>1, TextUnits
  <2> QED
    BY <2>1, <2>2, TextUnits
<1>2. CASE m.kind = "packet"
  <2>1. m \in PacketMsg
    BY <1>2, MessageKinds
  <2>2. /\ Len(Front(m)) \in Nat /\ Units(m) \in Seq(Unit)
        /\ Len(Units(m)) = Len(Front(m)) + 1
        /\ \A i \in 1 .. Len(Front(m)) : Units(m)[i] = Plain(Front(m)[i])
    BY <2>1, PacketUnits, FrontBytes, LenProperties
  <2>3. Units(m)[Len(Front(m)) + 1].covers = Front(m)
    <3>1. Units(m)[Len(Front(m)) + 1] = [byte |-> CrcByte, covers |-> Front(m)]
      BY <2>1, PacketUnits
    <3> QED
      BY <3>1
  <2> QED
    BY <1>0, <1>2, <2>2, <2>3
<1> QED
  BY <1>1, <1>2, MessageKinds

\* Reading a unit leaves the others as they are.
LEMMA ReadRest ==
  ASSUME TypeOK, NEW u, Read(u)
  PROVE  /\ u \in Unit /\ u = outgoing[1] /\ Len(outgoing) \in Nat \ {0}
         /\ outgoing' \in Seq(Unit) /\ Len(outgoing') = Len(outgoing) - 1
         /\ \A i \in 1 .. Len(outgoing') : outgoing'[i] = outgoing[i + 1]
         /\ message' = message /\ cut' = cut /\ in_sync' = in_sync /\ ~halted
<1>1. outgoing \in Seq(Unit) /\ outgoing # << >> /\ u = Head(outgoing) /\ outgoing' = Tail(outgoing)
  BY DEF TypeOK, Read
<1>2. /\ Head(outgoing) = outgoing[1] /\ Len(outgoing) \in Nat \ {0}
      /\ outgoing[1] \in Unit
  BY <1>1
<1>3. /\ Tail(outgoing) \in Seq(Unit) /\ Len(Tail(outgoing)) = Len(outgoing) - 1
      /\ \A i \in 1 .. Len(Tail(outgoing)) : Tail(outgoing)[i] = outgoing[i + 1]
  BY <1>1, HeadTailProperties
<1> QED
  BY <1>1, <1>2, <1>3 DEF Read

LEMMA ReadChecksum ==
  ASSUME CrcInv, NEW u, Read(u)
  PROVE  ChecksumLast'
<1>1. ASSUME NEW i \in 1 .. Len(outgoing')
      PROVE  \/ outgoing'[i].covers = << >>
             \/ /\ i = Len(outgoing') /\ message'.kind = "packet"
                /\ outgoing'[i].covers = Front(message')
  <2>1. /\ i + 1 \in 1 .. Len(outgoing) /\ outgoing'[i] = outgoing[i + 1]
        /\ (i = Len(outgoing') <=> i + 1 = Len(outgoing)) /\ message' = message
    BY ReadRest DEF CrcInv
  <2> QED
    BY <2>1 DEF CrcInv, ChecksumLast
<1> QED
  BY <1>1 DEF ChecksumLast, Front

\* No step before the end of a message runs a binary command: what it does not run
\* cannot be wrong.
LEMMA ReadWithoutRun ==
  ASSUME CrcInv, NEW u, Read(u), answers' \in Seq(AnswerType),
         \A i \in 1 .. Len(answers') : ~Ran(answers'[i])
  PROVE  ChecksumLast' /\ NoneYet' /\ CrcProtects'
<1>1. DOMAIN answers' = 1 .. Len(answers')
  BY LenProperties
<1>2. CrcProtects'
  BY <1>1 DEF CrcProtects, Ran
<1> QED
  BY <1>2, ReadChecksum DEF NoneYet, Ran

\* What a packet that is answered must be: the bytes of the message that is being
\* sent, ended by its checksum, which is the last of its units.
LEMMA AnsweredPacket ==
  ASSUME CrcInv, NEW u, BinaryPacket(u),
         HandleBinaryPacket(Append(binary_buffer, u)) # << >>
  PROVE  /\ message \in PacketMsg /\ message.kind = "packet" /\ outgoing' = << >>
         /\ HandleBinaryPacket(Append(binary_buffer, u))
              = Answer(message.type, message.id, message.payload)
<1> DEFINE packet == Append(binary_buffer, u)
           n == Len(packet)
           bytes == BytesOf(packet)
           front == SubSeq(bytes, 1, Len(bytes) - BINARY_MODE_CRC_32_SIZE_BYTES)
<1>1. /\ u \in Unit /\ u = outgoing[1] /\ Len(outgoing) \in Nat \ {0}
      /\ outgoing' \in Seq(Unit) /\ Len(outgoing') = Len(outgoing) - 1
  BY ReadRest DEF CrcInv, BinaryPacket
<1>2. packet \in Seq(Unit) /\ n = Len(binary_buffer) + 1 /\ n \in Nat /\ packet[n] = u
  BY <1>1 DEF CrcInv, TypeOK
<1>3. /\ bytes \in Seq(Byte) /\ Len(bytes) = n
      /\ \A i \in 1 .. n : bytes[i] = packet[i].byte
  BY <1>2, BytesOfUnits
<1>4. bytes[2] = HEADER_2 /\ packet[n].covers = front
  BY Zenon DEF HandleBinaryPacket
<1>5. n >= 6
  <2>1. Complete(packet) /\ ~PayloadImpossible(packet)
    BY DEF BinaryPacket
  <2> HIDE DEF bytes, front, packet
  <2>2. n >= 5
    BY <2>1 DEF Complete, BINARY_MODE_HEADER_SIZE_BYTES
  <2>3. packet[2].byte = HEADER_2
    BY <1>2, <1>3, <1>4, <2>2
  <2> QED
    BY <1>2, <2>1, <2>3 DEF PayloadImpossible, BINARY_MODE_HEADER_SIZE_BYTES,
                            BINARY_MODE_CRC_32_SIZE_BYTES
<1>6. front # << >>
  <2> DEFINE k == Len(bytes) - BINARY_MODE_CRC_32_SIZE_BYTES
  <2>1. k = n - 1 /\ k \in Nat /\ k >= 5
    BY <1>2, <1>3, <1>5 DEF BINARY_MODE_CRC_32_SIZE_BYTES
  <2>2. \A i \in 1 .. k : bytes[i] \in Byte
    BY <1>3, <2>1, LenProperties
  <2> HIDE DEF k, bytes, packet
  <2>3. Len(SubSeq(bytes, 1, k)) = k
    BY <2>1, <2>2, SubSeqProperties
  <2>4. SubSeq(bytes, 1, k) # << >>
    <3>1. Len(<< >>) = 0 /\ k # 0
      BY <2>1
    <3> QED
      BY <2>3, <3>1, Zenon
  <2> QED
    BY <2>4 DEF k
<1> HIDE DEF front, bytes, packet
<1>7. outgoing[1].covers # << >>
  BY <1>1, <1>2, <1>4, <1>6
<1>8. /\ Len(outgoing) = 1 /\ message.kind = "packet" /\ outgoing[1].covers = Front(message)
  BY <1>1, <1>7 DEF CrcInv, ChecksumLast
<1>9. message \in PacketMsg
  BY <1>8, MessageKinds DEF CrcInv, TypeOK
<1>10. front = Front(message) /\ packet[n].covers = Front(message)
  BY <1>1, <1>2, <1>4, <1>8
<1>11. HandleBinaryPacket(packet) = Answer(message.type, message.id, message.payload)
  <2>1. SubSeq(BytesOf(packet), 1, Len(BytesOf(packet)) - BINARY_MODE_CRC_32_SIZE_BYTES)
          = Front(message)
    BY <1>10 DEF front, bytes
  <2>2. n \in Nat \ {0}
    BY <1>2, <1>5
  <2> QED
    BY <1>2, <1>9, <1>10, <2>1, <2>2, PacketAnswer
<1>12. outgoing' = << >>
  BY <1>1, <1>8, EmptySeq
<1> QED
  BY <1>8, <1>9, <1>11, <1>12 DEF packet

LEMMA PacketCrc ==
  ASSUME CrcInv, TypeOK', NEW u, BinaryPacket(u)
  PROVE  ChecksumLast' /\ NoneYet' /\ CrcProtects'
<1> DEFINE a == HandleBinaryPacket(Append(binary_buffer, u))
<1>1. /\ Read(u) /\ answers' = answers \o a /\ answers \in Seq(AnswerType)
      /\ answers' \in Seq(AnswerType)
  BY DEF BinaryPacket, CrcInv, TypeOK
<1>2. \A i \in 1 .. Len(answers) : ~Ran(answers[i])
  BY <1>1 DEF CrcInv, NoneYet, Read
<1> HIDE DEF a
<1>3. CASE a = << >>
  <2>1. answers' = answers
    BY <1>1, <1>3, ConcatEmptySeq
  <2> QED
    BY <1>1, <1>2, <2>1, ReadWithoutRun
<1>4. CASE a # << >>
  <2>1. /\ message \in PacketMsg /\ message.kind = "packet" /\ outgoing' = << >>
        /\ a = Answer(message.type, message.id, message.payload)
    BY <1>4, AnsweredPacket DEF a
  <2>2. PICK r : a = <<r>>
    BY <1>4, <2>1 DEF Answer
  <2>3. /\ Len(answers) \in Nat /\ Len(answers') = Len(answers) + 1
        /\ DOMAIN answers' = 1 .. Len(answers) + 1
        /\ answers'[Len(answers) + 1] = r
        /\ \A i \in 1 .. Len(answers) : answers'[i] = answers[i]
    <3>1. Append(answers, r) = answers \o <<r>>
      BY <1>1
    <3>2. answers' = Append(answers, r)
      BY <1>1, <2>2, <3>1
    <3> QED
      BY <1>1, <3>2, LenProperties
  <2>4. message' = message /\ r = Answer(message.type, message.id, message.payload)[1]
    BY <1>1, <2>1, <2>2 DEF Read
  <2>5. \A i \in DOMAIN answers' : Ran(answers'[i]) => i = Len(answers) + 1
    BY <1>2, <2>3
  <2>6. CrcProtects'
    <3> SUFFICES ASSUME NEW i \in DOMAIN answers', Ran(answers'[i])
                 PROVE  /\ message'.kind = "packet"
                        /\ answers'[i] \in {Answer(message'.type, message'.id,
                                                   message'.payload)[1]}
                        /\ \A j \in DOMAIN answers' : Ran(answers'[j]) => i = j
      BY DEF CrcProtects, Ran, Answer, Status
    <3>1. i = Len(answers) + 1
      BY <2>5
    <3> QED
      BY <2>1, <2>3, <2>4, <2>5, <3>1
  <2>7. NoneYet'
    BY <2>1 DEF NoneYet
  <2> QED
    BY <1>1, <2>6, <2>7, ReadChecksum
<1> QED
  BY <1>3, <1>4

LEMMA LineRunsText ==
  ASSUME NEW line
  PROVE  \A i \in 1 .. Len(HandleCmd(line)) : ~Ran(HandleCmd(line)[i])
<1>1. \A w : ~Ran([word |-> w])
  BY DEF Ran
<1>2. HandleCmd(line) = << >> \/ HandleCmd(line) = <<[word |-> line[1]]>>
  BY DEF HandleCmd
<1> QED
  BY <1>1, <1>2

LEMMA TextCrc ==
  ASSUME CrcInv, TypeOK', NEW u, TextEnter(u)
  PROVE  ChecksumLast' /\ NoneYet' /\ CrcProtects'
<1> DEFINE a == HandleCmd(text_buffer)
<1>1. /\ Read(u) /\ answers' = answers \o a /\ answers \in Seq(AnswerType)
      /\ answers' \in Seq(AnswerType) /\ a \in Seq(AnswerType)
  BY HandleCmdType DEF TextEnter, CrcInv, TypeOK
<1>2. \A i \in 1 .. Len(answers) : ~Ran(answers[i])
  BY <1>1 DEF CrcInv, NoneYet, Read
<1>3. \A i \in 1 .. Len(a) : ~Ran(a[i])
  BY LineRunsText
<1> HIDE DEF a
<1>4. /\ Len(answers') = Len(answers) + Len(a) /\ Len(answers) \in Nat /\ Len(a) \in Nat
      /\ \A i \in 1 .. Len(answers) + Len(a) :
           answers'[i] = IF i <= Len(answers) THEN answers[i] ELSE a[i - Len(answers)]
  BY <1>1, ConcatProperties, LenProperties
<1>5. ASSUME NEW i \in 1 .. Len(answers') PROVE ~Ran(answers'[i])
  <2>1. CASE i <= Len(answers)
    BY <1>2, <1>4, <2>1
  <2>2. CASE ~(i <= Len(answers))
    <3>1. i - Len(answers) \in 1 .. Len(a)
      BY <1>4, <2>2
    <3> QED
      BY <1>3, <1>4, <2>2, <3>1
  <2> QED
    BY <2>1, <2>2
<1> QED
  BY <1>1, <1>5, ReadWithoutRun

\* However the stream is cut and taken up in the wrong place, no binary command
\* runs that was not sent, and none twice: for any messages, any lengths in them and
\* any number of cuts.
THEOREM SpecCrcProtects == Spec => []CrcProtects
<1>1. Init => CrcInv
  <2> SUFFICES ASSUME Init PROVE ChecksumLast /\ NoneYet /\ CrcProtects /\ TypeOK
    BY DEF CrcInv
  <2>1. TypeOK
    BY InitTyped
  <2>2. ChecksumLast
    BY UnitsChecksum DEF Init, ChecksumLast
  <2> QED
    BY <2>1, <2>2 DEF Init, NoneYet, CrcProtects
<1>2. TypeOK' /\ CrcInv /\ [Next]_vars => CrcInv'
  <2> SUFFICES ASSUME TypeOK', CrcInv, [Next]_vars
               PROVE  ChecksumLast' /\ NoneYet' /\ CrcProtects'
    BY DEF CrcInv
  <2>1. ASSUME NEW m \in Messages, Send(m) PROVE ChecksumLast' /\ NoneYet' /\ CrcProtects'
    <3>1. message' = m /\ outgoing' = Units(m) /\ answers' = << >>
      BY <2>1 DEF Send
    <3>2. ChecksumLast'
      BY <3>1, UnitsChecksum DEF ChecksumLast, Front
    <3> QED
      BY <3>1, <3>2 DEF NoneYet, CrcProtects
  <2>2. CASE Cut
    <3>1. outgoing' = << >> /\ message' = message /\ answers' = answers
      BY <2>2 DEF Cut
    <3>2. ChecksumLast' /\ NoneYet'
      BY <3>1 DEF ChecksumLast, NoneYet
    <3> QED
      BY <3>1, <3>2 DEF CrcInv, CrcProtects, Answer, Status
  <2>3. ASSUME NEW u, Read(u), answers' = answers
        PROVE  ChecksumLast' /\ NoneYet' /\ CrcProtects'
    BY <2>3, ReadWithoutRun DEF CrcInv, NoneYet, TypeOK, Read
  <2>4. ASSUME NEW u, BinaryByte(u) \/ BinaryStops(u) \/ TextBackspace(u) \/ TextChar(u)
        PROVE  ChecksumLast' /\ NoneYet' /\ CrcProtects'
    <3>1. Read(u) /\ answers' = answers
      BY <2>4 DEF BinaryByte, BinaryStops, TextBackspace, TextChar
    <3> QED
      BY <2>3, <3>1
  <2>5. CASE UNCHANGED vars
    BY <2>5 DEF vars, CrcInv, ChecksumLast, NoneYet, CrcProtects, Front, Answer, Status
  <2> QED
    BY <2>1, <2>2, <2>4, <2>5, PacketCrc, TextCrc DEF Next, Receive
<1>3. CrcInv => CrcProtects
  BY DEF CrcInv
<1> QED
  BY <1>1, <1>2, <1>3, SpecTypeOK, PTL DEF Spec

-----------------------------------------------------------------------------
(* A message that finds nothing left over is answered once, as it was sent.    *)
(* What was read of it is in a buffer, and together with what is left of it is *)
(* the message: so no HEADER_1 in it starts another packet, and no byte of it  *)
(* can complete the packet but the last.                                       *)

\* There is memory for the packets the host sends.
PacketsFit == \A m \in Messages : m.kind = "packet" => Len(Units(m)) <= Heap

Unread ==
  \/ message.kind = "packet" /\ binary_buffer \o outgoing = Units(message)
  \/ /\ message.kind = "text" /\ binary_buffer = << >>
     /\ PlainAll(text_buffer) \o outgoing = Units(message)

SyncInv ==
  in_sync /\ ~cut =>
    \/ outgoing = << >> /\ answers = Expected(message)
    \/ outgoing # << >> /\ answers = << >> /\ Unread

\* Moving the first of some units to the end of others.
LEMMA MoveOne ==
  ASSUME NEW s \in Seq(Unit), NEW t \in Seq(Unit), t # << >>
  PROVE  /\ Append(s, Head(t)) \in Seq(Unit)
         /\ Append(s, Head(t)) \o Tail(t) = s \o t
<1> DEFINE a == Append(s, Head(t))
           r == Tail(t)
<1>1. /\ Head(t) \in Unit /\ Head(t) = t[1] /\ r \in Seq(Unit) /\ Len(r) = Len(t) - 1
      /\ \A i \in 1 .. Len(r) : r[i] = t[i + 1]
  BY HeadTailProperties
<1>2. Len(s) \in Nat /\ Len(t) \in Nat \ {0}
  BY LenProperties, EmptySeq
<1>3. /\ a \in Seq(Unit) /\ Len(a) = Len(s) + 1 /\ a[Len(s) + 1] = t[1]
      /\ \A i \in 1 .. Len(s) : a[i] = s[i]
  BY <1>1, AppendProperties
<1> HIDE DEF a, r
<1>4. /\ a \o r \in Seq(Unit) /\ Len(a \o r) = Len(a) + Len(r)
      /\ \A i \in 1 .. Len(a) + Len(r) :
           (a \o r)[i] = IF i <= Len(a) THEN a[i] ELSE r[i - Len(a)]
  BY <1>1, <1>3, ConcatProperties, Zenon
<1>5. /\ s \o t \in Seq(Unit) /\ Len(s \o t) = Len(s) + Len(t)
      /\ \A i \in 1 .. Len(s) + Len(t) :
           (s \o t)[i] = IF i <= Len(s) THEN s[i] ELSE t[i - Len(s)]
  BY ConcatProperties, Zenon
<1>6. Len(a) + Len(r) = Len(s) + Len(t)
  BY <1>1, <1>2, <1>3
<1>7. ASSUME NEW i \in 1 .. Len(a) + Len(r) PROVE (a \o r)[i] = (s \o t)[i]
  <2>1. CASE i <= Len(s)
    BY <1>2, <1>3, <1>4, <1>5, <1>6, <2>1
  <2>2. CASE i = Len(s) + 1
    BY <1>2, <1>3, <1>4, <1>5, <1>6, <2>2
  <2>3. CASE i > Len(s) + 1
    <3>1. i - Len(a) \in 1 .. Len(r) /\ i - Len(a) + 1 = i - Len(s) /\ ~(i <= Len(a))
      BY <1>1, <1>2, <1>3, <1>6, <2>3
    <3>2. (a \o r)[i] = r[i - Len(a)] /\ r[i - Len(a)] = t[i - Len(s)]
      BY <1>1, <1>4, <3>1
    <3>3. (s \o t)[i] = t[i - Len(s)]
      BY <1>2, <1>5, <1>6, <2>3
    <3> QED
      BY <3>2, <3>3
  <2> QED
    BY <1>1, <1>2, <1>3, <2>1, <2>2, <2>3
<1>8. a \o r = s \o t
  BY <1>4, <1>5, <1>6, <1>7, SeqEqual
<1> QED
  BY <1>3, <1>8 DEF a, r

LEMMA NothingBefore ==
  PlainAll(<< >>) = << >> /\ \A s \in Seq(Unit) : << >> \o s = s
<1>1. << >> \in Seq(Byte) /\ Len(<< >>) = 0
  OBVIOUS
<1>2. PlainAll(<< >>) \in Seq(Unit) /\ Len(PlainAll(<< >>)) = 0
  BY <1>1, PlainUnits, PlainAllType
<1> QED
  BY <1>2, EmptySeq, ConcatEmptySeq

\* What is read of a packet: it goes to the packet's buffer, which is complete with
\* the packet's last unit and no other.
LEMMA PacketRead ==
  ASSUME PacketsFit, TypeOK, PacketCanEnd, NEW u, Read(u),
         message.kind = "packet", binary_buffer \o outgoing = Units(message)
  PROVE  LET buffer == Append(binary_buffer, u) IN
         /\ ToBinary(u) /\ buffer \in Seq(Unit) /\ buffer \o outgoing' = Units(message)
         /\ Len(buffer) <= Heap
         /\ Complete(buffer) <=> outgoing' = << >>
         /\ Complete(buffer) => ~PayloadImpossible(buffer)
<1> DEFINE buffer == Append(binary_buffer, u)
           units == Units(message)
<1>1. /\ u = Head(outgoing) /\ outgoing' = Tail(outgoing) /\ outgoing # << >>
      /\ outgoing \in Seq(Unit) /\ binary_buffer \in Seq(Unit)
  BY DEF Read, TypeOK
<1>2. buffer \in Seq(Unit) /\ buffer \o outgoing' = units
  BY <1>1, MoveOne
<1>3. outgoing' \in Seq(Unit) /\ Len(outgoing') \in Nat /\ Len(buffer) \in Nat \ {0}
  <2>1. outgoing' \in Seq(Unit)
    BY ReadRest
  <2>2. Len(buffer) = Len(binary_buffer) + 1
    BY <1>1, HeadTailProperties, AppendProperties
  <2> QED
    BY <1>1, <2>1, <2>2, LenProperties
<1>4. message \in Messages /\ message \in PacketMsg
  BY MessageKinds DEF TypeOK
<1>5. /\ units \in Seq(Unit) /\ Len(units) = 6 + Len(message.payload)
      /\ Len(message.payload) \in Nat /\ Len(units) <= Heap
      /\ units[1].byte = HEADER_1 /\ units[5].byte = Len(message.payload)
  <2>1. /\ Len(Front(message)) = 5 + Len(message.payload) /\ Len(message.payload) \in Nat
        /\ Front(message)[1] = HEADER_1 /\ Front(message)[5] = Len(message.payload)
    BY <1>4, FrontBytes DEF BINARY_MODE_HEADER_SIZE_BYTES
  <2>2. /\ units \in Seq(Unit) /\ Len(units) = Len(Front(message)) + 1
        /\ \A i \in 1 .. Len(Front(message)) : units[i] = Plain(Front(message)[i])
    BY <1>4, PacketUnits
  <2>3. units[1] = Plain(HEADER_1) /\ units[5] = Plain(Len(message.payload))
    BY <2>1, <2>2
  <2>4. Len(units) <= Heap
    BY <1>4 DEF PacketsFit
  <2> HIDE DEF units
  <2> QED
    BY <2>1, <2>2, <2>3, <2>4 DEF Plain
<1> HIDE DEF buffer, units
<1>6. /\ Len(units) = Len(buffer) + Len(outgoing')
      /\ \A i \in 1 .. Len(buffer) : units[i] = buffer[i]
  <2>1. /\ Len(buffer \o outgoing') = Len(buffer) + Len(outgoing')
        /\ \A i \in 1 .. Len(buffer) + Len(outgoing') : (buffer \o outgoing')[i]
             = IF i <= Len(buffer) THEN buffer[i] ELSE outgoing'[i - Len(buffer)]
    BY <1>2, <1>3, ConcatProperties, Zenon
  <2> QED
    BY <1>2, <1>3, <2>1
<1>7. outgoing' = << >> <=> Len(buffer) = Len(units)
  BY <1>3, <1>6, EmptySeq
<1>8. Complete(buffer) <=> Len(buffer) = Len(units)
  <2>1. CASE Len(buffer) < 5
    BY <1>3, <1>5, <2>1 DEF Complete, BINARY_MODE_HEADER_SIZE_BYTES
  <2>2. CASE Len(buffer) >= 5
    <3>1. buffer[5].byte = Len(message.payload)
      BY <1>3, <1>5, <1>6, <2>2
    <3>2. AnnouncedSize(buffer) = Len(units)
      BY <1>5, <3>1 DEF AnnouncedSize, BINARY_MODE_HEADER_SIZE_BYTES,
                        BINARY_MODE_CRC_32_SIZE_BYTES
    <3>3. Len(units) % SizeModulus = Len(units)
      <4>1. Len(units) \in Nat /\ SizeModulus \in Nat /\ Len(units) < SizeModulus
        BY <1>5, TerminalConstants
      <4> QED
        BY <4>1, NoWrap
    <3> QED
      BY <2>2, <3>2, <3>3 DEF Complete, FullPacketSize, BINARY_MODE_HEADER_SIZE_BYTES
  <2> QED
    BY <1>3, <2>1, <2>2
<1>9. ToBinary(u)
  <2>1. CASE binary_buffer # << >>
    BY <2>1 DEF PacketCanEnd, ToBinary
  <2>2. CASE binary_buffer = << >>
    <3>1. buffer[1] = u
      BY <1>1, <2>2, ReadRest DEF buffer
    <3>2. u.byte = HEADER_1
      BY <1>3, <1>5, <1>6, <3>1
    <3> QED
      BY <2>2, <3>2 DEF ToBinary
  <2> QED
    BY <2>1, <2>2
<1>10. Len(buffer) <= Heap
  BY <1>3, <1>5, <1>6, TerminalConstants
<1>11. Complete(buffer) => ~PayloadImpossible(buffer)
  BY <1>5, <1>8 DEF PayloadImpossible, BINARY_MODE_HEADER_SIZE_BYTES,
                    BINARY_MODE_CRC_32_SIZE_BYTES
<1> QED
  BY <1>2, <1>7, <1>8, <1>9, <1>10, <1>11 DEF buffer, units

\* A packet that arrived whole is answered.
LEMMA WholePacketAnswer ==
  ASSUME NEW m \in PacketMsg
  PROVE  HandleBinaryPacket(Units(m)) = Answer(m.type, m.id, m.payload)
<1> DEFINE packet == Units(m)
           front == Front(m)
           bytes == BytesOf(packet)
<1>1. /\ front \in Seq(Byte) /\ Len(front) \in Nat /\ packet \in Seq(Unit)
      /\ Len(packet) = Len(front) + 1
      /\ \A i \in 1 .. Len(front) : packet[i] = Plain(front[i])
      /\ packet[Len(front) + 1] = [byte |-> CrcByte, covers |-> front]
  BY FrontBytes, PacketUnits, LenProperties
<1>2. packet[Len(packet)].covers = front
  BY <1>1
<1>3. /\ bytes \in Seq(Byte) /\ Len(bytes) = Len(front) + 1
      /\ \A i \in 1 .. Len(front) + 1 : bytes[i] = packet[i].byte
  BY <1>1, BytesOfUnits
<1> HIDE DEF packet, front, bytes
<1>4. \A i \in 1 .. Len(front) : bytes[i] = front[i]
  <2>1. \A b : Plain(b).byte = b
    BY DEF Plain
  <2> SUFFICES ASSUME NEW i \in 1 .. Len(front) PROVE bytes[i] = front[i]
    OBVIOUS
  <2>2. i \in 1 .. Len(front) + 1
    BY <1>1, LenProperties
  <2>3. bytes[i] = packet[i].byte
    BY <1>3, <2>2
  <2>4. packet[i] = Plain(front[i])
    BY <1>1
  <2> QED
    BY <2>1, <2>3, <2>4
<1>5. SubSeq(bytes, 1, Len(front)) = front
  <2>1. \A i \in 1 .. Len(front) : bytes[i] \in Byte
    BY <1>1, <1>3, LenProperties
  <2>2. /\ SubSeq(bytes, 1, Len(front)) \in Seq(Byte)
        /\ Len(SubSeq(bytes, 1, Len(front))) = Len(front)
        /\ \A i \in 1 .. Len(front) : SubSeq(bytes, 1, Len(front))[i] = bytes[i]
    BY <1>1, <2>1, SubSeqProperties
  <2> QED
    BY <1>1, <1>4, <2>2, SeqEqual
<1>6. Len(bytes) - BINARY_MODE_CRC_32_SIZE_BYTES = Len(front)
  BY <1>1, <1>3 DEF BINARY_MODE_CRC_32_SIZE_BYTES
<1>7. Len(packet) \in Nat \ {0}
  BY <1>1
<1>8. SubSeq(BytesOf(packet), 1, Len(BytesOf(packet)) - BINARY_MODE_CRC_32_SIZE_BYTES) = Front(m)
  BY <1>5, <1>6 DEF bytes, front
<1>9. packet[Len(packet)].covers = Front(m)
  BY <1>2 DEF front
<1>10. HandleBinaryPacket(packet) = Answer(m.type, m.id, m.payload)
  BY <1>1, <1>7, <1>8, <1>9, PacketAnswer
<1> QED
  BY <1>10 DEF packet

\* What is read of a text command: a printable byte of the line, then the enter.
LEMMA TextRead ==
  ASSUME TypeOK, PacketCanEnd, NEW u, Read(u), message.kind = "text", binary_buffer = << >>,
         PlainAll(text_buffer) \o outgoing = Units(message)
  PROVE  /\ message \in TextMsg /\ ~ToBinary(u)
         /\ \/ /\ text_buffer = << >> /\ u = Plain(message.word) /\ outgoing' # << >>
               /\ u.byte \in Printable /\ u.byte \notin {ENTER, BACKSPACE}
            \/ /\ text_buffer = <<message.word>> /\ u = Plain(ENTER) /\ outgoing' = << >>
               /\ u.byte = ENTER
<1> DEFINE line == PlainAll(text_buffer)
           units == Units(message)
<1>1. message \in TextMsg
  BY MessageKinds DEF TypeOK
<1>2. /\ message.word \in Printable /\ message.word \in Byte
      /\ message.word \notin {HEADER_1, ENTER, BACKSPACE}
      /\ ENTER \in Byte /\ ENTER \notin {HEADER_1, BACKSPACE}
  BY <1>1, TerminalConstants DEF TextMsg
<1>3. /\ units \in Seq(Unit) /\ Len(units) = 2
      /\ units[1] = Plain(message.word) /\ units[2] = Plain(ENTER)
  BY <1>1, TextUnits
<1>4. /\ text_buffer \in Seq(Byte) /\ Len(text_buffer) \in Nat
      /\ line \in Seq(Unit) /\ Len(line) = Len(text_buffer)
      /\ \A i \in 1 .. Len(text_buffer) : line[i] = Plain(text_buffer[i])
  <2>1. text_buffer \in Seq(Byte)
    <3>1. Printable \subseteq Byte
      BY TerminalConstants
    <3> QED
      BY <3>1, SeqMonotonic DEF TypeOK
  <2> QED
    BY <2>1, PlainUnits, PlainAllType, LenProperties
<1>5. /\ outgoing \in Seq(Unit) /\ u = outgoing[1] /\ Len(outgoing) \in Nat \ {0}
      /\ outgoing' \in Seq(Unit) /\ Len(outgoing') = Len(outgoing) - 1
  BY ReadRest DEF TypeOK
<1> HIDE DEF line, units
<1>6. /\ Len(line) + Len(outgoing) = 2
      /\ \A i \in 1 .. 2 : units[i] = IF i <= Len(line) THEN line[i] ELSE outgoing[i - Len(line)]
  <2>1. line \o outgoing = units
    BY DEF line, units
  <2>2. /\ Len(line \o outgoing) = Len(line) + Len(outgoing)
        /\ \A i \in 1 .. Len(line) + Len(outgoing) : (line \o outgoing)[i]
             = IF i <= Len(line) THEN line[i] ELSE outgoing[i - Len(line)]
    BY <1>4, <1>5, ConcatProperties, Zenon
  <2>3. Len(line) + Len(outgoing) = 2
    BY <1>3, <2>1, <2>2
  <2> QED
    BY <2>1, <2>2, <2>3
<1>7. ~binary_mode
  BY DEF PacketCanEnd
<1>8. Plain(message.word).byte = message.word /\ Plain(ENTER).byte = ENTER
  BY DEF Plain
<1>9. CASE Len(text_buffer) = 0
  <2>1. text_buffer = << >> /\ Len(outgoing) = 2
    <3>1. \A seq \in Seq(Byte) : seq # << >> => Len(seq) # 0
      BY EmptySeq
    <3>2. text_buffer = << >>
      BY <1>4, <1>9, <3>1, Zenon
    <3>3. Len(line) = 0 /\ Len(line) + Len(outgoing) = 2 /\ Len(outgoing) \in Nat
      <4>1. Len(line) = Len(text_buffer)
        BY <1>4
      <4>2. Len(line) + Len(outgoing) = 2
        BY <1>6
      <4> QED
        BY <1>5, <1>9, <4>1, <4>2
    <3>4. Len(outgoing) = 2
      BY <3>3
    <3> QED
      BY <3>2, <3>4
  <2>2. u = Plain(message.word)
    BY <1>3, <1>4, <1>5, <1>6, <1>9
  <2>3. outgoing' # << >>
    BY <1>5, <2>1
  <2> QED
    BY <1>1, <1>2, <1>7, <1>8, <2>1, <2>2, <2>3 DEF ToBinary
<1>10. CASE Len(text_buffer) # 0
  <2>1. Len(text_buffer) = 1 /\ Len(outgoing) = 1
    BY <1>4, <1>5, <1>6, <1>10
  <2>2. u = Plain(ENTER)
    BY <1>3, <1>4, <1>5, <1>6, <2>1
  <2>3. text_buffer = <<message.word>>
    <3>1. Plain(text_buffer[1]) = Plain(message.word)
      BY <1>3, <1>4, <1>6, <2>1
    <3>2. text_buffer[1] = message.word
      BY <3>1 DEF Plain
    <3>3. /\ <<message.word>> \in Seq(Byte) /\ Len(<<message.word>>) = 1
          /\ <<message.word>>[1] = message.word
      BY <1>2
    <3> QED
      BY <1>4, <2>1, <3>2, <3>3, SeqEqual
  <2>4. outgoing' = << >>
    BY <1>5, <2>1, EmptySeq
  <2> QED
    BY <1>1, <1>2, <1>7, <1>8, <2>2, <2>3, <2>4 DEF ToBinary
<1> QED
  BY <1>9, <1>10

LEMMA SyncRead ==
  ASSUME PacketsFit, TypeOK, PacketCanEnd, SyncInv, Receive
  PROVE  SyncInv'
<1>1. PICK u : /\ Read(u)
               /\ \/ BinaryByte(u) \/ BinaryPacket(u) \/ BinaryStops(u)
                  \/ TextEnter(u) \/ TextBackspace(u) \/ TextChar(u)
  BY DEF Receive, BinaryByte, BinaryPacket, BinaryStops, TextEnter, TextBackspace, TextChar
<1>2. message' = message /\ in_sync' = in_sync /\ cut' = cut /\ outgoing # << >>
  BY <1>1 DEF Read
<1> SUFFICES ASSUME in_sync, ~cut
             PROVE  \/ outgoing' = << >> /\ answers' = Expected(message)
                    \/ outgoing' # << >> /\ answers' = << >> /\ Unread'
  BY <1>2 DEF SyncInv, Expected, Answer, Status
<1>3. answers = << >> /\ Unread
  BY <1>2 DEF SyncInv
<1>4. CASE message.kind = "packet" /\ binary_buffer \o outgoing = Units(message)
  <2> DEFINE buffer == Append(binary_buffer, u)
  <2>1. /\ ToBinary(u) /\ buffer \in Seq(Unit) /\ buffer \o outgoing' = Units(message)
        /\ Len(buffer) <= Heap
        /\ Complete(buffer) <=> outgoing' = << >>
        /\ Complete(buffer) => ~PayloadImpossible(buffer)
    BY <1>1, <1>4, PacketRead
  <2>2. ~(Len(buffer) > Heap)
    BY <2>1, LenProperties, TerminalConstants
  <2>3. BinaryByte(u) \/ BinaryPacket(u)
    BY <1>1, <2>1, <2>2 DEF BinaryStops, TextEnter, TextBackspace, TextChar
  <2>4. CASE BinaryByte(u)
    <3>1. binary_buffer' = buffer /\ answers' = answers /\ ~Complete(buffer)
      BY <2>4 DEF BinaryByte
    <3>2. binary_buffer' \o outgoing' = Units(message')
      BY <1>2, <2>1, <3>1
    <3> HIDE DEF buffer
    <3>3. Unread'
      BY <1>2, <1>4, <3>2 DEF Unread, Units, Front
    <3> QED
      BY <1>3, <2>1, <3>1, <3>3
  <2>5. CASE BinaryPacket(u)
    <3>1. Complete(buffer) /\ answers' = answers \o HandleBinaryPacket(buffer)
      BY <2>5 DEF BinaryPacket
    <3>2. message \in PacketMsg
      BY <1>4, MessageKinds DEF TypeOK
    <3>3. buffer = Units(message)
      BY <2>1, <3>1, ConcatEmptySeq
    <3>4. HandleBinaryPacket(buffer) = Expected(message)
      BY <1>4, <3>2, <3>3, WholePacketAnswer DEF Expected
    <3>5. Expected(message) \in Seq(AnswerType)
      BY <2>1, <2>5, <3>4, HandleBinaryPacketType DEF BinaryPacket
    <3> HIDE DEF buffer
    <3>6. answers' = Expected(message)
      BY <1>3, <3>1, <3>4, <3>5, ConcatEmptySeq
    <3> QED
      BY <2>1, <3>1, <3>6
  <2> QED
    BY <2>3, <2>4, <2>5
<1>5. CASE message.kind = "text" /\ binary_buffer = << >>
           /\ PlainAll(text_buffer) \o outgoing = Units(message)
  <2>1. /\ message \in TextMsg /\ ~ToBinary(u)
        /\ \/ /\ text_buffer = << >> /\ u = Plain(message.word) /\ outgoing' # << >>
              /\ u.byte \in Printable /\ u.byte \notin {ENTER, BACKSPACE}
           \/ /\ text_buffer = <<message.word>> /\ u = Plain(ENTER) /\ outgoing' = << >>
              /\ u.byte = ENTER
    BY <1>1, <1>5, TextRead
  <2>2. CASE /\ text_buffer = << >> /\ u = Plain(message.word) /\ outgoing' # << >>
             /\ u.byte \in Printable /\ u.byte \notin {ENTER, BACKSPACE}
    <3>1. TextChar(u)
      BY <1>1, <2>1, <2>2 DEF BinaryByte, BinaryPacket, BinaryStops, TextEnter, TextBackspace
    <3>2. u.byte = message.word /\ Len(text_buffer) < MaxChars
      BY <2>2, TerminalConstants DEF Plain
    <3>3. /\ text_buffer' = <<message.word>> /\ binary_buffer' = << >> /\ answers' = << >>
      BY <1>3, <1>5, <2>2, <3>1, <3>2 DEF TextChar
    <3>4. PlainAll(text_buffer') \o outgoing' = Units(message')
      <4>1. message.word \in Byte /\ ENTER \in Byte
        BY <2>1, TerminalConstants DEF TextMsg
      <4>2. outgoing \in Seq(Unit) /\ outgoing # << >> /\ u = Head(outgoing)
            /\ outgoing' = Tail(outgoing)
        BY <1>1 DEF Read, TypeOK
      <4>3. PlainAll(text_buffer') = Append(<< >>, u)
        <5>1. <<message.word>> \in Seq(Byte) /\ Len(<<message.word>>) = 1
          BY <4>1
        <5>2. /\ PlainAll(text_buffer') \in Seq(Unit) /\ Len(PlainAll(text_buffer')) = 1
              /\ PlainAll(text_buffer')[1] = u
          <6> DEFINE w == <<message.word>>
          <6>1. w[1] = message.word
            OBVIOUS
          <6>2. text_buffer' = w /\ w \in Seq(Byte) /\ Len(w) = 1
            BY <3>3, <5>1
          <6> HIDE DEF w
          <6>3. /\ PlainAll(w) \in Seq(Unit) /\ Len(PlainAll(w)) = Len(w)
                /\ \A i \in 1 .. Len(w) : PlainAll(w)[i] = Plain(w[i])
            BY <6>2, PlainUnits, PlainAllType
          <6>4. PlainAll(w)[1] = Plain(message.word)
            BY <6>1, <6>2, <6>3
          <6>5. PlainAll(text_buffer') = PlainAll(w)
            BY <6>2
          <6> QED
            BY <2>2, <6>2, <6>3, <6>4, <6>5
        <5>3. Append(<< >>, u) \in Seq(Unit) /\ Len(Append(<< >>, u)) = 1 /\ Append(<< >>, u)[1] = u
          BY <4>2, HeadTailProperties
        <5> QED
          BY <5>2, <5>3, SeqEqual
      <4>4. << >> \in Seq(Unit) /\ << >> \o outgoing = Units(message)
        <5>1. PlainAll(text_buffer) = << >>
          BY <2>2, NothingBefore
        <5>2. PlainAll(text_buffer) \o outgoing = Units(message)
          BY <1>5
        <5>3. << >> \in Seq(Unit)
          OBVIOUS
        <5> QED
          BY <5>1, <5>2, <5>3
      <4> QED
        BY <1>2, <4>2, <4>3, <4>4, MoveOne
    <3>5. Unread'
      BY <1>2, <1>5, <3>3, <3>4 DEF Unread, Units, PlainAll, Front
    <3> QED
      BY <2>2, <3>3, <3>5
  <2>3. CASE /\ text_buffer = <<message.word>> /\ u = Plain(ENTER) /\ outgoing' = << >>
             /\ u.byte = ENTER
    <3>1. TextEnter(u)
      <4>1. u.byte # BACKSPACE
        BY <2>3, TerminalConstants
      <4> QED
        BY <1>1, <2>1, <2>3, <4>1 DEF BinaryByte, BinaryPacket, BinaryStops, TextBackspace, TextChar
    <3>2. HandleCmd(text_buffer) = <<[word |-> message.word]>>
      <4>1. message.word \in Words /\ Len(text_buffer) = 1 /\ text_buffer[1] = message.word
        BY <2>1, <2>3 DEF TextMsg
      <4> QED
        BY <4>1 DEF HandleCmd
    <3>3. Expected(message) = <<[word |-> message.word]>>
      BY <1>5 DEF Expected
    <3>4. answers' = << >> \o Expected(message) /\ Expected(message) \in Seq(AnswerType)
      BY <1>3, <3>1, <3>2, <3>3, HandleCmdType DEF TextEnter
    <3> QED
      BY <2>3, <3>4, ConcatEmptySeq
  <2> QED
    BY <2>1, <2>2, <2>3
<1> QED
  BY <1>3, <1>4, <1>5 DEF Unread

LEMMA SpecSyncInv ==
  ASSUME PacketsFit
  PROVE  Spec => []SyncInv
<1>1. ASSUME NEW m \in Messages, m.kind = "text" => text_buffer = << >>, binary_buffer = << >>
      PROVE  /\ Units(m) # << >>
             /\ \/ m.kind = "packet" /\ binary_buffer \o Units(m) = Units(m)
                \/ /\ m.kind = "text" /\ binary_buffer = << >>
                   /\ PlainAll(text_buffer) \o Units(m) = Units(m)
  BY <1>1, UnitsChecksum, NothingBefore, MessageKinds
<1>2. Init => SyncInv
  BY <1>1 DEF Init, SyncInv, Unread
<1>3. TypeOK /\ PacketCanEnd /\ SyncInv /\ [Next]_vars => SyncInv'
  <2> SUFFICES ASSUME TypeOK, PacketCanEnd, SyncInv, [Next]_vars PROVE SyncInv'
    OBVIOUS
  <2>1. ASSUME NEW m \in Messages, Send(m) PROVE SyncInv'
    <3> SUFFICES ASSUME in_sync' PROVE outgoing' # << >> /\ answers' = << >> /\ Unread'
      BY DEF SyncInv
    <3>1. /\ message' = m /\ outgoing' = Units(m) /\ answers' = << >>
          /\ binary_buffer' = binary_buffer /\ text_buffer' = text_buffer
          /\ binary_buffer = << >> /\ (m.kind = "text" => text_buffer = << >>)
      BY <2>1 DEF Send
    <3> QED
      BY <1>1, <3>1 DEF Unread, Units, PlainAll, Front
  <2>2. CASE Cut
    BY <2>2 DEF Cut, SyncInv
  <2>3. CASE Receive
    BY <2>3, SyncRead
  <2>4. CASE UNCHANGED vars
    BY <2>4 DEF vars, SyncInv, Unread, Units, PlainAll, Front, Expected, Answer, Status
  <2> QED
    BY <2>1, <2>2, <2>3, <2>4 DEF Next
<1> QED
  BY <1>2, <1>3, SpecTypeOK, SpecPacketCanEnd, PTL DEF Spec

\* A message that finds nothing left over is answered once, as it was sent, whatever
\* its bytes would mean in the other mode, if the memory holds the packets sent.
THEOREM SpecInSyncAnswered ==
  ASSUME PacketsFit
  PROVE  Spec => []InSyncAnswered
<1>1. SyncInv => InSyncAnswered
  BY DEF SyncInv, InSyncAnswered
<1> QED
  BY <1>1, SpecSyncInv, PTL

-----------------------------------------------------------------------------
(* The safety half of EventuallyInSync: what is in sync remains so.  Between   *)
(* two messages nothing is left over, and a message that began so leaves       *)
(* nothing over; only a host that is stopped in the middle of one ends that.   *)

Calm ==
  IF outgoing = << >> THEN binary_buffer = << >> /\ text_buffer = << >>
  ELSE in_sync /\ ~cut /\ Unread /\ (message.kind = "packet" => text_buffer = << >>)

LEMMA CalmRead ==
  ASSUME PacketsFit, TypeOK, PacketCanEnd, SyncInv, Calm, Receive
  PROVE  Calm'
<1>1. PICK u : /\ Read(u)
               /\ \/ BinaryByte(u) \/ BinaryPacket(u) \/ BinaryStops(u)
                  \/ TextEnter(u) \/ TextBackspace(u) \/ TextChar(u)
  BY DEF Receive, BinaryByte, BinaryPacket, BinaryStops, TextEnter, TextBackspace, TextChar
<1>2. message' = message /\ in_sync' = in_sync /\ cut' = cut /\ outgoing # << >>
  BY <1>1 DEF Read
<1>3. /\ in_sync /\ ~cut /\ Unread /\ (message.kind = "packet" => text_buffer = << >>)
  BY <1>2 DEF Calm
<1>4. outgoing' # << >> => Unread'
  BY <1>2, <1>3, SyncRead DEF SyncInv
<1>5. CASE message.kind = "packet" /\ binary_buffer \o outgoing = Units(message)
  <2> DEFINE buffer == Append(binary_buffer, u)
  <2>1. /\ ToBinary(u) /\ buffer \in Seq(Unit) /\ Len(buffer) <= Heap
        /\ Complete(buffer) <=> outgoing' = << >>
        /\ Complete(buffer) => ~PayloadImpossible(buffer)
    BY <1>1, <1>5, PacketRead
  <2>2. ~(Len(buffer) > Heap)
    BY <2>1, LenProperties, TerminalConstants
  <2>3. BinaryByte(u) \/ BinaryPacket(u)
    BY <1>1, <2>1, <2>2 DEF BinaryStops, TextEnter, TextBackspace, TextChar
  <2>4. text_buffer' = << >>
    BY <1>3, <1>5, <2>3 DEF BinaryByte, BinaryPacket
  <2>5. outgoing' = << >> => binary_buffer' = << >>
    BY <2>1, <2>3 DEF BinaryByte, BinaryPacket
  <2> QED
    BY <1>2, <1>3, <1>4, <2>4, <2>5 DEF Calm
<1>6. CASE message.kind = "text" /\ binary_buffer = << >>
           /\ PlainAll(text_buffer) \o outgoing = Units(message)
  <2>1. ~ToBinary(u) /\ (outgoing' = << >> => u.byte = ENTER)
    BY <1>1, <1>6, TextRead
  <2>2. binary_buffer' = << >>
    BY <1>1, <1>6, <2>1 DEF BinaryByte, BinaryPacket, BinaryStops, TextEnter, TextBackspace, TextChar
  <2>3. outgoing' = << >> => text_buffer' = << >>
    <3>1. ENTER # BACKSPACE
      BY TerminalConstants
    <3> QED
      BY <1>1, <2>1, <3>1
         DEF BinaryByte, BinaryPacket, BinaryStops, TextEnter, TextBackspace, TextChar
  <2>4. message'.kind # "packet"
    BY <1>2, <1>6
  <2> QED
    BY <1>2, <1>3, <1>4, <2>2, <2>3, <2>4 DEF Calm
<1> QED
  BY <1>3, <1>5, <1>6 DEF Unread

LEMMA CalmStep ==
  ASSUME PacketsFit, TypeOK, PacketCanEnd, SyncInv, SyncInv', Calm, [Next]_vars, [~Cut]_vars
  PROVE  Calm'
<1>1. ASSUME NEW m \in Messages, Send(m) PROVE Calm'
  <2>1. /\ message' = m /\ outgoing' = Units(m) /\ cut' = FALSE
        /\ binary_buffer' = binary_buffer /\ text_buffer' = text_buffer
        /\ binary_buffer = << >> /\ text_buffer = << >> /\ in_sync'
    BY <1>1 DEF Send, Calm
  <2>2. outgoing' # << >>
    BY <2>1, UnitsChecksum
  <2>3. Unread'
    BY <2>1, <2>2 DEF SyncInv
  <2> QED
    BY <2>1, <2>2, <2>3 DEF Calm
<1>2. CASE Receive
  BY <1>2, CalmRead
<1>3. CASE UNCHANGED vars
  BY <1>3 DEF vars, Calm, Unread, Units, PlainAll, Front
<1> QED
  BY <1>1, <1>2, <1>3 DEF Next

\* Once nothing is left over between two messages, nothing is left over after any
\* later one, and no HEADER_1 in a text or payload starts a packet of its own:
\* only a host that is stopped in the middle of a message gets the terminal out of step.
THEOREM SpecStaysInSync ==
  ASSUME PacketsFit
  PROVE  Spec => [](Calm /\ [][~Cut]_vars => []Calm)
<1> QED
  BY CalmStep, SpecTypeOK, SpecPacketCanEnd, SpecSyncInv, PTL DEF Spec

\* The command of the message ran, once and as it was sent, if all of it was read,
\* and nothing ran before.
Exact == answers = IF outgoing = << >> THEN Expected(message) ELSE << >>

\* A host that is never stopped in the middle of a message has each of its messages
\* run its command, once and as it was sent, from power-up on.
THEOREM SpecUncutAnswered ==
  ASSUME PacketsFit
  PROVE  Spec /\ [][~Cut]_vars => []Exact
<1>1. Init => Calm /\ in_sync /\ ~cut
  <2> SUFFICES ASSUME Init PROVE Calm /\ in_sync /\ ~cut
    OBVIOUS
  <2>1. message \in Messages /\ outgoing = Units(message) /\ outgoing # << >>
    BY UnitsChecksum DEF Init
  <2>2. binary_buffer = << >> /\ text_buffer = << >> /\ in_sync /\ ~cut
    BY DEF Init
  <2>3. Unread
    BY <2>1, <2>2, UnitsChecksum, NothingBefore, MessageKinds DEF Unread
  <2> QED
    BY <2>1, <2>2, <2>3 DEF Calm
<1>2. Calm /\ in_sync /\ ~cut /\ [Next]_vars /\ [~Cut]_vars => in_sync' /\ ~cut'
  <2> SUFFICES ASSUME Calm, in_sync, ~cut, [Next]_vars, [~Cut]_vars PROVE in_sync' /\ ~cut'
    OBVIOUS
  <2>1. ASSUME NEW m \in Messages, Send(m) PROVE in_sync' /\ ~cut'
    <3>1. /\ outgoing = << >> /\ cut' = FALSE
          /\ in_sync' = (binary_buffer = << >> /\ (m.kind = "text" => text_buffer = << >>))
      BY <2>1 DEF Send
    <3>2. binary_buffer = << >> /\ text_buffer = << >>
      BY <3>1 DEF Calm
    <3> QED
      BY <3>1, <3>2
  <2>2. CASE Receive
    <3>1. \E u : Read(u)
      BY <2>2 DEF Receive, BinaryByte, BinaryPacket, BinaryStops, TextEnter, TextBackspace, TextChar
    <3> QED
      BY <3>1 DEF Read
  <2>3. CASE UNCHANGED vars
    BY <2>3 DEF vars
  <2> QED
    BY <2>1, <2>2, <2>3 DEF Next
<1>3. InSyncAnswered /\ in_sync /\ ~cut => Exact
  BY DEF InSyncAnswered, Exact
<1> QED
  BY <1>1, <1>2, <1>3, CalmStep, SpecTypeOK, SpecPacketCanEnd, SpecSyncInv, SpecInSyncAnswered, PTL
     DEF Spec
=============================================================================
