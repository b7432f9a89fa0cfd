------------------------------ MODULE Terminal -------------------------------
(***************************************************************************)
(* firmware/terminal: the bytes of the serial port, one at a time.         *)
(* HEADER_1 in text mode starts a binary packet, whose length field says   *)
(* where it ends; all other bytes edit a command line that enter runs.     *)
(* The host sends whole messages, or is stopped in the middle of one and   *)
(* goes on with another; bytes are neither lost nor reordered.             *)
(* A text command is one printable byte here, the length field one byte.   *)
(***************************************************************************)
EXTENDS Integers, Sequences

CONSTANTS
  HEADER_1, HEADER_2,        \* BINARY_HEADER_1, BINARY_HEADER_2
  ENTER, BACKSPACE,          \* the bytes of is_enter_pressed, is_backspace_pressed
  Printable,                 \* the bytes of isprint
  CrcByte,                   \* how a checksum reads when taken for another byte
  Words,                     \* printable bytes that are commands
  StoppingWords,             \* those that stop the firmware: reset, and a
                             \* number that stoul does not accept
  Commands,                  \* BinaryCommandIDs that are supported
  CommandType,               \* the BinaryCommandType each of them wants
  PayloadSize,               \* and the size of its payload
  GET_TIME_REPORT,           \* the one that checks its payload too,
  SessionIds,                \* and the session ids it accepts
  MaxChars,                  \* characters of a command line
  Heap,                      \* bytes of a packet for which there is memory
  SizeModulus,               \* size_t counts modulo this number
  MaxCuts,                   \* bound: how often the host is stopped
  Messages                   \* what the host may send

Byte      == Nat
TextMsg   == [kind : {"text"}, word : Words]
PacketMsg == [kind : {"packet"}, type : Byte, id : Byte, payload : Seq(Byte)]

BINARY_MODE_HEADER_SIZE_BYTES == 5
BINARY_MODE_CRC_32_SIZE_BYTES == 1

ASSUME TerminalConstants ==
  /\ HEADER_1 \in Byte /\ HEADER_2 \in Byte /\ ENTER \in Byte /\ BACKSPACE \in Byte
  /\ Printable \subseteq Byte \ {HEADER_1, ENTER, BACKSPACE}
  /\ CrcByte \in Byte /\ ENTER \notin {HEADER_1, BACKSPACE}
  /\ Words \subseteq Printable /\ StoppingWords \subseteq Words
  /\ CommandType \in [Commands -> Byte] /\ PayloadSize \in [Commands -> Nat]
  /\ MaxChars \in Nat \ {0} /\ MaxCuts \in Nat
  /\ Heap \in Nat /\ SizeModulus \in Nat /\ Heap < SizeModulus
  /\ BINARY_MODE_HEADER_SIZE_BYTES <= Heap
  /\ Messages \subseteq TextMsg \cup PacketMsg

VARIABLES
  message,        \* the message the host is sending, or sent last
  outgoing,       \* what is left of it
  cut,            \* the host was stopped in the middle of it
  cuts,           \* how often that happened
  text_buffer,    \* TextMode: the command line, without the prompt
  binary_mode,    \* BinaryMode::binary_mode
  binary_buffer,  \* BinaryMode::binary_buffer
  answers,        \* commands that ran since message began, with their status
  halted,         \* the firmware has stopped
  in_sync         \* history: nothing was left over when message began

vars == <<message, outgoing, cut, cuts, text_buffer, binary_mode, binary_buffer, answers, halted,
          in_sync>>
-----------------------------------------------------------------------------
(***************************************************************************)
(* A unit of the stream is a byte, and for a CRC32 also the bytes that it  *)
(* covers: a checksum fits no other bytes.                                 *)
(***************************************************************************)
Unit == [byte : Byte, covers : Seq(Byte)]
Plain(b) == [byte |-> b, covers |-> << >>]
BytesOf(units) == [i \in DOMAIN units |-> units[i].byte]
PlainAll(bytes) == [i \in DOMAIN bytes |-> Plain(bytes[i])]

\* The bytes before the CRC.
Front(m) == <<HEADER_1, HEADER_2, m.type, m.id, Len(m.payload)>> \o m.payload

Units(m) ==
  IF m.kind = "text" THEN PlainAll(<<m.word, ENTER>>)
  ELSE Append(PlainAll(Front(m)), [byte |-> CrcByte, covers |-> Front(m)])

AnnouncedSize(buffer) ==
  BINARY_MODE_HEADER_SIZE_BYTES + buffer[BINARY_MODE_HEADER_SIZE_BYTES].byte
    + BINARY_MODE_CRC_32_SIZE_BYTES

FullPacketSize(buffer) == AnnouncedSize(buffer) % SizeModulus

\* Bug: the size is looked at only from the first byte that can be the last.
CompleteLate(buffer) ==
  /\ Len(buffer) > BINARY_MODE_HEADER_SIZE_BYTES + BINARY_MODE_CRC_32_SIZE_BYTES
  /\ Len(buffer) = FullPacketSize(buffer)

\* The length field has arrived, and all that it announces.
Complete(buffer) ==
  /\ Len(buffer) >= BINARY_MODE_HEADER_SIZE_BYTES
  /\ Len(buffer) = FullPacketSize(buffer)

\* The packet has no bytes between header and checksum, not even none: its size
\* wrapped.  The vector of its payload cannot be made.
PayloadImpossible(buffer) ==
  /\ buffer[2].byte = HEADER_2
  /\ Len(buffer) < BINARY_MODE_HEADER_SIZE_BYTES + BINARY_MODE_CRC_32_SIZE_BYTES

\* The command handlers, up to the status of their response.
Status(type, id, payload) ==
  CASE type # CommandType[id] -> "UNSUPPORTED_CMP_TYPE"
    [] Len(payload) # PayloadSize[id] -> "INVALID_PAYLOAD"
    [] id = GET_TIME_REPORT /\ payload[1] \notin SessionIds -> "INVALID_PAYLOAD"
    [] OTHER -> "SUCCESS"

Answer(type, id, payload) ==
  IF id \in Commands
  THEN <<[type |-> type, id |-> id, payload |-> payload, status |-> Status(type, id, payload)]>>
  ELSE << >>

\* Bug: the checksum is not looked at.
HandleUnchecked(packet) ==
  LET bytes == BytesOf(packet) IN
  IF bytes[2] = HEADER_2
  THEN Answer(bytes[3], bytes[4],
              SubSeq(bytes, BINARY_MODE_HEADER_SIZE_BYTES + 1, Len(bytes) - 1))
  ELSE << >>

\* handle_binary_packet: no answer at all to a packet that is not sound.
HandleBinaryPacket(packet) ==
  LET bytes == BytesOf(packet)
      front == SubSeq(bytes, 1, Len(bytes) - BINARY_MODE_CRC_32_SIZE_BYTES) IN
  IF bytes[2] = HEADER_2 /\ packet[Len(packet)].covers = front
  THEN Answer(bytes[3], bytes[4],
              SubSeq(front, BINARY_MODE_HEADER_SIZE_BYTES + 1, Len(front)))
  ELSE << >>

\* handle_cmd on a line: one word is a command, anything else is unknown.
HandleCmd(line) == IF Len(line) = 1 /\ line[1] \in Words THEN <<[word |-> line[1]]>> ELSE << >>
-----------------------------------------------------------------------------
Init ==
  /\ message \in Messages /\ outgoing = Units(message)
  /\ cut = FALSE /\ cuts = 0
  /\ text_buffer = << >>
  /\ binary_mode = FALSE /\ binary_buffer = << >>
  /\ answers = << >>
  /\ halted = FALSE /\ in_sync = TRUE

\* The host begins its next message.
Send(m) ==
  /\ outgoing = << >>
  /\ message' = m /\ outgoing' = Units(m)
  /\ cut' = FALSE /\ answers' = << >>
  /\ in_sync' = (binary_buffer = << >> /\ (m.kind = "text" => text_buffer = << >>))
  /\ UNCHANGED <<cuts, text_buffer, binary_mode, binary_buffer, halted>>

\* The host is stopped in the middle of a message.
Cut ==
  /\ outgoing # << >> /\ outgoing # Units(message)
  /\ cuts < MaxCuts /\ cuts' = cuts + 1
  /\ outgoing' = << >> /\ cut' = TRUE
  /\ UNCHANGED <<message, text_buffer, binary_mode, binary_buffer, answers, halted, in_sync>>

\* CdcDevice::task reads a byte, and Terminal::terminal decides who handles it;
\* check_binary_mode comes first.
Read(u) ==
  /\ ~halted /\ outgoing # << >>
  /\ u = Head(outgoing) /\ outgoing' = Tail(outgoing)
  /\ UNCHANGED <<message, cut, cuts, in_sync>>

ToBinary(u) == binary_mode \/ (binary_buffer = << >> /\ u.byte = HEADER_1)

\* BinaryMode::handle.
BinaryByte(u) ==
  LET buffer == Append(binary_buffer, u) IN
  /\ Read(u) /\ ToBinary(u) /\ Len(buffer) <= Heap /\ ~Complete(buffer)
  /\ binary_mode' = TRUE /\ binary_buffer' = buffer
  /\ UNCHANGED <<text_buffer, answers, halted>>

\* Bug: the packet is dropped and the mode stays.
BinaryPacketKeepsMode(u) ==
  LET buffer == Append(binary_buffer, u) IN
  /\ Read(u) /\ ToBinary(u) /\ Len(buffer) <= Heap
  /\ Complete(buffer) /\ ~PayloadImpossible(buffer)
  /\ binary_buffer' = << >>
  /\ answers' = answers \o HandleBinaryPacket(buffer)
  /\ UNCHANGED <<text_buffer, binary_mode, halted>>

\* Bug: only a packet that is answered leaves the buffer.
BinaryPacketKeepsUnsound(u) ==
  LET buffer == Append(binary_buffer, u)
      answer == HandleBinaryPacket(buffer) IN
  /\ Read(u) /\ ToBinary(u) /\ Len(buffer) <= Heap
  /\ Complete(buffer) /\ ~PayloadImpossible(buffer)
  /\ binary_mode' = (answer = << >>)
  /\ binary_buffer' = IF answer = << >> THEN buffer ELSE << >>
  /\ answers' = answers \o answer
  /\ UNCHANGED <<text_buffer, halted>>

BinaryPacket(u) ==
  LET buffer == Append(binary_buffer, u) IN
  /\ Read(u) /\ ToBinary(u) /\ Len(buffer) <= Heap
  /\ Complete(buffer) /\ ~PayloadImpossible(buffer)
  /\ binary_mode' = FALSE /\ binary_buffer' = << >>
  /\ answers' = answers \o HandleBinaryPacket(buffer)
  /\ UNCHANGED <<text_buffer, halted>>

\* Nothing catches what push_back and the payload's constructor throw.
BinaryStops(u) ==
  LET buffer == Append(binary_buffer, u) IN
  /\ Read(u) /\ ToBinary(u)
  /\ Len(buffer) > Heap \/ (Complete(buffer) /\ PayloadImpossible(buffer))
  /\ halted' = TRUE
  /\ binary_mode' = TRUE /\ binary_buffer' = IF Len(buffer) > Heap THEN binary_buffer ELSE buffer
  /\ UNCHANGED <<text_buffer, answers>>

\* TextMode::handle, by the kind of the byte.
TextEnter(u) ==
  /\ Read(u) /\ ~ToBinary(u) /\ u.byte = ENTER
  /\ text_buffer' = << >>
  /\ answers' = answers \o HandleCmd(text_buffer)
  /\ halted' = (HandleCmd(text_buffer) # << >> /\ text_buffer[1] \in StoppingWords)
  /\ UNCHANGED <<binary_mode, binary_buffer>>

TextBackspace(u) ==
  /\ Read(u) /\ ~ToBinary(u) /\ u.byte = BACKSPACE
  /\ text_buffer' = SubSeq(text_buffer, 1, Len(text_buffer) - 1)
  /\ UNCHANGED <<binary_mode, binary_buffer, answers, halted>>

\* Bug: the line has no end.
TextCharUnbounded(u) ==
  /\ Read(u) /\ ~ToBinary(u) /\ u.byte \notin {ENTER, BACKSPACE}
  /\ text_buffer' = IF u.byte \in Printable THEN Append(text_buffer, u.byte) ELSE text_buffer
  /\ UNCHANGED <<binary_mode, binary_buffer, answers, halted>>

TextChar(u) ==
  /\ Read(u) /\ ~ToBinary(u) /\ u.byte \notin {ENTER, BACKSPACE}
  /\ text_buffer' = IF u.byte \in Printable /\ Len(text_buffer) < MaxChars
                    THEN Append(text_buffer, u.byte) ELSE text_buffer
  /\ UNCHANGED <<binary_mode, binary_buffer, answers, halted>>

Receive ==
  \E u \in {outgoing[i] : i \in DOMAIN outgoing} :
    \/ BinaryByte(u) \/ BinaryPacket(u) \/ BinaryStops(u)
    \/ TextEnter(u) \/ TextBackspace(u) \/ TextChar(u)

Next == (\E m \in Messages : Send(m)) \/ Cut \/ Receive

Spec == Init /\ [][Next]_vars

\* Bytes that were sent are read, and the host has always more to say.
FairSpec == Spec /\ WF_vars(Receive) /\ WF_vars(\E m \in Messages : Send(m))
-----------------------------------------------------------------------------
AnswerType ==
  [word : Words]
    \cup [type : Byte, id : Commands, payload : Seq(Byte),
          status : {"SUCCESS", "INVALID_PAYLOAD", "UNSUPPORTED_CMP_TYPE"}]

TypeOK ==
  /\ message \in Messages
  /\ outgoing \in Seq(Unit) /\ binary_buffer \in Seq(Unit)
  /\ cuts \in 0 .. MaxCuts
  /\ cut \in BOOLEAN /\ binary_mode \in BOOLEAN /\ halted \in BOOLEAN /\ in_sync \in BOOLEAN
  /\ text_buffer \in Seq(Printable) /\ Len(text_buffer) <= MaxChars
  /\ answers \in Seq(AnswerType)

\* The length field has arrived and announces more than there is memory for.
TooLong(buffer) ==
  Len(buffer) >= BINARY_MODE_HEADER_SIZE_BYTES /\ AnnouncedSize(buffer) > Heap

\* handle compares the size of the buffer with the announced one for equality: if
\* it ever went past it, the terminal would not leave binary mode.  It does
\* not, wherever HEADER_1 appeared in the stream, unless the size does not fit;
\* and that is the only reason to stop in binary mode, the mode in which the
\* buffer holds bytes.
PacketCanEnd ==
  /\ binary_mode <=> binary_buffer # << >>
  /\ Len(binary_buffer) >= BINARY_MODE_HEADER_SIZE_BYTES /\ ~TooLong(binary_buffer)
       => Len(binary_buffer) < FullPacketSize(binary_buffer)
  /\ halted /\ binary_mode => TooLong(binary_buffer)

Expected(m) == IF m.kind = "text" THEN <<[word |-> m.word]>> ELSE Answer(m.type, m.id, m.payload)

\* A message that finds nothing left over runs its command once, as it was sent,
\* and no other, whatever its bytes would mean in the other mode.
InSyncAnswered ==
  in_sync /\ ~cut => answers = IF outgoing = << >> THEN Expected(message) ELSE << >>

\* However the stream was cut and taken up in the wrong place, no binary command
\* runs that was not sent, and none twice.
CrcProtects ==
  \A i \in DOMAIN answers :
    "status" \in DOMAIN answers[i] =>
      /\ message.kind = "packet" /\ answers[i] \in {Answer(message.type, message.id,
                                                     message.payload)[1]}
      /\ \A j \in DOMAIN answers : "status" \in DOMAIN answers[j] => i = j

\* The host is not stopped, and HEADER_1 is only where a packet begins.
Clean ==
  ~cut /\ \A i \in DOMAIN Units(message) : i > 1 => Units(message)[i].byte # HEADER_1

\* A word or a length that does not fit stopped the firmware.
Stopped == halted /\ (binary_mode => TooLong(binary_buffer))

\* The terminal gets over a cut message: if the host sends clean messages from
\* some time on, they find nothing left over from some time on, unless what was
\* taken for a length stops the firmware.
EventuallyInSync == <>[]Clean => <>Stopped \/ <>[]in_sync
=============================================================================
