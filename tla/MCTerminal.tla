------------------------------ MODULE MCTerminal ------------------------------
(***************************************************************************)
(* Instances of Terminal for TLC.  Lengths and codes are scaled: a payload *)
(* of four bytes is one byte here, and one of eight is two.                *)
(***************************************************************************)
EXTENDS Terminal

WRITE == 1
READ  == 2

SYNC_TIME == 1
REPORT    == 2

MCCommands    == {SYNC_TIME, REPORT}
MCCommandType == [c \in MCCommands |-> IF c = REPORT THEN READ ELSE WRITE]
MCPayloadSize == [c \in MCCommands |-> IF c = SYNC_TIME THEN 2 ELSE 1]

Packet(type, id, payload) ==
  [kind |-> "packet", type |-> type, id |-> id, payload |-> payload]

\* Payloads whose bytes mean something to the text mode or to the framing, a
\* session id out of range, a wrong type and size, an unknown command.
MCMessages ==
  {[kind |-> "text", word |-> w] : w \in Words}
    \cup {Packet(WRITE, SYNC_TIME, <<HEADER_1, ENTER>>), Packet(READ, SYNC_TIME, <<BACKSPACE>>),
          Packet(READ, REPORT, <<3>>), Packet(WRITE, 0, << >>)}
=============================================================================
