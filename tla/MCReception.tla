------------------------------ MODULE MCReception ------------------------------
(***************************************************************************)
(* What clients send: two requests; an interleaved packet between commands; *)
(* a handshake and two messages whose chunks alternate.                     *)
(***************************************************************************)
EXTENDS Reception

B(is, of) == [is |-> is, of |-> of, chunk |-> 0]

Text(m) == << B("text", m), B("text", m), B("end", m) >>

Packet(m) ==
    LET Size == [is |-> "length", of |-> m, chunk |-> 0, len |-> 3]
    IN  << B("$", m), B("channel", m), Size, Size, B("data", m), B("data", m), B("data", m) >>

Hello == << B("C0", 0), B("C1", 0), B("C1", 0), B("C2", 0), B("C2", 0) >>

Basic(c, format) == [is |-> "basic", of |-> 0, chunk |-> c, format |-> format]
Header(c, len) == [is |-> "header", of |-> 0, chunk |-> c, len |-> len]
Data(m, c) == [is |-> "data", of |-> m, chunk |-> c]

Begin(m, c, len) == << Basic(c, 0), Header(c, len), Data(m, c), Data(m, c) >>
Continue(m, c) == << Basic(c, 3), Data(m, c), Data(m, c) >>
Again(m, c) == << Basic(c, 2), Header(c, 0), Data(m, c), Data(m, c) >>

TheDialogues ==
    [HTTP |-> {<< Text(1) >>, << Text(1), Text(2) >>},
     RTSP |-> {<< Text(1), Text(2), Text(3) >>, << Text(1), Packet(2), Text(3) >>, << Packet(1), Packet(2) >>},
     RTMP |-> {<< Hello, Begin(1, 3, 4), Begin(2, 2, 2), Continue(1, 3), Again(3, 2) >>,
               << Hello, Begin(1, 3, 4), Continue(1, 3), Begin(2, 3, 2) >>,
               << Hello, Begin(1, 3, 2), Begin(2, 3, 4), Continue(2, 3) >>}]
=============================================================================
