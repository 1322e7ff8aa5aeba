-------------------------- MODULE MCSocketServer --------------------------
EXTENDS SocketServer
CONSTANTS a, b
Sends(m, n) == [v \in Service |-> IF v = a THEN m ELSE n]
\* Two services write to one connection and one of them closes it.
Traffic == [socket |-> 1, id |-> 1, send |-> Sends(2, 1), in |-> 0, room |-> 2, open |-> {"O"}, prio |-> {"high"},
            opener |-> {a}, closer |-> {b}, shut |-> {FALSE}, fault |-> TRUE]
\* One service sends with both priorities.
Mixed == [Traffic EXCEPT !.send = Sends(2, 0), !.prio = {"high", "low"}, !.closer = {a}, !.shut = BOOLEAN]
\* The slot is used again by the other service.
Reuse == [Traffic EXCEPT !.id = 2, !.room = 1, !.send = Sends(1, 0), !.opener = {a, b}, !.fault = FALSE]
\* A listening socket and what it accepts
Server == [socket |-> 2, id |-> 2, send |-> Sends(1, 0), in |-> 1, room |-> 2, open |-> {"L"}, prio |-> {"high"},
           opener |-> {a}, closer |-> {a}, shut |-> {FALSE}, fault |-> FALSE]
Bound == [Traffic EXCEPT !.send = Sends(1, 0), !.open = {"B"}, !.prio = {"low"}]
AllLimits == {Traffic, Mixed, Reuse, Server, Bound}
=============================================================================
