--------------------------- MODULE MCLoginSession ---------------------------
(* LoginSession with one or two players and two agents. *)
EXTENDS LoginSession
CONSTANTS p1, p2, a1, a2
\* Two players share an agent limit of one, which overlapping logins overrun.
Shared == [players |-> {p1, p2}, pool |-> <<>>, max_agent |-> 1, user_logout |-> FALSE, sub |-> 3, crash |-> 0]
\* ... and the players' own user_logout comes in beside the queue.
Beside == [Shared EXCEPT !.user_logout = TRUE, !.sub = 2]
\* One player logs in again and again on a game server that crashes.
Crashing == [players |-> {p1}, pool |-> <<a1>>, max_agent |-> 2, user_logout |-> FALSE, sub |-> 6, crash |-> 3]
\* One player logs out and in again.
Again == [Crashing EXCEPT !.user_logout = TRUE, !.sub = 4, !.crash = 0]
All == {Shared, Beside, Crashing, Again}
Overlapping == {[Shared EXCEPT !.pool = <<a1, a2>>, !.max_agent = 2]}
Returning == {[Crashing EXCEPT !.pool = <<a1, a2>>, !.sub = 3, !.crash = 0]}
=============================================================================
