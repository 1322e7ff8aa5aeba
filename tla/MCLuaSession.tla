---------------------------- MODULE MCLuaSession ----------------------------
EXTENDS LuaSession
\* Coroutines that call, sleep, wait, wake each other up and fail
Sleeping == [op |-> {"call", "sleep", "wait", "fork", "die"}, req |-> 2, session |-> 3]
\* ... that exit, and answer for each other
Exiting == [op |-> {"call", "sleep", "fork", "response", "exit"}, req |-> 2, session |-> 2]
\* ... that use a queue, until one of them exits
Queueing == [op |-> {"queue", "sleep", "die", "exit"}, req |-> 3, session |-> 3]
All == {Sleeping, Exiting, Queueing}
=============================================================================
