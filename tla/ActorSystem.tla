---------------------------- MODULE ActorSystem ----------------------------
(***************************************************************************)
(* What the message core of skynet promises to services, with no threads,  *)
(* no locks and no reference counts: a service has a mailbox, handles its  *)
(* messages one at a time in the order they were accepted, and once it is  *)
(* gone the messages left in its mailbox are bounced, one by one.          *)
(***************************************************************************)
EXTENDS Sequences

CONSTANTS
    Service,                     \* the services there can be
    Message                      \* what can be sent

VARIABLES
    status,                      \* unborn, open, closing or gone
    mailbox,                     \* accepted messages, in order of acceptance
    running                      \* the messages each service is handling now

absVars == <<status, mailbox, running>>

AbsInit ==
    /\ status \in [Service -> {"unborn", "open"}]
    /\ mailbox = [s \in Service |-> <<>>]
    /\ running = [s \in Service |-> {}]

Create(s) ==
    /\ status[s] = "unborn"
    /\ status' = [status EXCEPT ![s] = "open"]
    /\ UNCHANGED <<mailbox, running>>

\* A closing service still accepts messages from senders that had found it.
Accept(s, m) ==
    /\ status[s] \in {"open", "closing"}
    /\ mailbox' = [mailbox EXCEPT ![s] = Append(@, m)]
    /\ UNCHANGED <<status, running>>

Begin(s) ==
    /\ status[s] \in {"open", "closing"}
    /\ running[s] = {}
    /\ mailbox[s] # <<>>
    /\ running' = [running EXCEPT ![s] = {Head(mailbox[s])}]
    /\ mailbox' = [mailbox EXCEPT ![s] = Tail(@)]
    /\ UNCHANGED status

End(s) ==
    /\ running[s] # {}
    /\ running' = [running EXCEPT ![s] = {}]
    /\ UNCHANGED <<status, mailbox>>

Close(s) ==
    /\ status[s] = "open"
    /\ status' = [status EXCEPT ![s] = "closing"]
    /\ UNCHANGED <<mailbox, running>>

\* A service goes only when it is not handling a message.
Leave(s) ==
    /\ status[s] = "closing"
    /\ running[s] = {}
    /\ status' = [status EXCEPT ![s] = "gone"]
    /\ UNCHANGED <<mailbox, running>>

Bounce(s) ==
    /\ status[s] = "gone"
    /\ mailbox[s] # <<>>
    /\ mailbox' = [mailbox EXCEPT ![s] = Tail(@)]
    /\ UNCHANGED <<status, running>>

AbsNext ==
    \E s \in Service :
        \/ Create(s) \/ Begin(s) \/ End(s) \/ Close(s) \/ Leave(s) \/ Bounce(s)
        \/ \E m \in Message : Accept(s, m)

AbsSpec == AbsInit /\ [][AbsNext]_absVars
=============================================================================
