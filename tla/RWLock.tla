------------------------------- MODULE RWLock -------------------------------
(***************************************************************************)
(* The spinning reader/writer lock of skynet-src/rwlock.h (the __sync_*    *)
(* variant), which protects the handle storage.  Every step of a thread is *)
(* one access to lock->write or lock->read.  Memory is sequentially        *)
(* consistent, which is what the full barriers of __sync_add_and_fetch and *)
(* of x86 xchg give.                                                       *)
(***************************************************************************)
EXTENDS Integers, FiniteSets

CONSTANT Thread                  \* the threads that use the lock

ASSUME ThreadFinite == IsFiniteSet(Thread)

VARIABLES
    write,                       \* lock->write
    read,                        \* lock->read
    pc                           \* the point each thread has reached

vars == <<write, read, pc>>

\* r_*: inside rwlock_rlock; w_*: inside rwlock_wlock.
Point == {"idle", "r_spin", "r_inc", "r_check", "r_back", "reading",
          "w_tas", "w_wait", "writing"}

\* Threads whose increment of lock->read has not been taken back.
Counted == {t \in Thread : pc[t] \in {"r_check", "r_back", "reading"}}

Init ==                          \* rwlock_init
    /\ write = 0
    /\ read = 0
    /\ pc = [t \in Thread |-> "idle"]

Goto(t, from, to) ==
    /\ pc[t] = from
    /\ pc' = [pc EXCEPT ![t] = to]

-----------------------------------------------------------------------------
(* rwlock_rlock and rwlock_runlock *)

RLock(t) == Goto(t, "idle", "r_spin") /\ UNCHANGED <<write, read>>

\* while (lock->write) ends
RSpin(t) ==
    /\ write = 0
    /\ Goto(t, "r_spin", "r_inc")
    /\ UNCHANGED <<write, read>>

RInc(t) ==
    /\ Goto(t, "r_inc", "r_check")
    /\ read' = read + 1
    /\ UNCHANGED write

\* Mutant: rwlock_rlock takes the lock without looking at lock->write again.
RCheckBlind(t) ==
    /\ Goto(t, "r_check", "reading")
    /\ UNCHANGED <<write, read>>

RCheck(t) ==
    /\ Goto(t, "r_check", IF write = 1 THEN "r_back" ELSE "reading")
    /\ UNCHANGED <<write, read>>

\* Mutant: The back-off forgets to take its increment back.
RBackLeaks(t) ==
    /\ Goto(t, "r_back", "r_spin")
    /\ UNCHANGED <<write, read>>

RBack(t) ==
    /\ Goto(t, "r_back", "r_spin")
    /\ read' = read - 1
    /\ UNCHANGED write

RUnlock(t) ==
    /\ Goto(t, "reading", "idle")
    /\ read' = read - 1
    /\ UNCHANGED write

-----------------------------------------------------------------------------
(* rwlock_wlock and rwlock_wunlock *)

WLock(t) == Goto(t, "idle", "w_tas") /\ UNCHANGED <<write, read>>

\* The test-and-set that finds 0; one that finds 1 changes nothing.
WTestAndSet(t) ==
    /\ write = 0
    /\ Goto(t, "w_tas", "w_wait")
    /\ write' = 1
    /\ UNCHANGED read

WWait(t) ==
    /\ read = 0
    /\ Goto(t, "w_wait", "writing")
    /\ UNCHANGED <<write, read>>

WUnlock(t) ==
    /\ Goto(t, "writing", "idle")
    /\ write' = 0
    /\ UNCHANGED read

-----------------------------------------------------------------------------
\* A thread inside the lock code or a critical section keeps running; only the
\* decision to lock (RLock, WLock) is free.
Step(t) ==
    \/ RSpin(t) \/ RInc(t) \/ RCheck(t) \/ RBack(t) \/ RUnlock(t)
    \/ WTestAndSet(t) \/ WWait(t) \/ WUnlock(t)

Next == \E t \in Thread : RLock(t) \/ WLock(t) \/ Step(t)

Spec == Init /\ [][Next]_vars

\* The critical sections of skynet_handle.c are short loops that terminate.
FairSpec == Spec /\ \A t \in Thread : WF_vars(Step(t))

-----------------------------------------------------------------------------
(* Properties *)

\* lock->write is a flag, and lock->read never falls below 0.
TypeOK ==
    /\ write \in {0, 1}
    /\ read \in Nat
    /\ pc \in [Thread -> Point]

\* The handle storage is changed by rwlock_wlock's holder only while no thread
\* reads it and no other thread changes it.
Exclusion ==
    \A t, u \in Thread :
        pc[t] = "writing" /\ u # t => pc[u] \notin {"reading", "writing"}

\* The back-off of rwlock_rlock leaves no stray count behind: a writer that
\* has set lock->write gets the lock however the readers keep retrying.
WriterGetsIn == \A t \in Thread : pc[t] = "w_wait" ~> pc[t] = "writing"

=============================================================================
