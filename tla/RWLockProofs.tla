---------------------------- MODULE RWLockProofs ----------------------------
(***************************************************************************)
(* Mutual exclusion of the reader/writer lock for any finite set of        *)
(* threads.                                                                *)
(***************************************************************************)
EXTENDS RWLock, FiniteSetTheorems, TLAPS

\* The strengthening: lock->read counts the threads that have incremented it,
\* lock->write is 1 exactly while one thread is past its test-and-set, and a
\* writer that has seen lock->read = 0 shares the lock with no reader.
IInv ==
    /\ TypeOK
    /\ read = Cardinality(Counted)
    /\ \A t \in Thread : pc[t] \in {"w_wait", "writing"} => write = 1
    /\ \A t, u \in Thread :
          pc[t] \in {"w_wait", "writing"} /\ pc[u] \in {"w_wait", "writing"} => t = u
    /\ \A t, u \in Thread : pc[t] = "writing" => pc[u] # "reading"

LEMMA CountedFinite == IsFiniteSet(Counted) /\ Cardinality(Counted) \in Nat
<1>1. Counted \subseteq Thread
  BY DEF Counted
<1>. QED  BY <1>1, ThreadFinite, FS_Subset, FS_CardinalityType

\* rwlock_rlock's increment and the two decrements change lock->read together
\* with the set of threads it counts.
LEMMA CountedAdd ==
  ASSUME TypeOK, NEW t \in Thread, t \notin Counted, Counted' = Counted \cup {t}
  PROVE  Cardinality(Counted') = Cardinality(Counted) + 1
BY CountedFinite, FS_AddElement

LEMMA CountedRemove ==
  ASSUME TypeOK, NEW t \in Thread, t \in Counted, Counted' = Counted \ {t}
  PROVE  /\ Cardinality(Counted') = Cardinality(Counted) - 1
         /\ Cardinality(Counted) - 1 \in Nat
BY CountedFinite, FS_RemoveElement, FS_EmptySet

LEMMA InitIInv == Init => IInv
<1>. SUFFICES ASSUME Init PROVE IInv
  OBVIOUS
<1>1. Counted = {}
  BY DEF Init, Counted
<1>2. Cardinality(Counted) = 0
  BY <1>1, FS_EmptySet
<1>. QED  BY <1>2 DEF Init, IInv, TypeOK, Point

LEMMA NextIInv == IInv /\ [Next]_vars => IInv'
<1>. SUFFICES ASSUME IInv, [Next]_vars PROVE IInv'
  OBVIOUS
<1>. USE DEF IInv, TypeOK, Point, Goto
<1>1. CASE UNCHANGED vars
  BY <1>1 DEF vars, Counted
<1>2. ASSUME NEW t \in Thread, RLock(t) \/ WLock(t) \/ Step(t)
      PROVE  IInv'
  <2>1. CASE RLock(t) \/ WLock(t) \/ RSpin(t)
    <3>1. Counted' = Counted
      BY <2>1 DEF RLock, WLock, RSpin, Counted
    <3>. QED  BY <2>1, <3>1 DEF RLock, WLock, RSpin
  <2>2. CASE RInc(t)
    <3>1. t \notin Counted /\ Counted' = Counted \cup {t}
      BY <2>2 DEF RInc, Counted
    <3>2. read' = Cardinality(Counted')
      BY <2>2, <3>1, CountedAdd DEF RInc
    <3>. QED  BY <2>2, <3>2 DEF RInc
  <2>3. CASE RCheck(t)
    <3>1. Counted' = Counted
      BY <2>3 DEF RCheck, Counted
    <3>. QED  BY <2>3, <3>1 DEF RCheck
  <2>4. CASE RBack(t) \/ RUnlock(t)
    <3>1. t \in Counted /\ Counted' = Counted \ {t}
      BY <2>4 DEF RBack, RUnlock, Counted
    <3>2. read' = Cardinality(Counted') /\ read' \in Nat
      BY <2>4, <3>1, CountedRemove DEF RBack, RUnlock
    <3>. QED  BY <2>4, <3>2 DEF RBack, RUnlock
  <2>5. CASE WTestAndSet(t)
    <3>1. Counted' = Counted
      BY <2>5 DEF WTestAndSet, Counted
    <3>. QED  BY <2>5, <3>1 DEF WTestAndSet
  <2>6. CASE WWait(t)
    <3>1. Counted' = Counted
      BY <2>6 DEF WWait, Counted
    <3>2. Counted = {}
      BY <2>6, CountedFinite, FS_EmptySet DEF WWait
    <3>3. \A u \in Thread : pc[u] # "reading"
      BY <3>2 DEF Counted
    <3>. QED  BY <2>6, <3>1, <3>3 DEF WWait
  <2>7. CASE WUnlock(t)
    <3>1. Counted' = Counted
      BY <2>7 DEF WUnlock, Counted
    <3>. QED  BY <2>7, <3>1 DEF WUnlock
  <2>. QED  BY <1>2, <2>1, <2>2, <2>3, <2>4, <2>5, <2>6, <2>7 DEF Step
<1>. QED  BY <1>1, <1>2 DEF Next

\* rwlock.h gives mutual exclusion between a writer and every other holder,
\* for any number of threads.
THEOREM LockExclusion == Spec => []Exclusion
<1>1. IInv => Exclusion
  BY DEF IInv, Exclusion
<1>. QED  BY <1>1, InitIInv, NextIInv, PTL DEF Spec
=============================================================================
