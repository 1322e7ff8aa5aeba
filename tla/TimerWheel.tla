---------------------------- MODULE TimerWheel ----------------------------
(***************************************************************************)
(* The timer of skynet_timer.c: a hierarchical wheel of one near level and *)
(* four coarser levels over a clock that wraps.  A step is one critical    *)
(* section of the timer's lock; the timer thread gives the lock up while   *)
(* it sends the expired timers' messages, and services arm timers then.    *)
(*                                                                         *)
(* A slot of the wheel is <<level, index>>, with level -1 for near.        *)
(***************************************************************************)
EXTENDS Integers, Sequences

CONSTANTS
    Timer,                       \* timers that can be armed at the same time
    NearShift, LevelShift,       \* TIME_NEAR_SHIFT (8), TIME_LEVEL_SHIFT (6)
    MaxDelay                     \* longest timeout: 2^31 - 1, an int

Near  == 2^NearShift             \* TIME_NEAR
Level == 2^LevelShift            \* TIME_LEVEL
\* Ticks that one index of level i stands for, and the range of the clock.
Unit(i) == 2^(NearShift + i * LevelShift)
ClockRange == Unit(4)

ASSUME ShiftAssumption == NearShift \in Nat \ {0} /\ LevelShift \in Nat \ {0}
ASSUME DelayAssumption == MaxDelay \in 1..ClockRange \div 2 - 1

VARIABLES
    time,                        \* T->time
    wheel,                       \* T->near and T->t: a list for every slot
    expire,                      \* node->expire
    pc, phase,                   \* timer thread: point and half of timer_update
    current,                     \* the list that dispatch_list is sending
    armed, rem                   \* history: timers in order of arming, and the
                                 \* ticks left to each, down to 0

vars == <<time, wheel, expire, pc, phase, current, armed, rem>>

Slots == ({-1} \X (0..Near - 1)) \cup ((0..3) \X (0..Level - 1))
Index(x, i) == (x \div Unit(i)) % Level

Init ==                          \* timer_create_timer
    /\ time = 0
    /\ wheel = [s \in Slots |-> <<>>]
    /\ expire = [x \in Timer |-> 0]
    /\ pc = "idle"
    /\ phase = "none"
    /\ current = <<>>
    /\ armed = <<>>
    /\ rem = [x \in Timer |-> 0]

\* Mutant: a timer in the last tick of the near window is filed one level up.
SlotOfEarly(e, now) ==
    IF (e + 1) \div Near = now \div Near THEN <<-1, e % Near>>
    ELSE LET i == CHOOSE i \in 0..3 :
                    /\ i = 3 \/ e \div Unit(i + 1) = now \div Unit(i + 1)
                    /\ \A j \in 0..i - 1 : e \div Unit(j + 1) # now \div Unit(j + 1)
         IN <<i, Index(e, i)>>

\* add_node: the finest level whose window holds both the expiry and now
SlotOf(e, now) ==
    IF e \div Near = now \div Near THEN <<-1, e % Near>>
    ELSE LET i == CHOOSE i \in 0..3 :
                    /\ i = 3 \/ e \div Unit(i + 1) = now \div Unit(i + 1)
                    /\ \A j \in 0..i - 1 : e \div Unit(j + 1) # now \div Unit(j + 1)
         IN <<i, Index(e, i)>>

\* Others take the lock only between updates and while messages are sent.
Unlocked == pc \in {"idle", "dispatch"}
InCurrent(x) == \E k \in DOMAIN current : current[k] = x
Armed(x) == \E k \in DOMAIN armed : armed[k] = x

\* skynet_timeout with a positive time: timer_add.  A timeout of 0 is sent at
\* once and never comes here.
Timeout(x, d) ==
    LET e == (time + d) % ClockRange IN
    /\ Unlocked
    /\ ~Armed(x) /\ ~InCurrent(x)
    /\ expire' = [expire EXCEPT ![x] = e]
    /\ wheel' = [wheel EXCEPT ![SlotOf(e, time)] = Append(@, x)]
    /\ armed' = Append(armed, x)
    /\ rem' = [rem EXCEPT ![x] = d]
    /\ UNCHANGED <<time, pc, phase, current>>

\* skynet_updatetime finds that the clock has moved: timer_update, once or in
\* a row.
Update ==
    /\ pc = "idle"
    /\ pc' = "execute"
    /\ phase' = "before"
    /\ UNCHANGED <<time, wheel, expire, current, armed, rem>>

NearNow == <<-1, time % Near>>

\* timer_execute takes the list of this tick and gives the lock up.
Execute ==
    /\ pc = "execute"
    /\ wheel[NearNow] # <<>>
    /\ current' = wheel[NearNow]
    /\ wheel' = [wheel EXCEPT ![NearNow] = <<>>]
    /\ armed' = SelectSeq(armed, LAMBDA x : \A k \in DOMAIN wheel[NearNow] : wheel[NearNow][k] # x)
    /\ pc' = "dispatch"
    /\ UNCHANGED <<time, expire, phase, rem>>

\* dispatch_list: one message is pushed; after the last the lock is taken.
Dispatch ==
    /\ pc = "dispatch"
    /\ current' = Tail(current)
    /\ pc' = IF Len(current) = 1 THEN "execute" ELSE "dispatch"
    /\ UNCHANGED <<time, wheel, expire, phase, armed, rem>>

\* Mutant: the list is moved from its end.
MoveListBackwards(s, now) ==
    LET list == [k \in DOMAIN wheel[s] |-> wheel[s][Len(wheel[s]) + 1 - k]] IN
    [u \in Slots |-> (IF u = s THEN <<>> ELSE wheel[u])
                       \o SelectSeq(list, LAMBDA x : SlotOf(expire[x], now) = u)]

\* move_list: every timer of slot s, in order, to where it belongs now
MoveList(s, now) ==
    [u \in Slots |-> (IF u = s THEN <<>> ELSE wheel[u])
                       \o SelectSeq(wheel[s], LAMBDA x : SlotOf(expire[x], now) = u)]

\* Mutant: nothing is moved when the clock wraps.
ShiftForgetsWrap ==
    LET ct == (time + 1) % ClockRange
        turned == {i \in 0..3 : ct % Unit(i) = 0 /\ Index(ct, i) # 0}
    IN
    /\ pc = "execute" /\ phase = "before"
    /\ wheel[NearNow] = <<>>
    /\ time' = ct
    /\ wheel' = IF turned = {} THEN wheel
                ELSE LET i == CHOOSE i \in turned : TRUE IN MoveList(<<i, Index(ct, i)>>, ct)
    /\ phase' = "after"
    /\ rem' = [x \in Timer |-> IF Armed(x) /\ rem[x] > 0 THEN rem[x] - 1 ELSE rem[x]]
    /\ UNCHANGED <<expire, pc, current, armed>>

\* timer_shift: the clock ticks, and if an index of level i turned, and of no
\* coarser level, its list moves down.
Shift ==
    LET ct == (time + 1) % ClockRange
        turned == {i \in 0..3 : ct % Unit(i) = 0 /\ Index(ct, i) # 0}
    IN
    /\ pc = "execute" /\ phase = "before"
    /\ wheel[NearNow] = <<>>
    /\ time' = ct
    /\ wheel' = IF ct = 0 THEN MoveList(<<3, 0>>, ct)
                ELSE IF turned = {} THEN wheel
                ELSE LET i == CHOOSE i \in turned : TRUE IN MoveList(<<i, Index(ct, i)>>, ct)
    /\ phase' = "after"
    /\ rem' = [x \in Timer |-> IF Armed(x) /\ rem[x] > 0 THEN rem[x] - 1 ELSE rem[x]]
    /\ UNCHANGED <<expire, pc, current, armed>>

\* Nothing is left for this tick: timer_update returns.
UpdateEnd ==
    /\ pc = "execute" /\ phase = "after"
    /\ wheel[NearNow] = <<>>
    /\ pc' = "idle"
    /\ phase' = "none"
    /\ UNCHANGED <<time, wheel, expire, current, armed, rem>>

TimerThread == Update \/ Execute \/ Dispatch \/ Shift \/ UpdateEnd
Next == TimerThread \/ \E x \in Timer, d \in 1..MaxDelay : Timeout(x, d)

\* The clock goes on, so the timer thread does.
Spec == Init /\ [][Next]_vars /\ WF_vars(TimerThread)

-----------------------------------------------------------------------------
(* Properties *)

\* A tick sends exactly the timers whose time is up, in the order in which
\* they were armed, whichever levels they have come through.
FiresWhenDue == [][Execute => current' = SelectSeq(armed, LAMBDA x : rem[x] = 0)]_vars

\* When the update of a tick is over nobody is left who should have been
\* called in it.
NobodyLate == pc = "idle" => \A x \in Timer : Armed(x) => rem[x] > 0

\* Every armed timer goes off.
GoesOff == \A x \in Timer : Armed(x) ~> ~Armed(x)
=============================================================================
