--------------------------- MODULE HandleStorage ---------------------------
(***************************************************************************)
(* The handle storage of skynet_handle.c: an open hash table from handles  *)
(* to contexts that doubles when it is full, and a sorted array of names.  *)
(*                                                                         *)
(* One step is one critical section of the storage's rwlock, except that   *)
(* registering is one step per turn of its loop (writer holds the lock) so *)
(* that the one write made without the lock, ctx->handle = ... in          *)
(* skynet_context_new, can fall between two turns.  Nothing keeps two      *)
(* launches apart, so a table that grows may hold contexts whose handle is *)
(* still 0: caught remembers them, and the properties say what holds of    *)
(* all the others.  The harbor byte is the same in every local handle and  *)
(* is left out.                                                            *)
(***************************************************************************)
EXTENDS Integers, Sequences, FiniteSets

CONSTANTS
    Ctx,                         \* context addresses
    NoCtx,                       \* NULL
    Name,                        \* service names: numbers, ordered as strcmp does
    HandleMask,                  \* HANDLE_MASK (2^24 - 1)
    DefaultSize,                 \* DEFAULT_SLOT_SIZE (4)
    MaxIndex                     \* bound: registering stops past this handle

ASSUME NoCtxAssumption == NoCtx \notin Ctx
ASSUME NameAssumption == Name \subseteq Nat
ASSUME MaskAssumption == HandleMask \in Nat \ {0}
ASSUME SizeAssumption == DefaultSize \in 1..HandleMask + 1
ASSUME MaxIndexAssumption == MaxIndex \in 1..HandleMask + 1

VARIABLES
    handle_index, slot_size, slot,   \* s->handle_index, s->slot_size, s->slot
    name,                        \* s->name: <<[name, handle], ...>>
    writer,                      \* context whose registration holds the lock
    handle,                      \* ctx->handle: 0 until it is assigned
    result,                      \* what register returned and is not assigned yet
    given,                       \* handles that services may have heard of
    caught,                      \* history: contexts that a growth rehashed
                                 \*   before their handle was assigned
    failed,                      \* "no", or what the process died of
    sweep, missed                \* skynet_handle_retireall; contexts it has to meet

table == <<handle_index, slot_size, slot>>
life == <<handle, result, given>>
sweepVars == <<sweep, missed>>
vars == <<table, name, writer, life, caught, failed, sweepVars>>

Init ==                          \* skynet_handle_init
    /\ handle_index = 1
    /\ slot_size = DefaultSize
    /\ slot = [i \in 0..DefaultSize - 1 |-> NoCtx]
    /\ name = <<>>
    /\ writer = NoCtx
    /\ handle = [c \in Ctx |-> 0]
    /\ result = [c \in Ctx |-> 0]
    /\ given = {}
    /\ caught = {}
    /\ failed = "no"
    /\ sweep = [at |-> "off", i |-> 0, h |-> 0, n |-> 0]
    /\ missed = {}

Free == failed = "no" /\ writer = NoCtx
InTable == {slot[i] : i \in 0..slot_size - 1} \ {NoCtx}

\* The slot sizes are powers of two: handle & (slot_size - 1).
Hash(h) == h % slot_size

-----------------------------------------------------------------------------
(* skynet_handle_register *)

\* skynet_context_new calls skynet_handle_register with ctx->handle = 0.
Register(c) ==
    /\ Free
    /\ c \notin InTable
    /\ result[c] = 0
    /\ handle_index <= MaxIndex
    /\ writer' = c
    /\ handle' = [handle EXCEPT ![c] = 0]
    /\ caught' = caught \ {c}
    /\ UNCHANGED <<table, name, result, given, failed, sweepVars>>

\* The handle tried in turn k of the scan: after the mask comes 1, "0 is
\* reserved".
Candidate(k) == ((handle_index + k - 1) % HandleMask) + 1

\* Mutant: the scan stops one slot early.
FreeTurnsShort == {k \in 0..slot_size - 2 : slot[Hash(Candidate(k))] = NoCtx}

FreeTurns == {k \in 0..slot_size - 1 : slot[Hash(Candidate(k))] = NoCtx}

\* The first free slot of the scan is taken.
Place ==
    LET k == CHOOSE k \in FreeTurns : \A j \in FreeTurns : k <= j
        h == Candidate(k)
    IN
    /\ failed = "no" /\ writer # NoCtx
    /\ FreeTurns # {}
    /\ slot' = [slot EXCEPT ![Hash(h)] = writer]
    /\ handle_index' = h + 1
    /\ result' = [result EXCEPT ![writer] = h]
    /\ writer' = NoCtx
    /\ UNCHANGED <<slot_size, name, handle, given, caught, failed, sweepVars>>

\* Slot of the doubled table for the context in slot i of the old one.
NewSlot(i) == handle[slot[i]] % (2 * slot_size)

\* Mutant: the contexts keep their slots in the doubled table.
GrowInPlace ==
    /\ failed = "no" /\ writer # NoCtx
    /\ FreeTurns = {}
    /\ 2 * slot_size - 1 <= HandleMask
    /\ slot' = [j \in 0..2 * slot_size - 1 |-> IF j < slot_size THEN slot[j] ELSE NoCtx]
    /\ slot_size' = 2 * slot_size
    /\ caught' = caught \cup {c \in InTable : handle[c] = 0}
    /\ UNCHANGED <<handle_index, name, writer, life, failed, sweepVars>>

\* The scan found no free slot: the table doubles and the loop turns again,
\* unless it is as large as it may be, a slot is NULL after all
\* (skynet_context_handle(NULL)) or assert(new_slot[hash] == NULL) fails.
Grow ==
    LET old == 0..slot_size - 1
        outcome == IF 2 * slot_size - 1 > HandleMask THEN "full"
                   ELSE IF \E i \in old : slot[i] = NoCtx THEN "null"
                   ELSE IF \E i, j \in old : i # j /\ NewSlot(i) = NewSlot(j) THEN "assert"
                   ELSE "no"
    IN
    /\ failed = "no" /\ writer # NoCtx
    /\ FreeTurns = {}
    /\ failed' = outcome
    /\ IF outcome = "no"
         THEN /\ slot' = [j \in 0..2 * slot_size - 1 |->
                            IF \E i \in old : NewSlot(i) = j
                              THEN slot[CHOOSE i \in old : NewSlot(i) = j] ELSE NoCtx]
              /\ slot_size' = 2 * slot_size
         ELSE UNCHANGED <<slot, slot_size>>
    /\ caught' = caught \cup {c \in InTable : handle[c] = 0}
    /\ UNCHANGED <<handle_index, name, writer, life, sweepVars>>

\* ctx->handle = skynet_handle_register(ctx): the assignment, without the lock
Assign(c) ==
    /\ failed = "no"
    /\ result[c] # 0
    /\ handle' = [handle EXCEPT ![c] = result[c]]
    /\ result' = [result EXCEPT ![c] = 0]
    /\ given' = given \cup {result[c]}
    /\ UNCHANGED <<table, name, writer, caught, failed, sweepVars>>

-----------------------------------------------------------------------------
(* skynet_handle_grab and skynet_handle_retire *)

\* skynet_handle_grab: the context it finds, or NULL
Grab(h) ==
    LET c == slot[Hash(h)] IN IF c # NoCtx /\ handle[c] = h THEN c ELSE NoCtx

\* The critical section of skynet_handle_retire.  The released context is gone
\* from the storage's point of view, and its address may be used again.
RetireSection(h) ==
    LET c == Grab(h) IN
    IF c # NoCtx
      THEN /\ slot' = [slot EXCEPT ![Hash(h)] = NoCtx]
           /\ name' = SelectSeq(name, LAMBDA e : e.handle # h)
           /\ handle' = [handle EXCEPT ![c] = 0]
           /\ missed' = missed \ {c}
      ELSE UNCHANGED <<slot, name, handle, missed>>

Retire(h) ==
    /\ Free
    /\ RetireSection(h)
    /\ UNCHANGED <<handle_index, slot_size, writer, result, given, caught, failed, sweep>>

-----------------------------------------------------------------------------
(* skynet_handle_retireall *)

SweepStart ==
    /\ failed = "no"
    /\ sweep.at = "off"
    /\ sweep' = [at |-> "read", i |-> 0, h |-> 0, n |-> 0]
    /\ missed' = {c \in InTable : handle[c] # 0}
    /\ UNCHANGED <<table, name, writer, life, caught, failed>>

\* Under the read lock: the handle in slot i, 0 if there is none
SweepRead ==
    LET c == slot[sweep.i]
        h == IF c = NoCtx THEN 0 ELSE handle[c]
    IN
    /\ Free
    /\ sweep.at = "read"
    /\ sweep.i < slot_size
    /\ sweep' = IF h = 0 THEN [sweep EXCEPT !.i = @ + 1]
                ELSE [sweep EXCEPT !.at = "retire", !.h = h]
    /\ UNCHANGED <<table, name, writer, life, caught, failed, missed>>

\* Mutant: the sweep skips a slot after each service it retires.
SweepRetireSkips ==
    /\ Free
    /\ sweep.at = "retire"
    /\ RetireSection(sweep.h)
    /\ sweep' = [at |-> "read", i |-> sweep.i + 2, h |-> 0,
                 n |-> sweep.n + (IF Grab(sweep.h) = NoCtx THEN 0 ELSE 1)]
    /\ UNCHANGED <<handle_index, slot_size, writer, result, given, caught, failed>>

SweepRetire ==
    /\ Free
    /\ sweep.at = "retire"
    /\ RetireSection(sweep.h)
    /\ sweep' = [at |-> "read", i |-> sweep.i + 1, h |-> 0,
                 n |-> sweep.n + (IF Grab(sweep.h) = NoCtx THEN 0 ELSE 1)]
    /\ UNCHANGED <<handle_index, slot_size, writer, result, given, caught, failed>>

\* End of a pass: return if it retired nobody, else make another.
SweepEnd ==
    /\ failed = "no"
    /\ sweep.at = "read"
    /\ sweep.i >= slot_size
    /\ sweep' = [at |-> IF sweep.n = 0 THEN "off" ELSE "read", i |-> 0, h |-> 0, n |-> 0]
    /\ missed' = IF sweep.n = 0 THEN {} ELSE {c \in InTable : handle[c] # 0}
    /\ UNCHANGED <<table, name, writer, life, caught, failed>>

-----------------------------------------------------------------------------
(* Names *)

\* The binary search of skynet_handle_findname and _insert_name: where it
\* stops, with mid the match or 0 and begin the place to insert before.
Search(n) ==
    LET f[b \in 1..Len(name) + 1, e \in 0..Len(name)] ==
          LET mid == (b + e) \div 2 IN
          IF b > e THEN [mid |-> 0, begin |-> b]
          ELSE IF name[mid].name = n THEN [mid |-> mid, begin |-> b]
          ELSE IF name[mid].name < n THEN f[mid + 1, e]
          ELSE f[b, mid - 1]
    IN f[1, Len(name)]

\* skynet_handle_findname: the handle, or 0
FindName(n) == LET m == Search(n).mid IN IF m = 0 THEN 0 ELSE name[m].handle

\* Mutant: the new name goes behind the place where the search stopped.
NameHandleAfter(h, n) ==
    LET s == Search(n)
        k == IF s.begin > Len(name) THEN s.begin ELSE s.begin + 1
    IN
    /\ Free
    /\ s.mid = 0
    /\ name' = SubSeq(name, 1, k - 1) \o <<[name |-> n, handle |-> h, late |-> Grab(h) = NoCtx]>>
                 \o SubSeq(name, k, Len(name))
    /\ UNCHANGED <<table, writer, life, caught, failed, sweepVars>>

\* skynet_handle_namehandle with a name that is not taken.  Nothing asks
\* whether h is still registered: late remembers that it was not.
NameHandle(h, n) ==
    LET s == Search(n) IN
    /\ Free
    /\ s.mid = 0
    /\ name' = SubSeq(name, 1, s.begin - 1)
                 \o <<[name |-> n, handle |-> h, late |-> Grab(h) = NoCtx]>>
                 \o SubSeq(name, s.begin, Len(name))
    /\ UNCHANGED <<table, writer, life, caught, failed, sweepVars>>

-----------------------------------------------------------------------------
Next ==
    \/ \E c \in Ctx : Register(c) \/ Assign(c)
    \/ Place
    \/ Grow
    \/ \E h \in given : Retire(h) \/ \E n \in Name : NameHandle(h, n)
    \/ SweepStart \/ SweepRead \/ SweepRetire \/ SweepEnd

Spec == Init /\ [][Next]_vars

-----------------------------------------------------------------------------
(* Properties *)

\* A registered context is found by its handle, through every growth of the
\* table and every wrap of the index, until it is retired; so no two of them
\* have one handle.  Only a context that a growth met before its handle was
\* assigned can be lost, whatever other launches overlap with its own.
Findable ==
    \A c \in InTable \ caught :
        /\ handle[c] # 0 => Grab(handle[c]) = c
        /\ handle[c] = 0 => result[c] # 0 /\ slot[Hash(result[c])] = c

\* FindName finds the handle a name was given to and nothing else: the names
\* stay sorted and different, whatever is inserted and retired between them.
\* A name leads to a registered service, unless the service was retired before
\* the name was given: only then can a name outlive its service.
NamesLead ==
    \A n \in Name :
        LET entries == {i \in DOMAIN name : name[i].name = n} IN
        /\ Cardinality(entries) <= 1
        /\ FindName(n) = 0 <=> entries = {}
        /\ \A i \in entries : FindName(n) = name[i].handle /\ (name[i].late \/ Grab(name[i].handle) # NoCtx)

\* A pass of retireall meets every service that had its handle when the pass
\* began, even if the table grows in the middle, unless a growth caught it.
SweepMissesNobody == sweep.at = "read" /\ sweep.i >= slot_size => missed \subseteq caught

\* Growing the table fails assert(new_slot[hash] == NULL) only with a context in
\* it that was rehashed before its handle was assigned, and it reads the handle
\* of an empty slot only where the scan wrapped past the mask: there 0 is left
\* out, and a free slot with it.
RehashSound ==
    /\ failed = "assert" => caught \cap InTable # {}
    /\ failed = "null" => handle_index + slot_size - 1 > HandleMask

\* assert(new_slot[hash] == NULL): no two contexts go to one slot when the
\* table grows.
RehashAssertion == failed # "assert"
=============================================================================
