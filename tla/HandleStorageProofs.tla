------------------------ MODULE HandleStorageProofs ------------------------
(***************************************************************************)
(* Proofs about the handle storage: every registered context that no       *)
(* growth met before its handle was assigned is in the slot its handle     *)
(* hashes to, for every size of the table, every mask, every number of     *)
(* contexts and any overlap of their launches.                             *)
(***************************************************************************)
EXTENDS HandleStorage, WellFoundedInduction, TLAPS

Slots == 0..slot_size - 1

TypeOK ==
    /\ handle_index \in Nat \ {0}
    /\ slot_size \in Nat \ {0}
    /\ slot \in [Slots -> Ctx \cup {NoCtx}]
    /\ writer \in Ctx \cup {NoCtx}
    /\ handle \in [Ctx -> Nat]
    /\ result \in [Ctx -> Nat]
    /\ given \subseteq Nat \ {0}
    /\ caught \subseteq Ctx
    /\ failed \in {"no", "full", "null", "assert"}
    /\ sweep \in [at : {"off", "read", "retire"}, i : Nat, h : Nat, n : Nat]
    /\ missed \subseteq Ctx

\* The handle of a context in the table: its own, or the one that
\* skynet_handle_register has returned and that is not assigned yet.
Label(c) == IF handle[c] # 0 THEN handle[c] ELSE result[c]
Placed ==
    \A i \in Slots : slot[i] # NoCtx /\ slot[i] \notin caught =>
        Label(slot[i]) # 0 /\ Hash(Label(slot[i])) = i

\* A handle that waits to be assigned is not stored yet, and the context that
\* registers has none.
Registering ==
    /\ writer # NoCtx =>
          writer \notin InTable /\ handle[writer] = 0 /\ result[writer] = 0
    /\ \A c \in Ctx : result[c] # 0 => handle[c] = 0

\* Who is still to be met is in a slot that the sweep has not passed: growing
\* the table moves a context to its slot or further.
Ahead(c) ==
    /\ c \in InTable
    /\ handle[c] # 0
    /\ Hash(handle[c]) >= sweep.i
    /\ sweep.at = "retire" => Hash(handle[c]) > sweep.i \/ handle[c] = sweep.h
Sweeping ==
    /\ sweep.at = "off" => missed = {}
    /\ sweep.at = "retire" => sweep.h # 0
    /\ missed \subseteq InTable
    /\ \A c \in missed \ caught : Ahead(c)

IInv == TypeOK /\ Placed /\ Registering /\ Sweeping /\ RehashSound

-----------------------------------------------------------------------------
(* Remainders *)

LEMMA ModFacts ==
  ASSUME NEW a \in Nat, NEW n \in Nat \ {0}
  PROVE  a % n \in 0..n - 1 /\ a \div n \in Nat /\ a = n * (a \div n) + (a % n)
OBVIOUS

LEMMA ModUnique ==
  ASSUME NEW n \in Nat \ {0}, NEW k \in Nat, NEW r \in 0..n - 1
  PROVE  (n * k + r) % n = r
<1>. DEFINE a == n * k + r
<1>1. a \in Nat
  OBVIOUS
<1>2. a % n \in 0..n - 1 /\ a \div n \in Nat /\ a = n * (a \div n) + (a % n)
  BY <1>1, ModFacts
<1>. DEFINE d == a \div n
            s == a % n
<1>3. n * k + r = n * d + s
  BY <1>2
<1>. HIDE DEF a, d, s
<1>4. d \in Nat /\ s \in 0..n - 1
  BY <1>2 DEF d, s
<1>5. CASE d > k
  <2>1. n * d >= n * (k + 1)
    BY <1>4, <1>5
  <2>. QED  BY <1>3, <1>4, <2>1
<1>6. CASE d < k
  <2>1. n * k >= n * (d + 1)
    BY <1>4, <1>6
  <2>. QED  BY <1>3, <1>4, <2>1
<1>7. CASE d = k
  BY <1>3, <1>4, <1>7 DEF a, s
<1>. QED  BY <1>4, <1>5, <1>6, <1>7

\* Doubling the table leaves a handle in its slot or moves it half a table up.
LEMMA DoubleMod ==
  ASSUME NEW a \in Nat, NEW n \in Nat \ {0}
  PROVE  a % (2 * n) \in {a % n, (a % n) + n} /\ (a % (2 * n)) % n = a % n
<1>. DEFINE d == a \div (2 * n)
            r == a % (2 * n)
<1>1. d \in Nat /\ r \in 0..2 * n - 1 /\ a = (2 * n) * d + r
  BY ModFacts, 2 * n \in Nat \ {0}
<1>. HIDE DEF d, r
<1>2. CASE r < n
  <2>1. a = n * (2 * d) + r /\ 2 * d \in Nat /\ r \in 0..n - 1
    BY <1>1, <1>2
  <2>2. a % n = r
    BY <2>1, ModUnique
  <2>3. r % n = r
    BY <1>1, <1>2
  <2>. QED  BY <2>2, <2>3 DEF r
<1>3. CASE r >= n
  <2>1. a = n * (2 * d + 1) + (r - n) /\ 2 * d + 1 \in Nat /\ r - n \in 0..n - 1
    BY <1>1, <1>3
  <2>2. a % n = r - n
    BY <2>1, ModUnique
  <2>3. r = n * 1 + (r - n)
    BY <1>1
  <2>4. (n * 1 + (r - n)) % n = r - n
    BY <2>1, ModUnique, 1 \in Nat
  <2>5. r = (a % n) + n
    BY <1>1, <2>2
  <2>. QED  BY <2>2, <2>3, <2>4, <2>5 DEF r
<1>. QED  BY <1>1, <1>2, <1>3

\* n numbers in a row meet every remainder.
LEMMA EveryRemainder ==
  ASSUME NEW n \in Nat \ {0}, NEW a \in Nat, NEW i \in 0..n - 1
  PROVE  \E k \in 0..n - 1 : (a + k) % n = i
<1>. DEFINE d == a \div n
            r == a % n
<1>1. d \in Nat /\ r \in 0..n - 1 /\ a = n * d + r
  BY ModFacts
<1>. HIDE DEF d, r
<1>2. CASE i >= r
  <2>1. i - r \in 0..n - 1 /\ a + (i - r) = n * d + i
    BY <1>1, <1>2
  <2>2. (a + (i - r)) % n = i
    BY <1>1, <2>1, ModUnique
  <2>. QED  BY <2>1, <2>2
<1>3. CASE i < r
  <2>1. (i - r) + n \in 0..n - 1 /\ a + ((i - r) + n) = n * (d + 1) + i /\ d + 1 \in Nat
    BY <1>1, <1>3
  <2>2. (a + ((i - r) + n)) % n = i
    BY <2>1, ModUnique
  <2>. QED  BY <2>1, <2>2
<1>. QED  BY <1>1, <1>2, <1>3

\* A set of numbers that is not empty has a least one.
LEMMA Least ==
  ASSUME NEW S, S \subseteq Nat, S # {}
  PROVE  \E k \in S : \A j \in S : k <= j
<1>1. \E k \in S : \A j \in S : ~(<<j, k>> \in OpToRel(<, Nat))
  BY NatLessThanWellFounded, WFMin
<1>2. \A j, k \in Nat : <<j, k>> \in OpToRel(<, Nat) <=> j < k
  BY DEF OpToRel
<1>3. PICK k \in S : \A j \in S : ~(<<j, k>> \in OpToRel(<, Nat))
  BY <1>1
<1>4. ASSUME NEW j \in S PROVE k <= j
  <2>1. j \in Nat /\ k \in Nat
    OBVIOUS
  <2>2. ~(j < k)
    BY <1>2, <1>3, <2>1
  <2>. QED  BY <2>1, <2>2
<1>. QED  BY <1>4

-----------------------------------------------------------------------------
(* The table *)

LEMMA HashType ==
  ASSUME TypeOK, NEW h \in Nat
  PROVE  Hash(h) \in Slots
BY ModFacts DEF TypeOK, Hash, Slots

\* A context of the table that was not caught is in one slot, that of its label.
LEMMA InTableSlot ==
  ASSUME TypeOK, Placed, NEW c \in InTable, c \notin caught
  PROVE  /\ c \in Ctx /\ Label(c) \in Nat \ {0}
         /\ Hash(Label(c)) \in Slots /\ slot[Hash(Label(c))] = c
<1>1. PICK i \in Slots : slot[i] = c
  BY DEF InTable, Slots
<1>2. c # NoCtx /\ c \in Ctx
  BY <1>1 DEF InTable, TypeOK
<1>3. Label(c) # 0 /\ Hash(Label(c)) = i
  BY <1>1, <1>2 DEF Placed
<1>4. Label(c) \in Nat
  BY <1>2 DEF Label, TypeOK
<1>. QED  BY <1>1, <1>2, <1>3, <1>4

LEMMA FindableInv == TypeOK /\ Placed => Findable
<1>. SUFFICES ASSUME TypeOK, Placed, NEW c \in InTable, c \notin caught
              PROVE  /\ handle[c] # 0 => Grab(handle[c]) = c
                     /\ handle[c] = 0 => result[c] # 0 /\ slot[Hash(result[c])] = c
  BY DEF Findable
<1>1. c \in Ctx /\ Label(c) # 0 /\ slot[Hash(Label(c))] = c
  BY InTableSlot
<1>. QED  BY <1>1, NoCtxAssumption DEF Label, Grab

LEMMA CandidateType ==
  ASSUME TypeOK, NEW k \in Nat
  PROVE  Candidate(k) \in Nat \ {0}
<1>1. handle_index + (k - 1) \in Nat /\ HandleMask \in Nat \ {0}
  BY MaskAssumption DEF TypeOK
<1>2. (handle_index + (k - 1)) % HandleMask \in Nat
  BY <1>1, ModFacts
<1>. DEFINE m == (handle_index + (k - 1)) % HandleMask
<1>3. m + 1 \in Nat \ {0}
  <2>. HIDE DEF m
  <2>. QED  BY <1>2 DEF m
<1>4. Candidate(k) = m + 1
  BY DEF Candidate
<1>. QED  BY <1>3, <1>4

\* The scan stops at a free slot.
LEMMA FirstFree ==
  ASSUME TypeOK, FreeTurns # {}
  PROVE  LET k == CHOOSE k \in FreeTurns : \A j \in FreeTurns : k <= j
         IN  k \in Nat /\ Candidate(k) \in Nat \ {0} /\ Hash(Candidate(k)) \in Slots
             /\ slot[Hash(Candidate(k))] = NoCtx
<1>. DEFINE k == CHOOSE k \in FreeTurns : \A j \in FreeTurns : k <= j
<1>1. FreeTurns \subseteq Nat
  BY DEF FreeTurns, TypeOK
<1>2. k \in FreeTurns
  BY <1>1, Least
<1>3. k \in Nat /\ slot[Hash(Candidate(k))] = NoCtx
  BY <1>1, <1>2 DEF FreeTurns
<1>. HIDE DEF k
<1>4. Candidate(k) \in Nat \ {0}
  BY <1>3, CandidateType
<1>5. Hash(Candidate(k)) \in Slots
  BY <1>4, HashType
<1>. QED  BY <1>3, <1>4, <1>5 DEF k

\* A scan that does not wrap passes every slot.
LEMMA ScanPassesAll ==
  ASSUME TypeOK, FreeTurns = {}, handle_index + slot_size - 1 <= HandleMask, NEW i \in Slots
  PROVE  slot[i] # NoCtx
<1>. SUFFICES ASSUME slot[i] = NoCtx PROVE FALSE
  OBVIOUS
<1>1. PICK k \in 0..slot_size - 1 : (handle_index + k) % slot_size = i
  <2>1. slot_size \in Nat \ {0} /\ handle_index \in Nat /\ i \in 0..slot_size - 1
    BY DEF TypeOK, Slots
  <2>. QED  BY <2>1, EveryRemainder
<1>2. k \in Nat /\ (handle_index + k) - 1 \in 0..HandleMask - 1 /\ HandleMask \in Nat \ {0}
  BY <1>1, MaskAssumption DEF TypeOK
<1>3. (HandleMask * 0 + ((handle_index + k) - 1)) % HandleMask = (handle_index + k) - 1
  BY <1>2, ModUnique, 0 \in Nat
<1>4. Candidate(k) = handle_index + k
  BY <1>2, <1>3 DEF Candidate, TypeOK
<1>. QED  BY <1>1, <1>4 DEF FreeTurns, Hash

LEMMA TypeNext ==
  ASSUME TypeOK, Registering, Next
  PROVE  TypeOK'
<1>. USE DEF TypeOK, Slots, table, life, sweepVars
<1>1. ASSUME NEW c \in Ctx, Register(c) PROVE TypeOK'
  BY <1>1 DEF Register
<1>2. ASSUME NEW c \in Ctx, Assign(c) PROVE TypeOK'
  <2>1. result[c] \in Nat \ {0} /\ 0 \in Nat
    BY <1>2 DEF Assign
  <2>2. given' \subseteq Nat \ {0}
    BY <1>2, <2>1 DEF Assign
  <2>. QED  BY <1>2, <2>1, <2>2 DEF Assign
<1>3. CASE Place
  <2>1. writer \in Ctx
    BY <1>3 DEF Place
  <2>. QED  BY <1>3, <2>1, FirstFree, SMTT(60) DEF Place
<1>4. CASE Grow
  <2>1. failed' \in {"no", "full", "null", "assert"}
    BY <1>4 DEF Grow
  <2>2. slot_size' \in Nat \ {0} /\ slot' \in [0..slot_size' - 1 -> Ctx \cup {NoCtx}]
    <3>1. CASE UNCHANGED <<slot, slot_size>>
      BY <3>1
    <3>2. CASE ~UNCHANGED <<slot, slot_size>>
      <4>. DEFINE old == 0..slot_size - 1
      <4>1. /\ slot_size' = 2 * slot_size
            /\ slot' = [j \in 0..2 * slot_size - 1 |->
                            IF \E i \in old : NewSlot(i) = j
                              THEN slot[CHOOSE i \in old : NewSlot(i) = j] ELSE NoCtx]
        BY <1>4, <3>2 DEF Grow
      <4>2. ASSUME NEW j PROVE (\E i \in old : NewSlot(i) = j) => (CHOOSE i \in old : NewSlot(i) = j) \in old
        OBVIOUS
      <4>. QED  BY <4>1, <4>2
    <3>. QED  BY <3>1, <3>2
  <2>3. caught' \subseteq Ctx
    BY <1>4 DEF Grow, InTable
  <2>. QED  BY <1>4, <2>1, <2>2, <2>3 DEF Grow
<1>5. ASSUME NEW h \in Nat, RetireSection(h)
      PROVE  slot' \in [Slots -> Ctx \cup {NoCtx}] /\ handle' \in [Ctx -> Nat] /\ missed' \subseteq Ctx
  <2>1. Hash(h) \in Slots /\ slot[Hash(h)] \in Ctx \cup {NoCtx}
    BY HashType
  <2>2. Grab(h) # NoCtx => Grab(h) \in Ctx
    BY <2>1 DEF Grab
  <2>3. CASE Grab(h) = NoCtx
    BY <1>5, <2>3 DEF RetireSection
  <2>4. CASE Grab(h) # NoCtx
    <3>1. /\ slot' = [slot EXCEPT ![Hash(h)] = NoCtx]
          /\ handle' = [handle EXCEPT ![Grab(h)] = 0]
          /\ missed' = missed \ {Grab(h)}
      BY <1>5, <2>4 DEF RetireSection
    <3>. QED  BY <3>1, <2>2, <2>4
  <2>. QED  BY <2>3, <2>4
<1>6. ASSUME NEW h \in given, Retire(h) PROVE TypeOK'
  <2>1. h \in Nat /\ RetireSection(h)
    BY <1>6 DEF Retire
  <2>. QED  BY <1>5, <1>6, <2>1 DEF Retire
<1>7. ASSUME NEW h \in given, NEW n \in Name, NameHandle(h, n) PROVE TypeOK'
  BY <1>7 DEF NameHandle
<1>8. InTable \subseteq Ctx
  BY DEF InTable
<1>9. CASE SweepStart
  BY <1>8, <1>9 DEF SweepStart
<1>10. CASE SweepRead
  <2>1. slot[sweep.i] \in Ctx \cup {NoCtx}
    BY <1>10 DEF SweepRead
  <2>2. PICK h \in Nat : sweep' = IF h = 0 THEN [sweep EXCEPT !.i = @ + 1]
                                   ELSE [sweep EXCEPT !.at = "retire", !.h = h]
    BY <1>10, <2>1 DEF SweepRead
  <2>3. sweep' \in [at : {"off", "read", "retire"}, i : Nat, h : Nat, n : Nat]
    <3>0. sweep.i + 1 \in Nat
      OBVIOUS
    <3>1. CASE h = 0
      <4>1. sweep' = [sweep EXCEPT !.i = sweep.i + 1]
        BY <2>2, <3>1
      <4>. QED  BY <3>0, <4>1
    <3>2. CASE h # 0
      BY <2>2, <3>2
    <3>. QED  BY <3>1, <3>2
  <2>4. UNCHANGED <<handle_index, slot_size, slot, writer, handle, result, given, caught, failed, missed>>
    BY <1>10 DEF SweepRead
  <2>. QED  BY <2>3, <2>4
<1>11. CASE SweepRetire
  <2>1. sweep.h \in Nat /\ RetireSection(sweep.h)
    BY <1>11 DEF SweepRetire
  <2>2. slot' \in [Slots -> Ctx \cup {NoCtx}] /\ handle' \in [Ctx -> Nat] /\ missed' \subseteq Ctx
    BY <1>5, <2>1
  <2>3. sweep' \in [at : {"off", "read", "retire"}, i : Nat, h : Nat, n : Nat]
    BY <1>11 DEF SweepRetire
  <2>4. UNCHANGED <<handle_index, slot_size, writer, result, given, caught, failed>>
    BY <1>11 DEF SweepRetire
  <2>. QED  BY <2>2, <2>3, <2>4
<1>12. CASE SweepEnd
  BY <1>8, <1>12 DEF SweepEnd
<1>. QED  BY <1>1, <1>2, <1>3, <1>4, <1>6, <1>7, <1>9, <1>10, <1>11, <1>12 DEF Next

LEMMA InTableType ==
  ASSUME TypeOK
  PROVE  InTable \subseteq Ctx
BY DEF InTable, TypeOK, Slots

\* Growing keeps the contexts of the table and their slots apart.
LEMMA GrowKeeps ==
  ASSUME TypeOK, Placed, Registering, Grow
  PROVE  /\ failed' = "assert" => caught' \cap InTable # {}
         /\ failed' = "null" => handle_index + slot_size - 1 > HandleMask
         /\ failed' # "no" => UNCHANGED <<slot, slot_size>>
         /\ failed' = "no" =>
              /\ slot_size' = 2 * slot_size
              /\ \A c \in InTable : slot'[handle[c] % (2 * slot_size)] = c
              /\ \A j \in 0..2 * slot_size - 1 : slot'[j] # NoCtx =>
                    slot'[j] \in InTable /\ handle[slot'[j]] % (2 * slot_size) = j
<1>. DEFINE old == 0..slot_size - 1
<1>0. writer # NoCtx /\ FreeTurns = {} /\ old = Slots
  BY DEF Grow, Slots
<1>1. ASSUME NEW i \in old, slot[i] # NoCtx, slot[i] \notin caught'
      PROVE  handle[slot[i]] \in Nat /\ Hash(handle[slot[i]]) = i
  <2>1. slot[i] \in InTable /\ slot[i] \in Ctx
    BY <1>1, InTableType DEF InTable
  <2>2. slot[i] \notin caught /\ handle[slot[i]] # 0
    BY <1>1, <2>1 DEF Grow
  <2>3. Label(slot[i]) = handle[slot[i]] /\ handle[slot[i]] \in Nat
    BY <2>1, <2>2 DEF Label, TypeOK
  <2>. QED  BY <1>0, <1>1, <2>2, <2>3 DEF Placed
<1>2. ASSUME NEW i \in old, NEW j \in old, slot[i] # NoCtx, slot[j] # NoCtx, NewSlot(i) = NewSlot(j),
             slot[i] \notin caught', slot[j] \notin caught'
      PROVE  i = j
  <2>0. slot_size \in Nat \ {0}
    BY DEF TypeOK
  <2>1. NewSlot(i) % slot_size = Hash(handle[slot[i]])
    BY <1>1, <1>2, <2>0, DoubleMod DEF NewSlot, Hash
  <2>2. NewSlot(j) % slot_size = Hash(handle[slot[j]])
    BY <1>1, <1>2, <2>0, DoubleMod DEF NewSlot, Hash
  <2>. QED  BY <1>1, <1>2, <2>1, <2>2
<1>3. ASSUME failed' = "assert" PROVE caught' \cap InTable # {}
  <2>1. \A i \in old : slot[i] # NoCtx
    BY <1>3 DEF Grow
  <2>2. PICK i \in old, j \in old : i # j /\ NewSlot(i) = NewSlot(j)
    BY <1>3 DEF Grow
  <2>3. slot[i] \in InTable /\ slot[j] \in InTable
    BY <2>1 DEF InTable
  <2>4. slot[i] \in caught' \/ slot[j] \in caught'
    BY <1>2, <2>1, <2>2
  <2>. QED  BY <2>3, <2>4
<1>4. ASSUME failed' = "null" PROVE handle_index + slot_size - 1 > HandleMask
  <2>1. PICK i \in Slots : slot[i] = NoCtx
    BY <1>4 DEF Grow, Slots
  <2>2. ~(handle_index + slot_size - 1 <= HandleMask)
    BY <1>0, <2>1, ScanPassesAll
  <2>3. handle_index + slot_size - 1 \in Int /\ HandleMask \in Int
    BY MaskAssumption DEF TypeOK
  <2>. QED  BY <2>2, <2>3
<1>5. failed' # "no" => UNCHANGED <<slot, slot_size>>
  BY DEF Grow
<1>6. ASSUME failed' = "no"
      PROVE  /\ slot_size' = 2 * slot_size
             /\ \A c \in InTable : slot'[handle[c] % (2 * slot_size)] = c
             /\ \A j \in 0..2 * slot_size - 1 : slot'[j] # NoCtx =>
                    slot'[j] \in InTable /\ handle[slot'[j]] % (2 * slot_size) = j
  <2>1. /\ \A i \in old : slot[i] # NoCtx
        /\ \A i, j \in old : NewSlot(i) = NewSlot(j) => i = j
    BY <1>6 DEF Grow
  <2>2. /\ slot_size' = 2 * slot_size
        /\ slot' = [j \in 0..2 * slot_size - 1 |->
                      IF \E i \in old : NewSlot(i) = j
                        THEN slot[CHOOSE i \in old : NewSlot(i) = j] ELSE NoCtx]
    BY <1>6 DEF Grow
  <2>3. ASSUME NEW c \in InTable PROVE slot'[handle[c] % (2 * slot_size)] = c
    <3>1. PICK i \in old : slot[i] = c
      BY DEF InTable
    <3>2. NewSlot(i) = handle[c] % (2 * slot_size)
      BY <3>1 DEF NewSlot
    <3>3. NewSlot(i) \in 0..2 * slot_size - 1
      <4>1. handle[c] \in Nat /\ 2 * slot_size \in Nat \ {0}
        BY InTableType DEF TypeOK
      <4>. QED  BY <3>2, <4>1, ModFacts
    <3>. DEFINE k == CHOOSE k \in old : NewSlot(k) = NewSlot(i)
    <3>4. k \in old /\ NewSlot(k) = NewSlot(i)
      OBVIOUS
    <3>5. k = i
      BY <2>1, <3>4
    <3>6. slot'[NewSlot(i)] = slot[k]
      BY <2>2, <3>3
    <3>. QED  BY <3>1, <3>2, <3>5, <3>6
  <2>4. ASSUME NEW j \in 0..2 * slot_size - 1, slot'[j] # NoCtx
        PROVE  slot'[j] \in InTable /\ handle[slot'[j]] % (2 * slot_size) = j
    <3>. DEFINE k == CHOOSE k \in old : NewSlot(k) = j
    <3>1. \E k_1 \in old : NewSlot(k_1) = j
      BY <2>2, <2>4
    <3>2. k \in old /\ NewSlot(k) = j
      BY <3>1
    <3>3. slot'[j] = slot[k]
      BY <2>2, <3>1
    <3>. HIDE DEF k
    <3>4. slot[k] \in InTable
      BY <2>1, <3>2 DEF InTable
    <3>. QED  BY <3>2, <3>3, <3>4 DEF NewSlot
  <2>. QED  BY <2>2, <2>3, <2>4
<1>. QED  BY <1>3, <1>4, <1>5, <1>6

\* The context that skynet_handle_retire finds leaves its slot; no other does.
LEMMA RetireRemoves ==
  ASSUME TypeOK, NEW h \in Nat \ {0}, RetireSection(h), UNCHANGED slot_size
  PROVE  /\ Grab(h) = NoCtx => UNCHANGED <<slot, handle, missed>>
         /\ Grab(h) # NoCtx =>
              /\ Grab(h) \in Ctx /\ handle[Grab(h)] = h /\ slot[Hash(h)] = Grab(h)
              /\ InTable \ {Grab(h)} \subseteq InTable' /\ missed' = missed \ {Grab(h)}
              /\ \A i \in Slots : slot'[i] = IF i = Hash(h) THEN NoCtx ELSE slot[i]
              /\ \A c \in Ctx \ {Grab(h)} : handle'[c] = handle[c]
<1>1. CASE Grab(h) = NoCtx
  BY <1>1 DEF RetireSection
<1>2. ASSUME NEW g \in Ctx, g = Grab(h), g # NoCtx
      PROVE  /\ handle[g] = h /\ slot[Hash(h)] = g
             /\ InTable \ {g} \subseteq InTable' /\ missed' = missed \ {g}
             /\ \A i \in Slots : slot'[i] = IF i = Hash(h) THEN NoCtx ELSE slot[i]
             /\ \A c \in Ctx \ {g} : handle'[c] = handle[c]
  <2>1. Hash(h) \in Slots
    BY HashType
  <2>2. slot[Hash(h)] = g /\ handle[g] = h
    BY <1>2 DEF Grab
  <2>5. /\ slot' = [slot EXCEPT ![Hash(h)] = NoCtx]
        /\ handle' = [handle EXCEPT ![g] = 0]
        /\ missed' = missed \ {g}
    BY <1>2 DEF RetireSection
  <2>6. \A i \in Slots : slot'[i] = IF i = Hash(h) THEN NoCtx ELSE slot[i]
    BY <2>1, <2>5 DEF TypeOK
  <2>7. ASSUME NEW c \in InTable, c # g PROVE c \in InTable'
    <3>. PICK i \in Slots : slot[i] = c
      BY DEF InTable, Slots
    <3>1. slot'[i] = c
      BY <2>2, <2>6, <2>7
    <3>. QED  BY <3>1 DEF InTable, Slots
  <2>. QED  BY <2>2, <2>5, <2>6, <2>7 DEF TypeOK
<1>3. Grab(h) # NoCtx => Grab(h) \in Ctx
  BY HashType DEF Grab, TypeOK
<1>. QED  BY <1>1, <1>2, <1>3

LEMMA PlacedNext ==
  ASSUME TypeOK, Placed, Registering, Sweeping, Next
  PROVE  Placed'
<1>1. ASSUME UNCHANGED <<slot, slot_size>>,
             \A c \in InTable : c \notin caught' => c \notin caught /\ Label(c)' = Label(c)
      PROVE  Placed'
  <2>1. ASSUME NEW i \in Slots, slot[i] # NoCtx, slot[i] \notin caught'
        PROVE  Label(slot[i])' = Label(slot[i]) /\ slot[i] \notin caught
    <3>. PICK c \in InTable : c = slot[i]
      BY <2>1 DEF InTable, Slots
    <3>. QED  BY <1>1, <2>1 DEF Label
  <2>. QED  BY <1>1, <2>1 DEF Placed, Slots, Hash
<1>2. ASSUME NEW c \in Ctx, Register(c) PROVE Placed'
  <2>1. \A d \in InTable : d \notin caught' => d \notin caught /\ Label(d)' = Label(d)
    BY <1>2, InTableType DEF Register, Label, TypeOK
  <2>. QED  BY <1>1, <1>2, <2>1 DEF Register, table
<1>3. ASSUME NEW c \in Ctx, Assign(c) PROVE Placed'
  <2>1. \A d \in InTable : d \notin caught' => d \notin caught /\ Label(d)' = Label(d)
    BY <1>3, InTableType DEF Assign, Label, TypeOK, Registering
  <2>. QED  BY <1>1, <1>3, <2>1 DEF Assign, table
<1>4. CASE Place
  <2>. PICK w \in Ctx : w = writer
    BY <1>4 DEF Place, TypeOK
  <2>1. PICK h \in Nat \ {0} :
          /\ Hash(h) \in Slots
          /\ slot' = [slot EXCEPT ![Hash(h)] = w]
          /\ result' = [result EXCEPT ![w] = h]
          /\ UNCHANGED <<slot_size, handle, caught>>
    BY <1>4, FirstFree DEF Place
  <2>2. w \notin InTable /\ handle[w] = 0
    BY <1>4 DEF Place, Registering
  <2>3. ASSUME NEW i \in Slots, slot'[i] # NoCtx, slot'[i] \notin caught'
        PROVE  Label(slot[i])' # 0 /\ Label(slot[i])' % slot_size = i
    <3>1. CASE i = Hash(h)
      <4>1. slot'[i] = w
        BY <2>1, <3>1 DEF TypeOK
      <4>2. Label(w)' = h
        BY <2>1, <2>2 DEF Label, TypeOK
      <4>3. Label(slot[i])' = h
        BY <4>1, <4>2 DEF Label
      <4>. QED  BY <3>1, <4>3 DEF Hash
    <3>2. CASE i # Hash(h)
      <4>. PICK c \in InTable : c = slot[i]
        BY <2>1, <2>3, <3>2 DEF TypeOK, InTable, Slots
      <4>1. slot'[i] = c /\ c # w /\ c \in Ctx
        BY <2>1, <2>2, <3>2, InTableType DEF TypeOK
      <4>2. Label(c)' = Label(c)
        BY <2>1, <4>1 DEF Label, TypeOK
      <4>3. Label(slot[i])' = Label(c)
        BY <4>1, <4>2 DEF Label
      <4>. QED  BY <2>1, <2>3, <4>1, <4>3 DEF Placed, Hash
    <3>. QED  BY <3>1, <3>2
  <2>. QED  BY <2>1, <2>3 DEF Placed, Slots, Hash
<1>5. CASE Grow
  <2>1. UNCHANGED <<handle, result>> /\ writer # NoCtx
    BY <1>5 DEF Grow, life
  <2>2. CASE failed' # "no"
    <3>1. UNCHANGED <<slot, slot_size>> /\ caught \subseteq caught'
      BY <1>5, <2>2, GrowKeeps DEF Grow
    <3>. QED  BY <1>1, <2>1, <3>1 DEF Label
  <2>3. CASE failed' = "no"
    <3>1. ASSUME NEW j \in 0..2 * slot_size - 1, slot'[j] # NoCtx, slot'[j] \notin caught'
          PROVE  Label(slot[j])' # 0 /\ Label(slot[j])' % (2 * slot_size) = j
      <4>. PICK c \in InTable : c = slot'[j]
        BY <1>5, <2>3, <3>1, GrowKeeps
      <4>1. handle[c] # 0 /\ handle[c] % (2 * slot_size) = j
        BY <1>5, <2>3, <3>1, GrowKeeps DEF Grow
      <4>2. Label(slot[j])' = handle[c]
        BY <2>1, <4>1 DEF Label
      <4>. QED  BY <4>1, <4>2
    <3>2. slot_size' = 2 * slot_size
      BY <1>5, <2>3, GrowKeeps
    <3>. QED  BY <3>1, <3>2 DEF Placed, Slots, Hash
  <2>. QED  BY <2>2, <2>3
<1>6. ASSUME NEW h \in Nat \ {0}, RetireSection(h), UNCHANGED <<slot_size, result, caught>> PROVE Placed'
  <2>1. CASE Grab(h) = NoCtx
    BY <1>1, <1>6, <2>1, RetireRemoves DEF Label
  <2>2. CASE Grab(h) # NoCtx
    <3>. PICK g \in Ctx : g = Grab(h)
      BY <1>6, <2>2, RetireRemoves
    <3>1. /\ \A i \in Slots : slot'[i] = IF i = Hash(h) THEN NoCtx ELSE slot[i]
          /\ \A c \in Ctx \ {g} : handle'[c] = handle[c]
          /\ handle[g] = h
      BY <1>6, <2>2, RetireRemoves
    <3>2. ASSUME NEW i \in Slots, slot'[i] # NoCtx, slot'[i] \notin caught'
          PROVE  Label(slot[i])' # 0 /\ Label(slot[i])' % slot_size = i
      <4>1. slot'[i] = slot[i] /\ i # Hash(h)
        BY <3>1, <3>2
      <4>. PICK c \in Ctx : c = slot[i] /\ c = slot'[i] /\ c \notin caught
        BY <1>6, <3>2, <4>1 DEF TypeOK
      <4>2. Label(c) # 0 /\ Hash(Label(c)) = i
        BY <3>2, <4>1 DEF Placed
      <4>3. Label(g) = h
        BY <3>1 DEF Label
      <4>4. c # g
        BY <4>1, <4>2, <4>3
      <4>5. Label(slot[i])' = Label(c)
        BY <1>6, <3>1, <4>4 DEF Label
      <4>. QED  BY <4>2, <4>5 DEF Hash
    <3>. QED  BY <1>6, <3>2 DEF Placed, Slots, Hash
  <2>. QED  BY <2>1, <2>2
<1>7. ASSUME NEW h \in given, Retire(h) PROVE Placed'
  <2>1. h \in Nat \ {0}
    BY DEF TypeOK
  <2>. QED  BY <1>6, <1>7, <2>1 DEF Retire
<1>8. CASE SweepRetire
  <2>1. sweep.h \in Nat \ {0}
    BY <1>8 DEF SweepRetire, Sweeping, TypeOK
  <2>. QED  BY <1>6, <1>8, <2>1 DEF SweepRetire
<1>9. CASE UNCHANGED <<slot, slot_size, handle, result, caught>>
  BY <1>1, <1>9 DEF Label
<1>. QED
  BY <1>2, <1>3, <1>4, <1>5, <1>7, <1>8, <1>9
  DEF Next, NameHandle, SweepStart, SweepRead, SweepEnd, table, life

LEMMA RegisteringNext ==
  ASSUME TypeOK, Placed, Registering, Sweeping, Next
  PROVE  Registering'
<1>1. ASSUME NEW c \in Ctx, Register(c) PROVE Registering'
  <2>1. UNCHANGED <<slot, slot_size, result>> /\ c \notin InTable /\ result[c] = 0
    BY <1>1 DEF Register, table
  <2>2. writer' = c /\ handle' = [handle EXCEPT ![c] = 0]
    BY <1>1 DEF Register
  <2>. QED  BY <2>1, <2>2 DEF Registering, InTable, TypeOK
<1>2. ASSUME NEW c \in Ctx, Assign(c) PROVE Registering'
  <2>1. writer' # c /\ UNCHANGED <<writer, slot, slot_size>>
    BY <1>2, NoCtxAssumption DEF Assign, Registering, table
  <2>2. \A d \in Ctx \ {c} : handle'[d] = handle[d] /\ result'[d] = result[d]
    BY <1>2 DEF Assign, TypeOK
  <2>3. result'[c] = 0
    BY <1>2 DEF Assign, TypeOK
  <2>4. InTable' = InTable
    BY <2>1 DEF InTable
  <2>. QED  BY <2>1, <2>2, <2>3, <2>4 DEF Registering, TypeOK
<1>3. CASE Place
  <2>. PICK w \in Ctx : w = writer
    BY <1>3 DEF Place, TypeOK
  <2>1. handle[w] = 0 /\ writer' = NoCtx /\ UNCHANGED handle /\ \A c \in Ctx \ {w} : result'[c] = result[c]
    BY <1>3 DEF Place, Registering, TypeOK
  <2>. QED  BY <2>1 DEF Registering
<1>4. CASE Grow
  <2>1. UNCHANGED <<handle, result, writer>>
    BY <1>4 DEF Grow, life
  <2>2. InTable' \subseteq InTable
    <3>1. CASE failed' # "no"
      BY <1>4, <3>1, GrowKeeps DEF InTable
    <3>2. CASE failed' = "no"
      <4>1. slot_size' = 2 * slot_size
        BY <1>4, <3>2, GrowKeeps
      <4>2. \A j \in 0..2 * slot_size - 1 : slot'[j] # NoCtx => slot'[j] \in InTable
        BY <1>4, <3>2, GrowKeeps
      <4>3. ASSUME NEW c \in InTable' PROVE c \in InTable
        <5>1. PICK j \in 0..slot_size' - 1 : slot'[j] = c
          BY <4>3 DEF InTable
        <5>2. c # NoCtx
          BY <4>3 DEF InTable
        <5>. QED  BY <4>1, <4>2, <5>1, <5>2
      <4>. QED  BY <4>3
    <3>. QED  BY <3>1, <3>2
  <2>. QED  BY <2>1, <2>2 DEF Registering
<1>5. ASSUME NEW h \in Nat \ {0}, RetireSection(h), Free, UNCHANGED <<result, writer>> PROVE Registering'
  <2>1. \A c \in Ctx : handle'[c] \in {handle[c], 0}
    BY <1>5 DEF RetireSection, TypeOK
  <2>. QED  BY <1>5, <2>1 DEF Registering, Free
<1>6. ASSUME NEW h \in given, Retire(h) PROVE Registering'
  <2>1. h \in Nat \ {0}
    BY DEF TypeOK
  <2>. QED  BY <1>5, <1>6, <2>1 DEF Retire
<1>7. CASE SweepRetire
  <2>1. sweep.h \in Nat \ {0}
    BY <1>7 DEF SweepRetire, Sweeping, TypeOK
  <2>. QED  BY <1>5, <1>7, <2>1 DEF SweepRetire
<1>8. CASE UNCHANGED <<slot, slot_size, handle, result, writer>>
  BY <1>8 DEF Registering, InTable
<1>. QED
  BY <1>1, <1>2, <1>3, <1>4, <1>6, <1>7, <1>8
  DEF Next, NameHandle, SweepStart, SweepRead, SweepEnd, table, life

\* A context that a pass still has to meet stays ahead of it.

LEMMA StaysAhead ==
  ASSUME TypeOK, NEW c \in missed, Ahead(c), UNCHANGED sweep, c \in InTable', handle'[c] = handle[c],
         NEW n \in Nat, n = handle[c] % slot_size', n >= handle[c] % slot_size
  PROVE  Ahead(c)'
<1>1. c \in Ctx /\ handle[c] \in Nat /\ slot_size \in Nat \ {0}
  BY DEF TypeOK
<1>. PICK m \in Nat : m = handle[c] % slot_size
  <2>1. handle[c] % slot_size \in 0..slot_size - 1
    BY <1>1, ModFacts
  <2>. QED  BY <1>1, <2>1
<1>2. sweep.i \in Nat
  BY DEF TypeOK
<1>3. m >= sweep.i /\ (sweep.at = "retire" => m > sweep.i \/ handle[c] = sweep.h)
  BY DEF Ahead, Hash
<1>4. n >= sweep.i /\ (sweep.at = "retire" => n > sweep.i \/ handle[c] = sweep.h)
  BY <1>2, <1>3
<1>. QED  BY <1>4 DEF Ahead, Hash

LEMMA SweepingNext ==
  ASSUME TypeOK, Placed, Registering, Sweeping, Next
  PROVE  Sweeping'
<1>. DEFINE left == missed \ caught
<1>0. ASSUME NEW c \in left
      PROVE  /\ c \in InTable /\ c \in Ctx /\ handle[c] \in Nat \ {0} /\ Ahead(c)
             /\ handle[c] % slot_size \in Nat /\ Label(c) = handle[c]
             /\ handle[c] % slot_size \in Slots /\ slot[handle[c] % slot_size] = c
  <2>1. c \in InTable /\ handle[c] # 0 /\ Ahead(c) /\ c \notin caught
    BY DEF Sweeping, Ahead
  <2>2. c \in Ctx /\ handle[c] \in Nat /\ slot_size \in Nat \ {0}
    BY DEF TypeOK
  <2>3. Label(c) = handle[c]
    BY <2>1 DEF Label
  <2>4. handle[c] % slot_size \in Slots /\ slot[handle[c] % slot_size] = c
    BY <2>1, <2>3, InTableSlot DEF Hash
  <2>5. handle[c] % slot_size \in Nat
    BY <2>2, <2>4 DEF Slots
  <2>. QED  BY <2>1, <2>2, <2>3, <2>4, <2>5
<1>1. ASSUME UNCHANGED <<sweep, slot_size>>, missed' \subseteq missed, missed' \subseteq InTable',
             \A c \in left' : c \in left /\ handle'[c] = handle[c]
      PROVE  Sweeping'
  <2>1. ASSUME NEW c \in left' PROVE Ahead(c)'
    <3>1. c \in left /\ c \in missed /\ c \in InTable' /\ handle'[c] = handle[c]
      BY <1>1
    <3>. PICK n \in Nat : n = handle[c] % slot_size
      BY <1>0, <3>1
    <3>. QED  BY <1>0, <1>1, <3>1, StaysAhead
  <2>. QED  BY <1>1, <2>1 DEF Sweeping
<1>2. ASSUME NEW c \in Ctx, Register(c) PROVE Sweeping'
  <2>1. InTable' = InTable /\ missed' = missed /\ c \notin missed
    BY <1>2 DEF Register, table, sweepVars, InTable, Sweeping
  <2>2. \A d \in left' : d \in left /\ handle'[d] = handle[d]
    BY <1>2, <2>1 DEF Register, TypeOK
  <2>. QED  BY <1>1, <1>2, <2>1, <2>2 DEF Register, table, sweepVars, Sweeping
<1>3. ASSUME NEW c \in Ctx, Assign(c) PROVE Sweeping'
  <2>1. handle[c] = 0
    BY <1>3 DEF Assign, Registering
  <2>2. InTable' = InTable /\ missed' = missed /\ caught' = caught
    BY <1>3 DEF Assign, table, sweepVars, InTable
  <2>3. \A d \in left' : d \in left /\ handle'[d] = handle[d]
    BY <1>0, <1>3, <2>1, <2>2 DEF Assign, TypeOK
  <2>. QED  BY <1>1, <1>3, <2>2, <2>3 DEF Assign, table, sweepVars, Sweeping
<1>4. CASE Place
  <2>. PICK w \in Ctx : w = writer
    BY <1>4 DEF Place, TypeOK
  <2>1. PICK k \in Slots : slot[k] = NoCtx /\ slot' = [slot EXCEPT ![k] = w]
    BY <1>4, FirstFree DEF Place
  <2>2. UNCHANGED <<slot_size, handle, sweep, missed, caught>>
    BY <1>4 DEF Place, sweepVars
  <2>3. ASSUME NEW d \in missed PROVE d \in InTable'
    <3>1. PICK i \in Slots : slot[i] = d /\ d # NoCtx
      BY DEF InTable, Slots, Sweeping
    <3>2. slot'[i] = d
      BY <2>1, <3>1 DEF TypeOK
    <3>. QED  BY <2>2, <3>1, <3>2 DEF InTable, Slots
  <2>4. left' = left
    BY <2>2
  <2>. QED  BY <1>1, <2>2, <2>3, <2>4
<1>5. CASE Grow
  <2>1. UNCHANGED <<handle, sweep, missed>> /\ caught \subseteq caught'
    BY <1>5 DEF Grow, life, sweepVars
  <2>2. CASE failed' # "no"
    <3>1. UNCHANGED <<slot, slot_size>>
      BY <1>5, <2>2, GrowKeeps
    <3>2. InTable' = InTable
      BY <3>1 DEF InTable
    <3>. QED  BY <1>1, <2>1, <3>1, <3>2 DEF Sweeping
  <2>3. CASE failed' = "no"
    <3>0. slot_size \in Nat \ {0} /\ slot_size' = 2 * slot_size /\ 2 * slot_size \in Nat \ {0}
      BY <1>5, <2>3, GrowKeeps DEF TypeOK
    <3>1. ASSUME NEW c \in missed PROVE c \in InTable'
      <4>1. c \in InTable /\ c \in Ctx /\ handle[c] \in Nat
        BY DEF Sweeping, TypeOK
      <4>2. handle[c] % (2 * slot_size) \in 0..2 * slot_size - 1
        BY <3>0, <4>1, ModFacts
      <4>3. slot'[handle[c] % (2 * slot_size)] = c
        BY <1>5, <2>3, <4>1, GrowKeeps
      <4>. QED  BY <3>0, <4>1, <4>2, <4>3, NoCtxAssumption DEF InTable
    <3>2. ASSUME NEW c \in left' PROVE Ahead(c)'
      <4>0. c \in left /\ c \in missed
        BY <2>1
      <4>1. handle[c] \in Nat /\ handle[c] % slot_size \in Nat /\ c \in Ctx
        BY <1>0, <4>0
      <4>. PICK m \in Nat : m = handle[c] % slot_size
        BY <4>1
      <4>. PICK n \in {m, m + slot_size} : n = handle[c] % (2 * slot_size)
        BY <3>0, <4>1, DoubleMod
      <4>2. n \in Nat /\ n >= m
        BY <3>0
      <4>. QED  BY <1>0, <2>1, <3>0, <3>1, <4>0, <4>2, StaysAhead
    <3>. QED  BY <2>1, <3>1, <3>2 DEF Sweeping
  <2>. QED  BY <2>2, <2>3
<1>6. ASSUME NEW h \in Nat \ {0}, RetireSection(h), UNCHANGED <<slot_size, caught>>
      PROVE  /\ missed' \subseteq missed /\ missed' \subseteq InTable'
             /\ \A c \in left' : c \in left /\ handle'[c] = handle[c] /\ handle[c] # h
  <2>1. CASE Grab(h) = NoCtx
    <3>1. UNCHANGED <<slot, handle, missed>>
      BY <1>6, <2>1, RetireRemoves
    <3>2. InTable' = InTable
      BY <1>6, <3>1 DEF InTable
    <3>3. ASSUME NEW c \in left PROVE handle[c] # h
      BY <1>0, <2>1, NoCtxAssumption DEF Grab, Hash
    <3>. QED  BY <1>6, <3>1, <3>2, <3>3 DEF Sweeping
  <2>2. CASE Grab(h) # NoCtx
    <3>. PICK g \in Ctx : g = Grab(h)
      BY <1>6, <2>2, RetireRemoves
    <3>1. /\ InTable \ {g} \subseteq InTable' /\ missed' = missed \ {g} /\ slot[Hash(h)] = g
          /\ \A c \in Ctx \ {g} : handle'[c] = handle[c]
      BY <1>6, <2>2, RetireRemoves
    <3>2. ASSUME NEW c \in left, handle[c] = h PROVE c = g
      BY <1>0, <3>1, <3>2 DEF Hash
    <3>3. \A c \in left' : c \in left /\ c # g /\ c \in Ctx
      BY <1>0, <1>6, <3>1
    <3>. QED  BY <3>1, <3>2, <3>3 DEF Sweeping
  <2>. QED  BY <2>1, <2>2
<1>7. ASSUME NEW h \in given, Retire(h) PROVE Sweeping'
  <2>1. h \in Nat \ {0}
    BY DEF TypeOK
  <2>. QED  BY <1>1, <1>6, <1>7, <2>1 DEF Retire
<1>8. ASSUME NEW h \in given, NEW n \in Name, NameHandle(h, n) PROVE Sweeping'
  <2>1. UNCHANGED <<slot, slot_size, handle, sweep, missed, caught>>
    BY <1>8 DEF NameHandle, table, life, sweepVars
  <2>2. InTable' = InTable /\ left' = left
    BY <2>1 DEF InTable
  <2>. QED  BY <1>1, <2>1, <2>2 DEF Sweeping
<1>9. ASSUME missed' = {c \in InTable : handle[c] # 0}, UNCHANGED <<slot, slot_size, handle>>,
             sweep'.at = "read", sweep'.i = 0
      PROVE  Sweeping'
  <2>1. ASSUME NEW c \in missed' PROVE Ahead(c)'
    <3>1. c \in InTable /\ handle[c] # 0 /\ c \in Ctx
      BY <1>9, InTableType
    <3>2. handle[c] % slot_size \in Nat
      BY <3>1, ModFacts DEF TypeOK
    <3>. QED  BY <1>9, <3>1, <3>2 DEF Ahead, InTable, Hash
  <2>2. missed' \subseteq InTable'
    BY <1>9 DEF InTable
  <2>. QED  BY <1>9, <2>1, <2>2 DEF Sweeping
<1>10. CASE SweepStart
  <2>1. sweep'.at = "read" /\ sweep'.i = 0
    BY <1>10 DEF SweepStart
  <2>. QED  BY <1>9, <1>10, <2>1 DEF SweepStart, table, life
<1>11. CASE SweepEnd
  <2>1. CASE sweep.n = 0
    BY <1>11, <2>1 DEF SweepEnd, Sweeping
  <2>2. CASE sweep.n # 0
    <3>1. sweep'.at = "read" /\ sweep'.i = 0
      BY <1>11, <2>2 DEF SweepEnd
    <3>. QED  BY <1>9, <1>11, <2>2, <3>1 DEF SweepEnd, table, life
  <2>. QED  BY <2>1, <2>2
<1>12. CASE SweepRead
  <2>0. UNCHANGED <<slot, slot_size, handle, missed, caught>> /\ sweep.at = "read" /\ sweep.i \in Slots
    BY <1>12 DEF SweepRead, table, life, TypeOK, Slots
  <2>. PICK i \in Slots : i = sweep.i
    BY <2>0
  <2>. DEFINE h == IF slot[i] = NoCtx THEN 0 ELSE handle[slot[i]]
  <2>1. h \in Nat
    BY DEF TypeOK
  <2>2. CASE h = 0
    <3>1. sweep' = [sweep EXCEPT !.i = i + 1] /\ i \in Nat
      BY <1>12, <2>2 DEF SweepRead, TypeOK
    <3>2. sweep'.at = "read" /\ sweep'.i = i + 1
      BY <2>0, <3>1 DEF TypeOK
    <3>3. ASSUME NEW c \in left PROVE Ahead(c)'
      <4>. PICK m \in Nat : m = handle[c] % slot_size
        BY <1>0
      <4>1. m >= i /\ m # i
        BY <1>0, <2>2, NoCtxAssumption DEF Ahead, Hash
      <4>2. m >= i + 1
        BY <3>1, <4>1
      <4>. QED  BY <1>0, <2>0, <3>2, <4>2 DEF Ahead, Hash, InTable
    <3>. QED  BY <2>0, <3>2, <3>3 DEF Sweeping, InTable
  <2>3. CASE h # 0
    <3>1. sweep' = [sweep EXCEPT !.at = "retire", !.h = h]
      BY <1>12, <2>3 DEF SweepRead
    <3>2. sweep'.at = "retire" /\ sweep'.i = i /\ sweep'.h = h
      BY <2>0, <3>1 DEF TypeOK
    <3>3. ASSUME NEW c \in left PROVE Ahead(c)'
      <4>. PICK m \in Nat : m = handle[c] % slot_size
        BY <1>0
      <4>1. m >= i /\ i \in Nat
        BY <1>0 DEF Ahead, Hash, TypeOK, Slots
      <4>2. m = i => handle[c] = h
        BY <1>0, NoCtxAssumption
      <4>3. m > i \/ handle[c] = h
        BY <4>1, <4>2
      <4>. QED  BY <1>0, <2>0, <3>2, <4>1, <4>3 DEF Ahead, Hash, InTable
    <3>. QED  BY <2>0, <2>3, <3>2, <3>3 DEF Sweeping, InTable
  <2>. QED  BY <2>2, <2>3
<1>13. CASE SweepRetire
  <2>. PICK h \in Nat \ {0} : h = sweep.h
    BY <1>13 DEF SweepRetire, Sweeping, TypeOK
  <2>. PICK i \in Nat : i = sweep.i
    BY DEF TypeOK
  <2>1. RetireSection(h) /\ UNCHANGED <<slot_size, caught>> /\ sweep.at = "retire"
    BY <1>13 DEF SweepRetire
  <2>2. sweep'.at = "read" /\ sweep'.i = i + 1
    BY <1>13 DEF SweepRetire
  <2>3. ASSUME NEW c \in left' PROVE Ahead(c)'
    <3>1. c \in left /\ c \in InTable' /\ handle'[c] = handle[c] /\ handle[c] # h
      BY <1>6, <2>1
    <3>. PICK m \in Nat : m = handle[c] % slot_size
      BY <1>0, <3>1
    <3>2. m > i
      BY <1>0, <2>1, <3>1 DEF Ahead, Hash
    <3>3. m >= i + 1
      BY <3>2
    <3>. QED  BY <1>0, <2>1, <2>2, <3>1, <3>3 DEF Ahead, Hash
  <2>. QED  BY <1>6, <2>1, <2>2, <2>3 DEF Sweeping
<1>. QED
  BY <1>2, <1>3, <1>4, <1>5, <1>7, <1>8, <1>10, <1>11, <1>12, <1>13 DEF Next

LEMMA RehashNext ==
  ASSUME TypeOK, Placed, Registering, RehashSound, Next
  PROVE  RehashSound'
<1>1. CASE Grow
  <2>1. UNCHANGED handle_index /\ (failed' = "null" => UNCHANGED slot_size)
    BY <1>1, GrowKeeps DEF Grow
  <2>2. failed' = "assert" => InTable' = InTable
    BY <1>1, GrowKeeps DEF InTable
  <2>. QED  BY <1>1, <2>1, <2>2, GrowKeeps DEF RehashSound
<1>2. CASE failed = "no" /\ failed' = "no"
  BY <1>2 DEF RehashSound
<1>. QED
  BY <1>1, <1>2
  DEF Next, Register, Assign, Place, Retire, NameHandle, SweepStart, SweepRead, SweepRetire, SweepEnd, Free

LEMMA InitIInv == Init => IInv
<1>. SUFFICES ASSUME Init PROVE IInv
  OBVIOUS
<1>1. slot_size \in Nat \ {0}
  BY SizeAssumption, MaskAssumption DEF Init
<1>2. TypeOK
  BY <1>1 DEF Init, TypeOK, Slots
<1>3. Placed /\ Registering /\ Sweeping /\ RehashSound
  BY <1>1 DEF Init, Placed, Slots, Registering, Sweeping, RehashSound, InTable
<1>. QED  BY <1>2, <1>3 DEF IInv

LEMMA NextIInv == IInv /\ [Next]_vars => IInv'
<1>. SUFFICES ASSUME IInv, [Next]_vars PROVE IInv'
  OBVIOUS
<1>1. CASE Next
  BY <1>1, TypeNext, PlacedNext, RegisteringNext, SweepingNext, RehashNext DEF IInv
<1>2. CASE UNCHANGED vars
  <2>. USE <1>2 DEF vars, table, life, sweepVars, IInv
  <2>1. TypeOK'
    BY DEF TypeOK, Slots
  <2>2. Placed' /\ Registering'
    BY DEF Placed, Slots, Label, Hash, Registering, InTable
  <2>3. Sweeping' /\ RehashSound'
    BY DEF Sweeping, Ahead, Hash, InTable, RehashSound
  <2>. QED  BY <2>1, <2>2, <2>3
<1>. QED  BY <1>1, <1>2

LEMMA SweepMissesNobodyInv == IInv => SweepMissesNobody
<1>. SUFFICES ASSUME IInv, sweep.at = "read", sweep.i >= slot_size, NEW c \in missed, c \notin caught PROVE FALSE
  BY DEF SweepMissesNobody
<1>1. Hash(handle[c]) >= sweep.i /\ sweep.i \in Nat
  BY DEF IInv, Sweeping, Ahead, TypeOK
<1>2. Hash(handle[c]) \in Slots
  BY HashType DEF IInv, TypeOK
<1>. QED  BY <1>1, <1>2 DEF IInv, TypeOK, Slots

LEMMA IInvAlways == Spec => []IInv
BY InitIInv, NextIInv, PTL DEF Spec

\* skynet_handle_grab finds every registered context under its handle, for
\* every table size, every mask and any overlap of launches, through every
\* growth and every wrap of handle_index; lost are at most contexts that a
\* growth met before their handle was assigned.
THEOREM HandlesFound == Spec => []Findable
<1>1. IInv => Findable
  BY FindableInv DEF IInv
<1>. QED  BY <1>1, IInvAlways, PTL

\* assert(new_slot[hash] == NULL) fails only if the table holds a context that
\* was rehashed before its handle was assigned, and a table that grows has no
\* free slot unless the scan wrapped past the mask.
THEOREM RehashFailsOnlyCaught == Spec => []RehashSound
<1>1. IInv => RehashSound
  BY DEF IInv
<1>. QED  BY <1>1, IInvAlways, PTL

\* A pass of skynet_handle_retireall meets every service that had its handle
\* when the pass began, though the table may grow and launches overlap with it;
\* missed are at most contexts that a growth caught without their handle.
THEOREM SweepMeetsAll == Spec => []SweepMissesNobody
BY SweepMissesNobodyInv, IInvAlways, PTL

=============================================================================
