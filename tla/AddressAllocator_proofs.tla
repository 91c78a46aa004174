----------------------- MODULE AddressAllocator_proofs -----------------------
(***************************************************************************)
(* Proofs about AddressAllocator, whatever the numbers of requests,        *)
(* addresses and restarts, and whoever outlives a restart: until the list  *)
(* loses an update every lease is unique, the list agrees with the leases  *)
(* and the allocator is a pool. Accesses may overlap; TLC shows (run       *)
(* AllocatorRace) that a lease is not unique once an update is lost.       *)
(***************************************************************************)
EXTENDS AddressAllocator, WellFoundedInduction, TLAPS

\* A request that has been given an address and has not handed it back.
LeaseHasAddress == \A r \in Request : HasLease(r) => idx[r] \in Slot

\* The inductive invariant.
AInv ==
  /\ ATypeOK
  /\ LeaseHasAddress
  /\ UniqueUnlessRaced
  /\ ListMatchesUnlessRaced

\* Every nonempty set of addresses has a least one.
LEMMA LeastAddress ==
  ASSUME NEW S \in SUBSET Slot, S # {}
  PROVE  \E a \in S : \A b \in S : ~(b < a)
<1> DEFINE R == OpToRel(<, Nat)
<1>1. IsWellFoundedOn(R, Nat)
  BY NatLessThanWellFounded
<1>2. S \subseteq Nat
  BY AllocatorAssumption DEF Slot
<1>3. \E a \in S : \A b \in S : <<b, a>> \notin R
  BY <1>1, <1>2, WFMin
<1>4. \A a, b \in S : <<b, a>> \in R <=> b < a
  BY <1>2 DEF OpToRel
<1> QED
  BY <1>3, <1>4

\* What the lookup of lock_address returns: an available address, or None when
\* there is none.
LEMMA FirstFreeIsFree ==
  ASSUME NEW list \in [Slot -> {0, 1}]
  PROVE  \/ FirstFree(list) \in Slot /\ list[FirstFree(list)] = 1
         \/ FirstFree(list) = NoAddress /\ \A a \in Slot : list[a] = 0
<1>1. CASE \E a \in Slot : list[a] = 1
  <2> DEFINE S == {a \in Slot : list[a] = 1}
  <2>1. PICK a \in S : \A b \in S : ~(b < a)
    BY <1>1, LeastAddress
  <2>2. \A b \in Slot : b < a => list[b] = 0
    BY <2>1
  <2> QED
    BY <1>1, <2>1, <2>2 DEF FirstFree
<1>2. CASE ~ \E a \in Slot : list[a] = 1
  BY <1>2 DEF FirstFree
<1> QED
  BY <1>1, <1>2

LEMMA NoAddressIsNone == NoAddress \notin Slot
  BY AllocatorAssumption DEF Slot

LEMMA AInitInv == AInit => AInv
<1> SUFFICES ASSUME AInit PROVE AInv
  OBVIOUS
<1> USE DEF AInit, AllFree
<1>1. ATypeOK
  BY AllocatorAssumption DEF ATypeOK
<1> QED
  BY <1>1 DEF AInv, UniqueUnlessRaced, UniqueLease, ListMatchesUnlessRaced,
              ListMatchesLeases, LeaseHasAddress, HasLease

\* Every step is typed.
LEMMA TypeStep == ATypeOK /\ [ANext]_aVars => ATypeOK'
<1> SUFFICES ASSUME ATypeOK, [ANext]_aVars PROVE ATypeOK'
  OBVIOUS
<1> USE DEF ATypeOK
<1>1. ASSUME NEW r \in Request, LockRead(r) \/ UnlockRead(r) \/ Timeout(r) PROVE ATypeOK'
  BY <1>1 DEF LockRead, UnlockRead, Timeout
<1>2. ASSUME NEW r \in Request, LockWrite(r) PROVE ATypeOK'
  <2> DEFINE a == FirstFree(copy[r])
  <2>1. a \in Slot \cup {NoAddress}
    BY FirstFreeIsFree
  <2>2. /\ state' = [b \in Slot |-> IF b = a THEN 0 ELSE copy[r][b]]
        /\ idx' = [idx EXCEPT ![r] = a]
        /\ apc' = [apc EXCEPT ![r] = IF a = NoAddress THEN "refused" ELSE "held"]
        /\ copy' = copy /\ raced' \in BOOLEAN
    BY <1>2 DEF LockWrite
  <2> HIDE DEF a
  <2> QED BY <2>1, <2>2
<1>3. ASSUME NEW r \in Request, UnlockWrite(r) PROVE ATypeOK'
  BY <1>3 DEF UnlockWrite
<1>4. ASSUME NEW S \in SUBSET Request, InitializeAddresses(S) PROVE ATypeOK'
  BY <1>4, AllocatorAssumption DEF InitializeAddresses, Outlived, AllFree
<1>5. CASE UNCHANGED aVars
  BY <1>5 DEF aVars
<1> QED BY <1>1, <1>2, <1>3, <1>4, <1>5 DEF ANext

\* A step that changes neither the list nor a lease keeps what holds of them.
LEMMA QuietInv ==
  ASSUME AInv, ATypeOK', state' = state, raced' = raced,
         \A r \in Request : (HasLease(r)' <=> HasLease(r)) /\ idx'[r] = idx[r]
  PROVE  AInv'
<1> USE DEF AInv
<1>1. LeaseHasAddress'
  BY DEF LeaseHasAddress
<1>2. UniqueUnlessRaced'
  BY DEF UniqueUnlessRaced, UniqueLease
<1>3. ListMatchesUnlessRaced'
  BY DEF ListMatchesUnlessRaced, ListMatchesLeases
<1> QED
  BY <1>1, <1>2, <1>3

\* A write that loses nothing works on the list as it is.
LEMMA CurrentCopy ==
  ASSUME AInv, NEW r \in Request, LockWrite(r) \/ UnlockWrite(r), ~raced'
  PROVE  copy[r] = state /\ UniqueLease /\ ListMatchesLeases
BY DEF LockWrite, UnlockWrite, Overwrites, AInv, UniqueUnlessRaced, ListMatchesUnlessRaced,
       ListMatchesLeases

\* What a write of lock_address does to the leases, whatever its copy of the list.
LEMMA LockWriteEffect ==
  ASSUME ATypeOK, NEW r \in Request, LockWrite(r)
  PROVE  \E a \in Slot \cup {NoAddress} :
           /\ a = FirstFree(copy[r])
           /\ \/ a \in Slot /\ copy[r][a] = 1
              \/ a = NoAddress /\ \A b \in Slot : copy[r][b] = 0
           /\ state' = [b \in Slot |-> IF b = a THEN 0 ELSE copy[r][b]]
           /\ \A s \in Request : s # r =>
                (HasLease(s)' <=> HasLease(s)) /\ idx'[s] = idx[s] /\ apc'[s] = apc[s]
           /\ idx'[r] = a /\ (HasLease(r)' <=> a # NoAddress) /\ ~HasLease(r)
           /\ apc'[r] = "refused" <=> a = NoAddress
<1> DEFINE a == FirstFree(copy[r])
<1>1. /\ apc[r] = "locking"
      /\ state' = [b \in Slot |-> IF b = a THEN 0 ELSE copy[r][b]]
      /\ idx' = [idx EXCEPT ![r] = a]
      /\ apc' = [apc EXCEPT ![r] = IF a = NoAddress THEN "refused" ELSE "held"]
  BY DEF LockWrite
<1>2. \/ a \in Slot /\ copy[r][a] = 1
      \/ a = NoAddress /\ \A b \in Slot : copy[r][b] = 0
  BY FirstFreeIsFree DEF ATypeOK
<1> HIDE DEF a
<1>3. \A s \in Request : s # r =>
        (HasLease(s)' <=> HasLease(s)) /\ idx'[s] = idx[s] /\ apc'[s] = apc[s]
  BY <1>1 DEF HasLease, ATypeOK
<1>4. idx'[r] = a /\ (HasLease(r)' <=> a # NoAddress) /\ ~HasLease(r)
  BY <1>1 DEF HasLease, ATypeOK
<1>5. apc'[r] = "refused" <=> a = NoAddress
  BY <1>1 DEF ATypeOK
<1>6. a = FirstFree(copy[r]) /\ a \in Slot \cup {NoAddress}
  BY <1>2 DEF a
<1> QED
  BY <1>1, <1>2, <1>3, <1>4, <1>5, <1>6

LEMMA LockWriteInv ==
  ASSUME AInv, ATypeOK', NEW r \in Request, LockWrite(r)
  PROVE  AInv'
<1> USE DEF AInv
<1>1. PICK a \in Slot \cup {NoAddress} :
        /\ \/ a \in Slot /\ copy[r][a] = 1
           \/ a = NoAddress /\ \A b \in Slot : copy[r][b] = 0
        /\ state' = [b \in Slot |-> IF b = a THEN 0 ELSE copy[r][b]]
        /\ \A s \in Request : s # r => (HasLease(s)' <=> HasLease(s)) /\ idx'[s] = idx[s]
        /\ idx'[r] = a /\ (HasLease(r)' <=> a # NoAddress) /\ ~HasLease(r)
  BY LockWriteEffect
<1>2. LeaseHasAddress'
  BY <1>1 DEF LeaseHasAddress
<1>3. ASSUME ~raced' PROVE UniqueLease' /\ ListMatchesLeases'
  <2>1. copy[r] = state /\ UniqueLease /\ ListMatchesLeases
    BY <1>3, CurrentCopy
  <2>2. \A s \in Request : HasLease(s) => idx[s] # a
    BY <1>1, <2>1, NoAddressIsNone DEF ListMatchesLeases, LeaseHasAddress
  <2>3. UniqueLease'
    BY <1>1, <2>1, <2>2 DEF UniqueLease
  <2>4. ASSUME NEW b \in Slot
        PROVE  state'[b] = 0 <=> \E s \in Request : HasLease(s)' /\ idx'[s] = b
    <3>1. CASE b = a
      BY <3>1, <1>1, NoAddressIsNone
    <3>2. CASE b # a
      <4>1. state'[b] = state[b]
        BY <3>2, <1>1, <2>1
      <4>2. (\E s \in Request : HasLease(s)' /\ idx'[s] = b)
              <=> (\E s \in Request : HasLease(s) /\ idx[s] = b)
        BY <3>2, <1>1
      <4> QED
        BY <4>1, <4>2, <2>1 DEF ListMatchesLeases
    <3> QED
      BY <3>1, <3>2
  <2> QED
    BY <2>3, <2>4 DEF ListMatchesLeases
<1> QED
  BY <1>2, <1>3 DEF UniqueUnlessRaced, ListMatchesUnlessRaced, ListMatchesLeases

LEMMA UnlockWriteInv ==
  ASSUME AInv, ATypeOK', NEW r \in Request, UnlockWrite(r)
  PROVE  AInv'
<1> USE DEF AInv
<1>1. /\ apc[r] = "unlocking"
      /\ apc' = [apc EXCEPT ![r] = "free"]
      /\ state' = [copy[r] EXCEPT ![idx[r]] = 1]
      /\ copy' = copy /\ idx' = idx
  BY DEF UnlockWrite
<1>2. HasLease(r) /\ idx[r] \in Slot
  BY <1>1 DEF HasLease, LeaseHasAddress
<1>3. /\ ~HasLease(r)'
      /\ \A s \in Request : s # r => (HasLease(s)' <=> HasLease(s))
  BY <1>1 DEF HasLease, ATypeOK
<1>4. LeaseHasAddress'
  BY <1>1, <1>3 DEF LeaseHasAddress
<1>5. ASSUME ~raced' PROVE UniqueLease' /\ ListMatchesLeases'
  <2>1. copy[r] = state /\ UniqueLease /\ ListMatchesLeases
    BY <1>5, CurrentCopy
  <2>2. UniqueLease'
    BY <1>1, <1>3, <2>1 DEF UniqueLease
  <2>3. ASSUME NEW b \in Slot
        PROVE  state'[b] = 0 <=> \E s \in Request : HasLease(s)' /\ idx'[s] = b
    <3>1. CASE b = idx[r]
      <4>1. state'[b] = 1
        BY <3>1, <1>1, <2>1 DEF ATypeOK
      <4>2. \A s \in Request : s # r /\ HasLease(s) => idx[s] # b
        BY <3>1, <1>2, <2>1 DEF UniqueLease
      <4> QED
        BY <4>1, <4>2, <1>1, <1>3
    <3>2. CASE b # idx[r]
      <4>1. state'[b] = state[b]
        BY <3>2, <1>1, <2>1 DEF ATypeOK
      <4>2. (\E s \in Request : HasLease(s)' /\ idx'[s] = b)
              <=> (\E s \in Request : HasLease(s) /\ idx[s] = b)
        BY <3>2, <1>1, <1>3
      <4> QED
        BY <4>1, <4>2, <2>1 DEF ListMatchesLeases
    <3> QED
      BY <3>1, <3>2
  <2> QED
    BY <2>2, <2>3 DEF ListMatchesLeases
<1> QED
  BY <1>4, <1>5 DEF UniqueUnlessRaced, ListMatchesUnlessRaced, ListMatchesLeases

\* The scrub of a restart: no leases are left, or the history says that some are.
LEMMA InitializeAddressesInv ==
  ASSUME AInv, ATypeOK', NEW S \in SUBSET Request, InitializeAddresses(S)
  PROVE  AInv'
<1> USE DEF AInv
<1>1. /\ state' = AllFree /\ idx' = idx /\ raced' = (\E r \in S : HasLease(r))
      /\ \A r \in Request : HasLease(r)' <=> HasLease(r) /\ r \in S
  BY DEF InitializeAddresses, Outlived, HasLease
<1>2. LeaseHasAddress'
  BY <1>1 DEF LeaseHasAddress
<1>3. ~raced' => UniqueLease' /\ ListMatchesLeases'
  BY <1>1 DEF UniqueLease, ListMatchesLeases, AllFree
<1> QED
  BY <1>2, <1>3 DEF UniqueUnlessRaced, ListMatchesUnlessRaced, ListMatchesLeases

LEMMA ANextInv == AInv /\ [ANext]_aVars => AInv'
<1> SUFFICES ASSUME AInv, [ANext]_aVars PROVE AInv'
  OBVIOUS
<1>0. ATypeOK'
  BY TypeStep DEF AInv
<1>1. ASSUME NEW r \in Request, LockRead(r) \/ Timeout(r) \/ UnlockRead(r) PROVE AInv'
  <2>1. /\ state' = state /\ raced' = raced /\ idx' = idx
        /\ \A s \in Request : HasLease(s)' <=> HasLease(s)
    BY <1>1 DEF LockRead, Timeout, UnlockRead, HasLease, AInv, ATypeOK
  <2> QED
    BY <1>0, <2>1, QuietInv
<1>2. ASSUME NEW r \in Request, LockWrite(r) PROVE AInv'
  BY <1>0, <1>2, LockWriteInv
<1>3. ASSUME NEW r \in Request, UnlockWrite(r) PROVE AInv'
  BY <1>0, <1>3, UnlockWriteInv
<1>4. ASSUME NEW S \in SUBSET Request, InitializeAddresses(S) PROVE AInv'
  BY <1>0, <1>4, InitializeAddressesInv
<1>5. CASE UNCHANGED aVars
  <2>1. /\ state' = state /\ raced' = raced /\ idx' = idx
        /\ \A s \in Request : HasLease(s)' <=> HasLease(s)
    BY <1>5 DEF aVars, HasLease
  <2> QED
    BY <1>0, <2>1, QuietInv
<1> QED
  BY <1>1, <1>2, <1>3, <1>4, <1>5 DEF ANext

LEMMA AInvariant == ASpec => []AInv
  BY AInitInv, ANextInv, PTL DEF ASpec

-----------------------------------------------------------------------------
\* The type invariant, also for accesses that overlap.
THEOREM ATypeOKThm == ASpec => []ATypeOK
  BY AInvariant, PTL DEF AInv

\* The README's "unique address for each client", as far as the code keeps it: one
\* address is leased to two requests only after the list has lost an update, for
\* any numbers of server threads, unlock processes and restarts.
THEOREM UniqueUnlessRacedThm == ASpec => []UniqueUnlessRaced
  BY AInvariant, PTL DEF AInv

\* The list agrees with the leases until it loses an update: no address leaks and
\* none is freed early, however the accesses overlap.
THEOREM ListMatchesUnlessRacedThm == ASpec => []ListMatchesUnlessRaced
  BY AInvariant, PTL DEF AInv

-----------------------------------------------------------------------------
(* The allocator implements the pool until the list loses an update.       *)

LEMMA InitImplementsPool == AInit => Pool!Init
  BY DEF AInit, Pool!Init, leaseView, refusedView, HasLease

\* The addresses leased in the pool are those marked in use in the list.
LEMMA LeasedInPool ==
  ASSUME AInv, ListMatchesLeases
  PROVE  \A a \in Slot : a \in Pool!Leased <=> state[a] = 0
<1>1. Pool!Leased = {leaseView[r] : r \in Request} \ {NoAddress}
  BY DEF Pool!Leased
<1>2. \A r \in Request : leaseView[r] = IF HasLease(r) THEN idx[r] ELSE NoAddress
  BY DEF leaseView
<1> QED
  BY <1>1, <1>2, NoAddressIsNone DEF AInv, ListMatchesLeases, LeaseHasAddress

\* A write of lock_address acquires an available address, or refuses when every
\* address is leased.
LEMMA LockWriteImplements ==
  ASSUME AInv, NEW r \in Request, LockWrite(r), ~raced'
  PROVE  Pool!Acquire(r) \/ Pool!Refuse(r)
<1>1. PICK a \in Slot \cup {NoAddress} :
        /\ \/ a \in Slot /\ copy[r][a] = 1
           \/ a = NoAddress /\ \A b \in Slot : copy[r][b] = 0
        /\ \A s \in Request : s # r =>
             (HasLease(s)' <=> HasLease(s)) /\ idx'[s] = idx[s] /\ apc'[s] = apc[s]
        /\ idx'[r] = a /\ (HasLease(r)' <=> a # NoAddress) /\ ~HasLease(r)
        /\ apc'[r] = "refused" <=> a = NoAddress
  BY LockWriteEffect DEF AInv
<1>2. copy[r] = state /\ ListMatchesLeases
  BY CurrentCopy
<1>3. leaseView[r] = NoAddress /\ apc[r] # "refused"
  BY <1>1 DEF leaseView, LockWrite
<1>4. CASE a \in Slot /\ copy[r][a] = 1
  <2>1. HasLease(r)' /\ apc'[r] # "refused"
    BY <1>1, <1>4, NoAddressIsNone
  <2>2. a \in Slot \ Pool!Leased
    BY <1>2, <1>4, LeasedInPool
  <2>3. leaseView' = [leaseView EXCEPT ![r] = a]
    BY <1>1, <2>1 DEF leaseView
  <2>4. refusedView' = refusedView
    BY <1>1, <1>3, <2>1 DEF refusedView
  <2> QED
    BY <1>3, <2>2, <2>3, <2>4 DEF Pool!Acquire
<1>5. CASE a = NoAddress /\ \A b \in Slot : copy[r][b] = 0
  <2>1. ~HasLease(r)' /\ apc'[r] = "refused"
    BY <1>1, <1>5
  <2>2. Slot \subseteq Pool!Leased
    BY <1>2, <1>5, LeasedInPool
  <2>3. leaseView' = leaseView
    BY <1>1, <2>1 DEF leaseView
  <2>4. refusedView' = refusedView \cup {r}
    BY <1>1, <2>1 DEF refusedView
  <2> QED
    BY <1>3, <2>2, <2>3, <2>4 DEF Pool!Refuse
<1> QED
  BY <1>1, <1>4, <1>5

\* A write of the unlock process releases the lease.
LEMMA UnlockWriteImplements ==
  ASSUME AInv, NEW r \in Request, UnlockWrite(r)
  PROVE  Pool!Release(r)
<1>1. /\ apc[r] = "unlocking"
      /\ apc' = [apc EXCEPT ![r] = "free"]
      /\ idx' = idx
  BY DEF UnlockWrite
<1>2. HasLease(r) /\ leaseView[r] # NoAddress
  BY <1>1, NoAddressIsNone DEF HasLease, AInv, LeaseHasAddress, leaseView
<1>3. ~HasLease(r)' /\ \A s \in Request : s # r => (HasLease(s)' <=> HasLease(s))
  BY <1>1 DEF HasLease, AInv, ATypeOK
<1>4. leaseView' = [leaseView EXCEPT ![r] = NoAddress]
  BY <1>1, <1>3 DEF leaseView
<1>5. refusedView' = refusedView
  BY <1>1 DEF refusedView, AInv, ATypeOK
<1> QED
  BY <1>2, <1>4, <1>5 DEF Pool!Release

\* A scrub that no lease outlives is a reset of the pool.
LEMMA InitializeAddressesImplements ==
  ASSUME NEW S \in SUBSET Request, InitializeAddresses(S), ~raced'
  PROVE  Pool!Reset
<1>1. \A s \in Request : /\ ~HasLease(s)'
                         /\ apc'[s] = "refused" <=> apc[s] = "refused"
  BY DEF InitializeAddresses, Outlived, HasLease
<1> QED
  BY <1>1 DEF Pool!Reset, leaseView, refusedView

\* Every step of the allocator is a step of the pool, or changes nothing of it, or
\* leaves the list with a lost update.
LEMMA StepImplementsPool ==
  AInv /\ [ANext]_aVars => [raced' \/ Pool!Next]_<<leaseView, refusedView>>
<1> SUFFICES ASSUME AInv, [ANext]_aVars, ~raced'
             PROVE  Pool!Next \/ UNCHANGED <<leaseView, refusedView>>
  OBVIOUS
<1>1. ASSUME NEW r \in Request, LockRead(r) \/ Timeout(r) \/ UnlockRead(r)
      PROVE  UNCHANGED <<leaseView, refusedView>>
  <2>1. \A s \in Request : /\ HasLease(s)' <=> HasLease(s)
                           /\ HasLease(s) => idx'[s] = idx[s]
                           /\ apc'[s] = "refused" <=> apc[s] = "refused"
    BY <1>1 DEF LockRead, Timeout, UnlockRead, HasLease, AInv, ATypeOK
  <2> QED
    BY <2>1 DEF leaseView, refusedView
<1>2. ASSUME NEW r \in Request, LockWrite(r) PROVE Pool!Next
  BY <1>2, LockWriteImplements DEF Pool!Next
<1>3. ASSUME NEW r \in Request, UnlockWrite(r) PROVE Pool!Next
  BY <1>3, UnlockWriteImplements DEF Pool!Next
<1>4. ASSUME NEW S \in SUBSET Request, InitializeAddresses(S) PROVE Pool!Next
  BY <1>4, InitializeAddressesImplements DEF Pool!Next
<1>5. CASE UNCHANGED aVars
  BY <1>5 DEF aVars, leaseView, refusedView, HasLease
<1> QED
  BY <1>1, <1>2, <1>3, <1>4, <1>5 DEF ANext

\* Until an update is lost the list in the file is an address pool: an address is
\* leased only while no other request has it, refused only when all are leased,
\* and returned by exactly one unlock, for any overlap of the accesses.
THEOREM PoolUntilRacedThm == ASpec => PoolUntilRaced
  BY AInvariant, InitImplementsPool, StepImplementsPool, PTL DEF ASpec, PoolUntilRaced
=============================================================================
