-------------------------- MODULE AddressAllocator --------------------------
(***************************************************************************)
(* src/app/address_allocator.py: the JSON list pipe/{network}_gateway_     *)
(* state.txt holds a 1 for every available deposit address and a 0 for     *)
(* every one in use. lock_address and unlock_address_process each read the *)
(* whole list, change one entry and write the whole list back; nothing     *)
(* keeps another thread of the deposit server, or another unlock process,  *)
(* from reading or writing between the two.                                *)
(*                                                                         *)
(* A request is the on_get call that locks an address and, later, the      *)
(* unlock process its listener spawns on timeout. `raced` records whether  *)
(* the list has lost an update since all its leases were last void: a      *)
(* write over a list its writer has not seen, or the scrub of a restart    *)
(* that requests with a lease outlive. The properties say what still holds *)
(* until then.                                                             *)
(***************************************************************************)
EXTENDS Integers, FiniteSets

CONSTANTS
  Request,     (* deposit requests                                         *)
  Addresses,   (* len(foreign_accounts()[network])                         *)
  NoAddress    (* lock_address returns None                                *)

\* The entries of the list.
Slot == 0 .. (Addresses - 1)

ASSUME AllocatorAssumption ==
  /\ Addresses \in Nat \ {0}
  /\ NoAddress \notin Int

VARIABLES
  state,     (* the list in the file: 1 available, 0 in use                *)
  apc,       (* "new", "locking", "held", "refused", "expired",
                "unlocking", "free", "killed"                              *)
  copy,      (* gateway_state: the list as the request last read it        *)
  idx,       (* the address given to the request                           *)
  raced      (* history: the list has lost an update                       *)

aVars == <<state, apc, copy, idx, raced>>

AllFree == [a \in Slot |-> 1]

-----------------------------------------------------------------------------
\* The request's on_get has been given an address and its unlock process has not
\* yet handed it back.
HasLease(r) == apc[r] \in {"held", "expired", "unlocking"}

\* The list that r writes back is not the one it has read.
Overwrites(r) == copy[r] # state

\* The first available index of a list, or None.
FirstFree(list) ==
  IF \E a \in Slot : list[a] = 1
  THEN CHOOSE a \in Slot : list[a] = 1 /\ \A b \in Slot : b < a => list[b] = 0
  ELSE NoAddress

\* lock_address: gateway_state = json_ipc(doc).
LockRead(r) ==
  /\ apc[r] = "new"
  /\ copy' = [copy EXCEPT ![r] = state]
  /\ apc' = [apc EXCEPT ![r] = "locking"]
  /\ UNCHANGED <<state, idx, raced>>

\* Mutant: the entry is not cleared before the list is written.
LockWriteNoMark(r) ==
  /\ apc[r] = "locking"
  /\ LET a == FirstFree(copy[r]) IN
       /\ state' = copy[r]
       /\ idx' = [idx EXCEPT ![r] = a]
       /\ apc' = [apc EXCEPT ![r] = IF a = NoAddress THEN "refused" ELSE "held"]
  /\ raced' = (raced \/ Overwrites(r))
  /\ UNCHANGED copy

\* lock_address: the first available entry is cleared, and the list is written
\* back even when there was none.
LockWrite(r) ==
  /\ apc[r] = "locking"
  /\ LET a == FirstFree(copy[r]) IN
       /\ state' = [b \in Slot |-> IF b = a THEN 0 ELSE copy[r][b]]
       /\ idx' = [idx EXCEPT ![r] = a]
       /\ apc' = [apc EXCEPT ![r] = IF a = NoAddress THEN "refused" ELSE "held"]
  /\ raced' = (raced \/ Overwrites(r))
  /\ UNCHANGED copy

\* The listener of the request times out and spawns the unlock process.
Timeout(r) ==
  /\ apc[r] = "held"
  /\ apc' = [apc EXCEPT ![r] = "expired"]
  /\ UNCHANGED <<state, copy, idx, raced>>

\* unlock_address_process, after its delay: gateway_state = json_ipc(doc).
UnlockRead(r) ==
  /\ apc[r] = "expired"
  /\ copy' = [copy EXCEPT ![r] = state]
  /\ apc' = [apc EXCEPT ![r] = "unlocking"]
  /\ UNCHANGED <<state, idx, raced>>

\* Mutant: the list is written back without setting the entry.
UnlockWriteNothing(r) ==
  /\ apc[r] = "unlocking"
  /\ state' = copy[r]
  /\ apc' = [apc EXCEPT ![r] = "free"]
  /\ raced' = (raced \/ Overwrites(r))
  /\ UNCHANGED <<copy, idx>>

\* unlock_address_process: the entry is set and the list written back.
UnlockWrite(r) ==
  /\ apc[r] = "unlocking"
  /\ state' = [copy[r] EXCEPT ![idx[r]] = 1]
  /\ apc' = [apc EXCEPT ![r] = "free"]
  /\ raced' = (raced \/ Overwrites(r))
  /\ UNCHANGED <<copy, idx>>

\* What a restart leaves of the requests when S live on.
Outlived(S) ==
  [r \in Request |-> IF r \in S \/ apc[r] \in {"new", "refused"} THEN apc[r] ELSE "killed"]

\* Mutant: the list starts with one entry too many.
InitializeOneMore(S) ==
  /\ state' = [a \in 0 .. Addresses |-> 1]
  /\ apc' = Outlived(S)
  /\ raced' = (\E r \in S : HasLease(r))
  /\ UNCHANGED <<copy, idx>>

\* Gateway.main: initialize_addresses writes a list of available entries. It does
\* nothing to the processes of the session before: of its requests those in S
\* live on, with what they have read and leased.
InitializeAddresses(S) ==
  /\ state' = AllFree
  /\ apc' = Outlived(S)
  /\ raced' = (\E r \in S : HasLease(r))
  /\ UNCHANGED <<copy, idx>>

-----------------------------------------------------------------------------
AInit ==
  /\ state = AllFree
  /\ apc = [r \in Request |-> "new"]
  /\ copy = [r \in Request |-> AllFree]
  /\ idx = [r \in Request |-> NoAddress]
  /\ raced = FALSE

ANext ==
  \/ \E r \in Request :
       \/ LockRead(r) \/ LockWrite(r) \/ Timeout(r)
       \/ UnlockRead(r) \/ UnlockWrite(r)
  \/ \E S \in SUBSET Request : InitializeAddresses(S)

ASpec == AInit /\ [][ANext]_aVars

-----------------------------------------------------------------------------
(* Properties                                                              *)

\* Type invariant.
ATypeOK ==
  /\ state \in [Slot -> {0, 1}]
  /\ apc \in [Request -> {"new", "locking", "held", "refused", "expired",
                          "unlocking", "free", "killed"}]
  /\ copy \in [Request -> [Slot -> {0, 1}]]
  /\ idx \in [Request -> Slot \cup {NoAddress}]
  /\ raced \in BOOLEAN

\* The README's "unique address for each client": no two requests that hold a
\* lease have been given the same address.
UniqueLease ==
  \A r, s \in Request :
    r # s /\ HasLease(r) /\ HasLease(s) => idx[r] # idx[s]

\* The only ways to hand out one address twice are a lost update of the list and
\* a scrub under a running server: accesses of any number of threads and unlock
\* processes that overlap without one are harmless.
UniqueUnlessRaced == ~raced => UniqueLease

\* The list says in use exactly for the leased addresses.
ListMatchesLeases ==
  \A a \in Slot : state[a] = 0 <=> \E r \in Request : HasLease(r) /\ idx[r] = a

\* Up to the first such loss the list agrees with the leases: no address stays in
\* use when its lease is over, and none is available while it is leased.
ListMatchesUnlessRaced == ~raced => ListMatchesLeases

\* The requests and leases as the pool sees them.
leaseView == [r \in Request |-> IF HasLease(r) THEN idx[r] ELSE NoAddress]
refusedView == {r \in Request : apc[r] = "refused"}

Pool == INSTANCE AddressPool
          WITH Address <- Slot, lease <- leaseView, refused <- refusedView

\* Up to the first such loss every step of the allocator is a step of the pool,
\* and a restart that voids every lease makes it one again.
PoolUntilRaced == Pool!Init /\ [][raced' \/ Pool!Next]_<<leaseView, refusedView>>
=============================================================================
