---------------------------- MODULE AddressPool ----------------------------
(***************************************************************************)
(* What the deposit server needs of src/app/address_allocator.py: a pool   *)
(* of deposit addresses, each leased to at most one request at a time, a   *)
(* request refused only when every address is leased, and a leased address *)
(* back in the pool once its lease is released.                            *)
(***************************************************************************)
CONSTANTS
  Request,   (* the deposit requests                                       *)
  Address,   (* indices of foreign_accounts()[network]                     *)
  NoAddress

VARIABLES
  lease,     (* the address leased to each request                         *)
  refused    (* the requests that were told "gateway overloaded"           *)

poolVars == <<lease, refused>>

Leased == {lease[r] : r \in Request} \ {NoAddress}

Init ==
  /\ lease = [r \in Request |-> NoAddress]
  /\ refused = {}

Acquire(r) ==
  /\ lease[r] = NoAddress
  /\ \E a \in Address \ Leased : lease' = [lease EXCEPT ![r] = a]
  /\ UNCHANGED refused

Refuse(r) ==
  /\ lease[r] = NoAddress
  /\ Address \subseteq Leased
  /\ refused' = refused \cup {r}
  /\ UNCHANGED lease

Release(r) ==
  /\ lease[r] # NoAddress
  /\ lease' = [lease EXCEPT ![r] = NoAddress]
  /\ UNCHANGED refused

\* A gateway restart forgets every lease.
Reset ==
  /\ lease' = [r \in Request |-> NoAddress]
  /\ UNCHANGED refused

Next ==
  \/ \E r \in Request : Acquire(r) \/ Refuse(r) \/ Release(r)
  \/ Reset

Spec == Init /\ [][Next]_poolVars
=============================================================================
