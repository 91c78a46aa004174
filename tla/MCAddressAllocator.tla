------------------------- MODULE MCAddressAllocator -------------------------
(* A bounded instance of AddressAllocator.                                 *)
EXTENDS AddressAllocator

CONSTANTS r1, r2   (* requests *)

MCRequests == {r1, r2}
=============================================================================
