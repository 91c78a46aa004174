---------------------------- MODULE MCListener -----------------------------
(* Bounded instances of Listener: one deposit and one withdrawal listener  *)
(* or two deposit listeners on one account, dust, a wrong memo, a transfer *)
(* to somebody else.                                                       *)
EXTENDS Listener

CONSTANTS gate, client   (* addresses *)

MCAddress == {gate, client}

Deposit  == [id |-> "d", action |-> "issue", amount |-> 0]
Withdraw == [id |-> "w", action |-> "reserve", amount |-> 5]

MCListeners == {Deposit, Withdraw}
MCDeposit   == {Deposit}

Pay(i, a, m, q) == [id |-> i, to |-> a, memo |-> m, amount |-> q]

MCTransfers == {Pay(1, gate, "d", 5), Pay(2, gate, "other", 5)}
MCPayments  == {Pay(1, gate, "d", 5), Pay(2, gate, "d", 1)}
=============================================================================
