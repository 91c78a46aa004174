----------------------------- MODULE MCDeposits -----------------------------
(* Bounded instances of Deposits: one or two clients, each able to pay   *)
(* any of the addresses it may be told.                                    *)
EXTENDS Deposits

Client(i) == [id |-> i, action |-> "issue", amount |-> 0, uia |-> Network]

\* Requests that are turned away.
Asks(i, u) == [id |-> i, action |-> "issue", amount |-> 0, uia |-> u]

MCAddress == 0 .. (Addresses - 1)

MCOne == {Client("a")}
MCTwo == {Client("a"), Client("b")}

MCMixed == MCTwo \cup {Asks("c", "junk"), Asks("d", "ltc")}

Pays(C) == {[from |-> c.id, to |-> a, memo |-> c.id, amount |-> 5] :
              c \in C, a \in MCAddress}

MCPaysOne == Pays(MCOne)
MCPaysTwo == Pays(MCTwo)

\* The gateway's own transfer to its first address.
MCIngot == [from |-> "gateway", to |-> 0, memo |-> "", amount |-> 9]
MCPaysIngot == MCPaysTwo \cup {MCIngot}
MCPaysMixed == MCPaysTwo
=============================================================================
