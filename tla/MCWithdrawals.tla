--------------------------- MODULE MCWithdrawals ---------------------------
(* Bounded instances of Withdrawals.                                       *)
EXTENDS Withdrawals

Transfer(i, n, m, v) == [id |-> i, network |-> n, memo |-> m, valid |-> v]

MCOps == {Transfer(1, "ltc", TRUE, TRUE), Transfer(2, "xrp", TRUE, TRUE),
          Transfer(3, "btc", TRUE, FALSE)}

\* That a block has no transfer, or has all of them.
MCLies == {{}, MCOps}

=============================================================================
