---------------------------- MODULE MCSessions ----------------------------
(* Bounded instances of Sessions.                                          *)
EXTENDS Sessions

MCOneOp == {[id |-> 1, network |-> "ltc", memo |-> TRUE, valid |-> TRUE]}

=============================================================================
