---------------------------- MODULE MCParachain ----------------------------
(* Bounded instances of Parachain.                                         *)
EXTENDS Parachain

CONSTANTS t1, t2   (* transfers *)

MCTransfer == {t1, t2}
MCKept     == {t1}
=============================================================================
