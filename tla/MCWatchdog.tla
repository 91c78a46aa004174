----------------------------- MODULE MCWatchdog -----------------------------
(* A bounded instance of Watchdog: the withdrawal listener and the deposit *)
(* server of one session, which may run on beside the parachain process of *)
(* the next one.                                                           *)
EXTENDS Watchdog, TLC

CONSTANTS ltc, wd, dep   (* workers *)

MCWorker  == {ltc, wd, dep}
MCChild   == {"parachains", "withdrawals", "deposits"}
MCChildOf == (ltc :> "parachains") @@ (wd :> "withdrawals") @@ (dep :> "deposits")
MCEarly   == {ltc}
MCProc    == {<<wd, 1>>, <<dep, 1>>, <<ltc, 2>>}
=============================================================================
