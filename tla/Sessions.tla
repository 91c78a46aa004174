------------------------------ MODULE Sessions ------------------------------
(***************************************************************************)
(* Two sessions of src/app/Gateway.py at work on one BitShares chain. Main  *)
(* starts the process of src/app/process_withdrawals.py without            *)
(* daemon=True (Gateway.py:108-114), so it outlives main. If main is       *)
(* started again before the process finds main's stamp stale, it finds a   *)
(* fresh stamp and never ends; and if it does end, its withdraw threads go *)
(* on. The two processes share the chain and the files of the mavens.      *)
(***************************************************************************)
EXTENDS Integers, FiniteSets

CONSTANTS BLOCK_MAVENS, Faulty, Lies, Op, Last, MaxLost, MaxFails

VARIABLES
  height, block,
  currOld, lastOld, wpcOld, baseOld, heardOld, failsOld,
  waitingOld, sendingOld, paidOld, lostOld,
  currNew, lastNew, wpcNew, baseNew, heardNew, failsNew,
  waitingNew, sendingNew, paidNew, lostNew

old == <<currOld, lastOld, wpcOld, baseOld, heardOld, failsOld,
         waitingOld, sendingOld, paidOld, lostOld>>
new == <<currNew, lastNew, wpcNew, baseNew, heardNew, failsNew,
         waitingNew, sendingNew, paidNew, lostNew>>

Old == INSTANCE Withdrawals WITH
  curr <- currOld, last <- lastOld, wpc <- wpcOld, base <- baseOld,
  heard <- heardOld, fails <- failsOld, waiting <- waitingOld,
  sending <- sendingOld, paid <- paidOld, lost <- lostOld

New == INSTANCE Withdrawals WITH
  curr <- currNew, last <- lastNew, wpc <- wpcNew, base <- baseNew,
  heard <- heardNew, fails <- failsNew, waiting <- waitingNew,
  sending <- sendingNew, paid <- paidNew, lost <- lostNew

sVars == <<height, block, old, new>>

SInit == Old!WInit /\ New!SessionInit

\* Main is started again while the process it started before is still there.
StartAgain == wpcOld # "off" /\ New!Start /\ UNCHANGED old

SNext ==
  \/ Old!Produce /\ UNCHANGED new
  \/ Old!SessionNext /\ UNCHANGED new
  \/ StartAgain
  \/ wpcNew # "off" /\ New!SessionNext /\ UNCHANGED old

SSpec == SInit /\ [][SNext]_sVars

-----------------------------------------------------------------------------
\* Every withdrawal is paid at most once, whichever process of the gateway pays:
\* "Ensure all child processes are killed when main is terminated"
\* (watchdog.py:22) leaves no process of an earlier session to pay beside the
\* new one. The processes of the code both see the transfer, and both pay,
\* with no maven faulty, no answer lost and no round failed.
PaidByOne == \A o \in Op : paidOld[o] + paidNew[o] <= 1
=============================================================================
