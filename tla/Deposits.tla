------------------------------ MODULE Deposits ------------------------------
(***************************************************************************)
(* The deposit path of one network, from the GET request to the issue of   *)
(* the UIA: on_get of src/app/process_deposits.py composed with the address *)
(* allocator, the listener threads and the parachain they read, and with   *)
(* the ingot process (src/app/process_ingots.py), which sends the whole    *)
(* wallet of ltc or btc to the first deposit address when it holds too     *)
(* many outputs.                                                           *)
(*                                                                         *)
(* Every request is an issue listener of Listener and a request of the     *)
(* allocator. Its record also names the asset asked for (uia, given here   *)
(* as the network the name stands for). Requests that another network      *)
(* serves touch nothing of this one and are left out. A transfer carries   *)
(* the id of the client who pays it: a client pays the address of its own  *)
(* answer, at most once, with the memo of that answer. The transfers from  *)
(* Gateway are ingots.                                                     *)
(***************************************************************************)
EXTENDS Listener, AddressAllocator

CONSTANTS
  Offerings,    (* comptroller["offerings"]                                *)
  Gateway,      (* the sender of the gateway's own transfers               *)
  MaxUnspent    (* max_unspent()[network]                                  *)

VARIABLES
  dpc,                     (* on_get: "new", "alloc", "assigned",
                              "started", "told", "invalid", "closed",
                              "overloaded", "killed"                       *)
  unspent,                 (* how many outputs listunspent returns, as far
                              as MaxUnspent + 1                            *)
  pending                  (* ingots sent and not yet in a block           *)

walletVars == <<unspent, pending>>
dVars      == <<lVars, aVars, dpc, walletVars>>

Ingot == {t \in Transfer : t.from = Gateway}

ASSUME DepositsAssumption ==
  /\ Request = Listener /\ Address = Slot
  /\ Network \in Offerings
  /\ \A l \in Listener : l.action = "issue" /\ (l.uia \in Offerings => l.uia = Network)
  /\ \A t \in Transfer \ Ingot : \E l \in Listener : t.from = l.id /\ t.memo = l.id
  /\ \A t \in Ingot : t.to = 0 /\ \A l \in Listener : l.id # Gateway
  /\ MaxUnspent \in Nat

Move(l, from, to) == dpc[l] = from /\ dpc' = [dpc EXCEPT ![l] = to]

-----------------------------------------------------------------------------
(* The clients (external)                                                  *)

Payer(t) == CHOOSE l \in Listener : l.id = t.from

MayPay(t) ==
  /\ dpc[Payer(t)] = "told"
  /\ t.to = idx[Payer(t)]
  /\ \A u \in Mined : u.from # t.from

\* The wallet's outputs after n more, counted as far as it matters.
Unspent(n) == IF n > MaxUnspent THEN MaxUnspent + 1 ELSE n

\* A block; each transfer to the gateway in it is one more output.
Block ==
  /\ Mine
  /\ \A t \in chain'[tip'] : IF t \in Ingot THEN t \in pending ELSE MayPay(t)
  /\ pending' = pending \ chain'[tip']
  /\ unspent' = Unspent(unspent + Cardinality(chain'[tip']))
  /\ UNCHANGED <<listenVars, aVars, dpc>>

-----------------------------------------------------------------------------
(* ingot_casting                                                           *)

\* ltc and btc: more outputs than max_unspent are sent as one to the zero
\* account, which is also the first deposit address. The wallet counts the new
\* output when it is in a block.
Consolidate ==
  /\ Network \in {"ltc", "btc"}
  /\ unspent > MaxUnspent
  /\ \E t \in Ingot \ (Mined \cup pending) : pending' = pending \cup {t}
  /\ unspent' = 0
  /\ UNCHANGED <<lVars, aVars, dpc>>

-----------------------------------------------------------------------------
(* on_get                                                                  *)

\* The networks the if/elif chain over the asset names lets through: the first
\* elif belongs to the test for xyz, so xrp ends in the else branch.
Recognised(l) == l.uia \in {"xyz", "eos", "btc", "ltc"}

Served(l) == Recognised(l) /\ l.uia \in Offerings

\* A request that is answered without an address.
Reject(l) ==
  /\ ~Recognised(l)
  /\ Move(l, "new", "invalid")
  /\ UNCHANGED <<lVars, aVars, walletVars>>

NotOffered(l) ==
  /\ Recognised(l) /\ l.uia \notin Offerings
  /\ Move(l, "new", "closed")
  /\ UNCHANGED <<lVars, aVars, walletVars>>

\* eos: the zero account; the address list is not touched.
AssignZero(l) ==
  /\ Served(l)
  /\ SingleAccount
  /\ Move(l, "new", "assigned")
  /\ idx' = [idx EXCEPT ![l] = 0]
  /\ UNCHANGED <<lVars, state, apc, copy, raced, walletVars>>

\* btc, ltc, xyz: lock_address, its read and its write.
AssignRead(l) ==
  /\ Served(l)
  /\ ~SingleAccount
  /\ Move(l, "new", "alloc")
  /\ LockRead(l)
  /\ UNCHANGED <<lVars, walletVars>>

AssignWrite(l) ==
  /\ LockWrite(l)
  /\ Move(l, "alloc", IF idx'[l] = NoAddress THEN "overloaded" ELSE "assigned")
  /\ UNCHANGED <<lVars, walletVars>>

\* listener.start()
StartListener(l) ==
  /\ Move(l, "assigned", "started")
  /\ Start(l, idx[l]) \/ StartBlind(l, idx[l])
  /\ UNCHANGED <<pVars, aVars, walletVars>>

\* The response with the deposit address, half a second later.
Answer(l) ==
  /\ Move(l, "started", "told")
  /\ UNCHANGED <<lVars, aVars, walletVars>>

OnGet(l) ==
  \/ Reject(l) \/ NotOffered(l) \/ AssignZero(l) \/ AssignRead(l)
  \/ AssignWrite(l) \/ StartListener(l) \/ Answer(l)

-----------------------------------------------------------------------------
(* The listener's end and the unlock process                               *)

Listen(l) ==
  /\ Scan(l) \/ Finish(l) \/ Starve(l)
  /\ UNCHANGED <<pVars, aVars, dpc, walletVars>>

\* Mutant: a timeout that releases the address and goes on listening.
GiveUpSoftly(l) ==
  /\ lpc[l] = "run" /\ ~complete[l]
  /\ IF SingleAccount THEN UNCHANGED aVars ELSE Timeout(l)
  /\ UNCHANGED <<lVars, dpc, walletVars>>

\* On timeout the listener of a rotating address spawns the unlock process.
GiveUp(l) ==
  /\ Expire(l)
  /\ IF SingleAccount THEN UNCHANGED <<pVars, aVars>>
                      ELSE Timeout(l) /\ UNCHANGED pVars
  /\ UNCHANGED <<dpc, walletVars>>

Unlock(l) ==
  /\ UnlockRead(l) \/ UnlockWrite(l)
  /\ UNCHANGED <<lVars, dpc, walletVars>>

-----------------------------------------------------------------------------
Feed ==
  /\ Writer \/ FetchDies
  /\ UNCHANGED <<listenVars, aVars, dpc, walletVars>>

\* The deposits process, with its requests, listeners and unlock processes, ends
\* before main is started again.
DepositsDie ==
  /\ ListenersDie
  /\ InitializeAddresses({})
  /\ dpc' = [l \in Listener |->
               IF dpc[l] \in {"alloc", "assigned", "started"} THEN "killed" ELSE dpc[l]]

\* It does not: server.start() never returns to start the watchdog thread, so a
\* deposits process serves on when only main has ended, and the one that the next
\* main launches cannot bind its port. Its addresses are marked available.
DepositsOutlive ==
  /\ InitializeAddresses(Request)
  /\ UNCHANGED <<listenVars, dpc>>

\* Gateway.main again: parachains scrubbed, addresses all available.
RestartGateway ==
  /\ Restart
  /\ DepositsDie \/ DepositsOutlive
  /\ UNCHANGED walletVars

DInit ==
  /\ LInit
  /\ AInit
  /\ dpc = [l \in Listener |-> "new"]
  /\ unspent \in 0 .. (MaxUnspent + 1)
  /\ pending = {}

DNext ==
  \/ Block \/ Consolidate \/ Feed \/ RestartGateway
  \/ \E l \in Listener : OnGet(l) \/ Listen(l) \/ GiveUp(l) \/ Unlock(l)

DSpec == DInit /\ [][DNext]_dVars

-----------------------------------------------------------------------------
(* Properties                                                              *)

\* A listener that is over: it has issued, timed out or died.
Over(l) == lpc[l] \notin {"idle", "run"}

\* A deposit is credited to a client who has not paid it in two ways only: the
\* payer's own listener is over (a payment after the gateway's timeout, which the
\* address's next client is credited with), or the address list has lost an
\* update. While the payer is listened for, and however late the others' turns,
\* unlocks and restarts come, nobody else is issued that money.
CreditedToPayer ==
  \A l \in Listener, t \in Transfer \ Ingot :
    calls[l][t] > 0 /\ l # Payer(t) => raced \/ Over(Payer(t))

\* What backs the UIA: one transfer is issued for at most once over all requests
\* of the shared account, before and after restarts, and only if it is on the
\* chain with two blocks on top.
IssuedOnce ==
  \A t \in Transfer :
    LET issuers == {l \in Listener : calls[l][t] > 0} IN
    /\ Cardinality(issuers) <= 1
    /\ \A l \in issuers : calls[l][t] = 1
    /\ issuers # {} => \E b \in Height : b + 2 <= tip /\ t \in chain[b]

\* "Client has deposited foreign tokens, issue an equal amount of UIA": a
\* request issues at most once for a client's transfer, and never for one that
\* the gateway makes to itself.
IssuedIsDeposited ==
  \A l \in Listener, t \in Transfer : calls[l][t] <= IF t \in Ingot THEN 0 ELSE 1
=============================================================================
