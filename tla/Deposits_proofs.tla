---------------------------- MODULE Deposits_proofs ----------------------------
(***************************************************************************)
(* Proofs about Deposits, for any requests, addresses, chains and restarts, *)
(* whether or not the deposits process outlives them. The composition      *)
(* implements both of its parts: it listens as Listener does on every      *)
(* network, and it uses the address list as AddressAllocator does on a     *)
(* network with rotating addresses, so what is proved of the parts holds   *)
(* of the whole. From there: a deposit is credited to its payer unless his *)
(* listener is over or the list has lost an update, and with memos that    *)
(* differ a transfer is issued for once (the shared account).              *)
(***************************************************************************)
EXTENDS Deposits, Listener_proofs, AddressAllocator_proofs

\* Every step of the deposit path uses the address list as its users do, or
\* leaves it alone, or assigns the shared account.
LEMMA StepAllocates ==
  ASSUME [DNext]_dVars
  PROVE  \/ [ANext]_aVars
         \/ SingleAccount /\ \E l \in Listener : AssignZero(l)
<1> USE DepositsAssumption
<1>1. CASE Block \/ Consolidate \/ Feed \/ UNCHANGED dVars
  BY <1>1 DEF Block, Consolidate, Feed, dVars
<1>2. CASE RestartGateway
  <2>1. \E S \in SUBSET Request : InitializeAddresses(S)
    BY <1>2 DEF RestartGateway, DepositsDie, DepositsOutlive
  <2> QED BY <2>1 DEF ANext
<1>3. ASSUME NEW l \in Listener, OnGet(l)
      PROVE  [ANext]_aVars \/ (SingleAccount /\ AssignZero(l))
  <2>1. CASE AssignRead(l) \/ AssignWrite(l)
    BY <2>1 DEF AssignRead, AssignWrite, ANext
  <2>2. CASE Reject(l) \/ NotOffered(l) \/ StartListener(l) \/ Answer(l)
    BY <2>2 DEF Reject, NotOffered, StartListener, Answer
  <2>3. CASE AssignZero(l)
    BY <2>3 DEF AssignZero
  <2> QED BY <1>3, <2>1, <2>2, <2>3 DEF OnGet
<1>4. ASSUME NEW l \in Listener, Listen(l) \/ GiveUp(l) \/ Unlock(l)
      PROVE  [ANext]_aVars
  BY <1>4 DEF Listen, GiveUp, Unlock, ANext
<1> QED BY <1>1, <1>2, <1>3, <1>4 DEF DNext

\* The deposit path of a network with rotating addresses uses the address list as
\* the allocator does: its gateway restarts are the allocator's, and no other step
\* of a request, a listener or the parachain touches the list.
THEOREM DepositsAllocate == ~SingleAccount /\ DSpec => ASpec
<1>1. ASSUME ~SingleAccount PROVE DSpec => ASpec
  <2>1. DInit => AInit
    BY DEF DInit
  <2>2. [DNext]_dVars => [ANext]_aVars
    BY <1>1, StepAllocates
  <2> QED BY <2>1, <2>2, PTL DEF DSpec, ASpec
<1> QED BY <1>1

\* Until the list loses an update the deposit path of such a network is an address
\* pool: a request is given an address that no other one holds, is told "gateway
\* overloaded" only when all are held, and gives its own back once.
THEOREM DepositsPool == ~SingleAccount /\ DSpec => PoolUntilRaced
BY DepositsAllocate, PoolUntilRacedThm, PTL

-----------------------------------------------------------------------------
(* The composition as listeners                                            *)

\* Where a request stands agrees with where its listener and, for a rotating
\* address, its lease stand: it listens only after it was assigned an address,
\* and then to that one.
Linked ==
  \A l \in Listener :
    /\ dpc[l] \in {"new", "alloc", "assigned"} => lpc[l] = "idle"
    /\ dpc[l] \in {"started", "told"} => lpc[l] # "idle"
    /\ dpc[l] = "assigned" => idx[l] \in Address
    /\ lpc[l] = "run" => hears[l] = idx[l]
    /\ ~SingleAccount /\ (lpc[l] = "run" \/ dpc[l] = "assigned") => apc[l] = "held"

Total ==
  /\ DOMAIN lpc = Listener /\ lpc = [l \in Listener |-> lpc[l]]
  /\ DOMAIN dpc = Listener /\ dpc = [l \in Listener |-> dpc[l]]
  /\ DOMAIN hears = Listener /\ hears = [l \in Listener |-> hears[l]]

\* The inductive invariant of the composition.
DInv == ATypeOK /\ Linked /\ Total

LEMMA DInitInv == DInit => DInv
<1> SUFFICES ASSUME DInit PROVE DInv
  OBVIOUS
<1>1. ATypeOK
  BY AInitInv DEF DInit, AInv
<1>2. Linked /\ Total
  BY DEF DInit, LInit, Linked, Total
<1> QED BY <1>1, <1>2 DEF DInv

LEMMA AllocTypes ==
  ASSUME DInv
  PROVE  /\ apc = [l \in Listener |-> apc[l]] /\ DOMAIN apc = Listener
         /\ idx = [l \in Listener |-> idx[l]] /\ DOMAIN idx = Listener
         /\ \A l \in Listener : idx[l] \in Address \cup {NoAddress}
BY DepositsAssumption DEF DInv, ATypeOK

LEMMA TypesStay ==
  ASSUME DInv, [DNext]_dVars
  PROVE  ATypeOK'
<1>1. CASE [ANext]_aVars
  BY <1>1, TypeStep DEF DInv
<1>2. ASSUME NEW l \in Listener, AssignZero(l) PROVE ATypeOK'
  <2>1. UNCHANGED <<state, apc, copy, raced>> /\ idx' = [idx EXCEPT ![l] = 0]
    BY <1>2 DEF AssignZero
  <2>2. 0 \in Slot /\ Request = Listener
    BY AllocatorAssumption, DepositsAssumption DEF Slot
  <2> QED BY <2>1, <2>2 DEF DInv, ATypeOK
<1> QED BY <1>1, <1>2, StepAllocates

LEMMA OnGetLinked ==
  ASSUME DInv, NEW l \in Listener, OnGet(l)
  PROVE  Linked' /\ Total'
<1> USE AllocTypes DEF DInv
<1>1. CASE Reject(l) \/ NotOffered(l)
  BY <1>1 DEF Reject, NotOffered, Move, lVars, listenVars, aVars, Linked, Total
<1>2. CASE AssignZero(l)
  <2>1. /\ UNCHANGED <<lpc, hears, apc>> /\ idx' = [idx EXCEPT ![l] = 0] /\ SingleAccount
        /\ dpc[l] = "new" /\ dpc' = [dpc EXCEPT ![l] = "assigned"]
    BY <1>2 DEF AssignZero, Move, lVars, listenVars
  <2>2. 0 \in Address
    BY AllocatorAssumption, DepositsAssumption DEF Slot
  <2> QED BY <2>1, <2>2 DEF Linked, Total
<1>3. CASE AssignRead(l)
  <2>1. /\ UNCHANGED <<lpc, hears, idx>> /\ apc' = [apc EXCEPT ![l] = "locking"]
        /\ dpc[l] = "new" /\ dpc' = [dpc EXCEPT ![l] = "alloc"]
    BY <1>3 DEF AssignRead, LockRead, Move, lVars, listenVars
  <2> QED BY <2>1 DEF Linked, Total
<1>4. CASE AssignWrite(l)
  <2>1. [DNext]_dVars
    BY <1>4 DEF OnGet, DNext
  <2>2. ATypeOK'
    BY <2>1, TypesStay
  <2>3. PICK a :
          /\ UNCHANGED <<lpc, hears>> /\ dpc[l] = "alloc"
          /\ idx' = [idx EXCEPT ![l] = a]
          /\ apc' = [apc EXCEPT ![l] = IF a = NoAddress THEN "refused" ELSE "held"]
          /\ dpc' = [dpc EXCEPT ![l] = IF idx'[l] = NoAddress THEN "overloaded"
                                                              ELSE "assigned"]
    BY <1>4 DEF AssignWrite, LockWrite, Move, lVars, listenVars
  <2>4. a \in Address \cup {NoAddress}
    BY <2>2, <2>3, DepositsAssumption DEF ATypeOK
  <2> QED BY <2>3, <2>4 DEF Linked, Total
<1>5. CASE StartListener(l)
  <2>1. /\ UNCHANGED <<apc, idx>> /\ dpc[l] = "assigned"
        /\ dpc' = [dpc EXCEPT ![l] = "started"]
        /\ \E s \in {"run", "dead"} : lpc' = [lpc EXCEPT ![l] = s]
        /\ hears' = [hears EXCEPT ![l] = idx[l]]
    BY <1>5 DEF StartListener, Start, StartBlind, Move, aVars
  <2> QED BY <2>1 DEF Linked, Total
<1>6. CASE Answer(l)
  <2>1. /\ UNCHANGED <<lpc, hears, apc, idx>>
        /\ dpc[l] = "started" /\ dpc' = [dpc EXCEPT ![l] = "told"]
    BY <1>6 DEF Answer, Move, lVars, listenVars, aVars
  <2> QED BY <2>1 DEF Linked, Total
<1> QED BY <1>1, <1>2, <1>3, <1>4, <1>5, <1>6 DEF OnGet

LEMMA ListenLinked ==
  ASSUME DInv, NEW l \in Listener, Listen(l) \/ GiveUp(l) \/ Unlock(l)
  PROVE  Linked' /\ Total'
<1> USE AllocTypes DEF DInv
<1>1. CASE Listen(l)
  <2>1. /\ UNCHANGED <<hears, apc, idx, dpc>>
        /\ lpc[l] = "run"
        /\ lpc' = lpc \/ \E s \in {"done", "dead"} : lpc' = [lpc EXCEPT ![l] = s]
    BY <1>1 DEF Listen, Scan, Finish, Starve, aVars
  <2> QED BY <2>1 DEF Linked, Total
<1>2. CASE GiveUp(l)
  <2>1. /\ UNCHANGED <<hears, idx, dpc>> /\ lpc[l] = "run"
        /\ lpc' = [lpc EXCEPT ![l] = "expired"]
        /\ SingleAccount \/ apc' = [apc EXCEPT ![l] = "expired"]
    BY <1>2 DEF GiveUp, Expire, Timeout, aVars
  <2> QED BY <2>1 DEF Linked, Total
<1>3. CASE Unlock(l)
  <2>1. /\ UNCHANGED <<lpc, hears, idx, dpc>> /\ apc[l] \in {"expired", "unlocking"}
        /\ \E s : apc' = [apc EXCEPT ![l] = s]
    BY <1>3 DEF Unlock, UnlockRead, UnlockWrite, lVars, listenVars
  <2> QED BY <2>1 DEF Linked, Total
<1> QED BY <1>1, <1>2, <1>3

LEMMA RestartLinked ==
  ASSUME DInv, RestartGateway
  PROVE  Linked' /\ Total'
<1>1. CASE DepositsDie
  <2>1. /\ UNCHANGED <<hears, idx>>
        /\ lpc' = [l \in Listener |-> IF lpc[l] = "run" THEN "dead" ELSE lpc[l]]
        /\ dpc' = [l \in Listener |->
                     IF dpc[l] \in {"alloc", "assigned", "started"} THEN "killed" ELSE dpc[l]]
    BY <1>1 DEF DepositsDie, ListenersDie, InitializeAddresses
  <2> QED BY <2>1 DEF Linked, Total, DInv
<1>2. CASE DepositsOutlive
  <2>1. UNCHANGED <<hears, idx, lpc, dpc>> /\ \A l \in Listener : apc'[l] = apc[l]
    BY <1>2, DepositsAssumption DEF DepositsOutlive, InitializeAddresses, Outlived, listenVars
  <2> QED BY <2>1 DEF Linked, Total, DInv
<1> QED BY <1>1, <1>2 DEF RestartGateway

LEMMA DNextInv ==
  ASSUME DInv, [DNext]_dVars
  PROVE  DInv'
<1>1. CASE Block \/ Consolidate \/ Feed \/ UNCHANGED dVars
  <2>1. UNCHANGED <<lpc, hears, apc, idx, dpc>>
    BY <1>1 DEF Block, Consolidate, Feed, dVars, lVars, listenVars, aVars
  <2>2. Linked' /\ Total'
    BY <2>1 DEF DInv, Linked, Total
  <2> QED BY <2>2, TypesStay DEF DInv
<1>2. CASE ~(Block \/ Consolidate \/ Feed \/ UNCHANGED dVars)
  <2>1. Linked' /\ Total'
    BY <1>2, OnGetLinked, ListenLinked, RestartLinked DEF DNext
  <2> QED BY <2>1, TypesStay DEF DInv
<1> QED BY <1>1, <1>2

LEMMA DInvariant == DSpec => []DInv
BY DInitInv, DNextInv, PTL DEF DSpec

\* Every step of the deposit path is one of the parachain and its listeners, or
\* leaves them alone.
LEMMA StepListens ==
  ASSUME DInv, [DNext]_dVars
  PROVE  [LNext]_lVars
<1>1. CASE Block \/ Consolidate \/ Feed \/ UNCHANGED dVars
  BY <1>1 DEF Block, Consolidate, Feed, dVars, LNext, ChainStep
<1>2. CASE RestartGateway
  BY <1>2 DEF RestartGateway, DepositsDie, DepositsOutlive, LRestart, LNext
<1>3. ASSUME NEW l \in Listener, OnGet(l) PROVE [LNext]_lVars
  <2>1. CASE StartListener(l)
    <3>1. /\ Start(l, idx[l]) \/ StartBlind(l, idx[l])
          /\ UNCHANGED pVars /\ dpc[l] = "assigned"
      BY <2>1 DEF StartListener, Move
    <3>2. idx[l] \in Address
      BY <3>1 DEF DInv, Linked
    <3> QED BY <3>1, <3>2 DEF LNext, ListenerStep
  <2>2. CASE ~StartListener(l)
    BY <1>3, <2>2 DEF OnGet, Reject, NotOffered, AssignZero, AssignRead, AssignWrite, Answer
  <2> QED BY <2>1, <2>2
<1>4. ASSUME NEW l \in Listener, Listen(l) \/ GiveUp(l) \/ Unlock(l) PROVE [LNext]_lVars
  <2>1. CASE Listen(l) \/ GiveUp(l)
    <3>1. Turn(l)
      BY <2>1 DEF Listen, GiveUp, Turn
    <3> QED BY <3>1 DEF LNext
  <2>2. CASE Unlock(l)
    BY <2>2 DEF Unlock
  <2> QED BY <1>4, <2>1, <2>2
<1> QED BY <1>1, <1>2, <1>3, <1>4 DEF DNext

\* The deposit path listens as Listener does, on every network: the requests, the
\* address list, the clients and the ingots only choose when a listener starts,
\* on which address, and which transfers are mined.
THEOREM DepositsListen == DSpec => LSpec
<1>1. DInit => LInit
  BY DEF DInit
<1>2. DInv /\ [DNext]_dVars => [LNext]_lVars
  BY StepListens
<1> QED BY <1>1, <1>2, DInvariant, PTL DEF DSpec, LSpec

-----------------------------------------------------------------------------
(* Who a deposit is credited to                                            *)

\* The memos that tell the deposits apart differ.
IdsDiffer == \A l, m \in Listener : l.id = m.id => l = m

\* A client's transfer on the chain went to the address he has been told.
Paid ==
  \A t \in Mined \ Ingot :
    dpc[Payer(t)] = "told" /\ t.to = idx[Payer(t)]

LEMMA PayerIs ==
  ASSUME NEW t \in Transfer \ Ingot
  PROVE  Payer(t) \in Listener /\ Payer(t).id = t.from /\ t.memo = t.from
<1>1. \E l \in Listener : t.from = l.id /\ t.memo = l.id
  BY DepositsAssumption
<1> QED BY <1>1 DEF Payer

LEMMA MinedIsTransfers ==
  ASSUME PTypeOK PROVE Mined \subseteq Transfer
BY DEF PTypeOK, Mined

\* What a client has been told stays, whoever restarts the gateway.
LEMMA ToldStays ==
  ASSUME DInv, [DNext]_dVars, NEW m \in Listener, dpc[m] = "told"
  PROVE  dpc'[m] = "told" /\ idx'[m] = idx[m]
<1> USE AllocTypes DEF DInv, Total
<1>1. CASE Block \/ Consolidate \/ Feed \/ UNCHANGED dVars
  BY <1>1 DEF Block, Consolidate, Feed, dVars, aVars
<1>2. CASE RestartGateway
  BY <1>2 DEF RestartGateway, DepositsDie, DepositsOutlive, InitializeAddresses
<1>3. ASSUME NEW l \in Listener, OnGet(l) PROVE dpc'[m] = "told" /\ idx'[m] = idx[m]
  <2>1. m # l \/ UNCHANGED <<dpc, idx>>
    BY <1>3 DEF OnGet, Reject, NotOffered, AssignZero, AssignRead, AssignWrite,
                StartListener, Answer, Move
  <2>2. CASE m # l
    <3>1. dpc'[m] = dpc[m]
      BY <1>3, <2>2 DEF OnGet, Reject, NotOffered, AssignZero, AssignRead, AssignWrite,
                        StartListener, Answer, Move
    <3>2. idx' = idx \/ \E a : idx' = [idx EXCEPT ![l] = a]
      BY <1>3 DEF OnGet, Reject, NotOffered, AssignZero, AssignRead, AssignWrite,
                  StartListener, Answer, aVars, LockRead, LockWrite
    <3> QED BY <2>2, <3>1, <3>2
  <2> QED BY <2>1, <2>2
<1>4. ASSUME NEW l \in Listener, Listen(l) \/ GiveUp(l) \/ Unlock(l)
      PROVE  UNCHANGED <<dpc, idx>>
  BY <1>4 DEF Listen, GiveUp, Unlock, UnlockRead, UnlockWrite, Timeout, aVars
<1> QED BY <1>1, <1>2, <1>3, <1>4 DEF DNext

LEMMA PaidStep ==
  ASSUME DInv, PTypeOK, PTypeOK', Paid, [DNext]_dVars
  PROVE  Paid'
<1>1. \A t \in Mined \ Ingot : /\ t \in Transfer \ Ingot /\ Payer(t) \in Listener
                               /\ dpc'[Payer(t)] = "told" /\ t.to = idx'[Payer(t)]
  BY MinedIsTransfers, PayerIs, ToldStays DEF Paid
<1>2. CASE Block
  <2>1. PICK S \in SUBSET Transfer : chain' = [chain EXCEPT ![tip + 1] = S] /\ tip' = tip + 1
    BY <1>2 DEF Block, Mine
  <2>2. tip' \in Height
    BY DEF PTypeOK
  <2>3. chain'[tip'] = S /\ \A b \in Height : chain'[b] = IF b = tip' THEN S ELSE chain[b]
    BY <2>1, <2>2 DEF PTypeOK
  <2>4. Mined' \subseteq Mined \cup S
    BY <2>3 DEF Mined
  <2>5. UNCHANGED <<dpc, idx>> /\ \A t \in S : t \in Ingot \/ MayPay(t)
    BY <1>2, <2>3 DEF Block, aVars
  <2>6. \A t \in S \ Ingot : dpc'[Payer(t)] = "told" /\ t.to = idx'[Payer(t)]
    BY <2>5 DEF MayPay
  <2> QED BY <1>1, <2>4, <2>6 DEF Paid, Ingot, Payer
<1>3. CASE ~Block
  <2>1. chain' = chain
    BY <1>3 DEF DNext, Consolidate, Feed, RestartGateway, OnGet, Listen, GiveUp, Unlock,
                Reject, NotOffered, AssignZero, AssignRead, AssignWrite, StartListener,
                Answer, Writer, Boot, Poll, FetchBlock, FetchDies, WriteDoc, Restart,
                dVars, lVars, pVars, chainVars
  <2>2. Mined' = Mined
    BY <2>1 DEF Mined
  <2> QED BY <1>1, <2>2 DEF Paid, Ingot, Payer
<1> QED BY <1>2, <1>3

\* Whose listener is over has no more turns.
LEMMA OverStays ==
  ASSUME DInv, LTypeOK, [DNext]_dVars, NEW m \in Listener, Over(m)
  PROVE  Over(m)'
<1>1. [LNext]_lVars
  BY StepListens
<1>2. \/ lpc' = lpc
      \/ ListenersDie
      \/ \E l \in Listener, s \in {"run", "done", "expired", "dead"} :
           lpc' = [lpc EXCEPT ![l] = s] /\ (lpc[l] = "idle" \/ s # "run")
  BY <1>1 DEF LNext, ChainStep, ListenerStep, Turn, LRestart, Start, StartBlind, Scan, Finish,
              Expire, Starve, lVars, listenVars
<1> QED BY <1>2 DEF Over, LTypeOK, ListenersDie

\* The payer whose listener is not over holds the lease of the address he paid.
LEMMA PayerHolds ==
  ASSUME DInv, LTypeOK, Paid, ~SingleAccount, NEW t \in Mined \ Ingot,
         Payer(t) \in Listener, ~Over(Payer(t))
  PROVE  lpc[Payer(t)] = "run" /\ HasLease(Payer(t)) /\ idx[Payer(t)] = t.to
<1>1. dpc[Payer(t)] = "told" /\ t.to = idx[Payer(t)]
  BY DEF Paid
<1>2. lpc[Payer(t)] = "run"
  BY <1>1 DEF DInv, Linked, Over, LTypeOK
<1> QED BY <1>1, <1>2 DEF DInv, Linked, HasLease

\* The list is put in order only when nobody is left with a lease.
LEMMA RacedStays ==
  ASSUME [DNext]_dVars, DInv, raced, NEW m \in Listener, HasLease(m), lpc[m] = "run"
  PROVE  raced' \/ Over(m)'
<1> USE DepositsAssumption
<1>1. CASE RestartGateway
  <2>1. CASE DepositsDie
    BY <2>1 DEF DepositsDie, ListenersDie, Over
  <2>2. CASE DepositsOutlive
    BY <2>2 DEF DepositsOutlive, InitializeAddresses
  <2> QED BY <1>1, <2>1, <2>2 DEF RestartGateway
<1>2. CASE ~RestartGateway
  <2>1. raced' = raced \/ \E l \in Listener : LockWrite(l) \/ UnlockWrite(l)
    BY <1>2 DEF DNext, Block, Consolidate, Feed, OnGet, Listen, GiveUp, Unlock, Reject,
                NotOffered, AssignZero, AssignRead, AssignWrite, StartListener, Answer,
                LockRead, UnlockRead, Timeout, aVars, dVars
  <2> QED BY <2>1 DEF LockWrite, UnlockWrite
<1> QED BY <1>1, <1>2

\* The issuer is called in the turn of a listener that finds the transfer.
LEMMA StepScans ==
  ASSUME LTypeOK, [DNext]_dVars, NEW l \in Listener, NEW t \in Transfer,
         calls'[l][t] # calls[l][t]
  PROVE  Scan(l) /\ UNCHANGED <<pVars, aVars>>
<1>1. PICK m \in Listener : Listen(m)
  BY DEF DNext, Block, Consolidate, Feed, RestartGateway, DepositsDie, DepositsOutlive,
         ListenersDie, OnGet, Reject, NotOffered, AssignZero, AssignRead, AssignWrite,
         StartListener, Start, StartBlind, Answer, GiveUp, Expire, Unlock, dVars, lVars,
         listenVars
<1>2. Scan(m)
  BY <1>1 DEF Listen, Finish, Starve
<1>3. m = l
  BY <1>2 DEF Scan, LTypeOK
<1> QED BY <1>1, <1>2, <1>3 DEF Listen

\* Nobody but the payer listens on an address whose payer holds it, unless the list
\* has lost an update.
LEMMA CreditStep ==
  ASSUME DInv, AInv, HeedInv, HeedInv', Paid, CreditedToPayer, ~SingleAccount,
         [DNext]_dVars
  PROVE  CreditedToPayer'
<1> SUFFICES ASSUME NEW l \in Listener, NEW t \in Transfer \ Ingot,
                    calls'[l][t] > 0, l # Payer(t), ~Over(Payer(t))'
             PROVE  raced'
  BY DEF CreditedToPayer, Over, Ingot, Payer
<1> DEFINE p == Payer(t)
<1>1. p \in Listener
  BY PayerIs
<1>2. ~Over(p)
  BY <1>1, OverStays DEF HeedInv
<1>3. CASE calls[l][t] > 0
  <2>1. raced /\ t \in Mined
    BY <1>2, <1>3 DEF CreditedToPayer, HeedInv, OnlyMined
  <2>2. HasLease(p) /\ lpc[p] = "run"
    BY <1>1, <1>2, <2>1, PayerHolds DEF HeedInv
  <2> QED BY <1>1, <2>1, <2>2, RacedStays
<1>4. CASE ~(calls[l][t] > 0)
  <2>1. Scan(l) /\ UNCHANGED <<pVars, aVars>>
    BY <1>4, StepScans DEF HeedInv
  <2>2. t \in Mined /\ hears[l] = t.to /\ lpc[l] = "run"
    <3>1. t \in Mined' /\ Heeds(l, t)'
      BY DEF HeedInv, OnlyMined, OnlyHeeded
    <3> QED BY <2>1, <3>1 DEF pVars, Mined, Heeds, Scan
  <2>3. HasLease(p) /\ idx[p] = t.to
    BY <1>1, <1>2, <2>2, PayerHolds DEF HeedInv
  <2>4. HasLease(l) /\ idx[l] = t.to
    BY <2>2 DEF DInv, Linked, HasLease
  <2>5. raced
    BY <1>1, <2>3, <2>4, DepositsAssumption DEF AInv, UniqueUnlessRaced, UniqueLease
  <2> QED BY <2>1, <2>5 DEF aVars
<1> QED BY <1>3, <1>4

\* A deposit is credited to a client who has not paid it only when the payer's own
\* listener is over or the address list has lost an update: for any number of
\* clients, addresses, threads and restarts, on a shared account if the memos
\* differ, and across digit boundaries.
THEOREM CreditedToPayerThm ==
  (SingleAccount => IdsDiffer) /\ DSpec => []CreditedToPayer
<1>1. DSpec => []HeedInv
  BY DepositsListen, HeedInvariant, PTL
<1>2. ASSUME SingleAccount, IdsDiffer PROVE DSpec => []CreditedToPayer
  <2>1. HeedInv => CreditedToPayer
    <3> SUFFICES ASSUME HeedInv, NEW l \in Listener, NEW t \in Transfer \ Ingot,
                        calls[l][t] > 0
                 PROVE  l = Payer(t)
      BY DEF CreditedToPayer
    <3>1. t.memo = l.id
      BY <1>2, DepositsAssumption DEF HeedInv, OnlyHeeded, Heeds
    <3> QED BY <1>2, <3>1, PayerIs DEF IdsDiffer
  <2> QED BY <1>1, <2>1, PTL
<1>3. ASSUME ~SingleAccount PROVE DSpec => []CreditedToPayer
  <2>1. DSpec => []AInv
    BY <1>3, DepositsAllocate, AInvariant, PTL
  <2>2. DInit => Paid /\ CreditedToPayer
    BY PayerIs DEF DInit, LInit, PInit, Paid, Mined, CreditedToPayer, Over
  <2>3. /\ DInv /\ AInv /\ HeedInv /\ HeedInv' /\ (Paid /\ CreditedToPayer)
        /\ [DNext]_dVars
        => (Paid /\ CreditedToPayer)'
    BY <1>3, PaidStep, CreditStep DEF HeedInv, StoredInv, PTypeInv
  <2> QED BY <1>1, <2>1, <2>2, <2>3, DInvariant, PTL DEF DSpec
<1> QED BY <1>2, <1>3

-----------------------------------------------------------------------------
(* Issues of the shared account                                            *)

\* The invariants of the listeners are enough: what was issued for carries the
\* issuer's memo, so no two issue for one transfer, and it is confirmed.
LEMMA IssueHolds ==
  ASSUME LInv, OnlyHeeded, SingleAccount, IdsDiffer
  PROVE  IssuedOnce
<1> SUFFICES ASSUME NEW t \in Transfer
             PROVE  LET issuers == {l \in Listener : calls[l][t] > 0} IN
                    /\ Cardinality(issuers) <= 1
                    /\ \A l \in issuers : calls[l][t] = 1
                    /\ issuers # {} => \E b \in Height : b + 2 <= tip /\ t \in chain[b]
  BY DEF IssuedOnce
<1> DEFINE issuers == {l \in Listener : calls[l][t] > 0}
<1>1. AtMostOnce /\ OnlyConfirmed
  BY DEF LInv, SingleAccount, Numbered
<1>2. \A l \in issuers : t.memo = l.id
  BY DepositsAssumption DEF OnlyHeeded, Heeds
<1>3. \A l, m \in issuers : l = m
  BY <1>2 DEF IdsDiffer
<1>4. Cardinality(issuers) <= 1
  <2>1. CASE issuers = {}
    BY <2>1, FS_EmptySet
  <2>2. CASE issuers # {}
    <3>1. PICK l \in issuers : issuers = {l}
      BY <1>3, <2>2
    <3>2. Cardinality({l}) = 1
      BY FS_Singleton
    <3> QED BY <3>1, <3>2
  <2> QED BY <2>1, <2>2
<1>5. \A l \in issuers : calls[l][t] = 1
  <2>1. \A l \in Listener : calls[l][t] \in Nat
    BY DEF LInv, ListenInv, LTypeOK
  <2> QED BY <1>1, <2>1 DEF AtMostOnce
<1>6. ASSUME NEW l \in issuers PROVE \E b \in Height : b + 2 <= tip /\ t \in chain[b]
  <2>1. PICK b \in (start[l] + 1) .. (tip - 2) : b \in Height /\ t \in chain[b]
    BY <1>1 DEF OnlyConfirmed
  <2>2. tip \in Nat /\ b \in Nat
    BY <2>1, HeightIsNat DEF LInv, DocInv, PInv, PTypeOK
  <2>3. b <= tip - 2
    BY <2>1, HeightIsNat DEF LInv, ListenInv, LTypeOK
  <2> QED BY <2>1, <2>2, <2>3
<1> QED BY <1>4, <1>5, <1>6

\* On the shared account UIA is issued at most once for a transfer, over all
\* requests and restarts, and only for a confirmed one: for any requests with
\* differing memos and heights without a digit boundary.
THEOREM IssuesOnce ==
  SameWidth /\ SingleAccount /\ IdsDiffer /\ DSpec => []IssuedOnce
<1>1. ASSUME SameWidth, SingleAccount, IdsDiffer PROVE DSpec => []IssuedOnce
  <2>1. LSpec => []LInv
    BY <1>1, LInvariant
  <2>2. LSpec => []OnlyHeeded
    BY <1>1, OnlyHeededThm
  <2>3. LInv /\ OnlyHeeded => IssuedOnce
    BY <1>1, IssueHolds
  <2> QED BY <2>1, <2>2, <2>3, DepositsListen, PTL
<1> QED BY <1>1
=============================================================================
