------------------------------- MODULE Broker -------------------------------
(***************************************************************************)
(* One call of broker (src/app/signing/bitshares/graphene_auth.py): up to  *)
(* ATTEMPTS child processes run execute on the same order, the caller joins *)
(* each of them for PROCESS_TIMEOUT at most. A child that has not finished *)
(* is left running beside the next one; all share signal and auth. The     *)
(* queries of a child (src/app/signing/bitshares/rpc.py) go to public      *)
(* nodes, which may be slow, refuse, or be gone for good.                  *)
(*                                                                         *)
(* What the code never reaches is left out: verify_transaction raises for  *)
(* every transaction with an operation (Operation reads a name that is not *)
(* defined), so nothing is broadcast; an order to cancel ends where the    *)
(* undefined peerplays_trustless_client is called.                         *)
(***************************************************************************)
EXTENDS Transaction, FiniteSets

CONSTANTS
  ATTEMPTS, PROCESS_TIMEOUT,
  QUERIES,    (* tries of wss_query                                        *)
  Orders,     (* orders: [edicts, asset, currency, account, key, owner],   *)
              (* key: the wif is one; owner: the account the chain         *)
              (* refers the key to                                         *)
  Funds       (* balances a node may report: [currency, asset]             *)

ASSUME BrokerAssumption ==
  /\ ATTEMPTS \in Nat \ {0} /\ PROCESS_TIMEOUT \in Nat \ {0} /\ QUERIES \in Nat \ {0}
  /\ \A o \in Orders :
       /\ o.edicts \in Seq([op : STRING, amount : Nat, price : Nat]) \ {<<>>}
       /\ o.key \in BOOLEAN
  /\ Funds \subseteq [currency : Nat, asset : Nat]

Attempt == 1 .. ATTEMPTS

VARIABLES
  order, iteration,
  bpc,       (* broker: "loop", "join", "leave", "returned"                *)
  age,       (* how long the present join has lasted                       *)
  expired,   (* attempts whose join ended by the timeout                   *)
  signal, auth, answer,
  cpc,       (* a child: "none", "begin", the query it makes, "report",    *)
             (* "done", or "dead" of an exception                          *)
  link,      (* wss_query of the child has a connection                    *)
  stale,     (* the child's own rpc is one that wss_query has closed       *)
  tries,     (* failed tries of the present query                          *)
  verdict,   (* what a child's login test found: "none", "yes", "no"       *)
  funds, ops (* balances answered and operations built, per child          *)

caller == <<order, iteration, bpc, age, expired, answer>>
net    == <<link, stale, tries>>
built  == <<funds, ops>>
child  == <<cpc, net, verdict, built>>
bVars  == <<caller, signal, auth, child>>

First(o) == o.edicts[1].op

\* The login is right: the key is the account's.
Right(o) == First(o) = "login" /\ o.key /\ o.owner = o.account

-----------------------------------------------------------------------------
(* broker                                                                  *)

\* Mutant: the last attempt is not made.
SpawnFewer ==
  /\ bpc = "loop"
  /\ IF iteration < ATTEMPTS - 1 /\ ~signal
     THEN /\ iteration' = iteration + 1 /\ age' = 0 /\ bpc' = "join"
          /\ cpc' = [cpc EXCEPT ![iteration + 1] = "begin"]
     ELSE bpc' = "leave" /\ UNCHANGED <<iteration, age, cpc>>
  /\ UNCHANGED <<order, expired, answer, signal, auth, net, verdict, built>>

Spawn ==
  /\ bpc = "loop"
  /\ IF iteration < ATTEMPTS /\ ~signal
     THEN /\ iteration' = iteration + 1 /\ age' = 0 /\ bpc' = "join"
          /\ cpc' = [cpc EXCEPT ![iteration + 1] = "begin"]
     ELSE bpc' = "leave" /\ UNCHANGED <<iteration, age, cpc>>
  /\ UNCHANGED <<order, expired, answer, signal, auth, net, verdict, built>>

Over(k) == cpc[k] \in {"done", "dead"}

\* Mutant: child.join() without a timeout.
JoinForever ==
  /\ bpc = "join" /\ Over(iteration)
  /\ bpc' = "loop"
  /\ UNCHANGED <<order, iteration, age, expired, answer, signal, auth, child>>

\* child.join(PROCESS_TIMEOUT); the child is not terminated.
Join ==
  /\ bpc = "join"
  /\ Over(iteration) \/ age = PROCESS_TIMEOUT
  /\ bpc' = "loop"
  /\ expired' = IF Over(iteration) THEN expired ELSE expired \cup {iteration}
  /\ UNCHANGED <<order, iteration, age, answer, signal, auth, child>>

Return ==
  /\ bpc = "leave"
  /\ bpc' = "returned" /\ answer' = auth
  /\ UNCHANGED <<order, iteration, age, expired, signal, auth, child>>

Tick ==
  /\ bpc = "join" /\ age < PROCESS_TIMEOUT
  /\ age' = age + 1
  /\ UNCHANGED <<order, iteration, bpc, expired, answer, signal, auth, child>>

-----------------------------------------------------------------------------
(* wss_handshake and wss_query                                             *)

\* A node is reached in time, on the way in or after a failed try. Until then
\* the child loops.
Shake(k) ==
  /\ cpc[k] \notin {"none", "report", "done", "dead"} /\ ~link[k]
  /\ link' = [link EXCEPT ![k] = TRUE]
  /\ UNCHANGED <<caller, signal, auth, cpc, stale, tries, verdict, built>>

\* The child goes on to a query. wss_query reconnects in a variable of its own,
\* so after one failure the caller's rpc stays closed and the first try of every
\* later query fails.
GoTo(k, next) ==
  /\ cpc' = [cpc EXCEPT ![k] = next]
  /\ link' = [link EXCEPT ![k] = ~stale[k]]
  /\ tries' = [tries EXCEPT ![k] = IF stale[k] THEN 1 ELSE 0]
  /\ UNCHANGED stale

Asking(k) == cpc[k] \in {"key", "block", "fees", "balances", "hex"} /\ link[k]

\* The node's answer to query q of the child.
Answered(k, q) == cpc[k] = q /\ link[k] /\ tries[k] < QUERIES

\* Mutant: a query is tried until it is answered.
TryFailsEver(k) ==
  /\ Asking(k)
  /\ tries' = [tries EXCEPT ![k] = @ + 1]
  /\ link' = [link EXCEPT ![k] = FALSE]
  /\ stale' = [stale EXCEPT ![k] = TRUE]
  /\ UNCHANGED <<caller, signal, auth, cpc, verdict, built>>

\* A try without an answer.
TryFails(k) ==
  /\ Asking(k) /\ tries[k] < QUERIES
  /\ tries' = [tries EXCEPT ![k] = @ + 1]
  /\ link' = [link EXCEPT ![k] = FALSE]
  /\ stale' = [stale EXCEPT ![k] = TRUE]
  /\ UNCHANGED <<caller, signal, auth, cpc, verdict, built>>

\* Nothing usable: an error object, or None after QUERIES tries. Of a login this
\* is swallowed; elsewhere msg is never bound and the child dies of it, without
\* setting signal.
NoUse(k) ==
  /\ Asking(k)
  /\ cpc' = [cpc EXCEPT ![k] = IF @ = "key" THEN "report" ELSE "dead"]
  /\ verdict' = [verdict EXCEPT ![k] = IF cpc[k] = "key" THEN "no" ELSE @]
  /\ UNCHANGED <<caller, signal, auth, net, built>>

-----------------------------------------------------------------------------
(* execute                                                                 *)

\* After the handshake: login, cancel, or the build of the transaction.
Begin(k) ==
  /\ cpc[k] = "begin" /\ link[k]
  /\ \/ /\ First(order) = "login" /\ order.key
        /\ GoTo(k, "key") /\ UNCHANGED verdict
     \/ /\ First(order) = "login" /\ ~order.key
        /\ cpc' = [cpc EXCEPT ![k] = "report"]
        /\ verdict' = [verdict EXCEPT ![k] = "no"]
        /\ UNCHANGED net
     \/ /\ First(order) = "cancel" \/ CurrencyMissing(order)
        /\ cpc' = [cpc EXCEPT ![k] = "report"]
        /\ UNCHANGED <<net, verdict>>
     \/ /\ First(order) \notin {"login", "cancel"} /\ ~CurrencyMissing(order)
        /\ GoTo(k, "block") /\ UNCHANGED verdict
  /\ UNCHANGED <<caller, signal, auth, built>>

Matches == order.owner = order.account

\* rpc_key_reference is answered.
TestKey(k) ==
  /\ Answered(k, "key")
  /\ auth' = (auth \/ Matches)
  /\ verdict' = [verdict EXCEPT ![k] = IF Matches THEN "yes" ELSE "no"]
  /\ cpc' = [cpc EXCEPT ![k] = "report"]
  /\ UNCHANGED <<caller, signal, net, built>>

GotBlock(k) ==
  /\ Answered(k, "block")
  /\ GoTo(k, "fees")
  /\ UNCHANGED <<caller, signal, auth, verdict, built>>

\* The operations are built with the funds f.
Compose(k, f) ==
  /\ funds' = [funds EXCEPT ![k] = f]
  /\ ops' = [ops EXCEPT ![k] = Operations(order, f)]
  /\ IF Operations(order, f) = <<>> THEN cpc' = [cpc EXCEPT ![k] = "report"] /\ UNCHANGED net
                                    ELSE GoTo(k, "hex")

\* With the fees answered the edicts are sorted; limit orders ask for the
\* balances first.
GotFees(k) ==
  /\ Answered(k, "fees")
  /\ \/ /\ Has(order.edicts, {"cancel"}) \/ (Raises(order) /\ First(order) \notin Limits)
        /\ cpc' = [cpc EXCEPT ![k] = "dead"] /\ UNCHANGED <<net, built>>
     \/ /\ ~Has(order.edicts, {"cancel"}) /\ First(order) \in Limits
        /\ GoTo(k, "balances") /\ UNCHANGED built
     \/ /\ ~Raises(order) /\ First(order) \notin Limits
        /\ Compose(k, funds[k])
  /\ UNCHANGED <<caller, signal, auth, verdict>>

GotBalances(k) ==
  /\ Answered(k, "balances")
  /\ \/ Raises(order) /\ cpc' = [cpc EXCEPT ![k] = "dead"] /\ UNCHANGED <<net, built>>
     \/ ~Raises(order) /\ \E f \in Funds : Compose(k, f)
  /\ UNCHANGED <<caller, signal, auth, verdict>>

\* The node agrees on the serialisation. Without a key nothing is signed and the
\* child reports; with one the verification of the signed transaction raises.
Sign(k) ==
  /\ Answered(k, "hex")
  /\ cpc' = [cpc EXCEPT ![k] = IF order.key THEN "dead" ELSE "report"]
  /\ UNCHANGED <<caller, signal, auth, net, verdict, built>>

Report(k) ==
  /\ cpc[k] = "report"
  /\ signal' = TRUE
  /\ cpc' = [cpc EXCEPT ![k] = "done"]
  /\ UNCHANGED <<caller, auth, net, verdict, built>>

-----------------------------------------------------------------------------
NoFunds == [currency |-> 0, asset |-> 0]

BInit ==
  /\ order \in Orders
  /\ iteration = 0 /\ bpc = "loop" /\ age = 0 /\ expired = {}
  /\ signal = FALSE /\ auth = FALSE /\ answer = FALSE
  /\ cpc = [k \in Attempt |-> "none"]
  /\ link = [k \in Attempt |-> FALSE] /\ stale = [k \in Attempt |-> FALSE]
  /\ tries = [k \in Attempt |-> 0]
  /\ verdict = [k \in Attempt |-> "none"]
  /\ funds = [k \in Attempt |-> NoFunds] /\ ops = [k \in Attempt |-> <<>>]

broker == Spawn \/ Join \/ Return

execute(k) ==
  \/ Shake(k) \/ TryFails(k) \/ NoUse(k) \/ Begin(k) \/ TestKey(k)
  \/ GotBlock(k) \/ GotFees(k) \/ GotBalances(k) \/ Sign(k) \/ Report(k)

BNext == broker \/ Tick \/ \E k \in Attempt : execute(k)

BSpec == BInit /\ [][BNext]_bVars

\* The caller runs and time passes; nothing is asked of the nodes.
BFairSpec == BSpec /\ WF_bVars(broker) /\ WF_bVars(Tick)

-----------------------------------------------------------------------------
(* Properties                                                              *)

\* Type invariant.
BTypeOK ==
  /\ order \in Orders /\ iteration \in 0 .. ATTEMPTS
  /\ bpc \in {"loop", "join", "leave", "returned"}
  /\ age \in 0 .. PROCESS_TIMEOUT /\ expired \subseteq Attempt
  /\ signal \in BOOLEAN /\ auth \in BOOLEAN /\ answer \in BOOLEAN
  /\ cpc \in [Attempt -> {"none", "begin", "key", "block", "fees", "balances",
                          "hex", "report", "done", "dead"}]
  /\ link \in [Attempt -> BOOLEAN] /\ stale \in [Attempt -> BOOLEAN]
  /\ tries \in [Attempt -> 0 .. QUERIES]
  /\ verdict \in [Attempt -> {"none", "yes", "no"}]

\* What broker answers to a login, whatever children run on beside each other
\* and report late: TRUE only for the account's own key, and FALSE to a right
\* login only if a node refused it or every one of the ATTEMPTS ran out of time.
AnswerIsJustified ==
  bpc = "returned" =>
    /\ answer => Right(order)
    /\ ~answer /\ Right(order) =>
         (\E k \in Attempt : verdict[k] = "no") \/ expired = Attempt

\* "Scale order size to funds on hand": no transaction that is signed sells more
\* of the currency or of the asset than the account has, all its edicts together.
SoldWithinMeans ==
  \A k \in Attempt : ops[k] # <<>> =>
    /\ Sold(ops[k], order.currency) <= funds[k].currency
    /\ Sold(ops[k], order.asset) <= funds[k].asset

\* "else abort": the listener that issues or reserves is not held up for ever,
\* even if no node is ever reached again.
BrokerReturns == <>(bpc = "returned")
=============================================================================
