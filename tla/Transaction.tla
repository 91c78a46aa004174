---------------------------- MODULE Transaction -----------------------------
(***************************************************************************)
(* src/app/signing/bitshares/build_transaction.py: how the edicts of an    *)
(* order become the operations of a BitShares transaction.                 *)
(*                                                                         *)
(* An order has edicts, an asset, a currency, the account and the key it   *)
(* is made with. Amounts are integers in the smallest unit of their asset, *)
(* prices integers; a multiplication by a scale below one truncates once,  *)
(* where the operation is built, as int() does. DUST is 0 and leaves every *)
(* edict in place. Header data and fees do not depend on the edicts and    *)
(* are left out, the queries that fetch them are in Broker.                *)
(***************************************************************************)
EXTENDS Integers, Sequences, SequencesExt

CONSTANTS
  LIMIT,      (* operations kept of one order                              *)
  Core,       (* the asset 1.3.0                                           *)
  NoCurrency  (* an order that names none                                  *)

ASSUME TransactionAssumption == LIMIT \in Nat

Limits == {"buy", "sell"}

\* The edicts of a list sorted by their operation: kept[n] are those among its
\* first n that do op.
Sorted(edicts, op) ==
  LET kept[n \in 0 .. Len(edicts)] ==
        IF n = 0 THEN <<>>
        ELSE IF edicts[n].op = op THEN Append(kept[n - 1], edicts[n]) ELSE kept[n - 1]
  IN  kept

Of(edicts, op) == Sorted(edicts, op)[Len(edicts)]

Has(edicts, ops) == \E e \in ToSet(edicts) : e.op \in ops

-----------------------------------------------------------------------------
(* Orders that are not built                                               *)

\* build_transaction answers -1. Only the first edict is looked at.
CurrencyMissing(order) ==
  order.edicts[1].op \in Limits /\ order.currency = NoCurrency

\* save_core_fees reads a variable of its caller, which it cannot see, when the
\* core asset is spent; the identifiers of the currency are only bound when the
\* first edict is a limit order; graphenize_cancel is called with its arguments
\* out of order.
Raises(order) ==
  \/ /\ Has(order.edicts, Limits)
     /\ \/ order.edicts[1].op \notin Limits
        \/ order.currency = Core /\ Has(order.edicts, {"buy"})
        \/ order.asset = Core /\ Has(order.edicts, {"sell"})
  \/ Has(order.edicts, {"cancel"})

-----------------------------------------------------------------------------
(* scale_limit_orders and the graphenize functions                         *)

\* What an edict spends: the currency of a buy, the asset of a sell.
Spends(e) == IF e.op = "buy" THEN e.amount * e.price ELSE e.amount

\* The running sums of a sequence of numbers, and the last of them.
Sums(s) ==
  LET sum[n \in 0 .. Len(s)] == IF n = 0 THEN 0 ELSE sum[n - 1] + s[n]
  IN  sum

Total(s) == Sums(s)[Len(s)]

Gross(edicts) == Total([i \in DOMAIN edicts |-> Spends(edicts[i])])

\* Mutant: each edict is scaled to the means on its own.
ShareAlone(x, edicts, funds) == IF x > funds THEN funds ELSE x

SIXSIG  == 999999  (* of a million *)
Million == 1000000

\* x, of an edict of the sequence, after all of them have been scaled to the
\* funds; SIXSIG keeps the total below the funds.
Share(x, edicts, funds) ==
  IF SIXSIG * funds < Million * Gross(edicts)
  THEN (x * SIXSIG * funds) \div (Million * Gross(edicts))
  ELSE x

LimitOrder(e, edicts, order, funds) ==
  LET S(x) == Share(x, edicts, funds)
      coins    == S(e.amount)
      currency == S(e.amount * e.price)
  IN  IF e.op = "buy"
      THEN [op |-> "create", sell |-> order.currency, amount |-> currency, get |-> coins]
      ELSE [op |-> "create", sell |-> order.asset, amount |-> coins, get |-> currency]

LimitOrders(op, order, funds) ==
  LET edicts == Of(order.edicts, op)
  IN  [i \in DOMAIN edicts |-> LimitOrder(edicts[i], edicts, order, funds)]

\* transfer, issue, reserve: the edict's own amount and receiver.
Plain(op, order) ==
  LET edicts == Of(order.edicts, op)
  IN  [i \in DOMAIN edicts |-> [op |-> op, amount |-> edicts[i].amount]]

\* Any number of logins is one dummy cancel.
Login(order) ==
  IF Has(order.edicts, {"login"}) THEN <<[op |-> "cancel", amount |-> 0]>> ELSE <<>>

\* funds: the balances of currency and asset as the node answered. The tail
\* beyond LIMIT is dropped.
Operations(order, funds) ==
  LET all == LimitOrders("buy", order, funds.currency)
             \o LimitOrders("sell", order, funds.asset)
             \o Plain("transfer", order) \o Plain("issue", order)
             \o Plain("reserve", order) \o Login(order)
  IN  SubSeq(all, 1, IF Len(all) < LIMIT THEN Len(all) ELSE LIMIT)

-----------------------------------------------------------------------------
\* What the limit orders of a transaction sell of one asset.
Sold(ops, asset) ==
  Total([i \in DOMAIN ops |->
           IF ops[i].op = "create" /\ ops[i].sell = asset THEN ops[i].amount ELSE 0])
=============================================================================
