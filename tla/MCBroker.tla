------------------------------ MODULE MCBroker ------------------------------
(* Bounded instances of Broker: the orders of the gateway and of its tests, *)
(* right and wrong logins, limit orders beyond the means.                  *)
EXTENDS Broker

Edict(op, n, p) == [op |-> op, amount |-> n, price |-> p]

Order(edicts, currency, key, owner) ==
  [edicts |-> edicts, asset |-> "uia", currency |-> currency,
   account |-> "gate", key |-> key, owner |-> owner]

MCOrders == {
  Order(<<Edict("login", 0, 0)>>, NoCurrency, TRUE, "gate"),
  Order(<<Edict("login", 0, 0)>>, NoCurrency, TRUE, "other"),
  Order(<<Edict("login", 0, 0)>>, NoCurrency, FALSE, "gate"),
  Order(<<Edict("issue", 3, 0)>>, NoCurrency, TRUE, "gate"),
  Order(<<Edict("reserve", 3, 0), Edict("login", 0, 0)>>, NoCurrency, FALSE, "gate"),
  Order(<<Edict("isue", 3, 0)>>, NoCurrency, TRUE, "gate"),
  Order(<<Edict("cancel", 0, 0)>>, "cny", TRUE, "gate"),
  Order(<<Edict("issue", 1, 0), Edict("cancel", 0, 0)>>, "cny", TRUE, "gate"),
  Order(<<Edict("transfer", 1, 0), Edict("buy", 1, 1)>>, "cny", TRUE, "gate"),
  Order(<<Edict("buy", 2, 1)>>, NoCurrency, TRUE, "gate"),
  Order(<<Edict("sell", 1, 1), Edict("buy", 2, 1)>>, Core, TRUE, "gate"),
  Order(<<Edict("buy", 3, 2), Edict("sell", 2, 1), Edict("buy", 2, 1), Edict("sell", 4, 1)>>,
        "cny", TRUE, "gate")
}

MCFunds == {[currency |-> 5, asset |-> 7], [currency |-> 0, asset |-> 4]}
=============================================================================
