------------------------------ MODULE Listener ------------------------------
(***************************************************************************)
(* The listeners of src/app/listener_boilerplate.py and the decision of    *)
(* src/app/issue_or_reserve.py, over the parachain document of Parachain.  *)
(*                                                                         *)
(* A listener is a thread of the deposit server (issuer_action "issue") or *)
(* of a withdrawal ("reserve"). It remembers the newest block of the       *)
(* document at its start and from then on walks the blocks between its     *)
(* cursor and the newest one. A turn works on the one document it has read *)
(* and on its own comptroller, so a turn is one step; `calls` counts the   *)
(* calls of issue() and reserve() the turns make.                          *)
(***************************************************************************)
EXTENDS Parachain

CONSTANTS
  Listener,  (* records [id, action, amount]: memo tag, issuer_action and
                withdrawal_amount of the comptroller                       *)
  Address,   (* the addresses a listener may be told to listen to          *)
  Nowhere,   (* listening_to before the thread starts                      *)
  Nil        (* nil()[network]: amounts up to this are dust                *)

(* A transfer is a record [id, to, memo, amount]; memo is a listener's id, *)
(* another tag, or "" for none.                                            *)

\* The filter of the ripple parachain drops payments without a destination tag
\* of ten digits; the sums its and eosio's filter drop are below Nil.
Passing == {t \in Transfer : Network = "xrp" => t.memo # ""}

ASSUME ListenerAssumption ==
  /\ Nil \in Nat
  /\ Nowhere \notin Address
  /\ Kept = Passing
  /\ \A t \in Transfer : t.to \in Address /\ t.amount \in Nat
  /\ \A l \in Listener : l.action \in {"issue", "reserve"} /\ l.amount \in Nat

VARIABLES
  lpc,       (* "idle", "run", "done", "expired", "dead"                   *)
  hears,     (* listening_to                                               *)
  start,     (* start_block_num                                            *)
  cursor,    (* max(checked_blocks)                                        *)
  complete,  (* comptroller["complete"]                                    *)
  calls,     (* issue() or reserve() calls per listener and transfer       *)
  missing    (* blocks chronicled as "missing block data"                  *)

listenVars == <<lpc, hears, start, cursor, complete, calls, missing>>
lVars      == <<pVars, listenVars>>

-----------------------------------------------------------------------------
\* max() of the keys as integers: what a listener takes for the newest block.
Highest(K) == CHOOSE m \in K : \A x \in K : x <= m

\* 0.9999 * reference <= amount <= reference * 1.0001
Roughly(amount, reference) ==
  9999 * reference <= 10000 * amount /\ 10000 * amount <= 10001 * reference

\* eos and xrp deposits share one account and are told apart by the memo.
SingleAccount == Network \in {"eos", "xrp"}

\* Mutant: the memo is never compared.
HeedsAnyMemo(l, t) ==
  /\ t.to = hears[l]
  /\ t.amount > Nil
  /\ \/ l.action = "issue"
     \/ l.action = "reserve" /\ Roughly(t.amount, l.amount)

\* issue_or_reserve calls the issuer for transfer t of listener l.
Heeds(l, t) ==
  /\ t.to = hears[l]
  /\ t.amount > Nil
  /\ \/ l.action = "issue" /\ (SingleAccount => t.memo = l.id)
     \/ l.action = "reserve" /\ Roughly(t.amount, l.amount)

\* The blocks among B in which l finds transfer t and calls the issuer.
Heard(l, t, B) == {b \in B \cap DOMAIN doc : t \in doc[b] /\ Heeds(l, t)}

\* Mutant: checked_blocks starts empty and new_blocks at zero.
NewBlocksFromZero(l) == 0 .. (Highest(DOMAIN doc) - 1)

\* Mutant: new_blocks starts one block too late.
NewBlocksLate(l) == (cursor[l] + 2) .. (Highest(DOMAIN doc) - 1)

\* Mutant: new_blocks includes the newest block, which has none on top here.
NewBlocksToTop(l) == (cursor[l] + 1) .. Highest(DOMAIN doc)

\* range(max_checked_block + 1, current_block_num)
NewBlocks(l) == (cursor[l] + 1) .. (Highest(DOMAIN doc) - 1)

-----------------------------------------------------------------------------
\* max() of no keys raises: a thread that starts before the parachain's first
\* block, or takes a turn after a restart has scrubbed the document, ends there.
StartBlind(l, a) ==
  /\ lpc[l] = "idle"
  /\ DOMAIN doc = {}
  /\ lpc' = [lpc EXCEPT ![l] = "dead"]
  /\ hears' = [hears EXCEPT ![l] = a]
  /\ UNCHANGED <<start, cursor, complete, calls, missing>>

Starve(l) ==
  /\ lpc[l] = "run"
  /\ ~complete[l]
  /\ DOMAIN doc = {}
  /\ lpc' = [lpc EXCEPT ![l] = "dead"]
  /\ UNCHANGED <<hears, start, cursor, complete, calls, missing>>

\* The thread starts and takes the newest block of the document as its start.
Start(l, a) ==
  /\ lpc[l] = "idle"
  /\ DOMAIN doc # {}
  /\ lpc' = [lpc EXCEPT ![l] = "run"]
  /\ hears' = [hears EXCEPT ![l] = a]
  /\ start' = [start EXCEPT ![l] = Highest(DOMAIN doc)]
  /\ cursor' = [cursor EXCEPT ![l] = Highest(DOMAIN doc)]
  /\ UNCHANGED <<complete, calls, missing>>

\* The turn after a detection leaves the loop. The address is not unlocked.
Finish(l) ==
  /\ lpc[l] = "run"
  /\ complete[l]
  /\ lpc' = [lpc EXCEPT ![l] = "done"]
  /\ UNCHANGED <<hears, start, cursor, complete, calls, missing>>

\* The turn that finds elapsed > timeout. How long the turns take is left open.
Expire(l) ==
  /\ lpc[l] = "run"
  /\ ~complete[l]
  /\ lpc' = [lpc EXCEPT ![l] = "expired"]
  /\ UNCHANGED <<hears, start, cursor, complete, calls, missing>>

\* A turn that finds new blocks: every one of them is checked, those that the
\* window has already dropped are chronicled as missing.
Scan(l) ==
  /\ lpc[l] = "run"
  /\ ~complete[l]
  /\ DOMAIN doc # {}
  /\ Highest(DOMAIN doc) > cursor[l] + 1
  /\ cursor' = [cursor EXCEPT ![l] = Highest(DOMAIN doc) - 1]
  /\ missing' = [missing EXCEPT ![l] = @ \cup (NewBlocks(l) \ DOMAIN doc)]
  /\ calls' = [calls EXCEPT ![l] =
                 [t \in Transfer |-> @[t] + Cardinality(Heard(l, t, NewBlocks(l)))]]
  /\ complete' = [complete EXCEPT ![l] =
                    \E t \in Transfer : Heard(l, t, NewBlocks(l)) # {}]
  /\ UNCHANGED <<lpc, hears, start>>

\* The process of the listening threads ends with the gateway's main.
ListenersDie ==
  /\ lpc' = [l \in Listener |-> IF lpc[l] = "run" THEN "dead" ELSE lpc[l]]
  /\ UNCHANGED <<hears, start, cursor, complete, calls, missing>>

-----------------------------------------------------------------------------
LInit ==
  /\ PInit
  /\ lpc = [l \in Listener |-> "idle"]
  /\ hears = [l \in Listener |-> Nowhere]
  /\ start = [l \in Listener |-> First]
  /\ cursor = [l \in Listener |-> First]
  /\ complete = [l \in Listener |-> FALSE]
  /\ calls = [l \in Listener |-> [t \in Transfer |-> 0]]
  /\ missing = [l \in Listener |-> {}]

ChainStep == (Mine \/ Writer \/ FetchDies) /\ UNCHANGED listenVars

ListenerStep(l) ==
  /\ \E a \in Address : Start(l, a) \/ StartBlind(l, a)
  /\ UNCHANGED pVars

Turn(l) == (Scan(l) \/ Finish(l) \/ Expire(l) \/ Starve(l)) /\ UNCHANGED pVars

\* The listening threads belong to a process of their own, which may outlive main.
LRestart == Restart /\ (ListenersDie \/ UNCHANGED listenVars)

LNext ==
  \/ ChainStep
  \/ \E l \in Listener : ListenerStep(l) \/ Turn(l)
  \/ LRestart

LSpec == LInit /\ [][LNext]_lVars

\* On top of the writer's fairness: a listening thread keeps taking turns. It
\* need not ever find its timeout elapsed.
LFairSpec ==
  /\ LSpec
  /\ WF_lVars(Boot /\ UNCHANGED listenVars)
  /\ WF_lVars(Poll /\ UNCHANGED listenVars)
  /\ WF_lVars(FetchBlock /\ UNCHANGED listenVars)
  /\ WF_lVars(WriteDoc /\ UNCHANGED listenVars)
  /\ \A l \in Listener : WF_lVars((Scan(l) \/ Finish(l)) /\ UNCHANGED pVars)

-----------------------------------------------------------------------------
(* Properties                                                              *)

\* Type invariant of the listeners.
LTypeOK ==
  /\ lpc \in [Listener -> {"idle", "run", "done", "expired", "dead"}]
  /\ hears \in [Listener -> Address \cup {Nowhere}]
  /\ start \in [Listener -> Height]
  /\ cursor \in [Listener -> Height]
  /\ complete \in [Listener -> BOOLEAN]
  /\ calls \in [Listener -> [Transfer -> Nat]]
  /\ missing \in [Listener -> SUBSET Height]

\* A listener calls the issuer at most once for one transfer, however its
\* turns interleave with the writer's polls and with the sliding window.
AtMostOnce == \A l \in Listener, t \in Transfer : calls[l][t] <= 1

\* The issuer is called only for a transfer of a block younger than the
\* listener's start that has at least two blocks on top of it.
OnlyConfirmed ==
  \A l \in Listener, t \in Transfer :
    calls[l][t] > 0 =>
      \E b \in (start[l] + 1) .. (tip - 2) : b \in Height /\ t \in chain[b]

\* A block the cursor has passed was looked at, in full: each transfer in it
\* that concerns the listener was acted on, or the block is chronicled missing.
NothingSkipped ==
  \A l \in Listener : \A b \in (start[l] + 1) .. cursor[l] :
    \A t \in chain[b] \cap Kept : Heeds(l, t) => calls[l][t] = 1 \/ b \in missing[l]

\* A turn gives up a block only when the window has moved past it: never one that
\* the document it reads still holds or, short of a restart, will hold.
MissingIsOutpaced ==
  [][\A l \in Listener : \A b \in missing'[l] \ missing[l] :
       \A k \in DOMAIN doc : b < k]_missing

\* A transfer with enough blocks on top is acted on, unless the listener ends
\* first or the window outpaces it.
DetectedOrGone ==
  \A l \in Listener, t \in Transfer, b \in Height :
    lpc[l] = "run" /\ start[l] < b /\ b + 2 + Lag <= tip
      /\ t \in chain[b] \cap Kept /\ Heeds(l, t)
      ~> calls[l][t] > 0 \/ lpc[l] # "run" \/ b \in missing[l]
=============================================================================
