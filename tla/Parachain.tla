----------------------------- MODULE Parachain -----------------------------
(***************************************************************************)
(* One foreign chain and the windowed copy of it that the gateway keeps in *)
(* pipe/parachain_{network}.txt (src/app/process_parachains.py).           *)
(*                                                                         *)
(* The copy is a JSON object from block numbers to lists of transfers. Its *)
(* keys are STRINGS, and window_parachain sorts, maximises and slices them *)
(* as strings; the listeners that read the document compare them as        *)
(* integers. Each remote call of the writer is a step of its own: the      *)
(* height, then one answer per block, then the write.                      *)
(*                                                                         *)
(* window_parachain is the only writer of the document, so the cache it    *)
(* reads after the height is the document it later overwrites. A writer of *)
(* the session before, which lives until it finds main's check-in stale,   *)
(* is taken to have ended before the next one is launched.                 *)
(***************************************************************************)
EXTENDS Integers, FiniteSets, Sequences

CONSTANTS
  Network,     (* "xrp", "eos", "ltc", "btc" or "xyz": picks apodize_block_data *)
  Transfer,    (* the transfers that may appear on the chain               *)
  Kept,        (* those that pass the filters of apodize_block_data        *)
  First, Last, (* the chain heights modelled (bound)                       *)
  Window,      (* parachain_params()[network]["window"]                    *)
  Lag,         (* how far behind the tip a queried node may be             *)
  MaxRestarts  (* gateway restarts modelled (bound)                        *)

ASSUME ParachainAssumption ==
  /\ Network \in {"xrp", "eos", "ltc", "btc", "xyz"}
  /\ Kept \subseteq Transfer
  /\ First \in Nat /\ Last \in Nat /\ First < Last
  /\ Window \in Nat \ {0}
  /\ Lag \in Nat
  /\ MaxRestarts \in Nat

Height == First .. Last

VARIABLES
  tip,       (* newest block of the foreign chain                          *)
  chain,     (* the transfers of every block; {} for blocks not yet mined  *)
  doc,       (* the parachain document: block number -> transfers          *)
  pc,        (* where window_parachain is: "boot", "sleep", "fetch", "dead" *)
  want,      (* new_blocks not yet fetched                                 *)
  batch,     (* new_parachain: the blocks fetched so far                   *)
  restarts   (* gateway restarts so far                                    *)

chainVars == <<tip, chain>>
pVars     == <<tip, chain, doc, pc, want, batch, restarts>>

-----------------------------------------------------------------------------
(* Block numbers as the strings they are in the document.                  *)

Numeral[n \in Nat] ==
  IF n < 10 THEN <<n>> ELSE Append(Numeral[n \div 10], n % 10)

\* Python's order on str: position k is the first difference, or s ends there.
StrBefore(s, t) ==
  \E k \in 1 .. Len(t) :
    /\ \A i \in 1 .. (k - 1) : i <= Len(s) /\ s[i] = t[i]
    /\ k > Len(s) \/ s[k] < t[k]

StrOrder == {p \in Height \X Height : StrBefore(Numeral[p[1]], Numeral[p[2]])}

StrLess(a, b) == <<a, b>> \in StrOrder

\* No digit boundary (9 to 10, 99 to 100, ...) lies among the heights.
SameWidth == \A a, b \in Height : StrLess(a, b) <=> a < b

\* max() of the keys as strings: what the writer takes for the newest block.
MaxStr(K) == CHOOSE b \in K : \A c \in K : c = b \/ StrLess(c, b)

\* Mutant: the slice [:window].
FirstOf(K) == {b \in K : Cardinality({c \in K : StrLess(c, b)}) < Window}

\* sorted(keys)[-window:], the keys kept.
LastOf(K) == {b \in K : Cardinality({c \in K : StrLess(b, c)}) < Window}

-----------------------------------------------------------------------------
(* The foreign chain and its nodes (external).                             *)

Mined == UNION {chain[b] : b \in Height}

\* Block contents do not change once mined: reorganisations are not modelled.
Mine ==
  /\ tip < Last
  /\ tip' = tip + 1
  /\ \E S \in SUBSET (Transfer \ Mined) : chain' = [chain EXCEPT ![tip + 1] = S]
  /\ UNCHANGED <<doc, pc, want, batch, restarts>>

\* get_block_number: the height one of the public nodes reports.
Reported == {h \in Height : First < h /\ tip - Lag <= h /\ h <= tip}

\* ripple: asks again until a node answers with the ledger.
LedgerAnswers(b) == {chain[b] \cap Kept}

\* eosio: an error object of a node is taken for a block without transactions.
EosAnswers(b) == {chain[b] \cap Kept, {}}

\* litecoin and bitcoin: b is replaced by the height the node is at, which may
\* lag behind the tip as any other answer may.
TipAnswers(b) == {chain[h] \cap Kept : h \in Reported}

\* xyz: a pending transfer is gone if its file was overwritten before the block.
FileAnswers(b) == SUBSET (chain[b] \cap Kept)

\* What apodize_block_data may store under block b.
Answers(b) ==
  CASE Network = "xrp" -> LedgerAnswers(b)
    [] Network = "eos" -> EosAnswers(b)
    [] Network = "xyz" -> FileAnswers(b)
    [] Network \in {"ltc", "btc"} -> TipAnswers(b)

-----------------------------------------------------------------------------
(* window_parachain                                                        *)

\* Mutant: the process starts two blocks below the height.
BootTooLow ==
  /\ pc = "boot"
  /\ \E h \in Reported : want' = {h - 2}
  /\ pc' = "fetch"
  /\ UNCHANGED <<chainVars, doc, batch, restarts>>

\* The process starts on a scrubbed document with the block below the height.
Boot ==
  /\ pc = "boot"
  /\ \E h \in Reported : want' = {h - 1}
  /\ pc' = "fetch"
  /\ UNCHANGED <<chainVars, doc, batch, restarts>>

\* Mutant: the range includes the reported height itself.
PollInclusive ==
  /\ pc = "sleep"
  /\ \E h \in Reported :
       /\ h > MaxStr(DOMAIN doc) + 1
       /\ want' = (MaxStr(DOMAIN doc) + 1) .. h
  /\ pc' = "fetch"
  /\ UNCHANGED <<chainVars, doc, batch, restarts>>

\* Mutant: the range starts one block too late.
PollSkips ==
  /\ pc = "sleep"
  /\ \E h \in Reported :
       /\ h > MaxStr(DOMAIN doc) + 2
       /\ want' = (MaxStr(DOMAIN doc) + 2) .. (h - 1)
  /\ pc' = "fetch"
  /\ UNCHANGED <<chainVars, doc, batch, restarts>>

\* Mutant: the loop waits for a batch of several blocks.
PollLate ==
  /\ pc = "sleep"
  /\ \E h \in Reported :
       /\ h > MaxStr(DOMAIN doc) + 3
       /\ want' = (MaxStr(DOMAIN doc) + 1) .. (h - 1)
  /\ pc' = "fetch"
  /\ UNCHANGED <<chainVars, doc, batch, restarts>>

\* One turn of the loop that finds new blocks; a turn that finds none changes
\* nothing.
Poll ==
  /\ pc = "sleep"
  /\ \E h \in Reported :
       /\ h > MaxStr(DOMAIN doc) + 1
       /\ want' = (MaxStr(DOMAIN doc) + 1) .. (h - 1)
  /\ pc' = "fetch"
  /\ UNCHANGED <<chainVars, doc, batch, restarts>>

\* One block fetched. The eos threads finish in any order; the order of the
\* other networks is one of these.
FetchBlock ==
  /\ pc = "fetch"
  /\ \E b \in want : \E answer \in Answers(b) :
       /\ want' = want \ {b}
       /\ batch' = [k \in DOMAIN batch \cup {b} |->
                      IF k = b THEN answer ELSE batch[k]]
  /\ UNCHANGED <<chainVars, doc, pc, restarts>>

\* What nothing catches ends the process: an RPC error in get_block of ltc/btc,
\* and an eos block that is not shaped as apodize_block_data takes it to be (the
\* "trx" of a deferred transaction is a string).
FetchDies ==
  /\ pc = "fetch"
  /\ want # {}
  /\ Network \in {"ltc", "btc", "eos"}
  /\ pc' = "dead"
  /\ UNCHANGED <<chainVars, doc, want, batch, restarts>>

\* parachain_cache.update(new_parachain), the window, and the write.
WriteDoc ==
  /\ pc = "fetch"
  /\ want = {}
  /\ doc' = [k \in LastOf(DOMAIN doc \cup DOMAIN batch) |->
               IF k \in DOMAIN batch THEN batch[k] ELSE doc[k]]
  /\ batch' = << >>
  /\ pc' = "sleep"
  /\ UNCHANGED <<chainVars, want, restarts>>

\* The gateway is started again, after the old writer has ended:
\* spawn_parachains scrubs the document and launches a new writer.
Restart ==
  /\ restarts < MaxRestarts
  /\ restarts' = restarts + 1
  /\ doc' = << >>
  /\ pc' = "boot"
  /\ want' = {}
  /\ batch' = << >>
  /\ UNCHANGED chainVars

-----------------------------------------------------------------------------
PInit ==
  /\ tip \in Height /\ tip > First
  /\ chain = [b \in Height |-> {}]
  /\ doc = << >>
  /\ pc = "boot"
  /\ want = {}
  /\ batch = << >>
  /\ restarts = 0

Writer == Boot \/ Poll \/ FetchBlock \/ WriteDoc

PNext == Mine \/ Writer \/ FetchDies \/ Restart

PSpec == PInit /\ [][PNext]_pVars

\* The writer loops and its remote calls are retried until some node answers, so
\* each of its steps is taken eventually. That is so while main lives and stamps
\* the watchdog file: the writer's only other way out is watchdog_sleep, which
\* exits, or fails on an entry the file lacks, when main's stamp is stale or gone.
\* Nothing is assumed of Mine, FetchDies and Restart.
PFairSpec == PSpec /\ WF_pVars(Boot) /\ WF_pVars(Poll)
                   /\ WF_pVars(FetchBlock) /\ WF_pVars(WriteDoc)

-----------------------------------------------------------------------------
(* Properties                                                              *)

\* Type invariant of the chain and of the writer's state.
PTypeOK ==
  /\ tip \in Height
  /\ chain \in [Height -> SUBSET Transfer]
  /\ DOMAIN doc \subseteq Height
  /\ \A b \in DOMAIN doc : doc[b] \subseteq Transfer
  /\ pc \in {"boot", "sleep", "fetch", "dead"}
  /\ want \subseteq Height
  /\ DOMAIN batch \subseteq Height
  /\ \A b \in DOMAIN batch : batch[b] \subseteq Transfer
  /\ restarts \in 0 .. MaxRestarts

\* The blocks of the document are consecutive, at most Window of them, and all
\* strictly below the tip: no block is lost between two polls of
\* window_parachain, and none is published before another block is on top.
DocIsRecentRun ==
  DOMAIN doc # {} =>
    \E lo, hi \in Height :
      /\ DOMAIN doc = lo .. hi
      /\ hi - lo < Window
      /\ hi < tip

\* Every block of the document holds the kept transfers the chain has under that
\* number: what the docstrings of the get_block functions promise.
DocIsFaithful == \A b \in DOMAIN doc : doc[b] = chain[b] \cap Kept

\* "Window the block numbers to the latest blocks only", says the comment at the
\* slice of window_parachain: a write never drops a block while it keeps an older
\* one. The slice is of sorted strings, and across a digit boundary it is not so.
WindowKeepsLatest ==
  [][\A b \in (DOMAIN doc \cup DOMAIN batch) \ DOMAIN doc' :
       \A k \in DOMAIN doc' : b < k]_doc

\* What the slice of strings does promise, at every digit boundary too: of two
\* blocks whose numbers have as many digits, a write never drops the later one
\* and keeps the earlier.
KeepsLatestOfAWidth ==
  [][\A b \in (DOMAIN doc \cup DOMAIN batch) \ DOMAIN doc' :
       \A k \in DOMAIN doc' : Len(Numeral[b]) = Len(Numeral[k]) => b < k]_doc

\* The copy follows the chain (docstring of window_parachain): once every node
\* reports a block on top of h, the document reaches h or a later block.
DocCatchesUp ==
  \A h \in Height : h + Lag < tip ~> (\E k \in DOMAIN doc : h <= k)
=============================================================================
