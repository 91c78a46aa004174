--------------------------- MODULE Listener_proofs ----------------------------
(***************************************************************************)
(* Proofs about Listener, for every number of listeners, transfers, blocks *)
(* and restarts, and whether or not the listening threads outlive a        *)
(* restart. On every network and for all block numbers a listener acts     *)
(* only on a transfer of the chain that is meant for it. The rest is under *)
(* SameWidth: a block is given up only because the window has passed it;   *)
(* where blocks are asked for by number a deposit or payout is acted on at *)
(* most once and only when it is confirmed; where their answers are        *)
(* faithful too (xrp), no block goes by unseen.                            *)
(***************************************************************************)
EXTENDS Listener, Parachain_proofs

\* A transfer is mined in one block.
MinedOnce == \A a, b \in Height : a # b => chain[a] \cap chain[b] = {}

\* A cursor is past the start, and stays below the tip.
CursorBehindTip ==
  \A l \in Listener : start[l] <= cursor[l] /\ cursor[l] < tip

\* A listener that has not started has heard nothing and missed nothing.
IdleIsFresh ==
  \A l \in Listener :
    lpc[l] = "idle" => start[l] = cursor[l] /\ ~complete[l] /\ missing[l] = {}

\* The first call of the issuer completes the comptroller.
SilentUntilComplete ==
  \A l \in Listener : ~complete[l] => \A t \in Transfer : calls[l][t] = 0

\* The invariant of the parachain, and what the network promises of its blocks.
DocInv ==
  /\ PInv
  /\ Numbered => NothingInvented
  /\ Network = "xrp" => DocIsFaithful /\ BatchIsFaithful

\* The parts of the inductive invariant that are not properties of their own.
ListenInv ==
  /\ LTypeOK
  /\ MinedOnce
  /\ CursorBehindTip
  /\ IdleIsFresh
  /\ SilentUntilComplete

\* The inductive invariant.
LInv ==
  /\ DocInv
  /\ ListenInv
  /\ Numbered => AtMostOnce /\ OnlyConfirmed
  /\ Network = "xrp" => NothingSkipped

-----------------------------------------------------------------------------
(* The parachain under the listeners.                                      *)

\* A step of the parachain never shrinks the chain nor changes a mined block.
LEMMA ChainGrows ==
  ASSUME PInv, [PNext]_pVars
  PROVE  /\ tip <= tip'
         /\ \A b \in Height : b <= tip => chain'[b] = chain[b]
<1>1. tip \in Nat
  BY HeightIsNat DEF PInv, PTypeOK
<1>2. CASE Mine
  BY <1>1, <1>2, HeightIsNat DEF Mine, PInv, PTypeOK
<1>3. CASE ~Mine
  <2>1. tip' = tip /\ chain' = chain
    BY <1>3 DEF PNext, Writer, Boot, Poll, FetchBlock, FetchDies, WriteDoc, Restart,
                pVars, chainVars
  <2> QED
    BY <1>1, <2>1
<1> QED
  BY <1>2, <1>3

LEMMA MinedOnceStep ==
  ASSUME PInv, MinedOnce, [PNext]_pVars
  PROVE  MinedOnce'
<1>1. CASE Mine
  <2>1. PICK S \in SUBSET (Transfer \ Mined) : chain' = [chain EXCEPT ![tip + 1] = S]
    BY <1>1 DEF Mine
  <2>2. \A b \in Height : S \cap chain[b] = {}
    BY <2>1 DEF Mined
  <2>3. \A b \in Height : chain'[b] = IF b = tip + 1 THEN S ELSE chain[b]
    BY <2>1 DEF PInv, PTypeOK
  <2> QED
    BY <2>2, <2>3 DEF MinedOnce
<1>2. CASE ~Mine
  <2>1. chain' = chain
    BY <1>2 DEF PNext, Writer, Boot, Poll, FetchBlock, FetchDies, WriteDoc, Restart,
                pVars, chainVars
  <2> QED
    BY <2>1 DEF MinedOnce
<1> QED
  BY <1>1, <1>2

\* The greatest key of a run as an integer.
LEMMA HighestOfRun ==
  ASSUME NEW lo \in Height, NEW hi \in Height, lo <= hi
  PROVE  Highest(lo .. hi) = hi
<1>1. lo \in Nat /\ hi \in Nat
  BY HeightIsNat
<1>2. hi \in lo .. hi /\ \A x \in lo .. hi : x <= hi
  BY <1>1
<1>3. \A m \in lo .. hi : (\A x \in lo .. hi : x <= m) => m = hi
  BY <1>1
<1> QED
  BY <1>2, <1>3 DEF Highest

\* The document of a running listener, and its newest block.
LEMMA NewestOfDoc ==
  ASSUME PInv, DOMAIN doc # {}
  PROVE  \E lo, hi \in Height :
           /\ lo <= hi /\ hi < tip
           /\ DOMAIN doc = lo .. hi
           /\ Highest(DOMAIN doc) = hi
<1>1. PICK lo, hi \in Height : DOMAIN doc = lo .. hi /\ hi < tip
  BY DEF PInv, DocIsRecentRun
<1>2. lo <= hi
  BY <1>1, HeightIsNat
<1> QED
  BY <1>1, <1>2, HighestOfRun

\* A scan finds a transfer a finite number of times.
LEMMA HeardIsFinite ==
  ASSUME PTypeOK, NEW l \in Listener, NEW t \in Transfer, NEW B
  PROVE  /\ Cardinality(Heard(l, t, B)) \in Nat
         /\ Heard(l, t, B) = {} => Cardinality(Heard(l, t, B)) = 0
<1>1. Heard(l, t, B) \subseteq Height
  BY DEF Heard, PTypeOK
<1>2. IsFiniteSet(Height)
  BY ParachainAssumption, FS_Interval DEF Height
<1>3. IsFiniteSet(Heard(l, t, B))
  BY <1>1, <1>2, FS_Subset
<1> QED
  BY <1>3, FS_CardinalityType, FS_EmptySet

\* Where blocks are asked for by number, it finds it at most once.
LEMMA HeardAtMostOnce ==
  ASSUME DocInv, MinedOnce, Numbered, NEW l \in Listener, NEW t \in Transfer, NEW B
  PROVE  \/ Heard(l, t, B) = {} /\ Cardinality(Heard(l, t, B)) = 0
         \/ /\ Heard(l, t, B) # {} /\ Cardinality(Heard(l, t, B)) = 1
            /\ \A b \in Heard(l, t, B) : b \in Height /\ b \in DOMAIN doc /\ t \in chain[b]
<1> DEFINE H == Heard(l, t, B)
<1>1. \A b \in H : b \in Height /\ b \in DOMAIN doc /\ t \in chain[b]
  BY DEF Heard, DocInv, NothingInvented, PInv, PTypeOK
<1>2. CASE H = {}
  BY <1>2, FS_EmptySet
<1>3. CASE H # {}
  <2>1. PICK b \in H : TRUE
    BY <1>3
  <2>2. H = {b}
    BY <1>1, <2>1 DEF MinedOnce
  <2>3. Cardinality({b}) = 1
    BY FS_Singleton
  <2> QED
    BY <1>1, <1>3, <2>2, <2>3
<1> QED
  BY <1>2, <1>3

-----------------------------------------------------------------------------
LEMMA LInitInv == LInit => LInv
<1> SUFFICES ASSUME LInit PROVE LInv
  OBVIOUS
<1>1. PInit
  BY DEF LInit
<1>2. DocInv
  BY <1>1, PInitInv DEF DocInv, PInit, NothingInvented, DocIsFaithful, BatchIsFaithful
<1>3. First \in Height /\ First < tip /\ tip \in Nat /\ First \in Nat
  BY <1>1, HeightIsNat DEF PInit
<1>4. MinedOnce
  BY <1>1 DEF PInit, MinedOnce
<1>5. LTypeOK /\ CursorBehindTip
  BY <1>3 DEF LInit, LTypeOK, CursorBehindTip
<1>6. IdleIsFresh /\ SilentUntilComplete
  BY DEF LInit, IdleIsFresh, SilentUntilComplete
<1>7. AtMostOnce /\ OnlyConfirmed
  BY DEF LInit, AtMostOnce, OnlyConfirmed
<1>8. NothingSkipped
  BY <1>3 DEF LInit, NothingSkipped
<1> QED
  BY <1>2, <1>4, <1>5, <1>6, <1>7, <1>8 DEF LInv, ListenInv

LEMMA DocInvStep ==
  ASSUME DocInv, SameWidth, [PNext]_pVars
  PROVE  DocInv'
  BY PNextInv, NothingInventedStep, FaithfulStep DEF DocInv

LEMMA DocInvStays ==
  ASSUME DocInv, MinedOnce, UNCHANGED pVars
  PROVE  DocInv' /\ MinedOnce'
  BY DEF pVars, DocInv, PInv, PTypeOK, DocIsRecentRun, BootIsClean, SleepIsQuiet,
         FetchContinuesDoc, NothingInvented, DocIsFaithful, BatchIsFaithful, MinedOnce

LEMMA IntervalGrows ==
  \A s, u, v \in Nat : u <= v =>
    \A b \in (s + 1) .. (u - 2) : b \in (s + 1) .. (v - 2) /\ b <= u
  OBVIOUS

\* The step of the chain or of the writer keeps what the listeners rely on.
LEMMA ChainStepInv ==
  ASSUME LInv, SameWidth, [PNext]_pVars, UNCHANGED listenVars
  PROVE  LInv'
<1> USE DEF LInv, ListenInv
<1>1. DocInv' /\ MinedOnce'
  BY DocInvStep, MinedOnceStep DEF DocInv
<1>2. /\ lpc' = lpc /\ hears' = hears /\ start' = start /\ cursor' = cursor
      /\ complete' = complete /\ calls' = calls /\ missing' = missing
  BY DEF listenVars
<1>3. /\ tip <= tip' /\ tip \in Nat /\ tip' \in Nat
      /\ \A b \in Height : b <= tip => chain'[b] = chain[b]
  BY <1>1, ChainGrows, HeightIsNat DEF DocInv, PInv, PTypeOK
<1>4. LTypeOK' /\ IdleIsFresh' /\ SilentUntilComplete' /\ (Numbered => AtMostOnce')
  BY <1>2 DEF LTypeOK, IdleIsFresh, SilentUntilComplete, AtMostOnce
<1>5. \A l \in Listener : cursor[l] \in Nat /\ cursor[l] \in Height /\ start[l] \in Nat
  BY HeightIsNat DEF LTypeOK
<1>6. CursorBehindTip'
  BY <1>2, <1>3, <1>5 DEF CursorBehindTip
<1>8. ASSUME Numbered PROVE OnlyConfirmed'
  <2> SUFFICES ASSUME NEW l \in Listener, NEW t \in Transfer, calls[l][t] > 0
               PROVE  \E b \in (start[l] + 1) .. (tip' - 2) : b \in Height /\ t \in chain'[b]
    BY <1>2 DEF OnlyConfirmed
  <2>1. PICK b \in (start[l] + 1) .. (tip - 2) : b \in Height /\ t \in chain[b]
    BY <1>8 DEF OnlyConfirmed
  <2>2. start[l] \in Nat /\ tip \in Nat /\ tip' \in Nat /\ tip <= tip'
    BY <1>3, <1>5
  <2>3. b \in (start[l] + 1) .. (tip' - 2) /\ b <= tip
    BY <2>1, <2>2, IntervalGrows
  <2> QED
    BY <1>3, <2>1, <2>3
<1>9. ASSUME Network = "xrp" PROVE NothingSkipped'
  <2> SUFFICES ASSUME NEW l \in Listener, NEW b \in (start[l] + 1) .. cursor[l],
                      NEW t \in chain'[b] \cap Kept, Heeds(l, t)'
               PROVE  calls[l][t] = 1 \/ b \in missing[l]
    BY <1>2 DEF NothingSkipped
  <2>1. b \in Height /\ b <= tip
    BY <1>3, <1>5, ParachainAssumption DEF CursorBehindTip, LTypeOK, Height
  <2>2. t \in chain[b] \cap Kept
    BY <1>3, <2>1
  <2>3. Heeds(l, t)
    BY <1>2 DEF Heeds
  <2> QED
    BY <1>9, <2>2, <2>3 DEF NothingSkipped
<1> QED
  BY <1>1, <1>4, <1>6, <1>8, <1>9

\* A listener starts at the newest block of the document with a clean slate.
LEMMA StartInv ==
  ASSUME LInv, NEW l \in Listener, NEW a \in Address, Start(l, a), UNCHANGED pVars
  PROVE  LInv'
<1> USE DEF LInv, ListenInv
<1>1. /\ tip' = tip /\ chain' = chain /\ doc' = doc /\ batch' = batch
      /\ pc' = pc /\ want' = want /\ restarts' = restarts
  BY DEF pVars
<1>2. DocInv' /\ MinedOnce'
  BY DocInvStays
<1>3. PICK hi \in Height : hi < tip /\ Highest(DOMAIN doc) = hi
  BY NewestOfDoc DEF Start, DocInv
<1>4. /\ lpc[l] = "idle" /\ DOMAIN doc # {}
      /\ lpc' = [lpc EXCEPT ![l] = "run"]
      /\ hears' = [hears EXCEPT ![l] = a]
      /\ start' = [start EXCEPT ![l] = hi]
      /\ cursor' = [cursor EXCEPT ![l] = hi]
      /\ complete' = complete /\ calls' = calls /\ missing' = missing
  BY <1>3 DEF Start
<1>5. hi \in Nat /\ tip \in Nat
  BY <1>3, HeightIsNat DEF DocInv, PInv, PTypeOK
<1>6. /\ start'[l] = hi /\ cursor'[l] = hi /\ lpc'[l] = "run" /\ missing[l] = {}
      /\ \A t \in Transfer : calls[l][t] = 0
  BY <1>4 DEF LTypeOK, IdleIsFresh, SilentUntilComplete
<1>7. \A m \in Listener : m # l => /\ start'[m] = start[m] /\ cursor'[m] = cursor[m]
                                   /\ lpc'[m] = lpc[m] /\ hears'[m] = hears[m]
  BY <1>4 DEF LTypeOK
<1>8. LTypeOK'
  BY <1>3, <1>4 DEF LTypeOK
<1>9. CursorBehindTip'
  BY <1>1, <1>3, <1>5, <1>6, <1>7 DEF CursorBehindTip
<1>10. IdleIsFresh' /\ SilentUntilComplete' /\ (Numbered => AtMostOnce')
  BY <1>1, <1>4, <1>6, <1>7 DEF IdleIsFresh, SilentUntilComplete, AtMostOnce
<1>11. Numbered => OnlyConfirmed'
  BY <1>1, <1>4, <1>6, <1>7 DEF OnlyConfirmed
<1>12. ASSUME Network = "xrp" PROVE NothingSkipped'
  <2> SUFFICES ASSUME NEW m \in Listener, NEW b \in (start'[m] + 1) .. cursor'[m],
                      NEW t \in chain[b] \cap Kept, Heeds(m, t)'
               PROVE  calls[m][t] = 1 \/ b \in missing[m]
    BY <1>1, <1>4 DEF NothingSkipped
  <2>1. m # l
    BY <1>5, <1>6
  <2>2. Heeds(m, t)
    BY <1>7, <2>1 DEF Heeds
  <2> QED
    BY <1>7, <1>12, <2>1, <2>2 DEF NothingSkipped
<1> QED
  BY <1>2, <1>8, <1>9, <1>10, <1>11, <1>12

\* A scan looks at every block it moves the cursor over.
LEMMA ScanInv ==
  ASSUME LInv, NEW l \in Listener, Scan(l), UNCHANGED pVars
  PROVE  LInv'
<1> USE DEF LInv, ListenInv
<1>1. /\ tip' = tip /\ chain' = chain /\ doc' = doc /\ batch' = batch
      /\ pc' = pc /\ want' = want /\ restarts' = restarts
  BY DEF pVars
<1>2. DocInv' /\ MinedOnce'
  BY DocInvStays
<1>3. PICK lo, hi \in Height :
        /\ lo <= hi /\ hi < tip
        /\ DOMAIN doc = lo .. hi
        /\ Highest(DOMAIN doc) = hi
  BY NewestOfDoc DEF Scan, DocInv
<1> DEFINE N == NewBlocks(l)
           H(t) == Heard(l, t, N)
<1>4. /\ lo \in Nat /\ hi \in Nat /\ tip \in Nat /\ cursor[l] \in Nat /\ start[l] \in Nat
      /\ start[l] <= cursor[l] /\ hi > cursor[l] + 1 /\ First <= start[l] /\ First \in Nat
  BY <1>3, ParachainAssumption
     DEF Scan, DocInv, PInv, PTypeOK, LTypeOK, Height, CursorBehindTip
<1>5. N = (cursor[l] + 1) .. (hi - 1)
  BY <1>3 DEF NewBlocks
<1>6. /\ lpc[l] = "run" /\ ~complete[l]
      /\ cursor' = [cursor EXCEPT ![l] = hi - 1]
      /\ missing' = [missing EXCEPT ![l] = missing[l] \cup (N \ DOMAIN doc)]
      /\ calls' = [calls EXCEPT ![l] = [t \in Transfer |-> calls[l][t] + Cardinality(H(t))]]
      /\ complete' = [complete EXCEPT ![l] = \E t \in Transfer : H(t) # {}]
      /\ lpc' = lpc /\ hears' = hears /\ start' = start
  BY <1>3 DEF Scan
<1>7. \A t \in Transfer : /\ Cardinality(H(t)) \in Nat
                          /\ H(t) = {} => Cardinality(H(t)) = 0
  BY HeardIsFinite DEF DocInv, PInv
<1>7a. Numbered => \A t \in Transfer :
         \/ H(t) = {} /\ Cardinality(H(t)) = 0
         \/ /\ H(t) # {} /\ Cardinality(H(t)) = 1
            /\ \A b \in H(t) : b \in Height /\ b \in DOMAIN doc /\ t \in chain[b]
  BY HeardAtMostOnce
<1>8. \A t \in Transfer : \A b \in H(t) : b \in N
  BY DEF Heard
<1>9. Network = "xrp" => \A t \in Transfer : \A b \in N \cap DOMAIN doc :
        t \in chain[b] \cap Kept /\ Heeds(l, t) => b \in H(t)
  BY DEF Heard, DocInv, DocIsFaithful
<1> HIDE DEF N, H
<1>10. N \subseteq Height
  BY <1>3, <1>4, <1>5, ParachainAssumption DEF Height
<1>11. \A t \in Transfer : /\ calls[l][t] = 0
                           /\ calls'[l][t] = Cardinality(H(t))
                           /\ H(t) = {} => calls'[l][t] = 0
  BY <1>6, <1>7 DEF LTypeOK, SilentUntilComplete
<1>11a. Numbered => \A t \in Transfer : /\ calls'[l][t] \in {0, 1}
                                        /\ calls'[l][t] = 1 <=> H(t) # {}
  BY <1>11, <1>7a
<1>12. /\ cursor'[l] = hi - 1
       /\ missing'[l] = missing[l] \cup (N \ DOMAIN doc)
       /\ complete'[l] = (\E t \in Transfer : H(t) # {})
  BY <1>6 DEF LTypeOK
<1>13. \A m \in Listener : m # l =>
         /\ cursor'[m] = cursor[m] /\ missing'[m] = missing[m]
         /\ calls'[m] = calls[m] /\ complete'[m] = complete[m]
  BY <1>6 DEF LTypeOK
<1>14. LTypeOK'
  <2>1. hi - 1 \in Height
    BY <1>4, ParachainAssumption DEF Height
  <2>2. [t \in Transfer |-> calls[l][t] + Cardinality(H(t))] \in [Transfer -> Nat]
    BY <1>7, <1>11
  <2>3. missing[l] \cup (N \ DOMAIN doc) \subseteq Height
    BY <1>10 DEF LTypeOK
  <2>4. (\E t \in Transfer : H(t) # {}) \in BOOLEAN
    OBVIOUS
  <2> QED
    BY <1>6, <2>1, <2>2, <2>3, <2>4 DEF LTypeOK
<1>15. CursorBehindTip'
  BY <1>1, <1>3, <1>4, <1>6, <1>12, <1>13 DEF CursorBehindTip
<1>16. IdleIsFresh'
  BY <1>1, <1>6, <1>13 DEF IdleIsFresh
<1>17. SilentUntilComplete'
  <2> SUFFICES ASSUME NEW m \in Listener, ~complete'[m], NEW t \in Transfer
               PROVE  calls'[m][t] = 0
    BY DEF SilentUntilComplete
  <2>1. CASE m = l
    <3>1. H(t) = {}
      BY <2>1, <1>12
    <3> QED
      BY <2>1, <3>1, <1>7, <1>11
  <2>2. CASE m # l
    BY <2>2, <1>13 DEF SilentUntilComplete
  <2> QED
    BY <2>1, <2>2
<1>18. Numbered => AtMostOnce'
  BY <1>11a, <1>13 DEF AtMostOnce
<1>19. ASSUME Numbered PROVE OnlyConfirmed'
  <2> SUFFICES ASSUME NEW m \in Listener, NEW t \in Transfer, calls'[m][t] > 0
               PROVE  \E b \in (start[m] + 1) .. (tip - 2) : b \in Height /\ t \in chain[b]
    BY <1>1, <1>6 DEF OnlyConfirmed
  <2>1. CASE m = l
    <3>1. H(t) # {}
      BY <2>1, <1>11
    <3>2. PICK b \in H(t) : b \in N /\ b \in Height /\ t \in chain[b]
      BY <3>1, <1>8, <1>19, <1>7a
    <3>3. b \in (start[l] + 1) .. (tip - 2)
      BY <3>2, <1>3, <1>4, <1>5
    <3> QED
      BY <2>1, <3>2, <3>3
  <2>2. CASE m # l
    BY <2>2, <1>13, <1>19 DEF OnlyConfirmed
  <2> QED
    BY <2>1, <2>2
<1>20. ASSUME Network = "xrp" PROVE NothingSkipped'
  <2> SUFFICES ASSUME NEW m \in Listener, NEW b \in (start[m] + 1) .. cursor'[m],
                      NEW t \in chain[b] \cap Kept, Heeds(m, t)
               PROVE  calls'[m][t] = 1 \/ b \in missing'[m]
    BY <1>1, <1>6 DEF NothingSkipped, Heeds
  <2>0. Numbered
    BY <1>20 DEF Numbered
  <2>1. CASE m # l
    BY <2>1, <1>13, <1>20 DEF NothingSkipped
  <2>2. CASE m = l /\ b <= cursor[l]
    <3>1. b \in (start[l] + 1) .. cursor[l]
      BY <2>2, <1>4
    <3>2. t \in Transfer
      BY ParachainAssumption
    <3>3. calls[l][t] = 1 \/ b \in missing[l]
      BY <2>2, <3>1, <1>20 DEF NothingSkipped
    <3> QED
      BY <2>2, <3>2, <3>3, <1>11, <1>12
  <2>3. CASE m = l /\ ~(b <= cursor[l])
    <3>1. b \in N
      BY <2>3, <1>4, <1>5, <1>12
    <3>2. t \in Transfer
      BY ParachainAssumption
    <3>3. CASE b \in DOMAIN doc
      <4>1. b \in H(t)
        BY <2>3, <3>1, <3>2, <3>3, <1>9, <1>20
      <4> QED
        BY <2>0, <2>3, <3>2, <4>1, <1>11a
    <3>4. CASE b \notin DOMAIN doc
      BY <2>3, <3>1, <3>4, <1>12
    <3> QED
      BY <3>3, <3>4
  <2> QED
    BY <2>1, <2>2, <2>3
<1> QED
  BY <1>2, <1>14, <1>15, <1>16, <1>17, <1>18, <1>19, <1>20

\* Steps that only move a listener to an end state: its own, that of a thread
\* that finds no document at its start, or the end of all of them in a restart.
LEMMA EndInv ==
  ASSUME LInv, DocInv', MinedOnce', tip' = tip, chain' = chain,
         lpc' \in [Listener -> {"idle", "run", "done", "expired", "dead"}],
         \A l \in Listener : lpc'[l] = lpc[l] \/ lpc'[l] \in {"done", "expired", "dead"},
         hears' \in [Listener -> Address \cup {Nowhere}],
         \A l \in Listener : hears'[l] = hears[l] \/ lpc[l] = "idle",
         UNCHANGED <<start, cursor, complete, calls, missing>>
  PROVE  LInv'
<1> USE DEF LInv, ListenInv
<1>1. LTypeOK' /\ CursorBehindTip' /\ IdleIsFresh' /\ SilentUntilComplete'
  BY DEF LTypeOK, CursorBehindTip, IdleIsFresh, SilentUntilComplete
<1>2. Numbered => AtMostOnce' /\ OnlyConfirmed'
  BY DEF AtMostOnce, OnlyConfirmed
<1>3. ASSUME Network = "xrp" PROVE NothingSkipped'
  <2> SUFFICES ASSUME NEW m \in Listener, NEW b \in (start[m] + 1) .. cursor[m],
                      NEW t \in chain[b] \cap Kept, Heeds(m, t)'
               PROVE  calls[m][t] = 1 \/ b \in missing[m]
    BY DEF NothingSkipped
  <2>1. lpc[m] # "idle"
    <3>1. start[m] \in Nat /\ cursor[m] \in Nat
      BY HeightIsNat DEF LTypeOK
    <3>2. start[m] # cursor[m]
      BY <3>1
    <3> QED
      BY <3>2 DEF IdleIsFresh
  <2>2. Heeds(m, t)
    BY <2>1 DEF Heeds
  <2> QED
    BY <1>3, <2>2 DEF NothingSkipped
<1> QED
  BY <1>1, <1>2, <1>3

\* A listener that ends by itself, or that cannot start.
LEMMA EndStepInv ==
  ASSUME LInv, NEW l \in Listener, UNCHANGED pVars,
         \/ Finish(l) \/ Expire(l) \/ Starve(l)
         \/ \E a \in Address : StartBlind(l, a)
  PROVE  LInv'
<1>1. DocInv' /\ MinedOnce' /\ tip' = tip /\ chain' = chain
  BY DocInvStays DEF LInv, ListenInv, pVars
<1>2. UNCHANGED <<start, cursor, complete, calls, missing>>
  BY DEF Finish, Expire, Starve, StartBlind
<1>3. /\ lpc' \in [Listener -> {"idle", "run", "done", "expired", "dead"}]
      /\ \A m \in Listener : lpc'[m] = lpc[m] \/ lpc'[m] \in {"done", "expired", "dead"}
  BY DEF Finish, Expire, Starve, StartBlind, LInv, ListenInv, LTypeOK
<1>4. /\ hears' \in [Listener -> Address \cup {Nowhere}]
      /\ \A m \in Listener : hears'[m] = hears[m] \/ lpc[m] = "idle"
  BY DEF Finish, Expire, Starve, StartBlind, LInv, ListenInv, LTypeOK
<1> QED
  BY <1>1, <1>2, <1>3, <1>4, EndInv

LEMMA LNextInv ==
  ASSUME LInv, SameWidth, [LNext]_lVars
  PROVE  LInv'
<1>1. CASE ChainStep \/ (Restart /\ UNCHANGED listenVars)
  <2>1. [PNext]_pVars /\ UNCHANGED listenVars
    BY <1>1 DEF ChainStep, PNext
  <2> QED
    BY <2>1, ChainStepInv
<1>2. ASSUME NEW l \in Listener, ListenerStep(l) PROVE LInv'
  BY <1>2, StartInv, EndStepInv DEF ListenerStep
<1>3. ASSUME NEW l \in Listener, Turn(l) PROVE LInv'
  BY <1>3, ScanInv, EndStepInv DEF Turn
<1>4. CASE Restart /\ ListenersDie
  <2>1. DocInv' /\ MinedOnce'
    BY <1>4, DocInvStep, MinedOnceStep DEF LInv, ListenInv, DocInv, PNext
  <2>2. tip' = tip /\ chain' = chain
    BY <1>4 DEF Restart, chainVars
  <2>3. /\ lpc' \in [Listener -> {"idle", "run", "done", "expired", "dead"}]
        /\ \A m \in Listener : lpc'[m] = lpc[m] \/ lpc'[m] \in {"done", "expired", "dead"}
        /\ UNCHANGED <<hears, start, cursor, complete, calls, missing>>
    BY <1>4 DEF ListenersDie, LInv, ListenInv, LTypeOK
  <2>4. hears' \in [Listener -> Address \cup {Nowhere}]
    BY <2>3 DEF LInv, ListenInv, LTypeOK
  <2> QED
    BY <2>1, <2>2, <2>3, <2>4, EndInv
<1>5. CASE UNCHANGED lVars
  <2>1. UNCHANGED pVars /\ UNCHANGED listenVars
    BY <1>5 DEF lVars
  <2> QED
    BY <2>1, ChainStepInv
<1> QED
  BY <1>1, <1>2, <1>3, <1>4, <1>5 DEF LNext, LRestart

LEMMA LInvariant == SameWidth /\ LSpec => []LInv
<1>1. ASSUME SameWidth PROVE LSpec => []LInv
  <2>1. LInv /\ [LNext]_lVars => LInv'
    BY <1>1, LNextInv
  <2> QED
    BY <2>1, LInitInv, PTL DEF LSpec
<1> QED
  BY <1>1

-----------------------------------------------------------------------------
\* The step of a listener: a block it newly misses lies below the whole document.
LEMMA MissingStep ==
  ASSUME LInv, [LNext]_lVars
  PROVE  [\A l \in Listener : \A b \in missing'[l] \ missing[l] :
            \A k \in DOMAIN doc : b < k]_missing
<1>1. ASSUME NEW l \in Listener, Scan(l)
      PROVE  \A m \in Listener : \A b \in missing'[m] \ missing[m] :
               \A k \in DOMAIN doc : b < k
  <2>1. PICK lo, hi \in Height :
          /\ lo <= hi /\ hi < tip
          /\ DOMAIN doc = lo .. hi
          /\ Highest(DOMAIN doc) = hi
    BY <1>1, NewestOfDoc DEF Scan, LInv, DocInv
  <2>2. /\ missing' = [missing EXCEPT ![l] = missing[l] \cup (NewBlocks(l) \ (lo .. hi))]
        /\ NewBlocks(l) = (cursor[l] + 1) .. (hi - 1)
    BY <1>1, <2>1 DEF Scan, NewBlocks
  <2>3. \A m \in Listener \ {l} : missing'[m] = missing[m]
    BY <2>2 DEF LInv, ListenInv, LTypeOK
  <2>4. \A b \in missing'[l] \ missing[l] : b \in (cursor[l] + 1) .. (hi - 1) /\ b \notin lo .. hi
    BY <2>2 DEF LInv, ListenInv, LTypeOK
  <2>5. lo \in Nat /\ hi \in Nat /\ cursor[l] \in Nat
    BY <2>1, HeightIsNat DEF LInv, ListenInv, LTypeOK
  <2>6. \A b \in missing'[l] \ missing[l] : \A k \in DOMAIN doc : b < k
    BY <2>1, <2>4, <2>5
  <2> QED
    BY <2>3, <2>6
<1>2. ASSUME \A l \in Listener : ~Scan(l) PROVE missing' = missing
  BY <1>2 DEF LNext, ChainStep, ListenerStep, Turn, LRestart, Start, StartBlind, Finish,
              Expire, Starve, ListenersDie, lVars, listenVars
<1> QED
  BY <1>1, <1>2

\* A listener gives up a block only when the window has moved past it, on every
\* network and whether or not it outlived a restart.
THEOREM MissingIsOutpacedThm == SameWidth /\ LSpec => MissingIsOutpaced
<1>1. LInv /\ LInv' /\ [LNext]_lVars =>
        [\A l \in Listener : \A b \in missing'[l] \ missing[l] :
           \A k \in DOMAIN doc : b < k]_missing
  BY MissingStep
<1> QED
  BY <1>1, LInvariant, PTL DEF LSpec, MissingIsOutpaced

\* No transfer is issued or reserved for twice by one listener, for any number of
\* listeners, any window and any interleaving with the writer, wherever blocks are
\* asked for by number.
THEOREM AtMostOnceThm == SameWidth /\ Numbered /\ LSpec => []AtMostOnce
<1>1. ASSUME Numbered PROVE LInv => AtMostOnce
  BY <1>1 DEF LInv
<1>2. ASSUME SameWidth, Numbered PROVE LSpec => []AtMostOnce
  <2>1. LSpec => []LInv
    BY <1>2, LInvariant
  <2>2. LInv => AtMostOnce
    BY <1>1, <1>2
  <2> QED BY <2>1, <2>2, PTL
<1> QED BY <1>2

\* What is issued or reserved for is in a block with two others on top, wherever
\* blocks are asked for by number.
THEOREM OnlyConfirmedThm == SameWidth /\ Numbered /\ LSpec => []OnlyConfirmed
<1>1. ASSUME Numbered PROVE LInv => OnlyConfirmed
  BY <1>1 DEF LInv
<1>2. ASSUME SameWidth, Numbered PROVE LSpec => []OnlyConfirmed
  <2>1. LSpec => []LInv
    BY <1>2, LInvariant
  <2>2. LInv => OnlyConfirmed
    BY <1>1, <1>2
  <2> QED BY <2>1, <2>2, PTL
<1> QED BY <1>2

\* No block a cursor has passed was left unseen unless it is chronicled missing:
\* on ripple, whose blocks are stored as they are.
THEOREM NothingSkippedThm == SameWidth /\ Network = "xrp" /\ LSpec => []NothingSkipped
<1>1. ASSUME Network = "xrp" PROVE LInv => NothingSkipped
  BY <1>1 DEF LInv
<1>2. ASSUME SameWidth, Network = "xrp" PROVE LSpec => []NothingSkipped
  <2>1. LSpec => []LInv
    BY <1>2, LInvariant
  <2>2. LInv => NothingSkipped
    BY <1>1, <1>2
  <2> QED BY <2>1, <2>2, PTL
<1> QED BY <1>2

-----------------------------------------------------------------------------
\* The listeners only read the document: under them the parachain is kept as it is
\* without them, and what is proved of it holds.
THEOREM ListenersOnlyRead == LSpec => PSpec
<1>1. LInit => PInit
  BY DEF LInit
<1>2. [LNext]_lVars => [PNext]_pVars
  BY DEF LNext, ChainStep, ListenerStep, Turn, LRestart, PNext, lVars
<1> QED BY <1>1, <1>2, PTL DEF LSpec, PSpec

-----------------------------------------------------------------------------
(* What a listener acts on, on every network and across digit boundaries.  *)

\* A listener calls the issuer only for a transfer to the address it hears, above
\* dust, that carries its memo (shared account) or its amount (withdrawals).
OnlyHeeded ==
  \A l \in Listener, t \in Transfer : calls[l][t] > 0 => Heeds(l, t)

\* A listener calls the issuer only for a transfer that is on the chain.
OnlyMined ==
  \A l \in Listener, t \in Transfer : calls[l][t] > 0 => t \in Mined

\* The inductive invariant of both.
HeedInv ==
  /\ StoredInv
  /\ LTypeOK
  /\ IdleIsFresh
  /\ SilentUntilComplete
  /\ OnlyHeeded
  /\ OnlyMined

\* The newest block of any document is one of its blocks.
LEMMA HighestIn ==
  ASSUME NEW K \in SUBSET Height, K # {}
  PROVE  Highest(K) \in K /\ \A x \in K : x <= Highest(K)
<1> DEFINE R == OpToRel(<, Nat)
           S == {Last - x : x \in K}
<1>1. \A x \in K : x \in Nat /\ Last - x \in Nat /\ Last \in Nat
  BY ParachainAssumption DEF Height
<1>2. S \subseteq Nat /\ S # {}
  BY <1>1
<1>3. \E d \in S : \A e \in S : <<e, d>> \notin R
  BY <1>2, NatLessThanWellFounded, WFMin
<1>4. PICK d \in S : \A e \in S : ~(e < d)
  BY <1>2, <1>3 DEF OpToRel
<1>5. PICK m \in K : d = Last - m
  BY <1>4
<1>6. \A x \in K : x <= m
  <2> SUFFICES ASSUME NEW x \in K PROVE x <= m
    OBVIOUS
  <2>1. ~(Last - x < Last - m)
    BY <1>4, <1>5
  <2> QED
    BY <1>1, <2>1
<1> QED
  BY <1>5, <1>6 DEF Highest

LEMMA LInitHeeds == LInit => HeedInv
<1> SUFFICES ASSUME LInit PROVE HeedInv
  OBVIOUS
<1>1. PInit => PTypeInv
  BY PInitInv DEF PInit, PInv, PTypeInv
<1>2. StoredInv
  BY <1>1 DEF LInit, PInit, StoredInv, FutureIsEmpty, StoredIsMined
<1>3. LTypeOK /\ IdleIsFresh /\ SilentUntilComplete
  BY HeightIsNat DEF LInit, LTypeOK, IdleIsFresh, SilentUntilComplete
<1>4. OnlyHeeded /\ OnlyMined
  BY DEF LInit, OnlyHeeded, OnlyMined
<1> QED
  BY <1>2, <1>3, <1>4 DEF HeedInv

LEMMA StartHeeds ==
  ASSUME HeedInv, StoredInv', Mined' = Mined, NEW l \in Listener, NEW a \in Address,
         Start(l, a) \/ StartBlind(l, a)
  PROVE  HeedInv'
<1> USE DEF HeedInv
<1>1. /\ lpc[l] = "idle" /\ complete' = complete /\ calls' = calls /\ missing' = missing
      /\ \E s \in {"run", "dead"} : lpc' = [lpc EXCEPT ![l] = s]
      /\ hears' = [hears EXCEPT ![l] = a]
      /\ \A m \in Listener \ {l} : hears'[m] = hears[m]
  BY DEF Start, StartBlind, LTypeOK
<1>2. \E hi \in Height : \/ /\ start' = [start EXCEPT ![l] = hi]
                            /\ cursor' = [cursor EXCEPT ![l] = hi]
                         \/ start' = start /\ cursor' = cursor
  BY HighestIn, HeightIsNat DEF Start, StartBlind, StoredInv, PTypeInv, PTypeOK
<1>3. LTypeOK'
  <2>1. lpc' \in [Listener -> {"idle", "run", "done", "expired", "dead"}]
    BY <1>1 DEF LTypeOK
  <2>2. hears' \in [Listener -> Address \cup {Nowhere}]
    BY <1>1 DEF LTypeOK
  <2>3. start' \in [Listener -> Height] /\ cursor' \in [Listener -> Height]
    BY <1>2 DEF LTypeOK
  <2> QED
    BY <1>1, <2>1, <2>2, <2>3 DEF LTypeOK
<1>4. IdleIsFresh' /\ SilentUntilComplete'
  BY <1>1, <1>2 DEF LTypeOK, IdleIsFresh, SilentUntilComplete
<1>5. \A t \in Transfer : calls[l][t] = 0
  BY <1>1 DEF IdleIsFresh, SilentUntilComplete
<1>6. \A t \in Transfer, m \in Listener \ {l} : Heeds(m, t)' <=> Heeds(m, t)
  BY <1>1 DEF Heeds
<1>7. OnlyHeeded' /\ OnlyMined'
  BY <1>1, <1>5, <1>6 DEF OnlyHeeded, OnlyMined
<1> QED
  BY <1>3, <1>4, <1>7

LEMMA ScanHeeds ==
  ASSUME HeedInv, StoredInv', Mined' = Mined, NEW l \in Listener, Scan(l)
  PROVE  HeedInv'
<1> USE DEF HeedInv
<1> DEFINE N == NewBlocks(l)
           H(t) == Heard(l, t, N)
<1>1. PICK hi \in Height : hi = Highest(DOMAIN doc)
  BY HighestIn DEF Scan, StoredInv, PTypeInv, PTypeOK
<1>2. /\ lpc[l] = "run" /\ ~complete[l] /\ hi > cursor[l] + 1
      /\ cursor' = [cursor EXCEPT ![l] = hi - 1]
      /\ missing' = [missing EXCEPT ![l] = missing[l] \cup (N \ DOMAIN doc)]
      /\ calls' = [calls EXCEPT ![l] = [t \in Transfer |-> calls[l][t] + Cardinality(H(t))]]
      /\ complete' = [complete EXCEPT ![l] = \E t \in Transfer : H(t) # {}]
      /\ lpc' = lpc /\ hears' = hears /\ start' = start
  BY <1>1 DEF Scan
<1>3. \A t \in Transfer : /\ Cardinality(H(t)) \in Nat
                          /\ H(t) = {} => Cardinality(H(t)) = 0
                          /\ H(t) # {} => Heeds(l, t) /\ \E b \in DOMAIN doc : t \in doc[b]
  BY HeardIsFinite DEF Heard, StoredInv, PTypeInv
<1>4. N = (cursor[l] + 1) .. (hi - 1)
  BY <1>1 DEF NewBlocks
<1> HIDE DEF N, H
<1>5. N \subseteq Height /\ hi - 1 \in Height
  BY <1>1, <1>2, <1>4, ParachainAssumption DEF LTypeOK, Height
<1>6. \A t \in Transfer : /\ calls[l][t] = 0
                          /\ calls'[l][t] = Cardinality(H(t))
  BY <1>2, <1>3 DEF LTypeOK, SilentUntilComplete
<1>7. \A m \in Listener \ {l} : calls'[m] = calls[m] /\ complete'[m] = complete[m]
                                /\ missing'[m] = missing[m] /\ cursor'[m] = cursor[m]
  BY <1>2 DEF LTypeOK
<1>8. complete'[l] = (\E t \in Transfer : H(t) # {})
  BY <1>2 DEF LTypeOK
<1>9. LTypeOK'
  <2>1. [t \in Transfer |-> calls[l][t] + Cardinality(H(t))] \in [Transfer -> Nat]
    BY <1>3, <1>6
  <2>2. missing[l] \cup (N \ DOMAIN doc) \subseteq Height
    BY <1>5 DEF LTypeOK
  <2>3. (\E t \in Transfer : H(t) # {}) \in BOOLEAN
    OBVIOUS
  <2> QED
    BY <1>2, <1>5, <2>1, <2>2, <2>3 DEF LTypeOK
<1>10. IdleIsFresh'
  BY <1>2, <1>7 DEF IdleIsFresh
<1>11. SilentUntilComplete'
  <2> SUFFICES ASSUME NEW m \in Listener, ~complete'[m], NEW t \in Transfer
               PROVE  calls'[m][t] = 0
    BY DEF SilentUntilComplete
  <2>1. CASE m = l
    BY <2>1, <1>3, <1>6, <1>8
  <2>2. CASE m # l
    BY <2>2, <1>7 DEF SilentUntilComplete
  <2> QED
    BY <2>1, <2>2
<1>12. \A t \in Transfer : calls'[l][t] > 0 => Heeds(l, t) /\ t \in Mined
  BY <1>3, <1>6 DEF StoredInv, StoredIsMined
<1>13. \A m \in Listener, t \in Transfer : Heeds(m, t)' <=> Heeds(m, t)
  BY <1>2 DEF Heeds
<1>14. OnlyHeeded' /\ OnlyMined'
  BY <1>7, <1>12, <1>13 DEF OnlyHeeded, OnlyMined
<1> QED
  BY <1>9, <1>10, <1>11, <1>14

\* The other steps of a listener only end it, and the chain's leave it alone.
LEMMA OtherHeeds ==
  ASSUME HeedInv, StoredInv', Mined \subseteq Mined',
         lpc' \in [Listener -> {"idle", "run", "done", "expired", "dead"}],
         \A l \in Listener : lpc'[l] = "idle" => lpc[l] = "idle",
         UNCHANGED <<hears, start, cursor, complete, calls, missing>>
  PROVE  HeedInv'
<1> USE DEF HeedInv
<1>1. LTypeOK' /\ IdleIsFresh' /\ SilentUntilComplete'
  BY DEF LTypeOK, IdleIsFresh, SilentUntilComplete
<1>2. OnlyHeeded' /\ OnlyMined'
  BY DEF OnlyHeeded, OnlyMined, Heeds
<1> QED
  BY <1>1, <1>2

LEMMA HeedStep == HeedInv /\ [LNext]_lVars => HeedInv'
<1> SUFFICES ASSUME HeedInv, [LNext]_lVars PROVE HeedInv'
  OBVIOUS
<1>1. [PNext]_pVars
  BY DEF LNext, ChainStep, ListenerStep, Turn, LRestart, PNext, lVars
<1>2. StoredInv'
  BY <1>1, StoredStep DEF HeedInv
<1>3. Mined \subseteq Mined'
  BY <1>1, MinedStays DEF HeedInv, StoredInv
<1>4. ASSUME NEW l \in Listener, UNCHANGED pVars,
             Scan(l) \/ \E a \in Address : Start(l, a) \/ StartBlind(l, a)
      PROVE  HeedInv'
  <2>1. Mined' = Mined
    BY <1>4 DEF pVars, Mined
  <2> QED
    BY <1>2, <1>4, <2>1, ScanHeeds, StartHeeds
<1>5. CASE \/ UNCHANGED listenVars \/ ListenersDie
           \/ \E l \in Listener : Finish(l) \/ Expire(l) \/ Starve(l)
  <2>1. UNCHANGED <<hears, start, cursor, complete, calls, missing>>
    BY <1>5 DEF listenVars, ListenersDie, Finish, Expire, Starve
  <2>2. /\ lpc' \in [Listener -> {"idle", "run", "done", "expired", "dead"}]
        /\ \A l \in Listener : lpc'[l] = "idle" => lpc[l] = "idle"
    BY <1>5 DEF listenVars, ListenersDie, Finish, Expire, Starve, HeedInv, LTypeOK
  <2> QED
    BY <1>2, <1>3, <2>1, <2>2, OtherHeeds
<1> QED
  BY <1>4, <1>5 DEF LNext, ChainStep, ListenerStep, Turn, LRestart, lVars

LEMMA HeedInvariant == LSpec => []HeedInv
  BY LInitHeeds, HeedStep, PTL DEF LSpec

\* The type invariant of the listeners, on every network and for all block numbers.
THEOREM LTypeOKThm == LSpec => []LTypeOK
  BY HeedInvariant, PTL DEF HeedInv

\* No UIA is issued or reserved for a transfer that is another client's, to another
\* address or of another amount: on every network and through restarts.
THEOREM OnlyHeededThm == LSpec => []OnlyHeeded
  BY HeedInvariant, PTL DEF HeedInv

\* No UIA is issued or reserved for a transfer that is not on the chain: on every
\* network, the ones whose blocks are stored under other numbers included.
THEOREM OnlyMinedThm == LSpec => []OnlyMined
  BY HeedInvariant, PTL DEF HeedInv
=============================================================================
