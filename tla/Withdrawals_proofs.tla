-------------------------- MODULE Withdrawals_proofs --------------------------
(***************************************************************************)
(* Proofs about Withdrawals, for any number of mavens, transfers and       *)
(* blocks, any lost answers and any failing rounds: a vote with fewer than  *)
(* half of the required opinions in faulty hands believes the chain, so    *)
(* that what is heard is the chain (HeardIsChainThm), and a session pays   *)
(* only what is owed, again only after a lost answer or a failed round     *)
(* (PaidOnceThm).                                                          *)
(***************************************************************************)
EXTENDS Withdrawals, FiniteSetTheorems, WellFoundedInduction, TLAPS

\* Of the opinions a vote needs, less than half are of faulty mavens.
Minority == 2 * Cardinality(Faulty) < BLOCK_MAVENS - 1

-----------------------------------------------------------------------------
(* The vote                                                                *)

LEMMA LeastNat ==
  ASSUME NEW S \in SUBSET Nat, S # {}
  PROVE  \E a \in S : \A b \in S : a <= b
<1> DEFINE R == OpToRel(<, Nat)
<1>1. IsWellFoundedOn(R, Nat)
  BY NatLessThanWellFounded
<1>2. PICK a \in S : \A b \in S : <<b, a>> \notin R
  BY <1>1, WFMin
<1>3. \A b \in S : ~(b < a)
  BY <1>2 DEF OpToRel
<1> QED
  BY <1>3

Top(f) == {m \in DOMAIN f : \A n \in DOMAIN f : Votes(f, f[n]) <= Votes(f, f[m])}

\* The mode is the version of the first maven that has a most popular version.
LEMMA ModeOfTop ==
  ASSUME NEW f, DOMAIN f \subseteq Nat, Top(f) # {}
  PROVE  \E m \in Top(f) : Mode(f) = f[m] /\ \A n \in Top(f) : m <= n
<1> DEFINE M == CHOOSE m \in Top(f) : \A n \in Top(f) : m <= n
<1>1. Top(f) \in SUBSET Nat
  BY DEF Top
<1>2. \E m \in Top(f) : \A n \in Top(f) : m <= n
  BY <1>1, LeastNat
<1>3. M \in Top(f) /\ \A n \in Top(f) : M <= n
  BY <1>2
<1>4. Mode(f) = f[M]
  BY DEF Mode, Top
<1> QED
  BY <1>3, <1>4

LEMMA VotesNat ==
  ASSUME NEW f, IsFiniteSet(DOMAIN f), NEW v
  PROVE  Votes(f, v) \in Nat /\ Votes(f, v) <= Cardinality(DOMAIN f)
<1> DEFINE S == {m \in DOMAIN f : f[m] = v}
<1>1. S \in SUBSET DOMAIN f
  OBVIOUS
<1>2. IsFiniteSet(S) /\ Cardinality(S) <= Cardinality(DOMAIN f)
  BY <1>1, FS_Subset
<1>3. Cardinality(S) \in Nat
  BY <1>2, FS_CardinalityType
<1> QED
  BY <1>2, <1>3 DEF Votes

\* There is a most popular version.
LEMMA TopExists ==
  ASSUME NEW f, IsFiniteSet(DOMAIN f), DOMAIN f # {}
  PROVE  Top(f) # {}
<1> DEFINE C == Cardinality(DOMAIN f)
           S == {C - Votes(f, f[m]) : m \in DOMAIN f}
<1>1. C \in Nat
  BY FS_CardinalityType
<1>2. \A m \in DOMAIN f : Votes(f, f[m]) \in Nat /\ Votes(f, f[m]) <= C
  BY VotesNat
<1>3. S \in SUBSET Nat /\ S # {}
  BY <1>1, <1>2
<1>4. PICK a \in S : \A b \in S : a <= b
  BY <1>3, LeastNat
<1>5. PICK m \in DOMAIN f : a = C - Votes(f, f[m])
  BY <1>4
<1>6. ASSUME NEW n \in DOMAIN f
      PROVE  Votes(f, f[n]) <= Votes(f, f[m])
  <2>1. C - Votes(f, f[m]) <= C - Votes(f, f[n])
    BY <1>4, <1>5
  <2> QED
    BY <2>1, <1>1, <1>2
<1> QED
  BY <1>6 DEF Top

\* A version that more than half of the mavens report is the mode.
LEMMA ModeOfMajority ==
  ASSUME NEW f, IsFiniteSet(DOMAIN f), DOMAIN f \subseteq Nat, NEW v,
         2 * Votes(f, v) > Cardinality(DOMAIN f)
  PROVE  Mode(f) = v
<1> DEFINE C == Cardinality(DOMAIN f)
           Of(w) == {m \in DOMAIN f : f[m] = w}
<1>1. C \in Nat
  BY FS_CardinalityType
<1>2. Votes(f, v) \in Nat
  BY VotesNat
<1>3. ASSUME NEW w, w # v
      PROVE  Votes(f, w) < Votes(f, v)
  <2>1. IsFiniteSet(Of(v)) /\ IsFiniteSet(Of(w))
    BY FS_Subset
  <2>2. Of(v) \cap Of(w) = {}
    BY <1>3
  <2>3. Cardinality(Of(v) \cup Of(w)) = Cardinality(Of(v)) + Cardinality(Of(w))
                                        - Cardinality(Of(v) \cap Of(w))
    BY <2>1, FS_Union
  <2>4. Cardinality(Of(v) \cap Of(w)) = 0
    BY <2>2, FS_EmptySet
  <2>5. Of(v) \cup Of(w) \in SUBSET DOMAIN f
    OBVIOUS
  <2>6. Cardinality(Of(v) \cup Of(w)) <= C
    BY <2>5, FS_Subset
  <2>7. Votes(f, v) = Cardinality(Of(v)) /\ Votes(f, w) = Cardinality(Of(w))
    BY DEF Votes
  <2>8. Votes(f, w) \in Nat
    BY VotesNat
  <2> HIDE DEF C, Of
  <2>9. Votes(f, v) + Votes(f, w) <= C
    BY <2>3, <2>4, <2>6, <2>7, <2>8, <1>2
  <2>10. 2 * Votes(f, v) > C
    BY DEF C
  <2> QED
    BY <2>8, <2>9, <2>10, <1>1, <1>2
<1>4. PICK k \in DOMAIN f : f[k] = v
  <2>1. Of(v) # {}
    <3>1. SUFFICES ASSUME Of(v) = {} PROVE FALSE
      OBVIOUS
    <3>2. Votes(f, v) = 0
      BY <3>1, FS_EmptySet DEF Votes
    <3> QED
      BY <3>2, <1>1
  <2> QED
    BY <2>1
<1>5. \A n \in DOMAIN f : Votes(f, f[n]) <= Votes(f, f[k])
  <2> TAKE n \in DOMAIN f
  <2>1. CASE f[n] = v
    BY <2>1, <1>4, <1>2
  <2>2. CASE f[n] # v
    <3>1. Votes(f, f[n]) < Votes(f, v)
      BY <2>2, <1>3
    <3>2. Votes(f, f[n]) \in Nat
      BY VotesNat
    <3> QED
      BY <3>1, <3>2, <1>4, <1>2
  <2> QED
    BY <2>1, <2>2
<1>6. \A m \in Top(f) : f[m] = v
  <2> SUFFICES ASSUME NEW m \in Top(f), f[m] # v PROVE FALSE
    OBVIOUS
  <2>1. Votes(f, f[m]) < Votes(f, v)
    BY <1>3
  <2>2. Votes(f, v) <= Votes(f, f[m])
    BY <1>4 DEF Top
  <2>3. Votes(f, f[m]) \in Nat
    BY VotesNat
  <2> QED
    BY <2>1, <2>2, <2>3, <1>2
<1>7. Top(f) # {}
  BY <1>4, <1>5 DEF Top
<1> QED
  BY <1>6, <1>7, ModeOfTop

-----------------------------------------------------------------------------
(* What the mavens' files may hold                                         *)

LEMMA MavenFinite ==
  /\ Maven \subseteq Nat /\ IsFiniteSet(Maven) /\ Cardinality(Maven) = BLOCK_MAVENS
  /\ IsFiniteSet(Faulty) /\ Cardinality(Faulty) \in Nat
<1>1. BLOCK_MAVENS \in Nat \ {0} /\ Faulty \in SUBSET Maven
  BY WithdrawalsAssumption
<1>2. Maven \subseteq Nat /\ IsFiniteSet(Maven) /\ Cardinality(Maven) = BLOCK_MAVENS
  BY <1>1, FS_Interval DEF Maven
<1>3. IsFiniteSet(Faulty)
  BY <1>1, <1>2, FS_Subset
<1> QED
  BY <1>2, <1>3, FS_CardinalityType

\* A height the main loop may take is one that some maven has reported.
LEMMA HeightIsReported ==
  ASSUME NEW h, NEW f \in HeightFiles(h)
  PROVE  \E m \in Maven : Mode(f) = f[m]
<1>1. DOMAIN f = Maven
  BY DEF HeightFiles
<1>2. 0 \in Maven
  BY WithdrawalsAssumption DEF Maven
<1>3. Top(f) # {}
  BY <1>1, <1>2, MavenFinite, TopExists
<1>4. \E m \in Top(f) : Mode(f) = f[m]
  BY <1>1, <1>3, MavenFinite, ModeOfTop
<1> QED
  BY <1>1, <1>4 DEF Top

TrueFiles(file) == \A m \in Maven \ Faulty : file[m] \in HonestFiles

\* What an honest maven says of a block is what the chain has, and it says
\* nothing of blocks to come.
LEMMA HonestFile ==
  ASSUME NEW file, TrueFiles(file), NEW m \in Maven \ Faulty,
         NEW b \in NewBlocks, b \in DOMAIN file[m],
         last \in Nat, curr \in Nat, height \in Nat
  PROVE  b <= height /\ file[m][b] = block[b]
<1>1. PICK B \in SUBSET {n \in NewBlocks : n <= height} : file[m] = [x \in B |-> block[x]]
  BY DEF HonestFiles, TrueFiles
<1> QED
  BY <1>1

\* A vote among honest mavens and a minority of faulty ones believes the chain.
LEMMA BelievedIsChain ==
  ASSUME Minority, NEW file, TrueFiles(file), Enough(file, NewBlocks),
         NEW b \in NewBlocks,
         last \in Nat, curr \in Nat, height \in Nat
  PROVE  b <= height /\ Believed(file, b) = block[b]
<1> DEFINE f == Opinions(file, b)
           D == DOMAIN f
           G == {m \in D : f[m] = block[b]}
<1>1. D = {m \in Maven : b \in DOMAIN file[m]} /\ \A m \in D : f[m] = file[m][b]
  BY DEF Opinions
<1>2. IsFiniteSet(D) /\ D \subseteq Nat
  BY <1>1, MavenFinite, FS_Subset
<1>3. Cardinality(D) >= BLOCK_MAVENS - 1 /\ Cardinality(D) \in Nat
  BY <1>2, FS_CardinalityType DEF Enough
<1>4. \A m \in D \ Faulty : b <= height /\ f[m] = block[b]
  BY <1>1, HonestFile
<1>5. IsFiniteSet(D \ Faulty) /\ Cardinality(D \ Faulty) \in Nat
      /\ Cardinality(D \ Faulty) = Cardinality(D) - Cardinality(D \cap Faulty)
  BY <1>2, FS_Difference, FS_CardinalityType
<1>6. Cardinality(D \cap Faulty) <= Cardinality(Faulty)
      /\ Cardinality(D \cap Faulty) \in Nat
  BY MavenFinite, FS_Intersection, FS_CardinalityType
<1>7. 2 * Cardinality(Faulty) < BLOCK_MAVENS - 1 /\ BLOCK_MAVENS \in Nat
  BY WithdrawalsAssumption DEF Minority
<1>8. 2 * Cardinality(D \ Faulty) > Cardinality(D)
  <2> HIDE DEF D
  <2> QED
    BY <1>3, <1>5, <1>6, <1>7, MavenFinite
<1>9. b <= height
  <2>1. D \ Faulty # {}
    <3> SUFFICES ASSUME D \ Faulty = {} PROVE FALSE
      OBVIOUS
    <3>1. Cardinality(D \ Faulty) = 0
      BY FS_EmptySet
    <3> QED
      BY <3>1, <1>3, <1>8
  <2> QED
    BY <2>1, <1>4
<1>10. D \ Faulty \in SUBSET G
  BY <1>4
<1>11. IsFiniteSet(G) /\ Cardinality(G) \in Nat /\ Cardinality(D \ Faulty) <= Cardinality(G)
  <2>1. IsFiniteSet(G)
    BY <1>2, FS_Subset
  <2> QED
    BY <2>1, <1>10, FS_Subset, FS_CardinalityType
<1>12. Votes(f, block[b]) = Cardinality(G)
  BY DEF Votes
<1>13. 2 * Votes(f, block[b]) > Cardinality(D)
  <2> HIDE DEF D, G
  <2> QED
    BY <1>3, <1>5, <1>8, <1>11, <1>12
<1>14. Mode(f) = block[b]
  <2> HIDE DEF f
  <2> QED
    BY <1>2, <1>13, ModeOfMajority
<1> QED
  BY <1>9, <1>14 DEF Believed

-----------------------------------------------------------------------------
(* The type invariant                                                      *)

\* A height the main loop takes is one the model's bound allows.
LEMMA PolledHeight ==
  ASSUME WTypeOK, NEW n \in Polled[height]
  PROVE  n \in 0 .. Last
<1>1. PICK f \in HeightFiles(height) : n = Mode(f)
  BY DEF Polled, WTypeOK
<1> QED
  BY <1>1, HeightIsReported DEF HeightFiles

LEMMA FoundNat ==
  ASSUME NEW version, NEW o, IsFiniteSet(DOMAIN version)
  PROVE  Found(version, o) \in Nat
<1>1. IsFiniteSet({b \in DOMAIN version : o \in version[b]})
  BY FS_Subset
<1> QED
  BY <1>1, FS_CardinalityType DEF Found

\* What is believed in a round is a version of every new block.
LEMMA BeliefDomain ==
  ASSUME NEW version \in Beliefs
  PROVE  DOMAIN version = NewBlocks
BY DEF Beliefs

LEMMA NewBlocksFinite ==
  ASSUME WTypeOK
  PROVE  IsFiniteSet(NewBlocks) /\ \A b \in NewBlocks : IsFiniteSet((last + 1) .. b)
<1>1. last \in Nat /\ curr \in Nat
  BY WithdrawalsAssumption DEF WTypeOK
<1> QED
  BY <1>1, FS_Interval DEF NewBlocks

\* What a round does, whether it is completed or not.
LEMMA GatherCases ==
  ASSUME WTypeOK, Gather
  PROVE  /\ wpc = "gather" /\ wpc' = "poll"
         /\ UNCHANGED <<height, block, curr, base, sending, paid, lost>>
         /\ \/ UNCHANGED <<heard, waiting, last, fails>>
            \/ \E version \in Beliefs : Dispatch(version) \/ DispatchBreaks(version)
BY DEF Gather, ledger, wallet

LEMMA StartThreadsType ==
  ASSUME WTypeOK, NEW version, IsFiniteSet(DOMAIN version), StartThreads(version)
  PROVE  heard' \in [Op -> Nat] /\ waiting' \in [Op -> Nat]
<1>1. \A o \in Op : Found(version, o) \in Nat
  BY FoundNat
<1>2. heard \in [Op -> Nat] /\ waiting \in [Op -> Nat]
  BY DEF WTypeOK
<1>3. heard' = [o \in Op |-> heard[o] + Found(version, o)]
      /\ waiting' = [o \in Op |-> waiting[o] + IF o.memo THEN Found(version, o) ELSE 0]
  BY DEF StartThreads
<1> QED
  BY <1>1, <1>2, <1>3

LEMMA GatherType ==
  ASSUME WTypeOK, Gather
  PROVE  WTypeOK'
<1>1. /\ wpc = "gather" /\ wpc' = "poll"
      /\ UNCHANGED <<height, block, curr, base, sending, paid, lost>>
  BY GatherCases
<1>2. last \in Nat /\ curr \in 0 .. Last /\ fails \in 0 .. MaxFails /\ MaxFails \in Nat
      /\ Last \in Nat
  BY WithdrawalsAssumption DEF WTypeOK
<1>3. CASE UNCHANGED <<heard, waiting, last, fails>>
  BY <1>1, <1>3 DEF WTypeOK
<1>4. CASE \E version \in Beliefs : Dispatch(version)
  <2>1. PICK version \in Beliefs : Dispatch(version)
    BY <1>4
  <2>2. IsFiniteSet(DOMAIN version)
    BY BeliefDomain, NewBlocksFinite
  <2>3. heard' \in [Op -> Nat] /\ waiting' \in [Op -> Nat]
    BY <2>1, <2>2, StartThreadsType DEF Dispatch
  <2> QED
    BY <1>1, <2>1, <2>3 DEF WTypeOK, Dispatch
<1>5. CASE \E version \in Beliefs : DispatchBreaks(version)
  <2>1. PICK version \in Beliefs : DispatchBreaks(version)
    BY <1>5
  <2>2. PICK b \in NewBlocks : \E S \in SUBSET version[b] :
          StartThreads([c \in (last + 1) .. b |-> IF c = b THEN S ELSE version[c]])
    BY <2>1 DEF DispatchBreaks
  <2> PICK S \in SUBSET version[b] :
        StartThreads([c \in (last + 1) .. b |-> IF c = b THEN S ELSE version[c]])
    BY <2>2
  <2> DEFINE part == [c \in (last + 1) .. b |-> IF c = b THEN S ELSE version[c]]
  <2>3. IsFiniteSet(DOMAIN part)
    BY NewBlocksFinite
  <2>4. StartThreads(part)
    BY <2>2
  <2> HIDE DEF part
  <2>5. heard' \in [Op -> Nat] /\ waiting' \in [Op -> Nat]
    BY <2>3, <2>4, StartThreadsType
  <2>6. last' = last /\ fails' \in 0 .. MaxFails
    BY <1>2, <2>1 DEF DispatchBreaks
  <2> QED
    BY <1>1, <2>5, <2>6 DEF WTypeOK
<1> QED
  BY <1>3, <1>4, <1>5, GatherCases

\* What the threads do to their counters.
LEMMA ThreadsCount ==
  ASSUME WTypeOK, NEW o \in Op, Thread(o)
  PROVE  /\ waiting' \in [Op -> Nat] /\ sending' \in [Op -> Nat]
         /\ paid' \in [Op -> Nat] /\ lost' \in [Op -> Nat]
         /\ UNCHANGED <<height, block, curr, last, wpc, base, heard, fails>>
<1> USE DEF ledger, loop, threads, wallet
<1>1. /\ waiting \in [Op -> Nat] /\ sending \in [Op -> Nat]
      /\ paid \in [Op -> Nat] /\ lost \in [Op -> Nat]
  BY DEF WTypeOK
<1>2. UNCHANGED <<height, block, curr, last, wpc, base, heard, fails>>
  BY DEF Thread, Accept, SendWithoutKey, Send, SendUnheard
<1>3. CASE Accept(o)
  BY <1>1, <1>2, <1>3 DEF Accept
<1>4. CASE SendWithoutKey(o)
  BY <1>1, <1>2, <1>4 DEF SendWithoutKey
<1>5. CASE Send(o)
  BY <1>1, <1>2, <1>5 DEF Send
<1>6. CASE SendUnheard(o)
  BY <1>1, <1>2, <1>6 DEF SendUnheard
<1> QED
  BY <1>3, <1>4, <1>5, <1>6 DEF Thread

LEMMA WNextType ==
  ASSUME WTypeOK, [WNext]_wVars
  PROVE  WTypeOK'
<1> USE DEF ledger, loop, threads, wallet, session
<1>1. CASE Produce
  <2>1. PICK S \in SUBSET (Op \ Confirmed) : block' = [block EXCEPT ![height + 1] = S]
    BY <1>1 DEF Produce
  <2>2. height < Last /\ height' = height + 1 /\ UNCHANGED session
    BY <1>1 DEF Produce
  <2>3. height' \in BlockNum
    BY <2>2, WithdrawalsAssumption DEF WTypeOK, BlockNum
  <2>4. block' \in [BlockNum -> SUBSET Op]
    BY <2>1 DEF WTypeOK
  <2> QED
    BY <2>2, <2>3, <2>4 DEF WTypeOK
<1>2. CASE Poll
  <2>1. curr' \in 0 .. Last
    BY <1>2, PolledHeight DEF Poll
  <2>2. last' \in 0 .. Last /\ base' \in 0 .. Last /\ wpc' \in {"poll", "gather"}
    BY <1>2, <2>1 DEF Poll, WTypeOK
  <2> QED
    BY <1>2, <2>1, <2>2 DEF Poll, WTypeOK
<1>3. CASE Gather
  BY <1>3, GatherType
<1>4. CASE Start
  BY <1>4 DEF Start, WTypeOK
<1>5. CASE Exit
  BY <1>5 DEF Exit, WTypeOK
<1>6. CASE Die
  <2>1. NoOps \in [Op -> Nat]
    BY DEF NoOps
  <2> QED
    BY <1>6, <2>1 DEF Die, WTypeOK
<1>7. ASSUME NEW o \in Op, Thread(o)
      PROVE  WTypeOK'
  BY <1>7, ThreadsCount DEF WTypeOK
<1>8. CASE UNCHANGED wVars
  BY <1>8 DEF wVars, WTypeOK
<1> QED
  BY <1>1, <1>2, <1>3, <1>4, <1>5, <1>6, <1>7, <1>8 DEF WNext, SessionNext

LEMMA WInitType == WInit => WTypeOK
BY WithdrawalsAssumption DEF WInit, ChainInit, SessionInit, WTypeOK, BlockNum, NoOps

\* The type invariant, whatever the mavens do.
THEOREM WTypeOKThm == WSpec => []WTypeOK
  BY WInitType, WNextType, PTL DEF WSpec

-----------------------------------------------------------------------------
(* What is heard is the chain                                              *)

\* A transfer is on the chain once.
BlocksAreDisjoint ==
  \A b, c \in BlockNum : b # c => block[b] \cap block[c] = {}

\* No block has transfers before it is there.
BlocksToCome == \A b \in BlockNum : b > height => block[b] = {}

\* The rounds proceed; only the first height of a session may lie ahead of the
\* chain, and no round comes before it.
RoundsProceed ==
  /\ base <= last
  /\ last = base \/ last <= height
  /\ wpc = "gather" => 0 < last /\ last < curr
  /\ last = 0 => fails = 0

\* The inductive invariant.
WInv ==
  /\ WTypeOK
  /\ BlocksAreDisjoint
  /\ BlocksToCome
  /\ RoundsProceed
  /\ HeardIsChain

\* The numbers of WInv.
LEMMA WInvNumbers ==
  ASSUME WInv
  PROVE  /\ Last \in Nat /\ height \in 1 .. Last /\ last \in 0 .. Last
         /\ base \in 0 .. Last /\ curr \in 0 .. Last /\ fails \in Nat
         /\ NewBlocks \subseteq BlockNum
BY WithdrawalsAssumption DEF WInv, WTypeOK, BlockNum, NewBlocks

\* A transfer is found at most once in versions that invent nothing.
LEMMA FoundOnce ==
  ASSUME WInv, NEW version, NEW o,
         DOMAIN version \subseteq NewBlocks,
         \A b \in DOMAIN version : version[b] \subseteq block[b]
  PROVE  Found(version, o) = IF \E b \in DOMAIN version : o \in version[b] THEN 1 ELSE 0
<1> DEFINE S == {b \in DOMAIN version : o \in version[b]}
<1>1. CASE \E b \in DOMAIN version : o \in version[b]
  <2>1. PICK b \in DOMAIN version : o \in version[b]
    BY <1>1
  <2>2. \A c \in DOMAIN version : o \in version[c] => c = b
    BY <2>1, WInvNumbers DEF WInv, BlocksAreDisjoint
  <2>3. S = {b}
    BY <2>1, <2>2
  <2>4. Cardinality(S) = 1
    BY <2>3, FS_Singleton
  <2> QED
    BY <2>4, <1>1 DEF Found
<1>2. CASE ~ \E b \in DOMAIN version : o \in version[b]
  <2>1. S = {}
    BY <1>2
  <2>2. Cardinality(S) = 0
    BY <2>1, FS_EmptySet
  <2> QED
    BY <2>2, <1>2 DEF Found
<1> QED
  BY <1>1, <1>2

LEMMA WInitInv == WInit => WInv
<1> SUFFICES ASSUME WInit PROVE WInv
  OBVIOUS
<1> USE DEF WInit, ChainInit, SessionInit
<1>1. WTypeOK
  BY WInitType
<1>2. BlocksAreDisjoint /\ BlocksToCome /\ RoundsProceed
  BY DEF BlocksAreDisjoint, BlocksToCome, RoundsProceed
<1>3. HeardIsChain
  BY DEF HeardIsChain, NoOps
<1> QED
  BY <1>1, <1>2, <1>3 DEF WInv

LEMMA ProduceInv ==
  ASSUME WInv, Produce
  PROVE  WInv'
<1> USE DEF ledger, loop, threads, wallet, session
<1>1. PICK S \in SUBSET (Op \ Confirmed) : block' = [block EXCEPT ![height + 1] = S]
  BY DEF Produce
<1>2. /\ height < Last /\ height' = height + 1
      /\ UNCHANGED <<curr, last, wpc, base, heard, fails>>
  BY DEF Produce
<1>3. /\ Last \in Nat /\ height \in 1 .. Last /\ last \in 0 .. Last /\ base \in 0 .. Last
      /\ height + 1 \in BlockNum
  BY <1>2, WInvNumbers DEF BlockNum
<1>4. \A b \in BlockNum : b # height + 1 => block'[b] = block[b]
  BY <1>1 DEF WInv, WTypeOK
<1>5. WTypeOK'
  BY WNextType DEF WInv, WNext
<1>6. BlocksAreDisjoint'
  <2>1. \A b \in BlockNum : block[b] \cap S = {}
    BY DEF Confirmed
  <2>2. block'[height + 1] = S
    BY <1>1, <1>3 DEF WInv, WTypeOK
  <2> QED
    BY <1>4, <2>1, <2>2 DEF WInv, BlocksAreDisjoint
<1>7. BlocksToCome'
  <2> SUFFICES ASSUME NEW b \in BlockNum, b > height' PROVE block'[b] = {}
    BY DEF BlocksToCome
  <2>1. b # height + 1 /\ b > height
    BY <1>2, <1>3 DEF BlockNum
  <2> QED
    BY <2>1, <1>4 DEF WInv, BlocksToCome
<1>8. RoundsProceed'
  BY <1>2, <1>3 DEF WInv, RoundsProceed
<1>9. HeardIsChain'
  <2>1. \A b \in (base + 1) .. last : block'[b] = block[b]
    <3> TAKE b \in (base + 1) .. last
    <3>1. b # height + 1 /\ b \in BlockNum
      BY <1>3 DEF WInv, RoundsProceed, BlockNum
    <3> QED
      BY <3>1, <1>4
  <2>2. \A b \in (base + 1) .. height : block'[b] = block[b] /\ b \in (base + 1) .. height'
    BY <1>2, <1>3, <1>4 DEF BlockNum
  <2> SUFFICES ASSUME NEW o \in Op
               PROVE  /\ IF \E b \in (base + 1) .. last : o \in block[b]
                         THEN heard[o] \in 1 .. (1 + fails)
                         ELSE heard[o] <= fails
                      /\ heard[o] > 0 => \E b \in (base + 1) .. height' : o \in block'[b]
    BY <1>2, <2>1 DEF HeardIsChain
  <2>3. heard[o] > 0 => \E b \in (base + 1) .. height' : o \in block'[b]
    BY <2>2 DEF WInv, HeardIsChain
  <2> QED
    BY <2>3 DEF WInv, HeardIsChain
<1> QED
  BY <1>5, <1>6, <1>7, <1>8, <1>9 DEF WInv

LEMMA PollInv ==
  ASSUME WInv, Poll
  PROVE  WInv'
<1> USE DEF ledger, threads, wallet
<1>1. PICK h \in Polled[height] :
        /\ curr' = h
        /\ \/ curr' <= last /\ UNCHANGED <<last, base, wpc>>
           \/ last = 0 /\ curr' > 0 /\ last' = curr' /\ base' = curr' /\ wpc' = "poll"
           \/ last > 0 /\ curr' > last /\ wpc' = "gather" /\ UNCHANGED <<last, base>>
  BY DEF Poll
<1>2. wpc = "poll" /\ UNCHANGED <<height, block, heard, fails>>
  BY DEF Poll
<1>3. curr' \in 0 .. Last
  BY <1>1, PolledHeight DEF WInv
<1>4. /\ Last \in Nat /\ height \in 1 .. Last /\ last \in 0 .. Last /\ base \in 0 .. Last
  BY WInvNumbers
<1>5. WTypeOK'
  BY WNextType DEF WInv, WNext, SessionNext
<1>6. BlocksAreDisjoint' /\ BlocksToCome'
  BY <1>2 DEF WInv, BlocksAreDisjoint, BlocksToCome
<1>7. RoundsProceed'
  BY <1>1, <1>2, <1>3, <1>4 DEF WInv, RoundsProceed
<1>8. HeardIsChain'
  <2>1. CASE UNCHANGED <<last, base>>
    BY <2>1, <1>2 DEF WInv, HeardIsChain
  <2>2. CASE last = 0 /\ last' = curr' /\ base' = curr'
    <3>1. base = 0 /\ fails = 0
      BY <2>2, <1>4 DEF WInv, RoundsProceed
    <3>2. \A n \in Nat : (n + 1) .. n = {}
      OBVIOUS
    <3>3. (base + 1) .. last = {}
      BY <2>2, <3>1, <3>2
    <3>4. (base' + 1) .. last' = {}
      <4>1. curr' \in Nat
        BY <1>3
      <4> QED
        BY <4>1, <2>2, <3>2
    <3>5. \A o \in Op : heard[o] = 0
      <4> TAKE o \in Op
      <4>1. heard[o] <= 0 /\ heard[o] \in Nat
        BY <3>1, <3>3 DEF WInv, WTypeOK, HeardIsChain
      <4> QED
        BY <4>1
    <3> QED
      BY <3>1, <3>4, <3>5, <1>2 DEF HeardIsChain
  <2> QED
    BY <2>1, <2>2, <1>1
<1> QED
  BY <1>5, <1>6, <1>7, <1>8 DEF WInv

\* What is believed in a round is the chain, and the round lies on it.
LEMMA RoundIsChain ==
  ASSUME Minority, WInv, wpc = "gather", NEW version \in Beliefs
  PROVE  curr <= height /\ \A b \in NewBlocks : version[b] = block[b]
<1>1. PICK truth \in [Maven \ Faulty -> HonestFiles], lie \in [Faulty -> FaultyFiles] :
        /\ Enough(BlockFiles(truth, lie), NewBlocks)
        /\ version = [b \in NewBlocks |-> Believed(BlockFiles(truth, lie), b)]
  BY DEF Beliefs
<1> DEFINE file == BlockFiles(truth, lie)
<1>2. TrueFiles(file)
  BY DEF BlockFiles, TrueFiles
<1>3. last \in Nat /\ curr \in Nat /\ height \in Nat
  BY WInvNumbers
<1>4. Enough(file, NewBlocks)
  BY <1>1
<1>5. \A b \in NewBlocks : version[b] = Believed(file, b)
  BY <1>1
<1> HIDE DEF file
<1>6. \A b \in NewBlocks : b <= height /\ Believed(file, b) = block[b]
  BY <1>2, <1>3, <1>4, BelievedIsChain
<1>7. curr \in NewBlocks
  BY <1>3 DEF NewBlocks, WInv, RoundsProceed
<1> QED
  BY <1>5, <1>6, <1>7

LEMMA DispatchInv ==
  ASSUME WInv, Gather, NEW version \in Beliefs, Dispatch(version),
         curr <= height, \A b \in NewBlocks : version[b] = block[b]
  PROVE  RoundsProceed' /\ HeardIsChain'
<1>1. /\ wpc = "gather" /\ wpc' = "poll"
      /\ UNCHANGED <<height, block, curr, base>>
  BY GatherCases DEF WInv
<1>2. /\ heard' = [o \in Op |-> heard[o] + Found(version, o)]
      /\ last' = curr /\ fails' = fails
  BY DEF Dispatch, StartThreads
<1>3. /\ Last \in Nat /\ height \in 1 .. Last /\ last \in 0 .. Last /\ base \in 0 .. Last
      /\ curr \in 0 .. Last /\ fails \in Nat /\ base <= last /\ 0 < last /\ last < curr
  BY <1>1, WInvNumbers DEF WInv, RoundsProceed
<1>4. RoundsProceed'
  BY <1>1, <1>2, <1>3 DEF RoundsProceed
<1>5. ASSUME NEW o \in Op
      PROVE  /\ IF \E b \in (base + 1) .. curr : o \in block[b]
                THEN heard'[o] \in 1 .. (1 + fails)
                ELSE heard'[o] <= fails
             /\ heard'[o] > 0 => \E b \in (base + 1) .. height : o \in block[b]
  <2>1. DOMAIN version = NewBlocks /\ \A b \in NewBlocks : version[b] = block[b]
    BY BeliefDomain
  <2>2. Found(version, o) = IF \E b \in NewBlocks : o \in block[b] THEN 1 ELSE 0
    BY <2>1, FoundOnce
  <2>3. heard'[o] = heard[o] + Found(version, o) /\ heard[o] \in Nat
    BY <1>2 DEF WInv, WTypeOK
  <2>4. (base + 1) .. curr = ((base + 1) .. last) \cup NewBlocks
    BY <1>3 DEF NewBlocks
  <2>5. \A b \in (base + 1) .. last, c \in NewBlocks : ~(o \in block[b] /\ o \in block[c])
    <3> TAKE b \in (base + 1) .. last, c \in NewBlocks
    <3>1. b \in BlockNum /\ c \in BlockNum /\ b # c
      BY <1>3 DEF NewBlocks, BlockNum
    <3> QED
      BY <3>1 DEF WInv, BlocksAreDisjoint
  <2>6. CASE \E b \in NewBlocks : o \in block[b]
    <3>1. heard[o] <= fails
      BY <2>5, <2>6 DEF WInv, HeardIsChain
    <3>2. heard'[o] \in 1 .. (1 + fails)
      BY <3>1, <2>2, <2>3, <2>6, <1>3
    <3>3. PICK b \in NewBlocks : o \in block[b]
      BY <2>6
    <3>4. b \in (base + 1) .. height /\ b \in (base + 1) .. curr
      BY <1>3 DEF NewBlocks
    <3> QED
      BY <3>2, <3>3, <3>4
  <2>7. CASE ~ \E b \in NewBlocks : o \in block[b]
    <3>1. heard'[o] = heard[o]
      BY <2>2, <2>3, <2>7
    <3>2. (\E b \in (base + 1) .. curr : o \in block[b]) <=> (\E b \in (base + 1) .. last : o \in block[b])
      BY <2>4, <2>7
    <3> QED
      BY <3>1, <3>2 DEF WInv, HeardIsChain
  <2> QED
    BY <2>6, <2>7
<1>6. HeardIsChain'
  BY <1>1, <1>2, <1>5 DEF HeardIsChain
<1> QED
  BY <1>4, <1>6

LEMMA DispatchBreaksInv ==
  ASSUME WInv, Gather, NEW version \in Beliefs, DispatchBreaks(version),
         curr <= height, \A b \in NewBlocks : version[b] = block[b]
  PROVE  RoundsProceed' /\ HeardIsChain'
<1>1. /\ wpc = "gather" /\ wpc' = "poll"
      /\ UNCHANGED <<height, block, curr, base>>
  BY GatherCases DEF WInv
<1>2. PICK d \in NewBlocks : \E S \in SUBSET version[d] :
        StartThreads([c \in (last + 1) .. d |-> IF c = d THEN S ELSE version[c]])
  BY DEF DispatchBreaks
<1> PICK S \in SUBSET version[d] :
      StartThreads([c \in (last + 1) .. d |-> IF c = d THEN S ELSE version[c]])
  BY <1>2
<1> DEFINE part == [c \in (last + 1) .. d |-> IF c = d THEN S ELSE version[c]]
<1>3. heard' = [o \in Op |-> heard[o] + Found(part, o)]
  BY <1>2 DEF StartThreads
<1>4. last' = last /\ fails' = fails + 1
  BY DEF DispatchBreaks
<1>5. /\ Last \in Nat /\ height \in 1 .. Last /\ last \in 0 .. Last /\ base \in 0 .. Last
      /\ curr \in 0 .. Last /\ fails \in Nat /\ base <= last /\ 0 < last /\ last < curr
  BY <1>1, WInvNumbers DEF WInv, RoundsProceed
<1>6. RoundsProceed'
  BY <1>1, <1>4, <1>5 DEF WInv, RoundsProceed
<1>7. DOMAIN part \subseteq NewBlocks
  BY <1>5 DEF NewBlocks
<1>8. \A b \in DOMAIN part : part[b] \subseteq block[b]
  <2> TAKE b \in DOMAIN part
  <2>1. b \in NewBlocks /\ version[b] = block[b] /\ version[d] = block[d]
    BY <1>7
  <2> QED
    BY <2>1
<1> HIDE DEF part
<1>9. ASSUME NEW o \in Op
      PROVE  /\ IF \E b \in (base + 1) .. last : o \in block[b]
                THEN heard'[o] \in 1 .. (1 + fails')
                ELSE heard'[o] <= fails'
             /\ heard'[o] > 0 => \E b \in (base + 1) .. height : o \in block[b]
  <2>1. Found(part, o) = IF \E b \in DOMAIN part : o \in part[b] THEN 1 ELSE 0
    BY <1>7, <1>8, FoundOnce
  <2>2. heard'[o] = heard[o] + Found(part, o) /\ heard[o] \in Nat
    BY <1>3 DEF WInv, WTypeOK
  <2>3. CASE Found(part, o) = 0
    <3>1. heard'[o] = heard[o]
      BY <2>2, <2>3
    <3>2. /\ IF \E b \in (base + 1) .. last : o \in block[b]
             THEN heard[o] \in 1 .. (1 + fails)
             ELSE heard[o] <= fails
          /\ heard[o] > 0 => \E b \in (base + 1) .. height : o \in block[b]
      BY DEF WInv, HeardIsChain
    <3> QED
      BY <3>1, <3>2, <2>2, <1>4, <1>5
  <2>4. CASE Found(part, o) # 0
    <3>1. Found(part, o) = 1
      BY <2>1, <2>4
    <3>2. PICK c \in NewBlocks : o \in block[c]
      BY <2>1, <2>4, <1>7, <1>8
    <3>3. c \in (base + 1) .. height /\ c > last
      BY <1>5 DEF NewBlocks
    <3>4. ~ \E b \in (base + 1) .. last : o \in block[b]
      <4> SUFFICES ASSUME NEW b \in (base + 1) .. last, o \in block[b] PROVE FALSE
        OBVIOUS
      <4>1. b \in BlockNum /\ c \in BlockNum /\ b # c
        BY <1>5, <3>3 DEF BlockNum
      <4> QED
        BY <4>1, <3>2 DEF WInv, BlocksAreDisjoint
    <3>5. heard[o] <= fails
      BY <3>4 DEF WInv, HeardIsChain
    <3>6. heard'[o] <= fails'
      BY <3>1, <3>5, <2>2, <1>4, <1>5
    <3> QED
      BY <3>2, <3>3, <3>4, <3>6
  <2> QED
    BY <2>3, <2>4
<1>10. HeardIsChain'
  BY <1>1, <1>4, <1>9 DEF HeardIsChain
<1> QED
  BY <1>6, <1>10

LEMMA GatherInv ==
  ASSUME Minority, WInv, Gather
  PROVE  WInv'
<1>1. /\ wpc = "gather" /\ wpc' = "poll"
      /\ UNCHANGED <<height, block, curr, base>>
  BY GatherCases DEF WInv
<1>2. WTypeOK'
  BY WNextType DEF WInv, WNext, SessionNext
<1>3. BlocksAreDisjoint' /\ BlocksToCome'
  BY <1>1 DEF WInv, BlocksAreDisjoint, BlocksToCome
<1>4. CASE UNCHANGED <<heard, waiting, last, fails>>
  BY <1>1, <1>2, <1>3, <1>4 DEF WInv, RoundsProceed, HeardIsChain
<1>5. CASE \E version \in Beliefs : Dispatch(version) \/ DispatchBreaks(version)
  <2>1. PICK version \in Beliefs : Dispatch(version) \/ DispatchBreaks(version)
    BY <1>5
  <2>2. curr <= height /\ \A b \in NewBlocks : version[b] = block[b]
    BY <1>1, RoundIsChain
  <2>3. RoundsProceed' /\ HeardIsChain'
    BY <2>1, <2>2, DispatchInv, DispatchBreaksInv
  <2> QED
    BY <1>2, <1>3, <2>3 DEF WInv
<1> QED
  BY <1>4, <1>5, GatherCases DEF WInv

\* A step that leaves the chain and the rounds alone.
LEMMA ElsewhereInv ==
  ASSUME WInv, [WNext]_wVars, UNCHANGED <<height, block, curr, last, base, heard, fails>>,
         wpc' = "gather" => wpc = "gather"
  PROVE  WInv'
<1>1. WTypeOK'
  BY WNextType DEF WInv
<1> QED
  BY <1>1 DEF WInv, BlocksAreDisjoint, BlocksToCome, RoundsProceed, HeardIsChain

LEMMA WNextInv ==
  ASSUME Minority, WInv, [WNext]_wVars
  PROVE  WInv'
<1>1. CASE Produce
  BY <1>1, ProduceInv
<1>2. CASE Poll
  BY <1>2, PollInv
<1>3. CASE Gather
  BY <1>3, GatherInv
<1>4. CASE Start \/ Exit \/ Die \/ UNCHANGED wVars
  BY <1>4, ElsewhereInv DEF Start, Exit, Die, wVars, ledger, loop, session
<1>5. ASSUME NEW o \in Op, Thread(o)
      PROVE  WInv'
  BY <1>5, ThreadsCount, ElsewhereInv DEF WInv
<1> QED
  BY <1>1, <1>2, <1>3, <1>4, <1>5 DEF WNext, SessionNext

LEMMA WInvariant == Minority /\ WSpec => []WInv
<1>1. ASSUME Minority PROVE WSpec => []WInv
  <2>1. WInv /\ [WNext]_wVars => WInv'
    BY <1>1, WNextInv
  <2> QED
    BY <2>1, WInitInv, PTL DEF WSpec
<1> QED
  BY <1>1

\* "No node is trusted": whatever a minority of mavens reports, whichever mavens
\* hang and whichever rounds fail, every transfer of the blocks of a session
\* starts a thread, again only after a failed round, and nothing else starts any.
THEOREM HeardIsChainThm == Minority /\ WSpec => []HeardIsChain
  BY WInvariant, PTL DEF WInv

-----------------------------------------------------------------------------
(* A session pays once what it owes                                        *)

\* The payments for a transfer that are made or may still be made.
Owed(o) == waiting[o] + sending[o] + paid[o]

\* A payment is of a thread that was started or asked for again when an answer
\* was lost, for a transfer with a memo; a payment made or tried is to a verified
\* address.
OwedIsHeard ==
  \A o \in Op :
    /\ Owed(o) <= heard[o] + lost[o]
    /\ Owed(o) > 0 => o.memo /\ heard[o] > 0
    /\ sending[o] + paid[o] > 0 => o.valid

LEMMA WCounts ==
  ASSUME WTypeOK, NEW o \in Op
  PROVE  /\ heard[o] \in Nat /\ waiting[o] \in Nat /\ sending[o] \in Nat
         /\ paid[o] \in Nat /\ lost[o] \in Nat
BY DEF WTypeOK

LEMMA StartThreadsOwed ==
  ASSUME WTypeOK, OwedIsHeard, NEW version, IsFiniteSet(DOMAIN version),
         StartThreads(version), UNCHANGED <<sending, paid, lost>>
  PROVE  OwedIsHeard'
<1> SUFFICES ASSUME NEW o \in Op
             PROVE  /\ Owed(o)' <= heard'[o] + lost[o]
                    /\ Owed(o)' > 0 => o.memo /\ heard'[o] > 0
                    /\ sending[o] + paid[o] > 0 => o.valid
  BY DEF OwedIsHeard
<1>1. /\ heard'[o] = heard[o] + Found(version, o)
      /\ waiting'[o] = waiting[o] + IF o.memo THEN Found(version, o) ELSE 0
  BY DEF StartThreads
<1>2. Found(version, o) \in Nat
  BY FoundNat
<1>3. Owed(o)' = Owed(o) + IF o.memo THEN Found(version, o) ELSE 0
  BY <1>1, <1>2, WCounts DEF Owed
<1>4. Owed(o) \in Nat
  BY WCounts DEF Owed
<1>5. /\ Owed(o) <= heard[o] + lost[o]
      /\ Owed(o) > 0 => o.memo /\ heard[o] > 0
      /\ sending[o] + paid[o] > 0 => o.valid
  BY DEF OwedIsHeard
<1>6. CASE o.memo
  BY <1>1, <1>2, <1>3, <1>4, <1>5, <1>6, WCounts
<1>7. CASE ~o.memo
  BY <1>1, <1>2, <1>3, <1>4, <1>5, <1>7, WCounts
<1> QED
  BY <1>6, <1>7

LEMMA GatherOwed ==
  ASSUME WTypeOK, OwedIsHeard, Gather
  PROVE  OwedIsHeard'
<1>1. UNCHANGED <<sending, paid, lost>>
  BY GatherCases
<1>2. CASE UNCHANGED <<heard, waiting, last, fails>>
  BY <1>1, <1>2 DEF OwedIsHeard, Owed
<1>3. CASE \E version \in Beliefs : Dispatch(version)
  <2>1. PICK version \in Beliefs : Dispatch(version)
    BY <1>3
  <2>2. IsFiniteSet(DOMAIN version)
    BY BeliefDomain, NewBlocksFinite
  <2> QED
    BY <1>1, <2>1, <2>2, StartThreadsOwed DEF Dispatch
<1>4. CASE \E version \in Beliefs : DispatchBreaks(version)
  <2>1. PICK version \in Beliefs : DispatchBreaks(version)
    BY <1>4
  <2>2. PICK b \in NewBlocks : \E S \in SUBSET version[b] :
          StartThreads([c \in (last + 1) .. b |-> IF c = b THEN S ELSE version[c]])
    BY <2>1 DEF DispatchBreaks
  <2> PICK S \in SUBSET version[b] :
        StartThreads([c \in (last + 1) .. b |-> IF c = b THEN S ELSE version[c]])
    BY <2>2
  <2> DEFINE part == [c \in (last + 1) .. b |-> IF c = b THEN S ELSE version[c]]
  <2>3. IsFiniteSet(DOMAIN part)
    BY NewBlocksFinite
  <2>4. StartThreads(part)
    BY <2>2
  <2> HIDE DEF part
  <2> QED
    BY <1>1, <2>3, <2>4, StartThreadsOwed
<1> QED
  BY <1>2, <1>3, <1>4, GatherCases

LEMMA ThreadOwed ==
  ASSUME WTypeOK, OwedIsHeard, NEW o \in Op, Thread(o)
  PROVE  OwedIsHeard'
<1> USE DEF ledger, loop, threads, wallet
<1>1. heard' = heard
  BY ThreadsCount
<1>2. /\ waiting \in [Op -> Nat] /\ sending \in [Op -> Nat]
      /\ paid \in [Op -> Nat] /\ lost \in [Op -> Nat]
  BY DEF WTypeOK
<1>3. ASSUME NEW p \in Op
      PROVE  /\ Owed(p)' <= heard[p] + lost'[p]
             /\ Owed(p)' > 0 => p.memo /\ heard[p] > 0
             /\ sending'[p] + paid'[p] > 0 => p.valid
  <2>1. /\ heard[p] \in Nat /\ waiting[p] \in Nat /\ sending[p] \in Nat
        /\ paid[p] \in Nat /\ lost[p] \in Nat
    BY WCounts
  <2>2. /\ Owed(p) <= heard[p] + lost[p]
        /\ Owed(p) > 0 => p.memo /\ heard[p] > 0
        /\ sending[p] + paid[p] > 0 => p.valid
    BY DEF OwedIsHeard
  <2>3. CASE p # o
    <3>1. /\ waiting'[p] = waiting[p] /\ sending'[p] = sending[p]
          /\ paid'[p] = paid[p] /\ lost'[p] = lost[p]
      BY <2>3, <1>2 DEF Thread, Accept, SendWithoutKey, Send, SendUnheard
    <3> QED
      BY <3>1, <2>2 DEF Owed
  <2>4. CASE p = o /\ Accept(o)
    <3>1. /\ waiting[p] > 0 /\ waiting'[p] = waiting[p] - 1
          /\ sending'[p] = sending[p] + IF p.valid THEN 1 ELSE 0
          /\ paid'[p] = paid[p] /\ lost'[p] = lost[p]
      BY <2>4, <1>2 DEF Accept
    <3>2. CASE p.valid
      BY <3>1, <3>2, <2>1, <2>2 DEF Owed
    <3>3. CASE ~p.valid
      BY <3>1, <3>3, <2>1, <2>2 DEF Owed
    <3> QED
      BY <3>2, <3>3
  <2>5. CASE p = o /\ SendWithoutKey(o)
    <3>1. /\ sending[p] > 0 /\ waiting'[p] = waiting[p] /\ sending'[p] = sending[p] - 1
          /\ paid'[p] = paid[p] /\ lost'[p] = lost[p]
      BY <2>5, <1>2 DEF SendWithoutKey
    <3> QED
      BY <3>1, <2>1, <2>2 DEF Owed
  <2>6. CASE p = o /\ Send(o)
    <3>1. /\ sending[p] > 0 /\ waiting'[p] = waiting[p] /\ sending'[p] = sending[p] - 1
          /\ paid'[p] = paid[p] + 1 /\ lost'[p] = lost[p]
      BY <2>6, <1>2 DEF Send
    <3> QED
      BY <3>1, <2>1, <2>2 DEF Owed
  <2>7. CASE p = o /\ SendUnheard(o)
    <3>1. /\ sending[p] > 0 /\ waiting'[p] = waiting[p] /\ sending'[p] = sending[p]
          /\ paid'[p] = paid[p] + 1 /\ lost'[p] = lost[p] + 1
      BY <2>7, <1>2 DEF SendUnheard
    <3> QED
      BY <3>1, <2>1, <2>2 DEF Owed
  <2> QED
    BY <2>3, <2>4, <2>5, <2>6, <2>7 DEF Thread
<1> QED
  BY <1>1, <1>3 DEF OwedIsHeard

LEMMA WNextOwed ==
  ASSUME WTypeOK, OwedIsHeard, [WNext]_wVars
  PROVE  OwedIsHeard'
<1> USE DEF ledger, loop, threads, wallet, session
<1>1. CASE Produce \/ Poll \/ Start \/ Exit \/ UNCHANGED wVars
  <2>1. UNCHANGED <<heard, waiting, sending, paid, lost>>
    BY <1>1 DEF Produce, Poll, Start, Exit, wVars
  <2> QED
    BY <2>1 DEF OwedIsHeard, Owed
<1>2. CASE Gather
  BY <1>2, GatherOwed
<1>3. CASE Die
  <2>1. waiting' = NoOps /\ sending' = NoOps /\ UNCHANGED <<heard, paid, lost>>
    BY <1>3 DEF Die
  <2>2. ASSUME NEW o \in Op
        PROVE  /\ Owed(o)' <= Owed(o) /\ Owed(o)' \in Nat /\ Owed(o) \in Nat
               /\ sending'[o] + paid'[o] > 0 => sending[o] + paid[o] > 0
    BY <2>1, WCounts DEF Owed, NoOps
  <2> SUFFICES ASSUME NEW o \in Op
               PROVE  /\ Owed(o)' <= heard[o] + lost[o]
                      /\ Owed(o)' > 0 => o.memo /\ heard[o] > 0
                      /\ sending'[o] + paid'[o] > 0 => o.valid
    BY <2>1 DEF OwedIsHeard
  <2> QED
    BY <2>2, WCounts DEF OwedIsHeard
<1>4. ASSUME NEW o \in Op, Thread(o)
      PROVE  OwedIsHeard'
  BY <1>4, ThreadOwed
<1> QED
  BY <1>1, <1>2, <1>3, <1>4 DEF WNext, SessionNext

LEMMA OwedPaysOnce ==
  ASSUME WInv, OwedIsHeard
  PROVE  PaidOnce
<1> SUFFICES ASSUME NEW o \in Op, paid[o] > 0
             PROVE  /\ paid[o] <= 1 + lost[o] + fails
                    /\ o \in Confirmed /\ o.memo /\ o.valid
  BY DEF PaidOnce
<1>1. /\ heard[o] \in Nat /\ waiting[o] \in Nat /\ sending[o] \in Nat
      /\ paid[o] \in Nat /\ lost[o] \in Nat /\ fails \in Nat
  BY WCounts, WInvNumbers DEF WInv
<1>2. /\ Owed(o) <= heard[o] + lost[o]
      /\ Owed(o) > 0 => o.memo /\ heard[o] > 0
      /\ sending[o] + paid[o] > 0 => o.valid
  BY DEF OwedIsHeard
<1>3. Owed(o) > 0 /\ sending[o] + paid[o] > 0 /\ paid[o] <= Owed(o) /\ Owed(o) \in Nat
  BY <1>1 DEF Owed
<1>4. heard[o] <= 1 + fails
  BY <1>1 DEF WInv, HeardIsChain
<1>5. paid[o] <= 1 + lost[o] + fails
  BY <1>1, <1>2, <1>3, <1>4
<1>6. PICK b \in (base + 1) .. height : o \in block[b]
  BY <1>2, <1>3 DEF WInv, HeardIsChain
<1>7. b \in BlockNum
  BY WInvNumbers DEF BlockNum
<1> QED
  BY <1>2, <1>3, <1>5, <1>6, <1>7 DEF Confirmed

\* A session pays only for a transfer of an irreversible block with a memo to the
\* issuer and a verified address, whatever a minority of mavens reports, and pays
\* once, but for the answers of the wallet that were lost and the rounds that
\* failed among their transfers.
THEOREM PaidOnceThm == Minority /\ WSpec => []PaidOnce
<1>1. ASSUME Minority PROVE WSpec => []PaidOnce
  <2>1. WSpec => []WInv
    BY <1>1, WInvariant
  <2>2. WInit => OwedIsHeard
    BY DEF WInit, SessionInit, OwedIsHeard, Owed, NoOps
  <2>3. WInv /\ OwedIsHeard /\ [WNext]_wVars => OwedIsHeard'
    BY WNextOwed DEF WInv
  <2> QED
    BY <2>1, <2>2, <2>3, OwedPaysOnce, PTL DEF WSpec
<1> QED
  BY <1>1
=============================================================================
