---------------------------- MODULE Withdrawals ----------------------------
(***************************************************************************)
(* src/app/process_withdrawals.py: the listener of the BitShares chain and *)
(* the withdrawal threads it starts, up to the payment on the foreign      *)
(* chain by src/app/signing_*.py.                                          *)
(*                                                                         *)
(* No node is trusted. Mavens report heights into one file each; the mode  *)
(* of the files is the current height. For the blocks since the last one   *)
(* processed a second set of mavens reports the contents, again in one     *)
(* file each, and the mode of the versions of each block is believed if    *)
(* all mavens but one have a version. A maven that does not answer in time *)
(* is killed and leaves the file of an earlier round behind.               *)
(*                                                                         *)
(* The module is the process of one session of the gateway. Main does not  *)
(* end it, so the processes of two sessions may be at work at once: their   *)
(* mavens then write the same files, and Sessions composes them.           *)
(* The reserve listener that every withdrawal starts is Listener's.        *)
(***************************************************************************)
EXTENDS Integers, FiniteSets

CONSTANTS
  BLOCK_MAVENS,  (* the number of mavens                                   *)
  Faulty,        (* mavens whose nodes report what they like ...           *)
  Lies,          (* ... of these sets of transfers for a block (bound)     *)
  Op,            (* UIA transfers: records [id, network, memo, valid]: the *)
                 (* UIA's network, "memo" in op[1], verify() of the memo   *)
  Last,          (* BitShares blocks modelled (bound)                      *)
  MaxLost,       (* answers to payments that are lost (bound)              *)
  MaxFails       (* rounds that fail among their transfers (bound)         *)

Maven == 0 .. (BLOCK_MAVENS - 1)
BlockNum == 1 .. Last

ASSUME WithdrawalsAssumption ==
  /\ BLOCK_MAVENS \in 1 .. 7
  /\ Faulty \subseteq Maven /\ Lies \subseteq SUBSET Op
  /\ Last \in Nat \ {0} /\ MaxLost \in Nat /\ MaxFails \in Nat
  /\ \A o \in Op : /\ o.network \in {"xrp", "eos", "ltc", "btc", "xyz"}
                   /\ o.memo \in BOOLEAN /\ o.valid \in BOOLEAN

VARIABLES
  height,    (* last irreversible block of BitShares                       *)
  block,     (* the transfers of every block; {} for those to come         *)
  curr,      (* curr_block_num, and block_number.txt                       *)
  last,      (* last_block_num                                             *)
  wpc,       (* the main loop: "off" before the session, "poll" the heights,*)
             (* "gather" the blocks, "ended" by sys.exit, "killed"         *)
  base,      (* the first last_block_num (history)                         *)
  heard,     (* withdraw threads started, per transfer (history)           *)
  fails,     (* rounds that failed among their transfers (history)         *)
  waiting,   (* threads that have not yet sent their payment               *)
  sending,   (* threads in the send loop                                   *)
  paid,      (* payments made on the foreign chain                         *)
  lost       (* payments whose answer was lost (history)                   *)

ledger  == <<height, block>>
loop    == <<curr, last, wpc, base, heard, fails>>
threads == <<waiting, sending>>
wallet  == <<paid, lost>>
session == <<loop, threads, wallet>>
wVars   == <<ledger, session>>

NoOps == [o \in Op |-> 0]

-----------------------------------------------------------------------------
(* The BitShares chain and its nodes (external)                            *)

Confirmed == UNION {block[b] : b \in BlockNum}

\* An irreversible block: it never changes.
Produce ==
  /\ height < Last
  /\ height' = height + 1
  /\ \E S \in SUBSET (Op \ Confirmed) : block' = [block EXCEPT ![height + 1] = S]
  /\ UNCHANGED session

\* What may be read from the files block_num_maven_{id}.txt: 0 until a maven has
\* reported, then any height it reported, which may be an old one. The test of
\* block_num_maven asks for a height both above and below block_number.txt, so
\* it rejects nothing.
HeightFiles(h) ==
  {f \in [Maven -> 0 .. Last] : \A m \in Maven \ Faulty : f[m] <= h}

\* range(last_block_num + 1, curr_block_num + 1)
NewBlocks == (last + 1) .. curr

\* What may be read from a file block_maven_{id}.txt, of the new blocks: a maven
\* that answered in time has written all of them, one that was killed has left
\* those of an earlier round, and one of another session may have written those
\* of its own round. A node has no block above the height of the chain.
HonestFiles ==
  {[b \in B |-> block[b]] : B \in SUBSET {n \in NewBlocks : n <= height}}

FaultyFiles == UNION {[B -> Lies] : B \in SUBSET NewBlocks}

\* The files of all mavens.
BlockFiles(truth, lie) ==
  [m \in Maven |-> IF m \in Faulty THEN lie[m] ELSE truth[m]]

-----------------------------------------------------------------------------
(* The vote                                                                *)

Votes(f, v) == Cardinality({m \in DOMAIN f : f[m] = v})

\* statistics.mode: the most frequent value, the first met among equals.
Mode(f) ==
  LET top == {m \in DOMAIN f : \A n \in DOMAIN f : Votes(f, f[n]) <= Votes(f, f[m])}
  IN  f[CHOOSE m \in top : \A n \in top : m <= n]

\* blocks[block_num] of the main loop: who has which version of block b.
Opinions(file, b) == [m \in {n \in Maven : b \in DOMAIN file[n]} |-> file[m][b]]

\* The version of block b that is believed.
Believed(file, b) == Mode(Opinions(file, b))

\* Mutant: one version is enough.
EnoughOne(file, B) == \A b \in B : DOMAIN Opinions(file, b) # {}

\* "Not enough responding mavens" otherwise.
Enough(file, B) ==
  \A b \in B : Cardinality(DOMAIN Opinions(file, b)) >= BLOCK_MAVENS - 1

-----------------------------------------------------------------------------
(* The mavens and the main loop                                            *)

\* The heights the main loop may take, by the height of the chain.
Polled == [h \in BlockNum |-> {Mode(f) : f \in HeightFiles(h)}]

\* create_database and the first lines of withdrawal_listener.
Start == wpc = "off" /\ wpc' = "poll" /\ UNCHANGED <<ledger, curr, last, base, heard, fails, threads, wallet>>

\* The height is taken; the first one only starts the count.
Poll ==
  /\ wpc = "poll"
  /\ \E h \in Polled[height] :
       /\ curr' = h
       /\ \/ curr' <= last /\ UNCHANGED <<last, base, wpc>>
          \/ last = 0 /\ curr' > 0 /\ last' = curr' /\ base' = curr' /\ wpc' = "poll"
          \/ last > 0 /\ curr' > last /\ wpc' = "gather" /\ UNCHANGED <<last, base>>
  /\ UNCHANGED <<ledger, heard, fails, threads, wallet>>

\* The blocks of version, of which a transfer may be in several.
Found(version, o) == Cardinality({b \in DOMAIN version : o \in version[b]})

\* One thread per transfer; those without a memo to the issuer end at once.
StartThreads(version) ==
  /\ heard' = [o \in Op |-> heard[o] + Found(version, o)]
  /\ waiting' = [o \in Op |-> waiting[o] + IF o.memo THEN Found(version, o) ELSE 0]

\* blocks of the main loop after the vote, if there are opinions enough.
Beliefs ==
  LET rounds == {BlockFiles(truth, lie) :
                   truth \in [Maven \ Faulty -> HonestFiles], lie \in [Faulty -> FaultyFiles]}
  IN  {[b \in NewBlocks |-> Believed(file, b)] : file \in {f \in rounds : Enough(f, NewBlocks)}}

\* Mutant: last_block_num is kept when blocks have been processed.
DispatchAgain(version) == StartThreads(version) /\ UNCHANGED <<last, fails>>

\* Mutant: last_block_num runs one ahead.
DispatchAhead(version) == StartThreads(version) /\ last' = curr + 1 /\ UNCHANGED fails

\* The threads of all new transfers are started, and the blocks are done with.
Dispatch(version) == StartThreads(version) /\ last' = curr /\ UNCHANGED fails

\* An error among the transfers of block b, or after the last of them, ends the
\* round: the threads that were started go on, and last_block_num is not set.
DispatchBreaks(version) ==
  /\ fails < MaxFails /\ fails' = fails + 1
  /\ \E b \in NewBlocks : \E S \in SUBSET version[b] :
       StartThreads([c \in (last + 1) .. b |-> IF c = b THEN S ELSE version[c]])
  /\ UNCHANGED last

\* spawn_block_processes, then the vote. A round starts no thread when a block has
\* not enough versions, or a file cannot be read.
Gather ==
  /\ wpc = "gather"
  /\ \/ UNCHANGED <<heard, waiting, last, fails>>
     \/ \E version \in Beliefs : Dispatch(version) \/ DispatchBreaks(version)
  /\ wpc' = "poll"
  /\ UNCHANGED <<ledger, curr, base, sending, wallet>>

\* watchdog_sleep ends the main thread by sys.exit; the process lives as long as
\* its withdraw threads do.
Exit == wpc = "poll" /\ wpc' = "ended" /\ UNCHANGED <<ledger, curr, last, base, heard, fails, threads, wallet>>

\* The process is killed, and its threads with it.
Die ==
  /\ wpc \notin {"off", "killed"} /\ wpc' = "killed"
  /\ waiting' = NoOps /\ sending' = NoOps
  /\ UNCHANGED <<ledger, curr, last, base, heard, fails, wallet>>

-----------------------------------------------------------------------------
(* withdraw                                                                *)

\* The address is verified, the reserve listener started, and the event
\* chronicled, which removes the private key from the order.
Accept(o) ==
  /\ waiting[o] > 0
  /\ waiting' = [waiting EXCEPT ![o] = @ - 1]
  /\ sending' = [sending EXCEPT ![o] = @ + IF o.valid THEN 1 ELSE 0]
  /\ UNCHANGED <<ledger, loop, wallet>>

\* eos_transfer and xrp_transfer sign with order["private"]: the thread ends in
\* a KeyError.
SendWithoutKey(o) ==
  /\ o.network \in {"eos", "xrp"}
  /\ sending[o] > 0
  /\ sending' = [sending EXCEPT ![o] = @ - 1]
  /\ UNCHANGED <<ledger, loop, waiting, wallet>>

\* ltcbtc_transfer asks the wallet to pay until it answers; xyz_transfer writes
\* the pending transfer. An attempt that pays nothing changes nothing.
Send(o) ==
  /\ o.network \in {"ltc", "btc", "xyz"}
  /\ sending[o] > 0
  /\ sending' = [sending EXCEPT ![o] = @ - 1]
  /\ paid' = [paid EXCEPT ![o] = @ + 1]
  /\ UNCHANGED <<ledger, loop, waiting, lost>>

\* The wallet pays, and its answer does not arrive: ltcbtc_transfer asks again.
SendUnheard(o) ==
  /\ o.network \in {"ltc", "btc"}
  /\ sending[o] > 0
  /\ lost[o] < MaxLost
  /\ paid' = [paid EXCEPT ![o] = @ + 1] /\ lost' = [lost EXCEPT ![o] = @ + 1]
  /\ UNCHANGED <<ledger, loop, threads>>

-----------------------------------------------------------------------------
SessionInit ==
  /\ curr = 0 /\ last = 0 /\ wpc = "off" /\ base = 0 /\ fails = 0
  /\ heard = NoOps /\ waiting = NoOps /\ sending = NoOps /\ paid = NoOps /\ lost = NoOps

ChainInit == height = 1 /\ block = [b \in BlockNum |-> {}]

WInit == ChainInit /\ SessionInit

Thread(o) == Accept(o) \/ SendWithoutKey(o) \/ Send(o) \/ SendUnheard(o)

SessionNext == Start \/ Poll \/ Gather \/ Exit \/ Die \/ \E o \in Op : Thread(o)

WNext == Produce \/ SessionNext

WSpec == WInit /\ [][WNext]_wVars

-----------------------------------------------------------------------------
(* Properties                                                              *)

\* Type invariant.
WTypeOK ==
  /\ height \in BlockNum
  /\ block \in [BlockNum -> SUBSET Op]
  /\ curr \in 0 .. Last /\ last \in 0 .. Last /\ base \in 0 .. Last
  /\ wpc \in {"off", "poll", "gather", "ended", "killed"}
  /\ \A f \in {heard, waiting, sending, paid, lost} : f \in [Op -> Nat]
  /\ fails \in 0 .. MaxFails

\* The withdrawals acted on are those of the chain: each transfer of a block
\* after the session's first and up to its last has started a thread, no
\* transfer has started a second one unless a round failed among its transfers,
\* and no transfer of an older block, or of no block, has started any. Mavens
\* that hang, answer for another round or lie do not change that.
HeardIsChain ==
  \A o \in Op :
    /\ IF \E b \in (base + 1) .. last : o \in block[b]
       THEN heard[o] \in 1 .. (1 + fails)
       ELSE heard[o] <= fails
    /\ heard[o] > 0 => \E b \in (base + 1) .. height : o \in block[b]

\* A session pays for a withdrawal once, and again only after an answer of the
\* wallet was lost or a round failed among its transfers; it pays only for a
\* transfer that is on the chain, to the issuer and with a valid address. Two
\* sessions at once are the matter of Sessions.
PaidOnce ==
  \A o \in Op :
    paid[o] > 0 => /\ paid[o] <= 1 + lost[o] + fails
                   /\ o \in Confirmed /\ o.memo /\ o.valid
=============================================================================
