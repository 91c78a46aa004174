# Verification of the BitShares gateway

TLA+ models, TLC runs and machine-checked proofs for the gateway under
`src/app`, which exchanges coins of foreign chains (XRP, EOS, LTC, BTC and a
test chain XYZ) for user-issued assets (UIAs) of the BitShares chain.

## The system

`Gateway.py` starts four kinds of processes. They share no memory: they
communicate through JSON files in `pipe/` (`json_ipc`).

| component | state | operations | modelled by |
|---|---|---|---|
| parachain writer, one process per network (`process_parachains.py`, `parachain_*.py`) | the document `pipe/parachain_{network}.txt`: the last `window` blocks, block number -> transfers | boot, poll the height, fetch new blocks, merge, window and write | `Parachain` |
| listener, one thread per deposit or process per withdrawal (`listener_boilerplate.py`, `issue_or_reserve.py`) | checked blocks, the comptroller with its `complete` flag | start at the newest block, scan new blocks, issue or reserve, finish, time out | `Listener` |
| address allocator (`address_allocator.py`) | the list `pipe/{network}_gateway_state.txt` of available addresses | initialise, lock, unlock | `AddressAllocator`, abstract: `AddressPool` |
| deposit server (`process_deposits.py`) | its requests | `on_get`: validate, lock an address, start the listener, answer | `Deposits` |
| withdrawal listener (`process_withdrawals.py`) | maven opinions, the last BitShares block processed | poll block numbers and blocks from several nodes, take the mode, dispatch withdrawals, pay | `Withdrawals`; two of them at once: `Sessions` |
| UIA broker (`signing/bitshares/graphene_auth.py`, `build_transaction.py`, `rpc.py`) | an order, a child process per attempt | up to `ATTEMPTS` children that build, sign and report; login | `Broker`, `Transaction` |
| foreign transfers (`signing_*.py`) | the foreign chain's wallets | send, retry | the payment of a withdrawal in `Withdrawals`; the XYZ transaction file is planned |
| ingots (`process_ingots.py`) | balances of the rotating addresses | send all outputs to the zero address when there are too many | `Deposits` (ltc, btc) |
| watchdog (`watchdog.py`) | `pipe/watchdog.txt`: a timestamp per process | refresh, alert, exit | `Watchdog` |
| text pipe (`ipc_utilities.py`) | files | read, truncate and write, retry | `Pipe`, abstract: `Register`; one step wherever another module uses it |

Interactions: main and every child stamp one file and judge each other by it;
a call of `issue` or `reserve` is a call of the broker, which holds the listener
up; the ingot process pays the address a deposit may be awaited on. A listener reads the document the parachain writer replaces; the
deposit server and the unlock processes read and write one address list; a
listener's end (timeout) releases the address its request locked; a restart
scrubs the documents and marks all addresses available while clients of the
former session may still pay. Main starts its children with `daemon = False`: the
deposits process, which never checks in, and the threads of the withdrawal
listener outlive it, and the next main starts others beside them. Finally a withdrawal pays a client on the foreign chain
and waits for that payment in the same document the deposits are read from.

Hard to test: node answers that are late, stale or errors; the window sliding
past a slow listener; threads interleaving between a read and a write of one
file; payments confirmed after their listener's timeout; restarts beside the
processes of the session before; rounds that fail half way; a writer killed
between emptying and filling a file; stamps lost when two processes rewrite one
file; signing processes that outlive the attempt they belong to. `hazards` in
`PROJECT.json` lists each at its line.

What makes the parts correct:
- writer: the document is a consecutive, faithful window of the chain's latest
  blocks and follows it;
- listener: every confirmed transfer of interest leads to exactly one call of
  the issuer, unless its block is chronicled as missing;
- allocator: an address belongs to one client at a time and comes back;
- deposits: the client who paid is credited, once, and nobody else while he is
  listened for;
- withdrawals: a BitShares transfer is paid out once, on the word of a majority
  of nodes, by one process;
- broker: a login is told the truth whichever child answers, limit orders sell
  no more than there is, and the caller gets control back;
- watchdog: a silent process does not look alive and is reported, and the loops
  that check in end after main;
- pipe: whoever reads a file gets the document written last or nothing, and a
  write is done.

## Modules

`Parachain` models one foreign chain and the process that copies it. `Mine`
and the node answers are external. `Boot`, `Poll`, `FetchBlock`, `WriteDoc` are
the steps of `window_parachain` between its remote calls. The networks differ
in what a fetch may store (`Answers`): ripple asks until it has the ledger;
eosio takes a node's error object for an empty block; ltc and btc replace the
block number by the current height of a node; the xyz test chain may lose a
pending transfer. An RPC error of ltc or btc, or a malformed eos block, kills the
process (`FetchDies`). Block numbers
are strings in the document: the writer takes maximum and window in string
order (`MaxStr`, `LastOf`), the listeners in integer order.

`Listener` extends it with the threads. A turn works on one document it has
read, so it is one step. `calls` counts the calls of `issue` and `reserve`. A
thread that finds no block in the document ends (`StartBlind`, `Starve`). In
`LRestart` the threads end with main or live on. `Heeds` is the decision of `issue_or_reserve`. A transfer carries only what that
decision tells apart: recipient, memo, amount.

`AddressAllocator` splits `lock_address` and `unlock_address_process` into their
read and their write; any of them may overlap. `InitializeAddresses(S)` is the
scrub of a restart that the requests in `S` live through. `raced` is history: the
list has lost an update, that is, somebody has written over a list he had not
read, or it was scrubbed under a lease. `AddressPool` is the abstract pool: acquire
a free address, refuse only when none is left, release, reset. `PoolUntilRaced`
says that every step is one of the pool's as long as `raced` is false.

`Deposits` composes `on_get`, the allocator, the listeners, the parachain of one
network and the ingot process (both modules are extended). Clients pay what they were
told, at most once, at any time, also after the timeout. `Consolidate` is
`ingot_casting`: with more than `MaxUnspent` outputs the wallet is sent to the first
address; an ingot is a transfer from `Gateway` that may be mined once it is
pending. `RestartGateway` is main started again: the deposits process has ended
before (`DepositsDie`) or serves on (`DepositsOutlive`), since
`process_deposits.py:258` does not return to start its watchdog thread and the new
server cannot bind the port.

`Withdrawals` models `withdrawal_listener`, its mavens and `withdraw`, for the
process of one session. What the main loop may find in the mavens' files is a set:
`HeightFiles`, `HonestFiles`, `FaultyFiles`. An honest maven's file is true but may
be old, of an earlier round or of another session; a faulty one (`Faulty`) says
anything. `Mode`, `Enough`, `Believed` are the vote, `Polled` and `Beliefs` the heights
and the versions of the new blocks it may give. `Gather` is a whole round:
`Dispatch` starts the threads and sets `last_block_num`; `DispatchBreaks` is the
round that fails among its transfers, whose threads go on while `last_block_num`
stays (`fails` counts them). A round whose files cannot be read changes nothing.
`Exit` is `sys.exit` of the main thread, which leaves the threads of `withdraw` at
work; `Die` ends the process. `Accept`, `SendWithoutKey`, `Send` and `SendUnheard`
(the wallet pays and its answer is lost) are the steps of a thread. A transfer
carries what `withdraw` tells apart: the network, whether there is a memo, whether
the memo is a valid address. The reserve listener a withdrawal starts is
`Listener`'s.

`Sessions` composes two of them on one chain: the process of a session before,
which main does not end, and that of the session main starts next.

`Pipe` models `json_ipc` on one file. `Open` empties the file and `Write` puts the
text between tags over what is there (`Overlay`); a read takes what is between
the first two tags (`Clip`). `Retry` is the `except` branch: the folder is made at
`REPAIR`, the loop left at `GIVEUP`, by reads and writes alike (`Abandon`). `Kill` ends
a process in a call, and another takes its place (`Respawn`). `Register` is
what the users of the pipe count on; `IsRegister` is the refinement, with the
document written last for the value and an emptied file for blank.

`Watchdog` models `watchdog` and `watchdog_sleep` for main and its workers, with
the read and the write of the file as two steps. Stamps are ages, a tick is ten
seconds, and every process that runs has checked in before the next tick. `Start`
is `Gateway.main`, which may die at any point and be started again beside the
workers of the session before. `WorkerExit` ends a main thread: a worker of
`Threaded` (the withdrawal listener) leaves its `"threads"`. A worker of `Unwatched`
(the deposit server) works and never checks in. `silent`, `races` and `raced` are history.

`Transaction` holds the functions of `build_transaction.py`: which orders raise or
are refused, the scaling of limit orders to the balances (`Share`), the order and
number of the operations. `Broker` is one call of `broker`: `Spawn` and `Join` are
its loop, the other actions the children, each of which runs `execute` with its
own connection. `Shake`, `TryFails` and `GoTo` are `wss_handshake` and `wss_query`.
`Sign` ends a child that has a key, because `verify_transaction` raises for every
transaction with an operation.

`MC*` modules hold the bounded instances.

## Runs

All runs but Pipe have `CHECK_DEADLOCK FALSE`: the foreign chain stops at the bound
`Last`, a gateway with no request left may stop, a call of the broker returns, and
a gateway out of sessions is down.

Passing:

| run | question | bounds |
|---|---|---|
| ListenerXrp | Is the document a consecutive window below the tip (`DocIsRecentRun`) and what the chain has (`DocIsFaithful`)? Is a transfer acted on at most once (`AtMostOnce`), only when confirmed (`OnlyConfirmed`), and is none passed over (`NothingSkipped`)? | a deposit and a withdrawal listener, a right and a wrong memo, heights 1..5, window 3, nodes lag by up to 1, one restart |
| ListenerOutpaced | Does the document follow the chain (`DocCatchesUp`)? What happens to a listener slower than the window? It misses only what the window has left (`MissingIsOutpaced`) and finds everything else (`DetectedOrGone`). | heights 1..6, window 2, dust and a payment, one restart |
| DepositsLtc | As long as the address list loses no update, are leases unique (`UniqueUnlessRaced`), does the list agree with them (`ListMatchesUnlessRaced`), is it a pool (`PoolUntilRaced`)? Who is credited with whose payment (`CreditedToPayer`)? | 2 clients, 1 address, an ingot, late payments, heights 1..4, one restart with the server alive or not |
| DepositsEos | Is no transfer to the shared account issued for twice over all requests and sessions (`IssuedOnce`)? What does the window of strings keep (`KeepsLatestOfAWidth`)? | 2 clients, 2 rejected requests, heights 7..11, window 2, one restart with the server alive or not |
| Withdrawals | Are the withdrawals acted on those of the chain (`HeardIsChain`), and is each paid once (`PaidOnce`)? | 4 mavens, maven 0 faulty, any hanging; an LTC and an XRP withdrawal and a BTC one with an invalid address; heights 1..3, one failed round, one lost answer per withdrawal |
| Pipe | Is a file read as the document written last (`FileIsLast`), is it a register (`IsRegister`), does a write never give up (`NoWriteIsDropped`) and always end (`WritesEnd`), even before there is a folder? | 3 processes, a short and a longer document, the folder made in iteration 1, the loop left in 2 |
| Watchdog | Does a silent process look alive (`SilenceShows`)? Do the loops of orphans end (`OrphansEnd`)? When may a worker be told to exit under a live main (`NoKillWithoutRaces`)? Is a silent child reported (`SilentChildIsReported`)? | the withdrawal listener and the deposit server of one session, the parachain process of the next, stale and repeat after 2 ticks |
| Broker | Is a login answered rightly (`AnswerIsJustified`)? Do limit orders stay within the means (`SoldWithinMeans`)? Does the caller get control back though no node is reached (`BrokerReturns`)? | 3 attempts, joins of one tick, 2 tries per query, at most 3 operations, 12 orders, 2 balances |

One address for two clients is the tightest pool: every lost unlock, early unlock
and late payment concerns the other client. Heights 7 to 11 with a window of 2 put
the digit boundary inside the window, before it and behind it. A faulty maven 0
wins every tie of the vote. Three processes on one file are two writers whose texts overlap and a reader
between them; the longer document leaves a rest behind the shorter one. Workers of two
sessions are the smallest instance in which an orphan overwrites the file. With three attempts a child of the first is still running
when the last one reports.

A window of 2 and heights up to 6 let the window drop blocks, a listener fall
behind it and a poll bring several blocks at once; one lagging block puts the
reported height below, at and above the newest stored block.

Violations, each a disagreement between the code and its own words:

| run | what it shows |
|---|---|
| ParachainDigits | from block 9 to 10 the window of sorted strings keeps an older block and drops newer ones, though its comment says "the latest blocks only" |
| AllocatorRace | two overlapping requests get the same address |
| DepositsTwice | one LTC deposit is issued for twice: `get_block` replaces the number it is asked for by the node's height, so a batch holds the newest block several times |
| PaidTwice | main is started again while the withdrawal process of the session before is at work: both hear a withdrawal and both pay, though `watchdog.py:22` says that all children are killed with main |

Further divergences visible in the definitions, with no run of their own:

- `EosAnswers`: an error object becomes an empty block.
- `IssuedIsDeposited` fails also with ingots among the transfers: a listener on
  the first address issues UIA to its client for the gateway's own ingot.
- A payment confirmed after its listener's timeout is credited to the next client
  of the address: one of the two exceptions of `CreditedToPayer`.
- `DepositsOutlive`: a restart offers again the addresses on which a surviving
  deposits process still listens.
- A completed deposit never gives its address back: `Finish` starts no unlock
  process, only `GiveUp` does.
- `SendWithoutKey`: an accepted EOS or XRP withdrawal is never paid, its key is
  removed from the order when the event is chronicled.
- `FetchDies`: an RPC error ends the ltc or btc writer, a malformed block that of
  eos, so its document stops.
- `Recognised`: every XRP deposit request is answered as invalid.
- `Passing`: the gateway's own XRP payments have no destination tag, so a
  reserve listener never hears them.
- `SendUnheard`: an LTC or BTC payment whose answer is lost is made again.
  `DispatchBreaks`: threads are started before `last_block_num` is set, so a round
  that fails between starts them again. `PaidOnce` counts both.
- `HeightFiles`: the range test of `block_num_maven` rejects no height.
- `Sign`: nothing is broadcast. `Operation` reads a name `op` that is not defined
  (`graphene_signing.py:594`), and the order that `issue` and `reserve` build lacks
  the `client_order_id` that `execute` asks for (`graphene_auth.py:148`). `calls` of
  `Listener` counts calls of them, not what they achieve.
- `Join` does not terminate a child, although `graphene_auth.py:109` says
  "terminate and respawn"; a child that reaches no node runs on for ever.
- `GoTo`: `wss_query` reconnects in its own variable, so after one failure the
  caller's connection stays closed and each later query loses its first try.
- `Raises`: a limit order that spends BTS ends in a `NameError` in `save_core_fees`;
  `graphenize_cancel` is called with its arguments out of order; an order to
  cancel ends at the undefined `peerplays_trustless_client` (`Begin`).
- The watchdog thread of the deposits is never started (`process_deposits.py:258`),
  and the parachain processes of all networks share one entry, so a dead one is
  masked by a live one.

## Fairness

`PFairSpec`: while main lives and stamps the watchdog file, the writer's loop has
no exit but the death of its process, and its remote calls are retried until a node
answers, so each of its steps is eventually taken. (Without main's stamp
`watchdog_sleep` ends the writer; what the document does then is no question of
these runs.) `LFairSpec`
adds that a listening thread keeps taking turns; it may or may not find its
timeout elapsed. `PipeFairSpec`: a call of `json_ipc` runs on once it is entered;
nobody has to call, and a killed process leaves the call. `WatchdogFairSpec`: main
and the workers that are due to check in do so, and time passes; a worker may
hang for ever and main may die. `BFairSpec`: the caller of `broker` runs and time
passes; nothing is asked of the children or the nodes, and that is what
`BrokerReturns` is about. Nothing is assumed of the chain, of mavens, of clients,
of process death or of restarts.

## Proofs

TLAPS proves these for all values of the constants.

`Parachain_proofs`: `PTypeOKThm`, `KeepsLatestOfAWidthThm` and `StoredIsMinedThm` need
no assumption: at any digit boundary the state is well typed, the slice of strings
keeps the later of two blocks whose numbers have as many digits, and every stored
transfer is on the chain. The rest assumes `SameWidth`, that the order of the heights
is that of their texts (ParachainDigits shows what happens otherwise).
`SameDigitsSameWidth` shows that equal numbers of digits of `First` and `Last` are
enough. It rests on the digits of a numeral (`NumeralFacts`, `NumeralOrder`), by a
strong induction of its own on a set of numbers, since the library's induction takes
an operator. Under `SameWidth`: `DocIsRecentRunThm` for every network,
`DocIsFaithfulThm` for xrp, and `NothingInventedThm` for every network whose blocks
are asked for by number (`Numbered`: all but ltc and btc): a block of the document
may lack transfers but has none of another. The inductive invariant `PInv` adds to
the type invariant and `DocIsRecentRun` that the writer holds nothing when it boots
(`BootIsClean`) or sleeps (`SleepIsQuiet`), and that while it fetches, the wanted and
fetched blocks together continue the document up to below the tip
(`FetchContinuesDoc`).

`Listener_proofs`: `ListenersOnlyRead`, `LTypeOKThm`, `OnlyHeededThm` (a listener has
called only for transfers that it still heeds) and `OnlyMinedThm` (and that are on the
chain) need no assumption; the first makes the theorems of the parachain carry over.
`MissingIsOutpacedThm` assumes `SameWidth`; `AtMostOnceThm` and `OnlyConfirmedThm`
assume `Numbered` besides (DepositsTwice is what ltc does), and `NothingSkippedThm`
assumes xrp, since the other networks' answers may leave transfers out. `LInv` relates
the cursor to the document and to the calls: what has been called lies in a block the
cursor has passed, and a transfer is in one block only.

`AddressAllocator_proofs` assumes nothing of how accesses overlap nor of what outlives
a restart. `ATypeOKThm` is the type invariant. `UniqueUnlessRacedThm`,
`ListMatchesUnlessRacedThm` and `PoolUntilRacedThm` say what holds until the list has
lost an update; AllocatorRace shows what happens then. The invariant `AInv` is that
the list matches the leases and leases differ as long as `raced` is false: a write
that leaves it false has been made from a copy that is the list (`CurrentCopy`).

`Deposits_proofs` composes by refinement. `DepositsListen`: the composition's
threads are a `Listener`, for every constant. `DepositsAllocate`: with rotating
addresses its requests are an `AddressAllocator`, and so, `DepositsPool`, an
`AddressPool` up to the first lost update. For these `DInv` keeps the allocator's type
invariant and `Linked`, which ties the threads to it (who listens has the lease of the
address it listens to). `CreditedToPayerThm` joins three facts: a payment went to the
address its payer was told (`Paid`), a payer whose listener is not over still has the
lease of it (`PayerHolds`), and leases differ unless `raced`. On the account eos and
xrp share it assumes `IdsDiffer` instead (memos differ; the code draws them at random).
`IssuesOnce` assumes `SingleAccount`, `SameWidth` and `IdsDiffer` and follows from
`DepositsListen`, `LInv` and `OnlyHeeded`: what was issued carries the client's memo.

`Withdrawals_proofs`: `WTypeOKThm` needs no assumption. `HeardIsChainThm` and
`PaidOnceThm` assume `Minority`, that fewer than half of the `BLOCK_MAVENS - 1` opinions
a vote needs are of faulty mavens, whoever they are. `ModeOfMajority` is the heart: a
version that more than half report is the mode, and among `BLOCK_MAVENS - 1` opinions
the honest ones are that many (`BelievedIsChain`). The heights need no majority: `WInv`
shows that a height ahead of the chain may start a session (`last = base`) but no vote
beyond the chain succeeds, and that a round that fails starts each transfer at most
once more (`DispatchBreaksInv`). `OwedIsHeard` carries this through the threads: what
is waiting, sent or paid was heard, or asked for again after a lost answer.

`Pipe_proofs`: `PipeType`, `PipeReadsLast` and `PipeIsRegister` hold for any number of
processes and any documents without the tag in them. The invariant `PInv` adds to
the type invariant that a file that is not empty starts with the text written
last (`StartsWith`): a text laid over a longer file has its two tags in front of
the rest (`OverlayStarts`), and only they are looked at (`ClipReadsText`). `PipeDropsNoWrite`: while there
is no folder a write has failed at most `REPAIR` times, since the next failure makes it.

`Watchdog_proofs`: `WatchdogType` and `SilenceIsShown` rest on `SInv`: no stamp
that says alive is newer than the last check-in behind it, in the file and in
every copy a process holds between its read and its write (`AllHonest`), so that
a late write cannot make a silent process look alive. `OrphansDoEnd` assumes
`BootInTime` (`BOOT <= STALE`), that main reaches its loop before its first stamp
is stale; it is about the loops that check in, not about what `Threaded` and
`Unwatched` leave at work. `ExitsNeedRaces` assumes nothing: `AgeIsLost` bounds the
age of main's stamp by the check-ins lost in a row and the ticks main has booted.

`Broker_proofs`: `BrokerType` and `BrokerAnswer` hold for any number of attempts
and tries, any timeout and any orders. `BInv` adds that `signal` is set by children that have
reported (`Signalled`), that a positive judgement is in `auth` before its child
reports (`Judged`), that a child with a right login never dies unjudged
(`RightIsJudged`), and that the broker gives up only after every child was joined
(`Joined`, `LeftForAReason`). `BuiltOfOneAnswer`: the operations of each child are
those of the order and of one answer of the node. From it `BrokerWithinMeans`
proves `SoldWithinMeans` for any edicts and balances, assuming only that an order's
asset is not its currency: the shares of edicts that ask for too much are each
rounded down, so that their sum is at most the balance (`SharesWithin`,
`OperationsWithin`). The sums are a recursive function (`Sums`), whose values the
provers reach by an induction up to the length of the sequence (`CountUp`).

Only model-checked: liveness (`DocCatchesUp`, `DetectedOrGone`, `WritesEnd`,
`SilentChildIsReported`, `BrokerReturns`), which is out of the prover's reach. `AtMostOnce`
and `OnlyConfirmed` are not proved on ltc and btc, nor `NothingSkipped` on any network
but xrp: the answers of the other nodes may repeat or leave out transfers. That two
sessions pay twice is PaidTwice's; nothing is proved of them together.

## Not modelled

Elliptic-curve signatures and byte serialisation, the SQL archive and its
explorer, appended files (`chronicle`), terminal art and development scripts, the vendored web server
(`wsgiserver.py`; its threads are the concurrent requests of `Deposits`) and
SDKs. Chain reorganisations on ltc and btc are not modelled yet. Of the
withdrawal listener, the display of other operations and the demo's menu are left
out, and the unit test's trigger (`process_withdrawals.py:637-650`), by which a test
dispatches an operation that is on no chain: with it `HeardIsChain` is about the other
operations. The parachain writer of a session before is taken to have ended before
main is started again; within `watchdog_stale` both may write one document. In `Pipe` a text is written in one call and
read in one call, and only a missing folder keeps a file from being opened; what main
does when the watchdog file cannot be read is left out, as is the `deposit_id` counter,
which only labels records. Of the ingots the
XRP branch is left out, and the amounts of the wallet. `Broker` leaves out fees
and header data, which no decision reads, and the arithmetic of decimals.

## Plan

1. `Settlement`: `Withdrawals` composed with `Listener` for the reserve, and
   with `Broker` for what a call of `issue` or `reserve` achieves; equal
   withdrawals of one client; two parachain writers at once.
2. `XyzChain`: the transaction file of the test chain and its writers.
3. Reorganisations of ltc and btc, whose blocks are read at the tip.
4. Proofs: that each process of `Sessions` implements `Withdrawals`, so that `PaidOnce`
   carries over to each; that `Settlement` implements its parts, as `Deposits` does; on eos and
   xyz, which transfers a listener may skip.
