---------------------------- MODULE Broker_proofs ----------------------------
(***************************************************************************)
(* Proofs about Broker, for any number of attempts and tries, any timeout, *)
(* any orders and any balances the nodes report. What a login is told      *)
(* rests on BInv: whoever set signal has judged the login, and a positive  *)
(* judgement is in auth before signal says that it is there.               *)
(* That a transaction sells within the means rests on sums: scaled to the  *)
(* funds and rounded down one by one, the edicts of a kind spend no more   *)
(* than the funds all together, and the operations of the transaction are  *)
(* such edicts, others that sell nothing, or dropped beyond LIMIT.         *)
(***************************************************************************)
EXTENDS Broker, WellFoundedInduction, TLAPS

\* The broker joins the child it has started last; those it has not started do
\* nothing; those it has joined are over, or their time was.
Joined ==
  /\ bpc = "join" => iteration \in Attempt
  /\ \A k \in Attempt : k > iteration => cpc[k] = "none"
  /\ \A k \in Attempt :
       k <= iteration /\ ~(bpc = "join" /\ k = iteration) => k \in expired \/ Over(k)

\* signal is set by the children that have reported.
Signalled == signal <=> \E k \in Attempt : cpc[k] = "done"

\* A child judges once, and auth holds every positive judgement. Only the login
\* of a key asks for key references.
Judged ==
  /\ \A k \in Attempt : verdict[k] # "none" => cpc[k] \in {"report", "done"}
  /\ \A k \in Attempt : verdict[k] = "yes" => auth
  /\ \A k \in Attempt : cpc[k] = "key" => First(order) = "login" /\ order.key
  /\ auth => Right(order)

\* A child with a right login judges before it reports and never dies.
RightIsJudged ==
  Right(order) => \A k \in Attempt :
    /\ cpc[k] \in {"none", "begin", "key", "report", "done"}
    /\ cpc[k] \in {"report", "done"} => verdict[k] # "none"

Refused == (\E k \in Attempt : verdict[k] = "no") \/ expired = Attempt

\* Once no attempt is left a right login is known, refused, or out of time.
LeftForAReason ==
  /\ bpc # "returned" => ~answer
  /\ answer => auth
  /\ bpc = "leave" /\ Right(order) /\ ~auth => Refused
  /\ bpc = "returned" /\ Right(order) /\ ~answer => Refused

BInv ==
  BTypeOK /\ Joined /\ Signalled /\ Judged /\ RightIsJudged /\ LeftForAReason

-----------------------------------------------------------------------------
LEMMA BInitInv == BInit => BInv
<1> SUFFICES ASSUME BInit PROVE BInv
  OBVIOUS
<1> USE BrokerAssumption DEF BInit
<1>1. BTypeOK
  <2>1. /\ order \in Orders /\ iteration \in 0 .. ATTEMPTS /\ age \in 0 .. PROCESS_TIMEOUT
        /\ bpc \in {"loop", "join", "leave", "returned"} /\ expired \subseteq Attempt
    OBVIOUS
  <2>2. signal \in BOOLEAN /\ auth \in BOOLEAN /\ answer \in BOOLEAN
    OBVIOUS
  <2>3. /\ cpc \in [Attempt -> {"none", "begin", "key", "block", "fees", "balances",
                                "hex", "report", "done", "dead"}]
        /\ link \in [Attempt -> BOOLEAN] /\ stale \in [Attempt -> BOOLEAN]
        /\ tries \in [Attempt -> 0 .. QUERIES]
        /\ verdict \in [Attempt -> {"none", "yes", "no"}]
    OBVIOUS
  <2> QED BY <2>1, <2>2, <2>3 DEF BTypeOK
<1>2. Joined
  BY DEF Joined, Attempt
<1>3. Signalled /\ Judged /\ RightIsJudged /\ LeftForAReason
  BY DEF Signalled, Judged, RightIsJudged, LeftForAReason
<1> QED BY <1>1, <1>2, <1>3 DEF BInv

-----------------------------------------------------------------------------
(* broker                                                                  *)

LEMMA SpawnInv == BInv /\ Spawn => BInv'
<1> SUFFICES ASSUME BInv, Spawn PROVE BInv'
  OBVIOUS
<1> USE DEF BInv, Spawn, net, built
<1>1. CASE iteration < ATTEMPTS /\ ~signal
  <2>1. iteration + 1 \in Attempt /\ iteration \in Nat
    BY <1>1, BrokerAssumption DEF BTypeOK, Attempt
  <2>2. BTypeOK'
    <3>1. age' \in 0 .. PROCESS_TIMEOUT /\ iteration' \in 0 .. ATTEMPTS
      BY <1>1, BrokerAssumption DEF BTypeOK
    <3> QED BY <1>1, <2>1, <3>1 DEF BTypeOK
  <2>3. Joined'
    BY <1>1, <2>1, BrokerAssumption DEF Joined, BTypeOK, Attempt, Over
  <2>4. cpc[iteration + 1] = "none"
    BY <2>1 DEF Joined
  <2>5. Signalled' /\ Judged' /\ RightIsJudged'
    BY <1>1, <2>1, <2>4 DEF BTypeOK, Signalled, Judged, RightIsJudged, Right
  <2>6. LeftForAReason'
    BY <1>1 DEF LeftForAReason, Refused
  <2> QED BY <2>2, <2>3, <2>5, <2>6
<1>2. CASE ~(iteration < ATTEMPTS /\ ~signal)
  <2>1. bpc = "loop" /\ bpc' = "leave"
        /\ UNCHANGED <<order, expired, answer, signal, auth, net, verdict, built,
                       iteration, age, cpc>>
    BY <1>2
  <2>2. BTypeOK' /\ Signalled' /\ Judged' /\ RightIsJudged'
    BY <2>1 DEF BTypeOK, Signalled, Judged, RightIsJudged, Right
  <2>3. Joined'
    BY <2>1 DEF Joined, Over
  <2>4. ASSUME Right(order), ~auth PROVE Refused
    <3>1. CASE signal
      BY <3>1, <2>4 DEF Signalled, Judged, RightIsJudged, Refused, BTypeOK
    <3>2. CASE ~signal
      <4>1. iteration = ATTEMPTS
        BY <3>2, <1>2, BrokerAssumption DEF BTypeOK
      <4>2. \A k \in Attempt : k \in expired
        BY <4>1, <3>2, <2>1, <2>4, BrokerAssumption
        DEF Joined, Over, Signalled, RightIsJudged, Attempt
      <4> QED BY <4>2 DEF BTypeOK, Refused
    <3> QED BY <3>1, <3>2
  <2>5. LeftForAReason'
    BY <2>1, <2>4 DEF LeftForAReason, Refused, Right
  <2> QED BY <2>2, <2>3, <2>5
<1> QED BY <1>1, <1>2

LEMMA JoinInv == BInv /\ Join => BInv'
<1> SUFFICES ASSUME BInv, Join PROVE BInv'
  OBVIOUS
<1> USE DEF BInv, Join, child, net, built
<1>1. iteration \in Attempt
  BY DEF Joined
<1>2. BTypeOK'
  BY <1>1 DEF BTypeOK
<1>3. Joined'
  BY <1>1 DEF Joined, Over, BTypeOK
<1>4. Signalled' /\ Judged' /\ RightIsJudged' /\ LeftForAReason'
  BY DEF Signalled, Judged, RightIsJudged, LeftForAReason, Refused, Right
<1> QED BY <1>2, <1>3, <1>4

LEMMA ReturnInv == BInv /\ Return => BInv'
<1> SUFFICES ASSUME BInv, Return PROVE BInv'
  OBVIOUS
<1> USE DEF BInv, Return, child, net, built
<1>1. BTypeOK'
  BY DEF BTypeOK
<1>2. Joined'
  BY DEF Joined, Over
<1>3. Signalled' /\ Judged' /\ RightIsJudged' /\ LeftForAReason'
  BY DEF Signalled, Judged, RightIsJudged, LeftForAReason, Refused, Right
<1> QED BY <1>1, <1>2, <1>3

LEMMA TickInv == BInv /\ Tick => BInv'
<1> SUFFICES ASSUME BInv, Tick PROVE BInv'
  OBVIOUS
<1> USE DEF BInv, Tick, child, net, built
<1>1. BTypeOK'
  BY BrokerAssumption DEF BTypeOK
<1>2. Joined' /\ Signalled' /\ Judged' /\ RightIsJudged' /\ LeftForAReason'
  BY DEF Joined, Over, Signalled, Judged, RightIsJudged, LeftForAReason, Refused, Right
<1> QED BY <1>1, <1>2

-----------------------------------------------------------------------------
(* execute                                                                 *)

\* The queries of a child and what is typed of its connection.
LinkOK ==
  /\ link \in [Attempt -> BOOLEAN] /\ stale \in [Attempt -> BOOLEAN]
  /\ tries \in [Attempt -> 0 .. QUERIES]

\* A step of a child that leaves signal, auth and the judgements alone, from one
\* of the states in which it is neither over nor about to report, and, if it asks
\* for key references or reports, does what a login does.
Quietly(k) ==
  /\ cpc[k] \notin {"none", "report", "done", "dead"}
  /\ \E next \in {"begin", "key", "block", "fees", "balances", "hex", "report", "dead"} :
       /\ cpc' = [cpc EXCEPT ![k] = next]
       /\ next = "key" => First(order) = "login" /\ order.key
       /\ Right(order) => next \in {"begin", "key"}
  /\ LinkOK'
  /\ UNCHANGED <<caller, signal, auth, verdict>>

LEMMA QuietInv == ASSUME NEW k \in Attempt, BInv, Quietly(k) PROVE BInv'
<1> USE DEF BInv
<1>1. PICK next \in {"begin", "key", "block", "fees", "balances", "hex", "report", "dead"} :
        /\ cpc' = [cpc EXCEPT ![k] = next]
        /\ next = "key" => First(order) = "login" /\ order.key
        /\ Right(order) => next \in {"begin", "key"}
  BY DEF Quietly
<1>2. /\ cpc[k] \notin {"none", "report", "done", "dead"} /\ LinkOK'
      /\ UNCHANGED <<order, iteration, bpc, age, expired, answer, signal, auth, verdict>>
  BY DEF Quietly, caller
<1>3. BTypeOK'
  BY <1>1, <1>2 DEF BTypeOK, LinkOK
<1>4. Joined'
  BY <1>1, <1>2 DEF Joined, Over, BTypeOK
<1>5. Signalled'
  BY <1>1, <1>2 DEF Signalled, BTypeOK
<1>6. Judged'
  BY <1>1, <1>2 DEF Judged, BTypeOK, Right, First
<1>7. RightIsJudged'
  BY <1>1, <1>2 DEF RightIsJudged, BTypeOK, Right, First
<1>8. LeftForAReason'
  BY <1>2 DEF LeftForAReason, Refused, Right, First
<1> QED BY <1>3, <1>4, <1>5, <1>6, <1>7, <1>8

LEMMA GoToLinks ==
  ASSUME LinkOK, NEW k \in Attempt, NEW next, GoTo(k, next)
  PROVE  LinkOK' /\ cpc' = [cpc EXCEPT ![k] = next]
BY BrokerAssumption DEF LinkOK, GoTo

\* A step in which a child judges a login, when it was able to: yes only for the
\* account's own key, and then auth is set.
Judges(k) ==
  /\ First(order) = "login"
  /\ cpc[k] \in {"begin", "key"}
  /\ cpc' = [cpc EXCEPT ![k] = "report"]
  /\ \/ verdict' = [verdict EXCEPT ![k] = "yes"] /\ auth' = TRUE /\ Right(order)
     \/ verdict' = [verdict EXCEPT ![k] = "no"] /\ auth' = auth
  /\ UNCHANGED <<caller, signal, net>>

LEMMA JudgeInv == ASSUME NEW k \in Attempt, BInv, Judges(k) PROVE BInv'
<1> USE DEF BInv
<1>1. /\ First(order) = "login" /\ cpc[k] \in {"begin", "key"}
      /\ cpc' = [cpc EXCEPT ![k] = "report"]
      /\ UNCHANGED <<order, iteration, bpc, age, expired, answer, signal, link, stale, tries>>
      /\ \/ verdict' = [verdict EXCEPT ![k] = "yes"] /\ auth' = TRUE /\ Right(order)
         \/ verdict' = [verdict EXCEPT ![k] = "no"] /\ auth' = auth
  BY DEF Judges, caller, net
<1>2. BTypeOK'
  BY <1>1 DEF BTypeOK
<1>3. Joined'
  BY <1>1 DEF Joined, Over, BTypeOK
<1>4. Signalled'
  BY <1>1 DEF Signalled, BTypeOK
<1>5. Judged'
  BY <1>1 DEF Judged, BTypeOK, Right, First
<1>6. RightIsJudged'
  BY <1>1 DEF RightIsJudged, BTypeOK, Right, First
<1>7. LeftForAReason'
  <2>1. Refused => Refused'
    BY <1>1 DEF Refused, Judged, BTypeOK
  <2>2. auth => auth'
    BY <1>1
  <2> QED BY <1>1, <2>1, <2>2 DEF LeftForAReason, Right, First
<1> QED BY <1>2, <1>3, <1>4, <1>5, <1>6, <1>7

LEMMA ReportInv == ASSUME NEW k \in Attempt, BInv, Report(k) PROVE BInv'
<1> USE DEF BInv, Report, caller, net, built
<1>1. BTypeOK'
  BY DEF BTypeOK
<1>2. Joined'
  BY DEF Joined, Over, BTypeOK
<1>3. Signalled' /\ Judged' /\ RightIsJudged'
  BY DEF Signalled, Judged, RightIsJudged, BTypeOK, Right, First
<1>4. LeftForAReason'
  BY DEF LeftForAReason, Refused, Right, First
<1> QED BY <1>1, <1>2, <1>3, <1>4

LEMMA ShakeInv == ASSUME NEW k \in Attempt, BInv, Shake(k) PROVE BInv'
<1>1. LinkOK'
  BY DEF Shake, BInv, BTypeOK, LinkOK
<1>2. cpc[k] \in {"begin", "key", "block", "fees", "balances", "hex"}
  BY DEF Shake, BInv, BTypeOK
<1>3. cpc' = [cpc EXCEPT ![k] = cpc[k]]
  BY DEF Shake, BInv, BTypeOK
<1>4. Quietly(k)
  BY <1>1, <1>2, <1>3 DEF Quietly, Shake, BInv, Judged, RightIsJudged
<1> QED BY <1>4, QuietInv

LEMMA TryFailsInv == ASSUME NEW k \in Attempt, BInv, TryFails(k) PROVE BInv'
<1>1. LinkOK'
  BY BrokerAssumption DEF TryFails, BInv, BTypeOK, LinkOK
<1>2. cpc[k] \in {"key", "block", "fees", "balances", "hex"}
  BY DEF TryFails, Asking
<1>3. cpc' = [cpc EXCEPT ![k] = cpc[k]]
  BY DEF TryFails, BInv, BTypeOK
<1>4. Quietly(k)
  BY <1>1, <1>2, <1>3 DEF Quietly, TryFails, BInv, Judged, RightIsJudged
<1> QED BY <1>4, QuietInv

LEMMA NoUseInv == ASSUME NEW k \in Attempt, BInv, NoUse(k) PROVE BInv'
<1>1. cpc[k] \in {"key", "block", "fees", "balances", "hex"}
  BY DEF NoUse, Asking
<1>2. CASE cpc[k] = "key"
  <2>1. Judges(k)
    BY <1>2 DEF NoUse, Judges, BInv, Judged
  <2> QED BY <2>1, JudgeInv
<1>3. CASE cpc[k] # "key"
  <2>1. LinkOK'
    BY DEF NoUse, net, BInv, BTypeOK, LinkOK
  <2>2. verdict' = verdict /\ cpc' = [cpc EXCEPT ![k] = "dead"]
    BY <1>3 DEF NoUse, BInv, BTypeOK
  <2>3. Quietly(k)
    BY <1>1, <1>3, <2>1, <2>2 DEF Quietly, NoUse, BInv, RightIsJudged
  <2> QED BY <2>3, QuietInv
<1> QED BY <1>2, <1>3

LEMMA BeginInv == ASSUME NEW k \in Attempt, BInv, Begin(k) PROVE BInv'
<1> USE DEF BInv
<1>1. cpc[k] = "begin" /\ LinkOK /\ UNCHANGED <<caller, signal, auth>>
  BY DEF Begin, BTypeOK, LinkOK
<1>2. CASE First(order) = "login" /\ order.key /\ GoTo(k, "key") /\ UNCHANGED verdict
  <2>1. Quietly(k)
    BY <1>1, <1>2, GoToLinks DEF Quietly
  <2> QED BY <2>1, QuietInv
<1>3. CASE /\ First(order) = "login"
           /\ cpc' = [cpc EXCEPT ![k] = "report"]
           /\ verdict' = [verdict EXCEPT ![k] = "no"]
           /\ UNCHANGED net
  <2>1. Judges(k)
    BY <1>1, <1>3 DEF Judges
  <2> QED BY <2>1, JudgeInv
<1>4. CASE /\ First(order) # "login"
           /\ \/ cpc' = [cpc EXCEPT ![k] = "report"] /\ UNCHANGED net
              \/ GoTo(k, "block")
           /\ UNCHANGED verdict
  <2>1. Quietly(k)
    BY <1>1, <1>4, GoToLinks DEF Quietly, LinkOK, net, Right
  <2> QED BY <2>1, QuietInv
<1> QED BY <1>2, <1>3, <1>4 DEF Begin, CurrencyMissing, Limits, First

LEMMA TestKeyInv == ASSUME NEW k \in Attempt, BInv, TestKey(k) PROVE BInv'
<1>1. cpc[k] = "key" /\ First(order) = "login" /\ order.key
  BY DEF TestKey, Answered, BInv, Judged
<1>2. CASE Matches
  <2>1. Judges(k)
    BY <1>1, <1>2 DEF Judges, TestKey, Matches, Right
  <2> QED BY <2>1, JudgeInv
<1>3. CASE ~Matches
  <2>1. auth' = auth
    BY <1>3 DEF TestKey, BInv, BTypeOK
  <2>2. Judges(k)
    BY <1>1, <1>3, <2>1 DEF Judges, TestKey
  <2> QED BY <2>2, JudgeInv
<1> QED BY <1>2, <1>3

\* The steps of a child that builds a transaction; its order is not a login.
LEMMA BuildInv ==
  ASSUME NEW k \in Attempt, BInv,
         cpc[k] \in {"block", "fees", "balances", "hex"},
         NEW next \in {"fees", "balances", "hex", "report", "dead"},
         GoTo(k, next) \/ (cpc' = [cpc EXCEPT ![k] = next] /\ UNCHANGED net),
         UNCHANGED <<caller, signal, auth, verdict>>
  PROVE  BInv'
<1>1. LinkOK /\ ~Right(order)
  BY DEF BInv, BTypeOK, LinkOK, RightIsJudged
<1>2. cpc' = [cpc EXCEPT ![k] = next] /\ LinkOK'
  BY <1>1, GoToLinks DEF LinkOK, net
<1>3. Quietly(k)
  BY <1>1, <1>2 DEF Quietly
<1> QED BY <1>3, QuietInv

LEMMA BuildersInv ==
  ASSUME NEW k \in Attempt, BInv,
         GotBlock(k) \/ GotFees(k) \/ GotBalances(k) \/ Sign(k)
  PROVE  BInv'
<1>1. ASSUME NEW f, Compose(k, f),
             cpc[k] \in {"block", "fees", "balances", "hex"},
             UNCHANGED <<caller, signal, auth, verdict>>
      PROVE  BInv'
  <2>1. GoTo(k, "hex") \/ (cpc' = [cpc EXCEPT ![k] = "report"] /\ UNCHANGED net)
    BY <1>1 DEF Compose
  <2> QED BY <1>1, <2>1, BuildInv
<1>2. CASE GotBlock(k)
  <2>1. cpc[k] = "block" /\ GoTo(k, "fees") /\ UNCHANGED <<caller, signal, auth, verdict>>
    BY <1>2 DEF GotBlock, Answered
  <2> QED BY <2>1, BuildInv
<1>3. CASE GotFees(k)
  <2>1. /\ cpc[k] = "fees" /\ UNCHANGED <<caller, signal, auth, verdict>>
        /\ \/ cpc' = [cpc EXCEPT ![k] = "dead"] /\ UNCHANGED net
           \/ GoTo(k, "balances")
           \/ Compose(k, funds[k])
    BY <1>3 DEF GotFees, Answered
  <2> QED BY <2>1, <1>1, BuildInv
<1>4. CASE GotBalances(k)
  <2>1. /\ cpc[k] = "balances" /\ UNCHANGED <<caller, signal, auth, verdict>>
        /\ \/ cpc' = [cpc EXCEPT ![k] = "dead"] /\ UNCHANGED net
           \/ \E f \in Funds : Compose(k, f)
    BY <1>4 DEF GotBalances, Answered
  <2> QED BY <2>1, <1>1, BuildInv
<1>5. CASE Sign(k)
  <2>1. /\ cpc[k] = "hex" /\ UNCHANGED <<caller, signal, auth, verdict, net>>
        /\ \E next \in {"dead", "report"} : cpc' = [cpc EXCEPT ![k] = next]
    BY <1>5 DEF Sign, Answered
  <2> QED BY <2>1, BuildInv
<1> QED BY <1>2, <1>3, <1>4, <1>5

-----------------------------------------------------------------------------
LEMMA BNextInv == BInv /\ [BNext]_bVars => BInv'
<1> SUFFICES ASSUME BInv, [BNext]_bVars PROVE BInv'
  OBVIOUS
<1>1. CASE broker
  BY <1>1, SpawnInv, JoinInv, ReturnInv DEF broker
<1>2. CASE Tick
  BY <1>2, TickInv
<1>3. ASSUME NEW k \in Attempt, execute(k) PROVE BInv'
  BY <1>3, ShakeInv, TryFailsInv, NoUseInv, BeginInv, TestKeyInv, BuildersInv, ReportInv
  DEF execute
<1>4. CASE UNCHANGED bVars
  BY <1>4 DEF bVars, caller, child, net, built, BInv, BTypeOK, Joined, Over, Signalled,
              Judged, RightIsJudged, LeftForAReason, Refused, Right, First
<1> QED BY <1>1, <1>2, <1>3, <1>4 DEF BNext

\* Every behaviour of a call of broker keeps the invariant.
THEOREM BrokerInvariant == BSpec => []BInv
<1> QED BY BInitInv, BNextInv, PTL DEF BSpec

\* The types of the state of a call of broker.
THEOREM BrokerType == BSpec => []BTypeOK
<1>1. BInv => BTypeOK BY DEF BInv
<1> QED BY <1>1, BrokerInvariant, PTL

LEMMA InvJustified == BInv => AnswerIsJustified
BY DEF BInv, LeftForAReason, Judged, Refused, AnswerIsJustified

\* broker answers TRUE only to a right login, and FALSE to one only if a node
\* refused it or every attempt ran out of time.
THEOREM BrokerAnswer == BSpec => []AnswerIsJustified
<1> QED BY InvJustified, BrokerInvariant, PTL

-----------------------------------------------------------------------------
(* Sums and sorted edicts                                                  *)

\* Induction up to a natural number.
LEMMA CountUp ==
  ASSUME NEW L \in Nat, NEW S, 0 \in S, \A n \in 0 .. L - 1 : n \in S => n + 1 \in S
  PROVE  L \in S
<1> DEFINE R == OpToRel(<, Nat)
           T == {n \in Nat : n <= L /\ n \notin S}
<1>1. SUFFICES ASSUME L \in T PROVE FALSE
  OBVIOUS
<1>2. T \subseteq Nat /\ T # {}
  BY <1>1
<1>3. PICK a \in T : \A b \in T : <<b, a>> \notin R
  <2> HIDE DEF T, R
  <2>1. IsWellFoundedOn(R, Nat)
    BY NatLessThanWellFounded DEF R
  <2> QED BY <1>2, <2>1, WFMin
<1>4. \A b \in T : <<b, a>> \in R <=> b < a
  BY DEF OpToRel
<1>5. a # 0 /\ a \in Nat /\ a <= L
  OBVIOUS
<1>6. a - 1 \in 0 .. L - 1 /\ a - 1 < a /\ (a - 1) + 1 = a
  BY <1>5
<1>7. a - 1 \in S
  <2>1. a - 1 \in Nat /\ a - 1 <= L
    BY <1>6
  <2>2. a - 1 \notin T
    BY <1>3, <1>4, <1>6
  <2> QED BY <2>1, <2>2
<1> QED BY <1>6, <1>7

\* What the recursion of Sums defines.
LEMMA SumsStep ==
  ASSUME NEW s \in Seq(Nat)
  PROVE  /\ Sums(s) \in [0 .. Len(s) -> Nat]
         /\ Sums(s)[0] = 0
         /\ \A n \in 1 .. Len(s) : Sums(s)[n] = Sums(s)[n - 1] + s[n]
<1> DEFINE L == Len(s)
           Sum(f, n) == /\ f \in [0 .. n -> Nat] /\ f[0] = 0
                        /\ \A i \in 1 .. n : f[i] = f[i - 1] + s[i]
           S == {n \in Nat : \E f : Sum(f, n)}
<1>1. L \in Nat /\ \A i \in 1 .. L : s[i] \in Nat
  OBVIOUS
<1> HIDE DEF L
<1>2. 0 \in S
  <2>1. Sum([i \in 0 .. 0 |-> 0], 0)
    OBVIOUS
  <2> QED BY <2>1
<1>3. ASSUME NEW n \in 0 .. L - 1, n \in S PROVE n + 1 \in S
  <2>1. PICK f : Sum(f, n)
    BY <1>3
  <2>2. s[n + 1] \in Nat
    BY <1>1, <1>3
  <2> DEFINE g == [i \in 0 .. n + 1 |-> IF i = n + 1 THEN f[n] + s[n + 1] ELSE f[i]]
  <2>3. \A i \in 0 .. n + 1 : g[i] = IF i = n + 1 THEN f[n] + s[n + 1] ELSE f[i]
    OBVIOUS
  <2>4. g \in [0 .. n + 1 -> Nat]
    BY <2>1, <2>2
  <2> HIDE DEF g
  <2>5. g[0] = 0
    BY <2>1, <2>3
  <2>6. ASSUME NEW i \in 1 .. n + 1 PROVE g[i] = g[i - 1] + s[i]
    <3>1. g[i - 1] = f[i - 1]
      <4>1. i - 1 \in 0 .. n + 1 /\ i - 1 # n + 1
        OBVIOUS
      <4> QED BY <2>3, <4>1
    <3>2. CASE i = n + 1
      BY <2>3, <3>1, <3>2
    <3>3. CASE i # n + 1
      <4>1. i \in 1 .. n
        BY <3>3
      <4> QED BY <2>1, <2>3, <3>1, <3>3, <4>1
    <3> QED BY <3>2, <3>3
  <2>7. Sum(g, n + 1)
    BY <2>4, <2>5, <2>6
  <2> HIDE DEF Sum
  <2> QED BY <2>7
<1>4. \E f : Sum(f, L)
  <2>1. L \in S
    <3> HIDE DEF S
    <3> QED BY <1>1, <1>2, <1>3, CountUp
  <2> HIDE DEF Sum
  <2> QED BY <2>1
<1> HIDE DEF S
<1> DEFINE Rec(h) == h = [n \in 0 .. Len(s) |-> IF n = 0 THEN 0 ELSE h[n - 1] + s[n]]
<1>5. \E f : Rec(f)
  <2>1. PICK f : Sum(f, L)
    BY <1>4
  <2>2. Rec(f)
    BY <2>1, <1>1 DEF L
  <2> HIDE DEF Rec
  <2> QED BY <2>2
<1>6. Rec(Sums(s))
  <2>1. Sums(s) = CHOOSE h : Rec(h)
    BY DEF Sums
  <2> HIDE DEF Rec, Sum
  <2> QED BY <1>5, <2>1
<1>7. \A n \in 0 .. L : Sums(s)[n] = IF n = 0 THEN 0 ELSE Sums(s)[n - 1] + s[n]
  BY <1>6 DEF L
<1> DEFINE D == {n \in Nat : Sums(s)[n] \in Nat}
<1>8. ASSUME NEW m \in 0 .. L PROVE m \in D
  <2>1. 0 \in D
    BY <1>7, <1>1
  <2>2. ASSUME NEW n \in 0 .. m - 1, n \in D PROVE n + 1 \in D
    <3>1. n + 1 \in 1 .. L /\ (n + 1) - 1 = n
      BY <1>1
    <3>2. Sums(s)[n + 1] = Sums(s)[n] + s[n + 1]
      BY <3>1, <1>1, <1>7
    <3> QED BY <2>2, <3>1, <3>2, <1>1
  <2>3. m \in Nat
    OBVIOUS
  <2> HIDE DEF D
  <2> QED BY <2>1, <2>2, <2>3, CountUp
<1>9. Sums(s) \in [0 .. L -> Nat]
  <2>1. Sums(s) = [n \in 0 .. L |-> IF n = 0 THEN 0 ELSE Sums(s)[n - 1] + s[n]]
    BY <1>6 DEF L
  <2>2. DOMAIN Sums(s) = 0 .. L /\ Sums(s) = [n \in 0 .. L |-> Sums(s)[n]]
    BY <2>1
  <2> QED BY <2>2, <1>8
<1> QED BY <1>1, <1>7, <1>9 DEF L

\* The edicts sorted under an operation are edicts of it.
LEMMA OfSeq ==
  ASSUME NEW E, NEW edicts \in Seq(E), NEW op
  PROVE  Of(edicts, op) \in Seq({e \in E : e.op = op})
<1> DEFINE L == Len(edicts)
           F == {e \in E : e.op = op}
           Keep(q, n) == IF edicts[n].op = op THEN Append(q, edicts[n]) ELSE q
           Sort(f, n) == /\ f \in [0 .. n -> Seq(F)] /\ f[0] = <<>>
                         /\ \A i \in 1 .. n : f[i] = Keep(f[i - 1], i)
           S == {n \in Nat : \E f : Sort(f, n)}
<1>1. /\ L \in Nat /\ <<>> \in Seq(F)
      /\ \A q \in Seq(F), i \in 1 .. L : Keep(q, i) \in Seq(F)
  <2>1. L \in Nat /\ <<>> \in Seq(F) /\ \A i \in 1 .. L : edicts[i] \in E
    OBVIOUS
  <2>2. ASSUME NEW q \in Seq(F), NEW i \in 1 .. L PROVE Keep(q, i) \in Seq(F)
    BY <2>1
  <2> QED BY <2>1, <2>2
<1> DEFINE Rec(h) == h = [n \in 0 .. Len(edicts) |-> IF n = 0 THEN <<>> ELSE Keep(h[n - 1], n)]
<1>2. Sorted(edicts, op) = CHOOSE h : Rec(h)
  BY DEF Sorted
<1> HIDE DEF L, F, Keep
<1>3. 0 \in S
  <2>1. Sort([i \in 0 .. 0 |-> <<>>], 0)
    BY <1>1
  <2> QED BY <2>1
<1>4. ASSUME NEW n \in 0 .. L - 1, n \in S PROVE n + 1 \in S
  <2>1. PICK f : Sort(f, n)
    BY <1>4
  <2>2. Keep(f[n], n + 1) \in Seq(F)
    BY <1>1, <1>4, <2>1
  <2> DEFINE g == [i \in 0 .. n + 1 |-> IF i = n + 1 THEN Keep(f[n], n + 1) ELSE f[i]]
  <2>3. \A i \in 0 .. n + 1 : g[i] = IF i = n + 1 THEN Keep(f[n], n + 1) ELSE f[i]
    OBVIOUS
  <2>4. g \in [0 .. n + 1 -> Seq(F)]
    BY <2>1, <2>2
  <2> HIDE DEF g
  <2>5. g[0] = <<>>
    BY <2>1, <2>3
  <2>6. ASSUME NEW i \in 1 .. n + 1 PROVE g[i] = Keep(g[i - 1], i)
    <3>1. g[i - 1] = f[i - 1]
      <4>1. i - 1 \in 0 .. n + 1 /\ i - 1 # n + 1
        OBVIOUS
      <4> QED BY <2>3, <4>1
    <3>2. CASE i = n + 1
      BY <2>3, <3>1, <3>2
    <3>3. CASE i # n + 1
      <4>1. i \in 1 .. n
        BY <3>3
      <4> QED BY <2>1, <2>3, <3>1, <3>3, <4>1
    <3> QED BY <3>2, <3>3
  <2>7. Sort(g, n + 1)
    BY <2>4, <2>5, <2>6
  <2> HIDE DEF Sort
  <2> QED BY <2>7
<1>5. \E f : Sort(f, L)
  <2>1. L \in S
    <3> HIDE DEF S
    <3> QED BY <1>1, <1>3, <1>4, CountUp
  <2> HIDE DEF Sort
  <2> QED BY <2>1
<1> HIDE DEF S
<1>6. \E f : Rec(f)
  <2>1. PICK f : Sort(f, L)
    BY <1>5
  <2>2. Rec(f)
    BY <2>1, <1>1 DEF L
  <2> HIDE DEF Rec
  <2> QED BY <2>2
<1>7. Rec(Sorted(edicts, op))
  <2> HIDE DEF Rec, Sort
  <2> QED BY <1>2, <1>6
<1>8. \A n \in 0 .. L : Sorted(edicts, op)[n] = IF n = 0 THEN <<>>
                                                ELSE Keep(Sorted(edicts, op)[n - 1], n)
  BY <1>7 DEF L
<1> HIDE DEF Rec, Sort
<1> DEFINE D == {n \in Nat : Sorted(edicts, op)[n] \in Seq(F)}
<1>9. L \in D
  <2>1. 0 \in D
    <3>1. Sorted(edicts, op)[0] = <<>>
      BY <1>1, <1>8
    <3> QED BY <3>1, <1>1
  <2>2. ASSUME NEW n \in 0 .. L - 1, n \in D PROVE n + 1 \in D
    <3>1. n + 1 \in 1 .. L /\ (n + 1) - 1 = n
      BY <1>1
    <3>2. Sorted(edicts, op)[n + 1] = Keep(Sorted(edicts, op)[n], n + 1)
      BY <3>1, <1>1, <1>8
    <3> QED BY <2>2, <3>1, <3>2, <1>1
  <2> HIDE DEF D
  <2> QED BY <2>1, <2>2, <1>1, CountUp
<1> QED BY <1>9, <1>1 DEF L, F, Of

LEMMA TotalNat == ASSUME NEW s \in Seq(Nat) PROVE Total(s) \in Nat
BY SumsStep DEF Total

\* Numbers that are, each of them, at most A / B of those of another sequence, are
\* so all together.
LEMMA TotalScaled ==
  ASSUME NEW s \in Seq(Nat), NEW t \in Seq(Nat), Len(s) = Len(t),
         NEW A \in Nat, NEW B \in Nat, \A i \in 1 .. Len(s) : s[i] * B <= t[i] * A
  PROVE  Total(s) * B <= Total(t) * A
<1> DEFINE L == Len(s)
           D == {n \in Nat : Sums(s)[n] * B <= Sums(t)[n] * A}
<1>1. /\ \A n \in 0 .. L : Sums(s)[n] \in Nat /\ Sums(t)[n] \in Nat
      /\ \A n \in 1 .. L : s[n] \in Nat /\ t[n] \in Nat /\ s[n] * B <= t[n] * A
      /\ L \in Nat
  <2>1. Sums(s) \in [0 .. L -> Nat] /\ Sums(t) \in [0 .. L -> Nat]
    BY SumsStep
  <2>2. (\A n \in 1 .. L : s[n] \in Nat /\ t[n] \in Nat /\ s[n] * B <= t[n] * A) /\ L \in Nat
    OBVIOUS
  <2> HIDE DEF L
  <2> QED BY <2>1, <2>2
<1>2. 0 \in D
  BY SumsStep
<1>3. ASSUME NEW n \in 0 .. L - 1, n \in D PROVE n + 1 \in D
  <2> DEFINE p == Sums(s)[n]
             q == Sums(t)[n]
             x == s[n + 1]
             y == t[n + 1]
  <2>1. n \in 0 .. L /\ n + 1 \in 1 .. L /\ (n + 1) - 1 = n
    BY <1>1, <1>3
  <2>2. Sums(s)[n + 1] = p + x /\ Sums(t)[n + 1] = q + y
    BY <2>1, SumsStep
  <2>3. p \in Nat /\ q \in Nat /\ x \in Nat /\ y \in Nat /\ p * B <= q * A /\ x * B <= y * A
    BY <1>1, <1>3, <2>1
  <2> HIDE DEF p, q, x, y
  <2>4. (p + x) * B = p * B + x * B /\ (q + y) * A = q * A + y * A
    BY <2>3
  <2>5. p * B \in Nat /\ x * B \in Nat /\ q * A \in Nat /\ y * A \in Nat
    BY <2>3
  <2>6. (p + x) * B <= (q + y) * A
    BY <2>3, <2>4, <2>5
  <2> QED BY <2>2, <2>6
<1>4. L \in D
  <2> HIDE DEF D
  <2> QED BY <1>1, <1>2, <1>3, CountUp
<1> QED BY <1>4 DEF Total

\* Sums of naturals do not decrease.
LEMMA SumsGrow ==
  ASSUME NEW s \in Seq(Nat), NEW m \in 0 .. Len(s)
  PROVE  Sums(s)[m] <= Total(s)
<1> DEFINE L == Len(s)
           D == {n \in Nat : m <= n => Sums(s)[m] <= Sums(s)[n]}
<1>1. /\ \A n \in 0 .. L : Sums(s)[n] \in Nat
      /\ \A n \in 1 .. L : s[n] \in Nat
      /\ L \in Nat /\ m \in 0 .. L
  <2>1. Sums(s) \in [0 .. L -> Nat]
    BY SumsStep
  <2>2. (\A n \in 1 .. L : s[n] \in Nat) /\ L \in Nat /\ m \in 0 .. L
    OBVIOUS
  <2> HIDE DEF L
  <2> QED BY <2>1, <2>2
<1>2. 0 \in D
  BY <1>1
<1>3. ASSUME NEW n \in 0 .. L - 1, n \in D PROVE n + 1 \in D
  <2>1. n \in 0 .. L /\ n + 1 \in 1 .. L /\ (n + 1) - 1 = n
    BY <1>1, <1>3
  <2>2. Sums(s)[n + 1] = Sums(s)[n] + s[n + 1]
    BY <2>1, SumsStep
  <2>3. m <= n \/ m = n + 1 \/ m > n + 1
    BY <1>1
  <2> QED BY <1>1, <1>3, <2>1, <2>2, <2>3
<1>4. L \in D
  <2> HIDE DEF D
  <2> QED BY <1>1, <1>2, <1>3, CountUp
<1> QED BY <1>4, <1>1 DEF Total

\* A sequence of zeros and, d places behind, numbers of another one sums up to
\* no more than that one.
LEMMA TotalWithin ==
  ASSUME NEW s \in Seq(Nat), NEW t \in Seq(Nat), NEW d \in Nat,
         \A i \in 1 .. Len(s) :
           s[i] = 0 \/ (i - d \in 1 .. Len(t) /\ s[i] = t[i - d])
  PROVE  Total(s) <= Total(t)
<1> DEFINE At(n) == IF n < d THEN 0 ELSE IF n - d < Len(t) THEN n - d ELSE Len(t)
           L == Len(s)
           M == Len(t)
           D == {n \in Nat : Sums(s)[n] <= Sums(t)[At(n)]}
<1>1. /\ \A n \in 0 .. L : Sums(s)[n] \in Nat
      /\ \A n \in 0 .. M : Sums(t)[n] \in Nat
      /\ \A n \in 1 .. L : s[n] \in Nat
      /\ \A n \in 1 .. M : t[n] \in Nat
      /\ L \in Nat /\ M \in Nat
      /\ Sums(s)[0] = 0
  <2>1. Sums(s) \in [0 .. L -> Nat] /\ Sums(s)[0] = 0
    BY SumsStep
  <2>2. Sums(t) \in [0 .. M -> Nat]
    BY SumsStep
  <2>3. /\ \A n \in 1 .. L : s[n] \in Nat
        /\ \A n \in 1 .. M : t[n] \in Nat
        /\ L \in Nat /\ M \in Nat
    OBVIOUS
  <2> HIDE DEF L, M
  <2> QED BY <2>1, <2>2, <2>3
<1>2. \A n \in Nat : At(n) \in 0 .. M
  BY <1>1
<1>3. ASSUME NEW n \in Nat
      PROVE  \/ At(n + 1) = At(n)
             \/ At(n + 1) = At(n) + 1 /\ At(n) + 1 \in 1 .. M
  BY <1>1
<1>4. ASSUME NEW n \in Nat, (n + 1) - d \in 1 .. M
      PROVE  At(n) = n - d /\ At(n + 1) = (n + 1) - d
  BY <1>1, <1>4
<1> HIDE DEF At
<1>5. 0 \in D
  BY <1>1, <1>2
<1>6. ASSUME NEW n \in 0 .. L - 1, n \in D PROVE n + 1 \in D
  <2>1. n \in 0 .. L /\ n + 1 \in 1 .. L /\ (n + 1) - 1 = n
    BY <1>1, <1>6
  <2>2. Sums(s)[n + 1] = Sums(s)[n] + s[n + 1]
    BY <2>1, SumsStep
  <2>3. Sums(t)[At(n)] <= Sums(t)[At(n + 1)]
    <3> DEFINE a == At(n)
    <3>1. a \in 0 .. M
      BY <1>2, <2>1
    <3>2. At(n + 1) = a \/ (At(n + 1) = a + 1 /\ a + 1 \in 1 .. M)
      BY <1>3, <2>1
    <3> HIDE DEF a
    <3>3. CASE At(n + 1) = a
      BY <3>1, <3>3, <1>1 DEF a
    <3>4. CASE At(n + 1) = a + 1 /\ a + 1 \in 1 .. M
      <4>1. (a + 1) - 1 = a
        BY <3>1
      <4>2. Sums(t)[a + 1] = Sums(t)[a] + t[a + 1]
        BY <3>4, <4>1, SumsStep
      <4>3. Sums(t)[a] <= Sums(t)[a + 1]
        BY <3>1, <3>4, <4>2, <1>1
      <4> QED BY <3>4, <4>3 DEF a
    <3> QED BY <3>2, <3>3, <3>4
  <2>4. Sums(t)[At(n)] \in Nat /\ Sums(t)[At(n + 1)] \in Nat /\ Sums(s)[n] \in Nat
    <3> At(n) \in 0 .. M /\ At(n + 1) \in 0 .. M
      BY <1>2, <2>1
    <3> QED BY <1>1, <2>1
  <2>5. Sums(s)[n] <= Sums(t)[At(n)]
    BY <1>6
  <2>6. CASE s[n + 1] = 0
    BY <2>2, <2>3, <2>4, <2>5, <2>6
  <2>7. CASE (n + 1) - d \in 1 .. M /\ s[n + 1] = t[(n + 1) - d]
    <3>1. At(n) = n - d /\ At(n + 1) = (n + 1) - d
      BY <2>7, <2>1, <1>4
    <3>2. Sums(t)[(n + 1) - d] = Sums(t)[n - d] + t[(n + 1) - d]
      <4>1. ((n + 1) - d) - 1 = n - d
        OBVIOUS
      <4> QED BY <2>7, <4>1, SumsStep
    <3>3. Sums(s)[n + 1] = Sums(s)[n] + t[(n + 1) - d]
      BY <2>2, <2>7
    <3>4. t[(n + 1) - d] \in Nat
      BY <2>7, <1>1
    <3>5. Sums(t)[At(n + 1)] = Sums(t)[At(n)] + t[(n + 1) - d]
      BY <3>1, <3>2
    <3> QED BY <3>3, <3>4, <3>5, <2>4, <2>5
  <2>8. Sums(s)[n + 1] <= Sums(t)[At(n + 1)]
    BY <2>1, <2>6, <2>7
  <2> QED BY <2>8
<1>7. L \in D
  <2> HIDE DEF D
  <2> QED BY <1>1, <1>5, <1>6, CountUp
<1>8. At(L) \in 0 .. M /\ Sums(t)[At(L)] <= Total(t)
  BY <1>1, <1>2, SumsGrow
<1>9. Total(s) = Sums(s)[L] /\ Total(t) \in Nat
  BY <1>1 DEF Total
<1> QED BY <1>7, <1>8, <1>9, <1>1


Edicts == [op : STRING, amount : Nat, price : Nat]

LEMMA SpendsNat == \A e \in Edicts : Spends(e) \in Nat
BY DEF Spends, Edicts

\* int() rounds down.
LEMMA QuotientBelow ==
  ASSUME NEW p \in Nat, NEW d \in Nat \ {0}
  PROVE  p \div d \in Nat /\ (p \div d) * d <= p
OBVIOUS

\* What the edicts of one kind spend after they have been scaled to the funds.
Shares(edicts, f) == [i \in DOMAIN edicts |-> Share(Spends(edicts[i]), edicts, f)]

LEMMA SixSig == SIXSIG \in Nat /\ Million \in Nat /\ SIXSIG < Million /\ Million > 0
BY SMT DEF SIXSIG, Million

LEMMA SharesWithin ==
  ASSUME NEW edicts \in Seq(Edicts), NEW f \in Nat
  PROVE  Shares(edicts, f) \in Seq(Nat) /\ Total(Shares(edicts, f)) <= f
<1> DEFINE x == [i \in DOMAIN edicts |-> Spends(edicts[i])]
           y == Shares(edicts, f)
           A == SIXSIG * f
           G == Total(x)
           B == Million * G
<1>1. x \in Seq(Nat) /\ Len(x) = Len(edicts) /\ \A i \in 1 .. Len(edicts) : x[i] \in Nat
  <2>1. \A i \in 1 .. Len(edicts) : Spends(edicts[i]) \in Nat
    BY SpendsNat
  <2> QED BY <2>1
<1>2. G \in Nat /\ G = Gross(edicts)
  BY <1>1, SumsStep DEF Total, Gross
<1>3. A \in Nat /\ B \in Nat
  BY <1>2, SixSig
<1>4. CASE A < B
  <2>1. B \in Nat \ {0} /\ G > 0
    BY <1>2, <1>3, <1>4, SixSig
  <2>2. ASSUME NEW i \in 1 .. Len(edicts)
        PROVE  /\ y[i] = (x[i] * SIXSIG * f) \div B
               /\ x[i] * SIXSIG * f = x[i] * A /\ x[i] * A \in Nat
    <3>1. y[i] = Share(x[i], edicts, f)
      BY DEF Shares
    <3>2. y[i] = (x[i] * SIXSIG * f) \div B
      BY <3>1, <1>2, <1>4 DEF Share
    <3>3. x[i] \in Nat
      BY <1>1
    <3> HIDE DEF x, y, A, B
    <3>4. x[i] * SIXSIG * f = x[i] * A /\ x[i] * A \in Nat
      BY <3>3, SixSig DEF A
    <3> QED BY <3>2, <3>4
  <2>3. DOMAIN y = 1 .. Len(edicts) /\ y = [i \in 1 .. Len(edicts) |-> y[i]]
    BY DEF Shares
  <2> HIDE DEF x, y, A, B, G
  <2>4. \A i \in 1 .. Len(edicts) : y[i] \in Nat /\ y[i] * B <= x[i] * A
    BY <2>1, <2>2, QuotientBelow
  <2>5. y \in Seq(Nat) /\ Len(y) = Len(x)
    BY <1>1, <2>3, <2>4
  <2>6. Total(y) * B <= G * A
    BY <1>1, <1>3, <2>4, <2>5, TotalScaled DEF G
  <2>7. Total(y) \in Nat
    BY <2>5, SumsStep DEF Total
  <2>8. Total(y) <= f
    <3>1. SUFFICES ASSUME Total(y) >= f + 1 PROVE FALSE
      BY <2>7
    <3> DEFINE q == Total(y)
    <3>2. q \in Nat /\ q >= f + 1 /\ q * (Million * G) <= G * (SIXSIG * f)
      BY <2>6, <2>7, <3>1 DEF A, B
    <3> HIDE DEF q
    <3>3. q * (Million * G) = Million * (q * G) /\ G * (SIXSIG * f) = SIXSIG * (f * G)
      BY <3>2, <1>2, SixSig
    <3>4. q * G \in Nat /\ f * G \in Nat /\ q * G >= f * G + G
      BY <3>2, <1>2
    <3> DEFINE u == q * G
               v == f * G
    <3>5. u \in Nat /\ v \in Nat /\ u >= v + G /\ G > 0 /\ G \in Nat
      BY <3>4, <2>1, <1>2
    <3>6. Million * u <= SIXSIG * v
      BY <3>2, <3>3
    <3> HIDE DEF u, v
    <3> QED BY <3>5, <3>6, SMT DEF SIXSIG, Million
  <2> QED BY <2>5, <2>8 DEF y
<1>5. CASE ~(A < B)
  <2>1. y = x
    BY <1>2, <1>5 DEF Shares, Share
  <2>2. G <= f
    BY <1>2, <1>5, SixSig
  <2> QED BY <1>1, <2>1, <2>2
<1> QED BY <1>4, <1>5


-----------------------------------------------------------------------------
\* Limit orders and the operations that sell nothing.
Creates(asset) == [op : {"create"}, sell : {asset}, amount : Nat, get : Nat]
Others == [op : {"transfer", "issue", "reserve", "cancel"}, amount : Nat]

\* The limit orders of one kind: they sell the shares of their edicts.
LEMMA LimitOrdersSell ==
  ASSUME NEW o, o.edicts \in Seq(Edicts), NEW f \in Nat, NEW op \in Limits
  PROVE  LET q == LimitOrders(op, o, f)
             y == Shares(Of(o.edicts, op), f)
         IN  /\ q \in Seq(Creates(IF op = "buy" THEN o.currency ELSE o.asset))
             /\ Len(q) = Len(y) /\ \A i \in 1 .. Len(q) : q[i].amount = y[i]
             /\ y \in Seq(Nat) /\ Total(y) <= f
<1> DEFINE edicts == Of(o.edicts, op)
           q == LimitOrders(op, o, f)
           y == Shares(edicts, f)
           a == IF op = "buy" THEN o.currency ELSE o.asset
<1>1. edicts \in Seq({e \in Edicts : e.op = op})
  BY OfSeq
<1>2. edicts \in Seq(Edicts) /\ \A i \in 1 .. Len(edicts) : edicts[i].op = op
  <2>1. \A i \in 1 .. Len(edicts) : edicts[i] \in Edicts /\ edicts[i].op = op
    BY <1>1
  <2> QED BY <1>1, <2>1
<1> HIDE DEF edicts
<1>3. y \in Seq(Nat) /\ Total(y) <= f
  BY <1>2, SharesWithin
<1>4. ASSUME NEW n \in Nat PROVE Share(n, edicts, f) \in Nat
  <2>1. Gross(edicts) \in Nat
    <3> DEFINE x == [i \in DOMAIN edicts |-> Spends(edicts[i])]
    <3>1. \A i \in 1 .. Len(edicts) : Spends(edicts[i]) \in Nat
      BY <1>2, SpendsNat
    <3>2. x \in Seq(Nat)
      BY <1>2, <3>1
    <3>3. Gross(edicts) = Total(x)
      BY DEF Gross
    <3> HIDE DEF x
    <3> QED BY <3>2, <3>3, TotalNat
  <2> DEFINE G == Gross(edicts)
             D == Million * G
             N == n * SIXSIG * f
  <2>2. SIXSIG * f \in Nat /\ D \in Nat /\ N \in Nat
    BY <2>1, SixSig
  <2>3. Share(n, edicts, f) = IF SIXSIG * f < D THEN N \div D ELSE n
    BY DEF Share
  <2> HIDE DEF D, N
  <2>4. CASE SIXSIG * f < D
    <3>1. D \in Nat \ {0}
      BY <2>2, <2>4
    <3>2. N \div D \in Nat
      BY <2>2, <3>1, QuotientBelow
    <3> QED BY <2>3, <2>4, <3>2
  <2>5. CASE ~(SIXSIG * f < D)
    BY <2>3, <2>5
  <2> QED BY <2>4, <2>5
<1>5. ASSUME NEW i \in 1 .. Len(edicts)
      PROVE  /\ LimitOrder(edicts[i], edicts, o, f) \in Creates(a)
             /\ LimitOrder(edicts[i], edicts, o, f).amount = y[i]
  <2> DEFINE e == edicts[i]
             c == Share(e.amount, edicts, f)
             d == Share(e.amount * e.price, edicts, f)
  <2>1. e.op = op /\ e \in Edicts
    BY <1>2
  <2>2. e.amount \in Nat /\ e.price \in Nat
    BY <2>1 DEF Edicts
  <2>3. c \in Nat /\ d \in Nat
    <3>1. e.amount * e.price \in Nat
      BY <2>2
    <3> HIDE DEF e
    <3> QED BY <2>2, <3>1, <1>4
  <2>4. y[i] = Share(Spends(e), edicts, f)
    BY <1>2 DEF Shares
  <2>5. Spends(e) = IF op = "buy" THEN e.amount * e.price ELSE e.amount
    BY <2>1 DEF Spends
  <2>6. LimitOrder(e, edicts, o, f) =
          IF op = "buy" THEN [op |-> "create", sell |-> o.currency, amount |-> d, get |-> c]
                        ELSE [op |-> "create", sell |-> o.asset, amount |-> c, get |-> d]
    BY <2>1 DEF LimitOrder
  <2> HIDE DEF e, c, d, y
  <2>7. y[i] = IF op = "buy" THEN d ELSE c
    BY <2>4, <2>5 DEF c, d
  <2> QED BY <2>3, <2>6, <2>7 DEF Creates, e
<1>6. q = [i \in 1 .. Len(edicts) |-> LimitOrder(edicts[i], edicts, o, f)]
  BY <1>2 DEF LimitOrders, edicts
<1>7. DOMAIN y = 1 .. Len(edicts)
  BY <1>2 DEF Shares
<1> HIDE DEF q, y, a
<1>8. q \in Seq(Creates(a)) /\ Len(q) = Len(edicts)
  BY <1>2, <1>5, <1>6
<1>9. Len(q) = Len(y)
  BY <1>2, <1>3, <1>7, <1>8
<1> QED BY <1>3, <1>5, <1>6, <1>8, <1>9 DEF q, y, a, edicts

LEMMA PlainSeq ==
  ASSUME NEW o, o.edicts \in Seq(Edicts), NEW op \in {"transfer", "issue", "reserve"}
  PROVE  Plain(op, o) \in Seq(Others)
<1> DEFINE edicts == Of(o.edicts, op)
<1>1. edicts \in Seq({e \in Edicts : e.op = op})
  BY OfSeq
<1>2. Plain(op, o) = [i \in DOMAIN edicts |-> [op |-> op, amount |-> edicts[i].amount]]
  BY DEF Plain
<1> HIDE DEF edicts
<1>3. \A i \in 1 .. Len(edicts) : edicts[i].amount \in Nat
  BY <1>1 DEF Edicts
<1>4. \A i \in 1 .. Len(edicts) : [op |-> op, amount |-> edicts[i].amount] \in Others
  BY <1>3 DEF Others
<1> QED BY <1>1, <1>2, <1>4

LEMMA LoginSeq == ASSUME NEW o PROVE Login(o) \in Seq(Others)
<1> DEFINE c == [op |-> "cancel", amount |-> 0]
<1>1. c \in Others
  BY DEF Others
<1>2. Login(o) = <<>> \/ Login(o) = <<c>>
  BY DEF Login
<1> HIDE DEF c
<1>3. <<>> \in Seq(Others)
  OBVIOUS
<1>4. <<c>> \in Seq(Others)
  BY <1>1
<1> QED BY <1>2, <1>3, <1>4

\* Appending operations that sell nothing.
LEMMA RestIsOther ==
  ASSUME NEW U, NEW p \in Seq(U), NEW r \in Seq(U), NEW n \in Nat, n <= Len(p),
         \A i \in 1 .. Len(p) : i > n => p[i].op # "create",
         \A i \in 1 .. Len(r) : r[i].op # "create"
  PROVE  /\ p \o r \in Seq(U) /\ n <= Len(p \o r)
         /\ \A i \in 1 .. Len(p \o r) : i > n => (p \o r)[i].op # "create"
         /\ \A i \in 1 .. n : (p \o r)[i] = p[i]
<1>1. p \o r \in Seq(U) /\ Len(p \o r) = Len(p) + Len(r)
  OBVIOUS
<1>2. ASSUME NEW i \in 1 .. Len(p) + Len(r)
      PROVE  (p \o r)[i] = IF i <= Len(p) THEN p[i] ELSE r[i - Len(p)]
  OBVIOUS
<1>3. ASSUME NEW i \in 1 .. Len(p) + Len(r), i > Len(p)
      PROVE  i - Len(p) \in 1 .. Len(r)
  BY <1>3
<1>4. ASSUME NEW i \in 1 .. Len(p) + Len(r), i > n
      PROVE  (p \o r)[i].op # "create"
  BY <1>2, <1>3, <1>4
<1>5. \A i \in 1 .. n : (p \o r)[i] = p[i]
  BY <1>2
<1> QED BY <1>1, <1>4, <1>5


\* The operations of an order are its buys, then its sells, then what sells nothing.
LEMMA OperationsShape ==
  ASSUME NEW o, o.edicts \in Seq(Edicts),
         NEW f \in [currency : Nat, asset : Nat]
  PROVE  LET ops_  == Operations(o, f)
             buys  == LimitOrders("buy", o, f.currency)
             sells == LimitOrders("sell", o, f.asset)
             lb    == Len(buys)
             ls    == Len(sells)
         IN  /\ ops_ \in Seq(Creates(o.currency) \cup Creates(o.asset) \cup Others)
             /\ \A i \in 1 .. Len(ops_) :
                  \/ i \in 1 .. lb /\ ops_[i] = buys[i]
                  \/ i - lb \in 1 .. ls /\ ops_[i] = sells[i - lb]
                  \/ ops_[i].op # "create"
<1> DEFINE U == Creates(o.currency) \cup Creates(o.asset) \cup Others
           buys == LimitOrders("buy", o, f.currency)
           sells == LimitOrders("sell", o, f.asset)
           p0 == buys \o sells
           p1 == p0 \o Plain("transfer", o)
           p2 == p1 \o Plain("issue", o)
           p3 == p2 \o Plain("reserve", o)
           p4 == p3 \o Login(o)
           m == IF Len(p4) < LIMIT THEN Len(p4) ELSE LIMIT
           n == Len(p0)
           Ends(p) == /\ p \in Seq(U) /\ n <= Len(p)
                      /\ \A i \in 1 .. Len(p) : i > n => p[i].op # "create"
                      /\ \A i \in 1 .. n : p[i] = p0[i]
<1>1. f.currency \in Nat /\ f.asset \in Nat
  OBVIOUS
<1>2. buys \in Seq(Creates(o.currency)) /\ sells \in Seq(Creates(o.asset))
  BY <1>1, LimitOrdersSell DEF Limits
<1>3. Operations(o, f) = SubSeq(p4, 1, m)
  BY DEF Operations
<1>4. ASSUME NEW r \in Seq(Others)
      PROVE  r \in Seq(U) /\ \A i \in 1 .. Len(r) : r[i].op # "create"
  <2>1. Others \subseteq U
    OBVIOUS
  <2>2. \A i \in 1 .. Len(r) : r[i] \in Others
    OBVIOUS
  <2>3. \A i \in 1 .. Len(r) : r[i].op # "create"
    BY <2>2 DEF Others
  <2> HIDE DEF U
  <2> QED BY <2>1, <2>2, <2>3
<1> HIDE DEF buys, sells
<1>5. buys \in Seq(U) /\ sells \in Seq(U)
  BY <1>2
<1> HIDE DEF U
<1>6. p0 \in Seq(U) /\ n \in Nat
  BY <1>5
<1> HIDE DEF p0
<1>7. Ends(p0)
  BY <1>6
<1> HIDE DEF n
<1>8. ASSUME NEW p, Ends(p), NEW r \in Seq(Others) PROVE Ends(p \o r)
  <2>1. r \in Seq(U) /\ \A i \in 1 .. Len(r) : r[i].op # "create"
    BY <1>4
  <2>2. p \in Seq(U) /\ n <= Len(p)
        /\ \A i \in 1 .. Len(p) : i > n => p[i].op # "create"
    BY <1>8
  <2>3. /\ p \o r \in Seq(U) /\ n <= Len(p \o r)
        /\ \A i \in 1 .. Len(p \o r) : i > n => (p \o r)[i].op # "create"
        /\ \A i \in 1 .. n : (p \o r)[i] = p[i]
    BY <2>1, <2>2, <1>6, RestIsOther
  <2>4. \A i \in 1 .. n : p[i] = p0[i]
    BY <1>8
  <2> QED BY <2>3, <2>4
<1> HIDE DEF Ends
<1>9. Ends(p4)
  <2>1. Ends(p1)
    BY <1>7, <1>8, PlainSeq
  <2> HIDE DEF p1
  <2>2. Ends(p2)
    BY <2>1, <1>8, PlainSeq
  <2> HIDE DEF p2
  <2>3. Ends(p3)
    BY <2>2, <1>8, PlainSeq
  <2> HIDE DEF p3
  <2> QED BY <2>3, <1>8, LoginSeq
<1> HIDE DEF p4, p3, p2, p1
<1> DEFINE all == Operations(o, f)
<1>10. /\ all \in Seq(U) /\ Len(all) = m /\ m \in 0 .. Len(p4)
       /\ \A i \in 1 .. m : all[i] = p4[i]
  <2>1. p4 \in Seq(U) /\ Len(p4) \in Nat /\ m \in 0 .. Len(p4)
    BY <1>9, TransactionAssumption DEF Ends
  <2> HIDE DEF m
  <2> QED BY <2>1, <1>3
<1>11. /\ n = Len(buys) + Len(sells) /\ Len(buys) \in Nat /\ Len(sells) \in Nat
       /\ \A i \in 1 .. n : p0[i] = IF i <= Len(buys) THEN buys[i] ELSE sells[i - Len(buys)]
  BY <1>5 DEF n, p0
<1> HIDE DEF all, m
<1>12. ASSUME NEW i \in 1 .. Len(all)
       PROVE  \/ i \in 1 .. Len(buys) /\ all[i] = buys[i]
              \/ i - Len(buys) \in 1 .. Len(sells) /\ all[i] = sells[i - Len(buys)]
              \/ all[i].op # "create"
  <2>1. i \in 1 .. m /\ i \in 1 .. Len(p4) /\ all[i] = p4[i]
    BY <1>10
  <2>2. CASE i > n
    BY <2>1, <2>2, <1>9 DEF Ends
  <2>3. CASE i <= n
    <3>1. all[i] = p0[i] /\ i \in 1 .. n
      BY <2>1, <2>3, <1>6, <1>9 DEF Ends
    <3> QED BY <3>1, <1>11
  <2> QED BY <2>2, <2>3, <1>6
<1> QED BY <1>10, <1>12 DEF all, U, buys, sells

LEMMA OperationsWithin ==
  ASSUME NEW o, o.edicts \in Seq(Edicts), o.asset # o.currency,
         NEW f \in [currency : Nat, asset : Nat]
  PROVE  /\ Sold(Operations(o, f), o.currency) <= f.currency
         /\ Sold(Operations(o, f), o.asset) <= f.asset
<1> DEFINE all == Operations(o, f)
           buys == LimitOrders("buy", o, f.currency)
           sells == LimitOrders("sell", o, f.asset)
           ys == Shares(Of(o.edicts, "buy"), f.currency)
           zs == Shares(Of(o.edicts, "sell"), f.asset)
           lb == Len(buys)
           Of_(a) == [i \in DOMAIN all |->
                        IF all[i].op = "create" /\ all[i].sell = a THEN all[i].amount ELSE 0]
<1>1. f.currency \in Nat /\ f.asset \in Nat
  OBVIOUS
<1>2. /\ buys \in Seq(Creates(o.currency))
      /\ Len(buys) = Len(ys) /\ \A i \in 1 .. Len(buys) : buys[i].amount = ys[i]
      /\ ys \in Seq(Nat) /\ Total(ys) <= f.currency
  BY <1>1, LimitOrdersSell DEF Limits
<1>3. /\ sells \in Seq(Creates(o.asset))
      /\ Len(sells) = Len(zs) /\ \A i \in 1 .. Len(sells) : sells[i].amount = zs[i]
      /\ zs \in Seq(Nat) /\ Total(zs) <= f.asset
  BY <1>1, LimitOrdersSell DEF Limits
<1>4. /\ all \in Seq(Creates(o.currency) \cup Creates(o.asset) \cup Others)
      /\ \A i \in 1 .. Len(all) :
           \/ i \in 1 .. lb /\ all[i] = buys[i]
           \/ i - lb \in 1 .. Len(sells) /\ all[i] = sells[i - lb]
           \/ all[i].op # "create"
  BY OperationsShape
<1>5. Sold(all, o.currency) = Total(Of_(o.currency)) /\ Sold(all, o.asset) = Total(Of_(o.asset))
  BY DEF Sold
<1> HIDE DEF all, buys, sells, ys, zs
<1>6. /\ \A i \in 1 .. lb : buys[i].sell = o.currency /\ buys[i].amount \in Nat
      /\ \A i \in 1 .. Len(sells) : sells[i].sell = o.asset /\ sells[i].amount \in Nat
      /\ lb \in Nat
  <2>1. \A i \in 1 .. lb : buys[i] \in Creates(o.currency)
    BY <1>2
  <2>2. \A i \in 1 .. Len(sells) : sells[i] \in Creates(o.asset)
    BY <1>3
  <2>3. lb \in Nat
    BY <1>2
  <2> HIDE DEF lb
  <2> QED BY <2>1, <2>2, <2>3 DEF Creates
<1>7. ASSUME NEW a
      PROVE  /\ Of_(a) \in Seq(Nat) /\ Len(Of_(a)) = Len(all)
             /\ \A i \in 1 .. Len(all) :
                  Of_(a)[i] = IF all[i].op = "create" /\ all[i].sell = a
                              THEN all[i].amount ELSE 0
  <2>1. \A i \in 1 .. Len(all) : all[i].op = "create" => all[i].amount \in Nat
    BY <1>4, <1>6
  <2> QED BY <2>1, <1>4
<1> HIDE DEF Of_
<1>8. Total(Of_(o.currency)) <= f.currency
  <2> DEFINE s == Of_(o.currency)
  <2>1. \A i \in 1 .. Len(s) : s[i] = 0 \/ (i - 0 \in 1 .. Len(ys) /\ s[i] = ys[i - 0])
    <3> SUFFICES ASSUME NEW i \in 1 .. Len(all), s[i] # 0
                 PROVE  i - 0 \in 1 .. Len(ys) /\ s[i] = ys[i - 0]
      BY <1>7
    <3>1. all[i].op = "create" /\ all[i].sell = o.currency /\ s[i] = all[i].amount
      BY <1>7
    <3>2. i \in 1 .. lb /\ all[i] = buys[i]
      BY <3>1, <1>4, <1>6
    <3> QED BY <3>1, <3>2, <1>2
  <2>2. s \in Seq(Nat)
    BY <1>7
  <2> HIDE DEF s
  <2>3. Total(s) <= Total(ys)
    BY <2>1, <2>2, <1>2, TotalWithin
  <2> QED BY <2>2, <2>3, <1>1, <1>2, TotalNat DEF s
<1>9. Total(Of_(o.asset)) <= f.asset
  <2> DEFINE s == Of_(o.asset)
  <2>1. \A i \in 1 .. Len(s) : s[i] = 0 \/ (i - lb \in 1 .. Len(zs) /\ s[i] = zs[i - lb])
    <3> SUFFICES ASSUME NEW i \in 1 .. Len(all), s[i] # 0
                 PROVE  i - lb \in 1 .. Len(zs) /\ s[i] = zs[i - lb]
      BY <1>7
    <3>1. all[i].op = "create" /\ all[i].sell = o.asset /\ s[i] = all[i].amount
      BY <1>7
    <3>2. i - lb \in 1 .. Len(sells) /\ all[i] = sells[i - lb]
      BY <3>1, <1>4, <1>6
    <3> QED BY <3>1, <3>2, <1>3
  <2>2. s \in Seq(Nat)
    BY <1>7
  <2> HIDE DEF s
  <2>3. Total(s) <= Total(zs)
    BY <2>1, <2>2, <1>3, <1>6, TotalWithin
  <2> QED BY <2>2, <2>3, <1>1, <1>3, TotalNat DEF s
<1> QED BY <1>5, <1>8, <1>9 DEF all


-----------------------------------------------------------------------------
\* What a child has built are the operations of the order for the balances that it
\* was answered.
Built ==
  /\ order \in Orders
  /\ funds \in [Attempt -> [currency : Nat, asset : Nat]]
  /\ ops = [k \in Attempt |-> ops[k]]
  /\ \A k \in Attempt : ops[k] # <<>> => ops[k] = Operations(order, funds[k])

LEMMA BInitBuilt == BInit => Built
BY DEF BInit, Built, NoFunds

LEMMA ComposeBuilt ==
  ASSUME Built, NEW k \in Attempt, NEW f \in [currency : Nat, asset : Nat],
         Compose(k, f), order' = order
  PROVE  Built'
<1>1. funds' = [funds EXCEPT ![k] = f] /\ ops' = [ops EXCEPT ![k] = Operations(order, f)]
  BY DEF Compose
<1>2. \A j \in Attempt : ops'[j] = IF j = k THEN Operations(order, f) ELSE ops[j]
  BY <1>1 DEF Built
<1>3. ops' = [j \in Attempt |-> ops'[j]]
  BY <1>1 DEF Built
<1>4. \A j \in Attempt : funds'[j] = IF j = k THEN f ELSE funds[j]
  BY <1>1 DEF Built
<1>5. funds' \in [Attempt -> [currency : Nat, asset : Nat]]
  BY <1>1 DEF Built
<1>6. ASSUME NEW j \in Attempt, ops'[j] # <<>> PROVE ops'[j] = Operations(order, funds'[j])
  BY <1>2, <1>4, <1>6 DEF Built
<1>7. order' \in Orders /\ \A j \in Attempt : ops'[j] # <<>> => ops'[j] = Operations(order', funds'[j])
  BY <1>6 DEF Built
<1> QED BY <1>3, <1>5, <1>7 DEF Built

LEMMA BNextBuilt == Built /\ [BNext]_bVars => Built'
<1> SUFFICES ASSUME Built, [BNext]_bVars PROVE Built'
  OBVIOUS
<1>1. ASSUME UNCHANGED <<order, built>> PROVE Built'
  BY <1>1 DEF Built, built
<1>2. CASE broker \/ Tick \/ UNCHANGED bVars
  BY <1>1, <1>2 DEF broker, Spawn, Join, Return, Tick, child, bVars, caller
<1>3. ASSUME NEW k \in Attempt, execute(k) PROVE Built'
  <2>1. CASE \/ Shake(k) \/ TryFails(k) \/ NoUse(k) \/ Begin(k) \/ TestKey(k)
             \/ GotBlock(k) \/ Sign(k) \/ Report(k)
    BY <1>1, <2>1 DEF Shake, TryFails, NoUse, Begin, TestKey, GotBlock, Sign, Report, caller
  <2>2. CASE GotFees(k)
    <3>1. order' = order /\ (UNCHANGED built \/ Compose(k, funds[k]))
      BY <2>2 DEF GotFees, caller
    <3>2. funds[k] \in [currency : Nat, asset : Nat]
      BY DEF Built
    <3> QED BY <3>1, <3>2, <1>1, ComposeBuilt
  <2>3. CASE GotBalances(k)
    <3>1. order' = order /\ (UNCHANGED built \/ \E f \in Funds : Compose(k, f))
      BY <2>3 DEF GotBalances, caller
    <3> QED BY <3>1, <1>1, ComposeBuilt, BrokerAssumption
  <2> QED BY <2>1, <2>2, <2>3, <1>3 DEF execute
<1> QED BY <1>2, <1>3 DEF BNext

\* Every child's operations are built from the order it was given and from one
\* answer of the node: a report that comes late never mixes two of them.
THEOREM BuiltOfOneAnswer == BSpec => []Built
<1> QED BY BInitBuilt, BNextBuilt, PTL DEF BSpec

\* No transaction sells more of the currency or of the asset than the account has,
\* whatever the orders, the number of their edicts and the balances, as long as an
\* order does not sell for the asset it sells.
THEOREM BrokerWithinMeans ==
  (\A o \in Orders : o.asset # o.currency) /\ BSpec => []SoldWithinMeans
<1>1. ASSUME \A o \in Orders : o.asset # o.currency PROVE Built => SoldWithinMeans
  <2> SUFFICES ASSUME Built, NEW k \in Attempt, ops[k] # <<>>
               PROVE  /\ Sold(ops[k], order.currency) <= funds[k].currency
                      /\ Sold(ops[k], order.asset) <= funds[k].asset
    BY DEF SoldWithinMeans
  <2>1. /\ ops[k] = Operations(order, funds[k])
        /\ funds[k] \in [currency : Nat, asset : Nat]
        /\ order \in Orders
    BY DEF Built
  <2>2. order.edicts \in Seq(Edicts) /\ order.asset # order.currency
    BY <2>1, <1>1, BrokerAssumption DEF Edicts
  <2> QED BY <2>1, <2>2, OperationsWithin
<1>2. ASSUME \A o \in Orders : o.asset # o.currency PROVE BSpec => []SoldWithinMeans
  <2>1. Built => SoldWithinMeans
    BY <1>1, <1>2
  <2> QED BY <2>1, BuiltOfOneAnswer, PTL
<1> QED BY <1>2
=============================================================================
