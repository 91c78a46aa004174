--------------------------- MODULE Watchdog_proofs ---------------------------
(***************************************************************************)
(* Proofs about Watchdog, for any children, workers and sessions and any   *)
(* staleness: whatever reads and writes of the file overlap, no entry that *)
(* says alive is newer than the last check-in behind it, and so the loop   *)
(* of a worker that checks in ends when main is gone. The latter needs     *)
(* BOOT <= STALE: main reaches its loop before the stamp it starts with is *)
(* stale.                                                                  *)
(***************************************************************************)
EXTENDS Watchdog, TLAPS

BootInTime == BOOT <= STALE

\* A copy of the file is held only between a read and its write.
CopyHeld ==
  /\ \A p \in Proc : wpc[p] = "read" <=> copy[p] # Scrubbed
  /\ copy[MainProc] # Scrubbed => mpc \in {"initread", "read"}

\* Main starts the early workers of its session when it has first checked in,
\* the others when it is done booting.
NotStarted ==
  \A p \in Proc : wpc[p] # "none" =>
    /\ p[2] <= session
    /\ mpc \in {"init", "initread"} => p[2] # session
    /\ mpc = "boot" /\ p[1] \notin Early => p[2] # session

\* With entries quiet for so long, nobody looks newer in stamps than the last
\* check-in, and main is not reported dead.
Honest(stamps, quiet) ==
  stamps # Scrubbed =>
    /\ stamps["main"].alive
    /\ \A e \in Entry : stamps[e].alive => stamps[e].age >= quiet[e]

AllHonest == Honest(file, silent) /\ \A who \in Who : Honest(copy[who], silent)

SInv == WatchdogTypeOK /\ CopyHeld /\ NotStarted /\ AllHonest

-----------------------------------------------------------------------------
(* Stamps                                                                  *)

LEMMA EntryFacts ==
  /\ "main" \in Entry /\ "main" \notin Child
  /\ \A p \in Proc : ChildOf[p[1]] \in Child /\ p[2] \in 1 .. MaxSessions
BY WatchdogAssumption DEF Entry

LEMMA CapFacts == Cap \in Nat /\ Cap >= 2 /\ Cap >= STALE + 2
BY WatchdogAssumption DEF Cap

LEMMA OlderFacts ==
  /\ \A n \in 0 .. Cap : Older(n) \in 0 .. Cap /\ Older(n) <= n + 1
  /\ \A m, n \in 0 .. Cap : m >= n => Older(m) >= Older(n)
BY CapFacts DEF Older

Full == [Entry -> [age : 0 .. Cap, alive : BOOLEAN]]

LEMMA ScrubbedFacts == Scrubbed \in Stamps /\ Scrubbed \notin Full
<1>1. "main" \in Entry /\ DOMAIN Scrubbed = {}
  BY EntryFacts DEF Scrubbed
<1> QED BY <1>1 DEF Stamps, Full

LEMMA FreshFacts == Fresh \in [age : 0 .. Cap, alive : BOOLEAN] /\ Fresh.age = 0 /\ Fresh.alive
BY CapFacts DEF Fresh

LEMMA AlertingFacts ==
  ASSUME NEW stamps
  PROVE  Alerting(stamps) \subseteq Child /\ "main" \notin Alerting(stamps)
BY WatchdogAssumption DEF Alerting

Times == [Entry -> 0 .. Cap]

LEMMA HonestStays ==
  ASSUME NEW stamps \in Stamps, NEW s \in Times, NEW t \in Times,
         Honest(stamps, s), \A e \in Entry : t[e] <= s[e]
  PROVE  Honest(stamps, t)
<1>1. CASE stamps = Scrubbed
  BY <1>1 DEF Honest
<1>2. CASE stamps \in Full
  BY <1>2, CapFacts DEF Honest, Full, Times
<1> QED BY <1>1, <1>2 DEF Stamps, Full

\* A check-in of main resets its own time, or all of them in a new file.
Reset(stamps, s) == [e \in Entry |-> IF e = "main" \/ stamps = Scrubbed THEN 0 ELSE s[e]]

LEMMA MainStampsFacts ==
  ASSUME NEW stamps \in Stamps, NEW s \in Times, Honest(stamps, s)
  PROVE  /\ MainStamps(stamps) \in Full
         /\ Reset(stamps, s) \in Times
         /\ Honest(MainStamps(stamps), Reset(stamps, s))
<1>1. [age |-> 0, alive |-> FALSE] \in [age : 0 .. Cap, alive : BOOLEAN]
  BY CapFacts
<1>2. Reset(stamps, s) \in Times
  BY CapFacts DEF Reset, Times
<1>3. CASE stamps = Scrubbed
  <2>1. MainStamps(stamps) \in Full
    BY <1>3, FreshFacts DEF MainStamps, Full
  <2>2. \A e \in Entry : MainStamps(stamps)[e] = Fresh /\ Reset(stamps, s)[e] = 0
    BY <1>3 DEF MainStamps, Reset
  <2>3. Honest(MainStamps(stamps), Reset(stamps, s))
    BY <2>2, FreshFacts, EntryFacts DEF Honest
  <2> QED BY <1>2, <2>1, <2>3
<1>4. CASE stamps # Scrubbed
  <2>1. stamps \in Full
    BY <1>4 DEF Stamps, Full
  <2>2. MainStamps(stamps) \in Full
    BY <1>1, <1>4, <2>1, FreshFacts DEF MainStamps, Full
  <2>3. MainStamps(stamps)["main"] = Fresh
    BY <1>4, EntryFacts DEF MainStamps
  <2>4. ASSUME NEW e \in Entry, MainStamps(stamps)[e].alive
        PROVE  MainStamps(stamps)[e].age >= Reset(stamps, s)[e]
    <3>1. CASE e = "main"
      BY <3>1, <2>3, FreshFacts DEF Reset
    <3>2. CASE e # "main"
      <4>1. e \notin Alerting(stamps)
        BY <2>4, <3>2, <1>4 DEF MainStamps
      <4>2. MainStamps(stamps)[e] = stamps[e] /\ Reset(stamps, s)[e] = s[e]
        BY <4>1, <3>2, <1>4 DEF MainStamps, Reset
      <4> QED BY <2>4, <4>2, <1>4 DEF Honest
    <3> QED BY <3>1, <3>2
  <2> QED BY <1>2, <2>2, <2>3, <2>4, FreshFacts DEF Honest
<1> QED BY <1>3, <1>4

-----------------------------------------------------------------------------
LEMMA WInitInv == WInit => SInv
<1> SUFFICES ASSUME WInit PROVE SInv
  OBVIOUS
<1>1. WatchdogTypeOK
  BY ScrubbedFacts, CapFacts, WatchdogAssumption DEF WInit, WatchdogTypeOK
<1>2. CopyHeld /\ NotStarted /\ AllHonest
  BY DEF WInit, CopyHeld, NotStarted, AllHonest, Honest, Who
<1> QED BY <1>1, <1>2 DEF SInv

-----------------------------------------------------------------------------
(* Main                                                                    *)

LEMMA WhoFacts == MainProc \in Who /\ MainProc \notin Proc /\ Proc \subseteq Who
BY EntryFacts DEF Who, MainProc

LEMMA MainReadInv == SInv /\ MainRead => SInv'
<1> SUFFICES ASSUME SInv, MainRead PROVE SInv'
  OBVIOUS
<1>1. /\ copy' = [copy EXCEPT ![MainProc] = file]
      /\ \/ mpc = "init" /\ mpc' = "initread"
         \/ mpc = "due" /\ mpc' = "read"
      /\ UNCHANGED <<file, wpc, session, boot, alerts, silent, races, raced>>
      /\ copy \in [Who -> Stamps]
  BY DEF MainRead, Hold, hVars, SInv, WatchdogTypeOK
<1>2. WatchdogTypeOK'
  <2>1. copy' \in [Who -> Stamps] /\ file' \in Stamps
    BY <1>1 DEF SInv, WatchdogTypeOK
  <2> QED BY <1>1, <2>1 DEF SInv, WatchdogTypeOK
<1>3. CopyHeld' /\ NotStarted'
  BY <1>1, WhoFacts DEF SInv, CopyHeld, NotStarted
<1>4. AllHonest'
  BY <1>1 DEF SInv, AllHonest
<1> QED BY <1>2, <1>3, <1>4 DEF SInv

LEMMA MainWriteInv == SInv /\ MainWrite => SInv'
<1> SUFFICES ASSUME SInv, MainWrite PROVE SInv'
  OBVIOUS
<1> DEFINE old == copy[MainProc]
<1>1. /\ mpc \in {"initread", "read"}
      /\ copy' = [copy EXCEPT ![MainProc] = Scrubbed]
      /\ file' = MainStamps(old) /\ alerts' = Alerting(old)
      /\ mpc' = IF mpc = "initread" THEN "boot" ELSE "sleep"
      /\ wpc' = IF mpc = "initread"
                THEN [p \in Proc |-> IF p[1] \in Early /\ p[2] = session
                                     THEN "sleep" ELSE wpc[p]]
                ELSE wpc
      /\ boot' = IF mpc = "initread" THEN 0 ELSE boot
      /\ UNCHANGED <<session, races, raced>>
      /\ silent' = Reset(old, silent)
      /\ old \in Stamps /\ copy \in [Who -> Stamps] /\ silent \in Times
      /\ wpc \in [Proc -> {"none", "sleep", "due", "read", "hung", "gone", "threads"}]
  BY WhoFacts DEF MainWrite, Drop, SInv, WatchdogTypeOK, Reset, Times
<1>2. Honest(old, silent)
  BY WhoFacts DEF SInv, AllHonest
<1>3. /\ file' \in Full /\ silent' \in Times /\ Honest(file', silent')
      /\ \A e \in Entry : silent'[e] <= silent[e]
  <2>1. \A e \in Entry : Reset(old, silent)[e] <= silent[e]
    BY <1>1, CapFacts DEF Reset, Times
  <2> QED BY <1>1, <1>2, <2>1, MainStampsFacts
<1>4. WatchdogTypeOK'
  <2>1. file' \in Stamps /\ copy' \in [Who -> Stamps] /\ silent' \in [Entry -> 0 .. Cap]
    BY <1>1, <1>3, ScrubbedFacts DEF Stamps, Full, Times
  <2>2. alerts' \subseteq Child
    BY <1>1, AlertingFacts
  <2>3. wpc' \in [Proc -> {"none", "sleep", "due", "read", "hung", "gone", "threads"}]
    BY <1>1
  <2> QED BY <1>1, <2>1, <2>2, <2>3, WatchdogAssumption DEF SInv, WatchdogTypeOK
<1>5. CopyHeld' /\ NotStarted'
  <2>1. ASSUME NEW p \in Proc, wpc'[p] # wpc[p]
        PROVE  wpc[p] = "none" /\ wpc'[p] = "sleep" /\ p[2] = session /\ p[1] \in Early
               /\ mpc = "initread"
    BY <1>1, <2>1 DEF SInv, NotStarted
  <2>2. \A p \in Proc : copy'[p] = copy[p]
    BY <1>1, WhoFacts
  <2>3. CopyHeld'
    BY <1>1, <2>1, <2>2, WhoFacts DEF SInv, CopyHeld
  <2>4. NotStarted'
    BY <1>1, <2>1, EntryFacts DEF SInv, NotStarted, WatchdogTypeOK
  <2> QED BY <2>3, <2>4
<1>6. AllHonest'
  <2>1. ASSUME NEW who \in Who PROVE Honest(copy'[who], silent')
    <3>1. CASE copy'[who] = Scrubbed
      BY <3>1 DEF Honest
    <3>2. CASE copy'[who] = copy[who]
      BY <3>2, <1>1, <1>3, HonestStays DEF SInv, AllHonest
    <3> QED BY <1>1, <3>1, <3>2
  <2> QED BY <1>3, <2>1 DEF AllHonest
<1> QED BY <1>4, <1>5, <1>6 DEF SInv

LEMMA StartInv == SInv /\ Start => SInv'
<1> SUFFICES ASSUME SInv, Start PROVE SInv'
  OBVIOUS
<1> USE DEF SInv, Start
<1>1. WatchdogTypeOK'
  BY ScrubbedFacts, WatchdogAssumption DEF WatchdogTypeOK
<1>2. CopyHeld' /\ NotStarted'
  BY EntryFacts DEF CopyHeld, NotStarted, WatchdogTypeOK
<1>3. AllHonest'
  BY DEF AllHonest, Honest
<1> QED BY <1>1, <1>2, <1>3

LEMMA BootedInv == SInv /\ Booted => SInv'
<1> SUFFICES ASSUME SInv, Booted PROVE SInv'
  OBVIOUS
<1>1. /\ mpc = "boot" /\ mpc' = "sleep"
      /\ wpc' = [p \in Proc |-> IF p[1] \notin Early /\ p[2] = session
                                 THEN "sleep" ELSE wpc[p]]
      /\ UNCHANGED <<file, copy, session, boot, alerts, silent, races, raced>>
  BY DEF Booted, hVars
<1>2. WatchdogTypeOK'
  BY <1>1 DEF SInv, WatchdogTypeOK
<1>3. \A p \in Proc : wpc'[p] # wpc[p] =>
         wpc[p] = "none" /\ wpc'[p] = "sleep" /\ p[2] = session
  BY <1>1 DEF SInv, NotStarted
<1>4. CopyHeld' /\ NotStarted'
  BY <1>1, <1>3, EntryFacts DEF SInv, CopyHeld, NotStarted, WatchdogTypeOK
<1>5. AllHonest'
  BY <1>1 DEF SInv, AllHonest
<1> QED BY <1>2, <1>4, <1>5 DEF SInv

LEMMA MainDiesInv == SInv /\ MainDies => SInv'
<1> SUFFICES ASSUME SInv, MainDies PROVE SInv'
  OBVIOUS
<1>1. /\ mpc' = "down" /\ copy' = [copy EXCEPT ![MainProc] = Scrubbed]
      /\ UNCHANGED <<file, wpc, session, boot, alerts, silent, races, raced>>
      /\ copy \in [Who -> Stamps]
  BY DEF MainDies, Drop, hVars, SInv, WatchdogTypeOK
<1>2. WatchdogTypeOK'
  BY <1>1, ScrubbedFacts DEF SInv, WatchdogTypeOK
<1>3. CopyHeld' /\ NotStarted'
  BY <1>1, WhoFacts DEF SInv, CopyHeld, NotStarted
<1>4. AllHonest'
  BY <1>1 DEF SInv, AllHonest, Honest
<1> QED BY <1>2, <1>3, <1>4 DEF SInv

-----------------------------------------------------------------------------
(* The workers                                                             *)

\* A worker that leaves the file alone goes from due to s.
LEMMA WorkerMoves ==
  ASSUME SInv, NEW p \in Proc, wpc[p] = "due",
         NEW s \in {"sleep", "gone", "threads"}, wpc' = [wpc EXCEPT ![p] = s],
         UNCHANGED <<file, mpc, copy, session, boot, alerts, silent, races, raced>>
  PROVE  SInv'
<1>1. WatchdogTypeOK'
  BY DEF SInv, WatchdogTypeOK
<1>2. CopyHeld' /\ NotStarted'
  BY DEF SInv, CopyHeld, NotStarted, WatchdogTypeOK
<1>3. AllHonest'
  BY DEF SInv, AllHonest
<1> QED BY <1>1, <1>2, <1>3 DEF SInv

LEMMA WorkerReadInv == ASSUME SInv, NEW p \in Proc, WorkerRead(p) PROVE SInv'
<1>1. /\ wpc[p] = "due" /\ file # Scrubbed
      /\ copy' = [copy EXCEPT ![p] = file] /\ wpc' = [wpc EXCEPT ![p] = "read"]
      /\ UNCHANGED <<file, mpc, session, boot, alerts, silent, races, raced>>
      /\ file \in Stamps /\ copy \in [Who -> Stamps]
      /\ wpc \in [Proc -> {"none", "sleep", "due", "read", "hung", "gone", "threads"}]
  BY DEF WorkerRead, Hold, Become, hVars, SInv, WatchdogTypeOK
<1>2. WatchdogTypeOK'
  <2>1. copy' \in [Who -> Stamps]
    BY <1>1
  <2> QED BY <1>1, <2>1 DEF SInv, WatchdogTypeOK
<1>3. CopyHeld' /\ NotStarted'
  BY <1>1, WhoFacts DEF SInv, CopyHeld, NotStarted
<1>4. AllHonest'
  BY <1>1 DEF SInv, AllHonest
<1> QED BY <1>2, <1>3, <1>4 DEF SInv

\* What a check-in of worker p writes and resets.
LEMMA WorkerWriteFacts ==
  ASSUME SInv, NEW p \in Proc, WorkerWrite(p)
  PROVE  /\ ChildOf[p[1]] \in Child /\ copy[p] \in Full
         /\ file' = [copy[p] EXCEPT ![ChildOf[p[1]]] = Fresh] /\ file' \in Full
         /\ file'["main"] = copy[p]["main"]
         /\ silent \in Times /\ silent' = [silent EXCEPT ![ChildOf[p[1]]] = 0]
         /\ silent' \in Times /\ \A e \in Entry : silent'[e] <= silent[e]
         /\ silent'["main"] = silent["main"]
<1>1. /\ ChildOf[p[1]] \in Entry /\ ChildOf[p[1]] # "main" /\ "main" \in Entry
      /\ ChildOf[p[1]] \in Child
  BY EntryFacts DEF Entry
<1>2. copy[p] \in Full
  BY WhoFacts DEF SInv, WatchdogTypeOK, CopyHeld, WorkerWrite, Stamps, Full
<1>3. file' = [copy[p] EXCEPT ![ChildOf[p[1]]] = Fresh]
  BY DEF WorkerWrite
<1>4. silent \in Times /\ silent' = [silent EXCEPT ![ChildOf[p[1]]] = 0]
  BY DEF WorkerWrite, SInv, WatchdogTypeOK, Times
<1>5. file' \in Full /\ file'["main"] = copy[p]["main"]
  BY <1>1, <1>2, <1>3, FreshFacts DEF Full
<1>6. /\ silent' \in Times /\ \A e \in Entry : silent'[e] <= silent[e]
      /\ silent'["main"] = silent["main"]
  BY <1>1, <1>4, CapFacts DEF Times
<1> QED BY <1>1, <1>2, <1>3, <1>4, <1>5, <1>6

LEMMA WorkerWriteInv == ASSUME SInv, NEW p \in Proc, WorkerWrite(p) PROVE SInv'
<1> DEFINE c == ChildOf[p[1]]
<1>1. /\ wpc[p] = "read"
      /\ copy' = [copy EXCEPT ![p] = Scrubbed] /\ wpc' = [wpc EXCEPT ![p] = "sleep"]
      /\ raced' \in {"no", "yes", "orphan"}
      /\ UNCHANGED <<mpc, session, boot, alerts, races>>
      /\ copy \in [Who -> Stamps] /\ p \in Who
      /\ wpc \in [Proc -> {"none", "sleep", "due", "read", "hung", "gone", "threads"}]
  BY WhoFacts DEF WorkerWrite, Drop, Become, SInv, WatchdogTypeOK
<1>2. WatchdogTypeOK'
  <2>1. copy' \in [Who -> Stamps]
    BY <1>1, ScrubbedFacts
  <2>2. file' \in Stamps /\ silent' \in [Entry -> 0 .. Cap]
    BY WorkerWriteFacts DEF Stamps, Full, Times
  <2> QED BY <1>1, <2>1, <2>2 DEF SInv, WatchdogTypeOK
<1>3. CopyHeld' /\ NotStarted'
  BY <1>1, WhoFacts DEF SInv, CopyHeld, NotStarted
<1>4. Honest(file', silent')
  <2>1. file' # Scrubbed /\ copy[p] # Scrubbed
    BY WorkerWriteFacts, ScrubbedFacts
  <2>2. Honest(copy[p], silent)
    BY <1>1 DEF SInv, AllHonest
  <2>3. ASSUME NEW e \in Entry, file'[e].alive PROVE file'[e].age >= silent'[e]
    <3>1. CASE e = c
      BY <3>1, WorkerWriteFacts, FreshFacts DEF Full, Times
    <3>2. CASE e # c
      <4>1. file'[e] = copy[p][e] /\ silent'[e] = silent[e]
        BY <3>2, WorkerWriteFacts DEF Full, Times
      <4> QED BY <4>1, <2>1, <2>2, <2>3 DEF Honest
    <3> QED BY <3>1, <3>2
  <2> QED BY <2>1, <2>2, <2>3, WorkerWriteFacts DEF Honest
<1>5. ASSUME NEW who \in Who PROVE Honest(copy'[who], silent')
  <2>1. CASE copy'[who] = Scrubbed
    BY <2>1 DEF Honest
  <2>2. CASE copy'[who] = copy[who]
    BY <2>2, <1>1, HonestStays, WorkerWriteFacts DEF SInv, AllHonest
  <2> QED BY <1>1, <2>1, <2>2
<1> QED BY <1>2, <1>3, <1>4, <1>5 DEF SInv, AllHonest

LEMMA CheckInv == ASSUME SInv, NEW p \in Proc, Check(p) PROVE SInv'
<1>1. CASE WorkerExit(p)
  BY <1>1, WorkerMoves DEF WorkerExit, Become, hVars
<1>2. CASE WorkerKeyError(p)
  BY <1>2, WorkerMoves DEF WorkerKeyError, Become, hVars
<1> QED BY <1>1, <1>2, WorkerReadInv, WorkerWriteInv DEF Check

-----------------------------------------------------------------------------
(* Time                                                                    *)

LEMMA TickFacts ==
  ASSUME SInv, Tick
  PROVE  /\ file = Scrubbed => file' = Scrubbed
         /\ file # Scrubbed => /\ file \in Full /\ file' \in Full
                               /\ \A e \in Entry : file'[e].age = Older(file[e].age)
                                                  /\ file'[e].alive = file[e].alive
         /\ silent \in Times /\ silent' \in Times
         /\ \A e \in Entry : silent'[e] = Older(silent[e])
         /\ wpc' \in [Proc -> {"none", "sleep", "due", "hung", "gone", "threads"}]
         /\ \A p \in Proc : wpc'[p] = "sleep" => p[1] \in Unwatched
         /\ \A p \in Proc : wpc[p] \notin {"due", "read"}
         /\ \A p \in Proc : wpc'[p] # "none" => wpc[p] # "none"
         /\ copy' = copy /\ session' = session /\ alerts' = {}
<1>1. /\ file' = [e \in DOMAIN file |-> [file[e] EXCEPT !.age = Older(@)]]
      /\ silent' = [e \in Entry |-> Older(silent[e])] /\ silent \in Times
      /\ file \in Stamps
      /\ \A p \in Proc : wpc[p] \notin {"due", "read"}
      /\ copy' = copy /\ session' = session /\ alerts' = {}
  BY DEF Tick, SInv, WatchdogTypeOK, Times
<1>2. ASSUME file = Scrubbed PROVE file' = Scrubbed
  <2>1. DOMAIN file = {}
    BY <1>2 DEF Scrubbed
  <2>2. file' = [e \in {} |-> [file[e] EXCEPT !.age = Older(@)]]
    BY <1>1, <2>1
  <2> QED BY <2>2 DEF Scrubbed
<1>3. ASSUME file # Scrubbed
      PROVE  /\ file \in Full /\ file' \in Full
             /\ \A e \in Entry : file'[e].age = Older(file[e].age)
                                /\ file'[e].alive = file[e].alive
  <2>1. file \in Full
    BY <1>1, <1>3 DEF Stamps, Full
  <2>2. \A e \in Entry : /\ file[e] \in [age : 0 .. Cap, alive : BOOLEAN]
                        /\ Older(file[e].age) \in 0 .. Cap
    BY <2>1, OlderFacts DEF Full
  <2> QED BY <1>1, <2>1, <2>2 DEF Full
<1>4. silent' \in Times
  BY <1>1, OlderFacts DEF Times
<1>5. PICK busy \in SUBSET {p \in Proc : p[1] \notin Unwatched /\ wpc[p] \in {"sleep", "hung"}} :
        wpc' = [p \in Proc |-> IF p[1] \in Unwatched THEN wpc[p]
                               ELSE IF p \in busy THEN "hung"
                               ELSE IF wpc[p] \in {"sleep", "hung"} THEN "due"
                               ELSE wpc[p]]
  BY DEF Tick
<1>6. /\ wpc' \in [Proc -> {"none", "sleep", "due", "hung", "gone", "threads"}]
      /\ \A p \in Proc : wpc'[p] = "sleep" => p[1] \in Unwatched
      /\ \A p \in Proc : wpc'[p] # "none" => wpc[p] # "none"
  BY <1>1, <1>5 DEF SInv, WatchdogTypeOK
<1> QED BY <1>1, <1>2, <1>3, <1>4, <1>6

LEMMA TickInv == SInv /\ Tick => SInv'
<1> SUFFICES ASSUME SInv, Tick PROVE SInv'
  OBVIOUS
<1>1. /\ mpc \in {"down", "boot", "sleep"}
      /\ mpc' = IF mpc = "sleep" THEN "due" ELSE mpc
      /\ mpc = "boot" => boot < BOOT
      /\ boot' = IF mpc = "boot" THEN boot + 1 ELSE IF Survived THEN 0 ELSE boot
      /\ raced' = "no"
  BY DEF Tick
<1>2. races' \in 0 .. STALE
  BY WatchdogAssumption DEF Tick, SInv, WatchdogTypeOK
<1>3. boot' \in 0 .. BOOT
  BY <1>1, WatchdogAssumption DEF SInv, WatchdogTypeOK
<1>4. WatchdogTypeOK'
  <2>1. file' \in Stamps /\ silent' \in [Entry -> 0 .. Cap]
    BY TickFacts, ScrubbedFacts DEF Stamps, Full, Times
  <2>2. /\ wpc' \in [Proc -> {"none", "sleep", "due", "read", "hung", "gone", "threads"}]
        /\ copy' = copy /\ session' = session /\ alerts' = {}
    BY TickFacts
  <2> QED BY <1>1, <1>2, <1>3, <2>1, <2>2 DEF SInv, WatchdogTypeOK
<1>5. \A who \in Who : copy[who] = Scrubbed
  BY <1>1, TickFacts DEF SInv, CopyHeld, Who
<1>6. CopyHeld' /\ NotStarted'
  BY <1>1, <1>5, TickFacts, WhoFacts DEF SInv, CopyHeld, NotStarted
<1>7. AllHonest'
  <2>1. CASE file = Scrubbed
    BY <2>1, <1>5, TickFacts DEF AllHonest, Honest
  <2>2. CASE file # Scrubbed
    <3>1. Honest(file, silent)
      BY DEF SInv, AllHonest
    <3>2. ASSUME NEW e \in Entry, file'[e].alive PROVE file'[e].age >= silent'[e]
      <4>1. /\ file[e].age \in 0 .. Cap /\ silent[e] \in 0 .. Cap /\ file[e].alive
            /\ file'[e].age = Older(file[e].age) /\ silent'[e] = Older(silent[e])
        BY <2>2, <3>2, TickFacts DEF Full, Times
      <4> QED BY <4>1, <2>2, <3>1, OlderFacts DEF Honest
    <3>3. file'["main"].alive
      BY <2>2, <3>1, TickFacts, EntryFacts DEF Honest
    <3> QED BY <1>5, <3>2, <3>3, TickFacts DEF AllHonest, Honest
  <2> QED BY <2>1, <2>2
<1> QED BY <1>4, <1>6, <1>7 DEF SInv

-----------------------------------------------------------------------------
LEMMA SNextInv == SInv /\ [WNext]_vars => SInv'
<1>1. SInv /\ UNCHANGED vars => SInv'
  BY DEF vars, wVars, hVars, SInv, WatchdogTypeOK, CopyHeld, NotStarted, AllHonest
<1> QED BY <1>1, MainReadInv, MainWriteInv, BootedInv, StartInv, MainDiesInv, TickInv,
           CheckInv DEF WNext, Main

\* Every behaviour of the watchdog keeps the invariant.
THEOREM WatchdogInvariant == WatchdogSpec => []SInv
<1> QED BY WInitInv, SNextInv, PTL DEF WatchdogSpec

\* The types of the watchdog's state.
THEOREM WatchdogType == WatchdogSpec => []WatchdogTypeOK
<1>1. SInv => WatchdogTypeOK BY DEF SInv
<1> QED BY <1>1, WatchdogInvariant, PTL

\* No entry that says alive is newer than the last check-in behind it.
THEOREM SilenceIsShown == WatchdogSpec => []SilenceShows
<1>1. SInv => SilenceShows BY DEF SInv, AllHonest, Honest, SilenceShows
<1> QED BY <1>1, WatchdogInvariant, PTL

-----------------------------------------------------------------------------
(* Workers end after main                                                  *)

\* A worker that works on or is about to write has found main in time, or is one
\* that takes a new file for no reason to end.
OInv ==
  /\ \A p \in Proc :
       /\ wpc[p] = "read" => silent["main"] <= STALE
       /\ p[1] \notin Unwatched /\ wpc[p] = "sleep" =>
            silent["main"] <= STALE \/ (file = Scrubbed /\ p[1] \in Resilient)
  /\ mpc = "boot" => silent["main"] <= boot

LEMMA WInitOrphans == WInit => OInv
BY DEF WInit, OInv

\* Main's stamp, in a file that is not new.
LEMMA MainStampFacts ==
  ASSUME SInv
  PROVE  /\ silent["main"] \in Nat
         /\ file # Scrubbed => /\ file \in Full /\ file["main"].age \in Nat
                               /\ file["main"].age >= silent["main"]
         /\ \A p \in Proc : wpc[p] = "read" =>
              copy[p] # Scrubbed /\ copy[p] \in Full /\ copy[p]["main"].age \in Nat
<1>1. "main" \in Entry /\ 0 .. Cap \subseteq Nat
  BY EntryFacts, CapFacts
<1>2. silent["main"] \in Nat
  BY <1>1 DEF SInv, WatchdogTypeOK
<1>3. ASSUME file # Scrubbed
      PROVE  file \in Full /\ file["main"].age \in Nat /\ file["main"].age >= silent["main"]
  <2>1. file \in Full
    BY <1>3 DEF SInv, WatchdogTypeOK, Stamps, Full
  <2>2. Honest(file, silent)
    BY DEF SInv, AllHonest
  <2> QED BY <1>1, <1>3, <2>1, <2>2 DEF Honest, Full
<1>4. ASSUME NEW p \in Proc, wpc[p] = "read"
      PROVE  copy[p] # Scrubbed /\ copy[p] \in Full /\ copy[p]["main"].age \in Nat
  <2>1. copy[p] # Scrubbed /\ copy[p] \in Full
    BY <1>4, WhoFacts DEF SInv, WatchdogTypeOK, CopyHeld, Stamps, Full
  <2> QED BY <1>1, <2>1 DEF Full
<1> QED BY <1>2, <1>3, <1>4

LEMMA MainWriteStamp ==
  ASSUME SInv, MainWrite
  PROVE  /\ silent'["main"] = 0 /\ file' # Scrubbed /\ file'["main"].age = 0
         /\ \A p \in Proc : wpc'[p] # wpc[p] => wpc'[p] = "sleep"
         /\ \A p \in Proc : copy'[p] = copy[p]
<1>1. silent'["main"] = 0
  BY EntryFacts DEF MainWrite
<1>2. file' # Scrubbed /\ file'["main"] = Fresh
  <2>1. file' = MainStamps(copy[MainProc]) /\ "main" \in Entry
    BY EntryFacts DEF MainWrite
  <2>2. DOMAIN file' = Entry /\ file'["main"] = Fresh
    BY <2>1 DEF MainStamps
  <2> QED BY <2>1, <2>2 DEF Scrubbed
<1>3. \A p \in Proc : wpc'[p] # wpc[p] => wpc'[p] = "sleep"
  BY DEF MainWrite, SInv, WatchdogTypeOK
<1>4. \A p \in Proc : copy'[p] = copy[p]
  BY WhoFacts DEF MainWrite, Drop, SInv, WatchdogTypeOK
<1> QED BY <1>1, <1>2, <1>3, <1>4, FreshFacts

LEMMA MainOrphans ==
  ASSUME BootInTime, SInv, OInv, Main \/ Start \/ MainDies
  PROVE  OInv'
<1>1. CASE MainRead
  BY <1>1 DEF MainRead, hVars, OInv
<1>2. CASE MainWrite
  <2>1. silent'["main"] = 0 /\ boot' \in Nat /\ STALE \in Nat
    BY <1>2, MainWriteStamp, WatchdogAssumption DEF MainWrite, SInv, WatchdogTypeOK
  <2> QED BY <2>1 DEF OInv
<1>3. CASE Booted
  <2>1. /\ mpc = "boot" /\ mpc' = "sleep" /\ UNCHANGED <<file, silent, boot>>
        /\ \A p \in Proc : wpc'[p] # wpc[p] => wpc'[p] = "sleep"
    BY <1>3 DEF Booted, hVars, SInv, WatchdogTypeOK
  <2>2. silent["main"] <= STALE
    BY <2>1, MainStampFacts, WatchdogAssumption DEF OInv, BootInTime, SInv, WatchdogTypeOK
  <2> QED BY <2>1, <2>2 DEF OInv
<1>4. CASE Start
  BY <1>4 DEF Start, OInv
<1>5. CASE MainDies
  BY <1>5 DEF MainDies, hVars, OInv
<1> QED BY <1>1, <1>2, <1>3, <1>4, <1>5 DEF Main

LEMMA CheckOrphans == ASSUME SInv, OInv, NEW p \in Proc, Check(p) PROVE OInv'
<1>1. CASE WorkerRead(p)
  <2>1. file # Scrubbed /\ file["main"].age <= STALE
    BY <1>1 DEF WorkerRead
  <2>2. silent["main"] <= STALE
    BY <2>1, MainStampFacts, WatchdogAssumption
  <2> QED BY <1>1, <2>2 DEF WorkerRead, Become, hVars, OInv, SInv, WatchdogTypeOK
<1>2. CASE WorkerExit(p)
  BY <1>2 DEF WorkerExit, Become, hVars, OInv, SInv, WatchdogTypeOK
<1>3. CASE WorkerKeyError(p)
  BY <1>3 DEF WorkerKeyError, Become, hVars, OInv, SInv, WatchdogTypeOK
<1>4. CASE WorkerWrite(p)
  <2>1. silent["main"] <= STALE /\ silent'["main"] = silent["main"]
    BY <1>4, WorkerWriteFacts DEF WorkerWrite, OInv
  <2> QED BY <1>4, <2>1 DEF WorkerWrite, OInv
<1> QED BY <1>1, <1>2, <1>3, <1>4 DEF Check

LEMMA TickOrphans == SInv /\ OInv /\ Tick => OInv'
<1> SUFFICES ASSUME SInv, OInv, Tick PROVE OInv'
  OBVIOUS
<1>1. \A p \in Proc : wpc'[p] # "read" /\ (wpc'[p] = "sleep" => p[1] \in Unwatched)
  BY TickFacts
<1>2. ASSUME mpc' = "boot" PROVE silent'["main"] <= boot'
  <2>1. mpc = "boot" /\ boot' = boot + 1 /\ boot \in Nat
    BY <1>2, WatchdogAssumption DEF Tick, SInv, WatchdogTypeOK
  <2>2. /\ silent'["main"] = Older(silent["main"]) /\ silent["main"] \in 0 .. Cap
        /\ Older(silent["main"]) \in 0 .. Cap
    BY TickFacts, EntryFacts, OlderFacts DEF Times
  <2> QED BY <2>1, <2>2, OlderFacts, CapFacts DEF OInv
<1> QED BY <1>1, <1>2 DEF OInv

LEMMA ONextInv == BootInTime /\ SInv /\ OInv /\ [WNext]_vars => OInv'
<1>1. OInv /\ UNCHANGED vars => OInv'
  BY DEF vars, wVars, hVars, OInv
<1> QED BY <1>1, MainOrphans, CheckOrphans, TickOrphans DEF WNext

LEMMA InvOrphansEnd == OInv => OrphansEnd
BY DEF OInv, OrphansEnd

\* The loop of a worker that checks in ends when main has been silent for more
\* than STALE ticks, if main never takes longer than that to reach its loop.
THEOREM OrphansDoEnd == BootInTime /\ WatchdogSpec => []OrphansEnd
<1>1. ASSUME BootInTime PROVE WatchdogSpec => []OrphansEnd
  <2>1. SInv /\ OInv /\ [WNext]_vars => OInv'
    BY <1>1, ONextInv
  <2> QED BY <2>1, WInitOrphans, InvOrphansEnd, WatchdogInvariant, PTL DEF WatchdogSpec
<1> QED BY <1>1

-----------------------------------------------------------------------------
(* No worker ends under a live main without a row of races                 *)

Age == file["main"].age

\* Ticks in a row in which main's check-in was lost or main was booting.
Lost == races + boot

\* Main's stamp is as old as what was lost: as it is read in a tick it may be one
\* older, as it is left by the tick it is not, unless it was overwritten.
AgeIsLost ==
  /\ Age <= Lost + 1
  /\ raced = "no" /\ mpc \in {"boot", "sleep"} => Age <= Lost
  /\ \A p \in Proc : wpc[p] = "read" /\ p[2] = session => copy[p]["main"].age <= Lost + 1

RInv ==
  /\ \A p \in Proc : wpc[p] = "read" => copy[p]["main"].age <= STALE
  /\ MainUp =>
       /\ file # Scrubbed
       /\ raced # "no" => Age <= STALE
       /\ raced = "no" /\ silent["main"] = 0 => Age = 0
       /\ Lost >= STALE \/ raced = "orphan" \/ AgeIsLost

LEMMA WInitRaces == WInit => RInv
BY DEF WInit, RInv, MainUp

LEMMA NatFacts ==
  ASSUME SInv
  PROVE  races \in Nat /\ boot \in Nat /\ session \in Nat /\ STALE \in Nat
BY WatchdogAssumption DEF SInv, WatchdogTypeOK

LEMMA MainRaces == ASSUME SInv, RInv, Main \/ Start \/ MainDies PROVE RInv'
<1> USE NatFacts, MainStampFacts DEF Lost
<1>1. CASE MainRead
  <2>1. \A p \in Proc : copy'[p] = copy[p]
    BY <1>1, WhoFacts DEF MainRead, Hold, SInv, WatchdogTypeOK
  <2> QED BY <1>1, <2>1 DEF MainRead, hVars, RInv, MainUp, AgeIsLost, Age
<1>2. CASE MainWrite
  <2>1. /\ file' # Scrubbed /\ Age' = 0 /\ boot' \in Nat /\ races' = races
        /\ session' = session
        /\ \A p \in Proc : copy'[p] = copy[p] /\ (wpc'[p] = "read" => wpc[p] = "read")
        /\ boot' = IF mpc = "initread" THEN 0 ELSE boot
        /\ mpc \in {"initread", "read"}
    BY <1>2, MainWriteStamp DEF MainWrite, Age
  <2>2. CASE mpc = "initread"
    <3>1. \A p \in Proc : wpc'[p] = "read" => p[2] # session
      BY <2>1, <2>2 DEF SInv, NotStarted
    <3>2. AgeIsLost'
      BY <2>1, <3>1 DEF AgeIsLost
    <3> QED BY <2>1, <3>2 DEF RInv
  <2>3. CASE mpc = "read"
    <3>1. MainUp /\ boot' = boot /\ raced' = raced
      BY <1>2, <2>1, <2>3 DEF MainUp, MainWrite
    <3>2. AgeIsLost => AgeIsLost'
      BY <2>1, <3>1 DEF AgeIsLost
    <3> QED BY <2>1, <3>1, <3>2 DEF RInv
  <2> QED BY <2>1, <2>2, <2>3
<1>3. CASE Booted
  <2>1. /\ mpc = "boot" /\ mpc' = "sleep"
        /\ UNCHANGED <<file, silent, boot, races, raced, copy, session>>
        /\ \A p \in Proc : wpc'[p] = "read" => wpc[p] = "read"
    BY <1>3 DEF Booted, hVars, SInv, WatchdogTypeOK
  <2> QED BY <2>1 DEF RInv, MainUp, AgeIsLost, Age
<1>4. CASE Start
  BY <1>4 DEF Start, RInv, MainUp
<1>5. CASE MainDies
  <2>1. \A p \in Proc : copy'[p] = copy[p]
    BY <1>5, WhoFacts DEF MainDies, Drop, SInv, WatchdogTypeOK
  <2> QED BY <1>5, <2>1 DEF MainDies, RInv, MainUp
<1> QED BY <1>1, <1>2, <1>3, <1>4, <1>5 DEF Main

\* A step of a worker that leaves the file alone.
LEMMA WorkerIdles ==
  ASSUME RInv, UNCHANGED <<file, mpc, copy, session, boot, silent, races, raced>>,
         \A p \in Proc : wpc'[p] = "read" => wpc[p] = "read"
  PROVE  RInv'
BY DEF RInv, MainUp, AgeIsLost, Age, Lost

LEMMA WorkerReadRaces == ASSUME SInv, RInv, NEW p \in Proc, WorkerRead(p) PROVE RInv'
<1>1. /\ file # Scrubbed /\ Age <= STALE
      /\ UNCHANGED <<file, mpc, session, boot, silent, races, raced>>
      /\ \A q \in Proc : wpc'[q] = "read" =>
           copy'[q] = file \/ (wpc[q] = "read" /\ copy'[q] = copy[q])
  BY WhoFacts DEF WorkerRead, Hold, Become, hVars, Age, SInv, WatchdogTypeOK
<1>2. AgeIsLost => AgeIsLost'
  BY <1>1 DEF AgeIsLost, Age, Lost
<1> QED BY <1>1, <1>2 DEF RInv, MainUp, Age, Lost

LEMMA WorkerWriteRaces == ASSUME SInv, RInv, NEW p \in Proc, WorkerWrite(p) PROVE RInv'
<1> USE NatFacts, MainStampFacts
<1>1. /\ wpc[p] = "read" /\ file' # Scrubbed
      /\ Age' = copy[p]["main"].age /\ Age' <= STALE /\ Age' \in Nat
      /\ UNCHANGED <<mpc, session, boot, races>> /\ silent'["main"] = silent["main"]
      /\ \A q \in Proc : wpc'[q] = "read" => wpc[q] = "read" /\ copy'[q] = copy[q]
      /\ p[2] <= session /\ p[2] \in Nat
  <2>1. wpc[p] = "read" /\ p[2] <= session /\ p[2] \in Nat
    BY EntryFacts DEF WorkerWrite, SInv, NotStarted
  <2>2. file' # Scrubbed /\ Age' = copy[p]["main"].age
        /\ silent'["main"] = silent["main"]
    BY WorkerWriteFacts, ScrubbedFacts DEF Age
  <2>3. /\ UNCHANGED <<mpc, session, boot, races>>
        /\ \A q \in Proc : wpc'[q] = "read" => wpc[q] = "read" /\ copy'[q] = copy[q]
    BY WhoFacts DEF WorkerWrite, Drop, Become, SInv, WatchdogTypeOK
  <2> QED BY <2>1, <2>2, <2>3 DEF RInv
<1>2. raced' = IF file = Scrubbed \/ Age' > Age
               THEN IF p[2] < session \/ raced = "orphan" THEN "orphan" ELSE "yes"
               ELSE raced
  BY <1>1 DEF WorkerWrite, Age
<1>3. ASSUME MainUp
      PROVE  /\ raced' = "no" /\ silent'["main"] = 0 => Age' = 0
             /\ Lost' >= STALE \/ raced' = "orphan" \/ AgeIsLost'
  <2>1. file # Scrubbed /\ Age \in Nat /\ Lost' = Lost /\ Lost \in Nat
    BY <1>1, <1>3 DEF RInv, Age, Lost
  <2>2. raced' = "no" => raced = "no" /\ Age' <= Age
    BY <1>1, <1>2, <2>1
  <2>3. raced' = "no" /\ silent'["main"] = 0 => Age' = 0
    BY <1>1, <1>3, <2>1, <2>2 DEF RInv
  <2>4. ASSUME AgeIsLost, raced' # "orphan" PROVE AgeIsLost'
    <3>1. raced # "orphan" /\ (Age' <= Age \/ p[2] = session)
      BY <1>1, <1>2, <2>1, <2>4
    <3>2. Age' <= Lost + 1
      BY <1>1, <2>1, <2>4, <3>1 DEF AgeIsLost
    <3> QED BY <1>1, <2>1, <2>2, <2>4, <3>2 DEF AgeIsLost
  <2>5. raced = "orphan" => raced' = "orphan"
    BY <1>2
  <2> QED BY <1>3, <2>1, <2>3, <2>4, <2>5 DEF RInv
<1> QED BY <1>1, <1>3 DEF RInv, MainUp

LEMMA CheckRaces == ASSUME SInv, RInv, NEW p \in Proc, Check(p) PROVE RInv'
<1>1. CASE WorkerExit(p)
  <2>1. \A q \in Proc : wpc'[q] = "read" => wpc[q] = "read"
    BY <1>1 DEF WorkerExit, Become, SInv, WatchdogTypeOK
  <2> QED BY <1>1, <2>1, WorkerIdles DEF WorkerExit, hVars
<1>2. CASE WorkerKeyError(p)
  <2>1. \A q \in Proc : wpc'[q] = "read" => wpc[q] = "read"
    BY <1>2 DEF WorkerKeyError, Become, SInv, WatchdogTypeOK
  <2> QED BY <1>2, <2>1, WorkerIdles DEF WorkerKeyError, hVars
<1> QED BY <1>1, <1>2, WorkerReadRaces, WorkerWriteRaces DEF Check

\* How races goes on, from tick to tick.
LEMMA TickCounts ==
  ASSUME SInv, Tick
  PROVE  /\ raced = "orphan" => races' = STALE
         /\ raced = "yes" => races' = IF races < STALE THEN races + 1 ELSE STALE
         /\ raced = "no" => races' = IF Survived THEN 0 ELSE races
         /\ races' \in Nat /\ boot' \in Nat
<1>1. races' = CASE raced = "orphan" -> STALE
               [] raced = "yes"    -> IF races < STALE THEN races + 1 ELSE STALE
               [] Survived         -> 0
               [] OTHER            -> races
  BY DEF Tick
<1>2. boot' = IF mpc = "boot" THEN boot + 1 ELSE IF Survived THEN 0 ELSE boot
  BY DEF Tick
<1>3. Survived => raced = "no"
  BY DEF Survived
<1>4. raced = "orphan" => races' = STALE
  BY <1>1, <1>3
<1>5. raced = "yes" => races' = IF races < STALE THEN races + 1 ELSE STALE
  BY <1>1, <1>3
<1>6. raced = "no" => races' = IF Survived THEN 0 ELSE races
  BY <1>1
<1> QED BY <1>2, <1>4, <1>5, <1>6, NatFacts DEF SInv, WatchdogTypeOK

LEMMA TickRaces == SInv /\ RInv /\ Tick => RInv'
<1> SUFFICES ASSUME SInv, RInv, Tick PROVE RInv'
  OBVIOUS
<1>0. races \in Nat /\ boot \in Nat /\ STALE \in Nat /\ races' \in Nat /\ boot' \in Nat
  BY NatFacts, TickCounts
<1>1. \A p \in Proc : wpc'[p] # "read"
  BY TickFacts
<1>2. /\ raced' = "no" /\ mpc' = (IF mpc = "sleep" THEN "due" ELSE mpc)
      /\ mpc \in {"down", "boot", "sleep"}
      /\ boot' = IF mpc = "boot" THEN boot + 1 ELSE IF Survived THEN 0 ELSE boot
      /\ raced \in {"no", "yes", "orphan"}
  BY DEF Tick, SInv, WatchdogTypeOK
<1>3. ASSUME MainUp'
      PROVE  /\ file' # Scrubbed
             /\ raced' = "no" /\ silent'["main"] = 0 => Age' = 0
             /\ Lost' >= STALE \/ AgeIsLost'
  <2>1. MainUp /\ file # Scrubbed /\ Age \in Nat /\ mpc \in {"boot", "sleep"}
    BY <1>2, <1>3, MainStampFacts DEF MainUp, RInv, Age
  <2>2. /\ file' # Scrubbed /\ Age' = Older(Age) /\ Age \in 0 .. Cap
        /\ silent'["main"] = Older(silent["main"]) /\ silent["main"] \in 0 .. Cap
    BY <2>1, TickFacts, ScrubbedFacts, EntryFacts DEF Age, Full, Times
  <2>3. Age' <= Age + 1 /\ Age' \in Nat /\ silent'["main"] # 0
    <3>1. ASSUME NEW n \in 0 .. Cap PROVE Older(n) \in Nat \ {0} /\ Older(n) <= n + 1
      BY CapFacts DEF Older
    <3> QED BY <2>2, <3>1
  <2>4. CASE raced = "orphan"
    <3>1. races' = STALE
      BY <2>4, TickCounts
    <3> QED BY <1>0, <1>2, <2>2, <2>3, <3>1 DEF Lost
  <2>5. CASE raced = "yes"
    <3>1. races' = IF races < STALE THEN races + 1 ELSE STALE
      BY <2>5, TickCounts
    <3>2. boot' = IF mpc = "boot" THEN boot + 1 ELSE boot
      BY <1>2, <2>5 DEF Survived
    <3>3. Lost >= STALE \/ Age <= Lost + 1
      BY <2>1, <2>5 DEF RInv, AgeIsLost
    <3>4. Lost' >= STALE \/ (Age' <= Lost' + 1 /\ (mpc' = "boot" => Age' <= Lost'))
      BY <1>0, <1>2, <2>1, <2>3, <3>1, <3>2, <3>3 DEF Lost
    <3> QED BY <1>1, <1>2, <2>1, <2>2, <2>3, <3>4 DEF AgeIsLost
  <2>6. CASE raced = "no" /\ Survived
    <3>1. races' = 0 /\ Age = 0
      BY <2>1, <2>6, TickCounts DEF Survived, RInv
    <3>2. Age' <= Lost' + 1 /\ (mpc' = "boot" => Age' <= Lost')
      BY <1>0, <1>2, <2>3, <2>6, <3>1 DEF Lost
    <3> QED BY <1>1, <1>2, <2>1, <2>2, <2>3, <3>2 DEF AgeIsLost
  <2>7. CASE raced = "no" /\ ~Survived
    <3>1. races' = races /\ boot' = IF mpc = "boot" THEN boot + 1 ELSE boot
      BY <1>2, <2>7, TickCounts
    <3>2. Lost >= STALE \/ Age <= Lost
      BY <2>1, <2>7 DEF RInv, AgeIsLost
    <3>3. Lost' >= STALE \/ (Age' <= Lost' + 1 /\ (mpc' = "boot" => Age' <= Lost'))
      BY <1>0, <1>2, <2>1, <2>3, <3>1, <3>2 DEF Lost
    <3> QED BY <1>1, <1>2, <2>1, <2>2, <2>3, <3>3 DEF AgeIsLost
  <2> QED BY <1>2, <2>4, <2>5, <2>6, <2>7
<1> QED BY <1>1, <1>2, <1>3 DEF RInv

LEMMA RNextInv == SInv /\ RInv /\ [WNext]_vars => RInv'
<1>1. RInv /\ UNCHANGED vars => RInv'
  BY DEF vars, wVars, hVars, RInv, MainUp, AgeIsLost, Age, Lost
<1> QED BY <1>1, MainRaces, CheckRaces, TickRaces DEF WNext

LEMMA ExitIsDeserved ==
  ASSUME SInv, RInv, NEW p \in Proc, MainUp, WorkerExit(p)
  PROVE  races + boot >= STALE
<1>1. file # Scrubbed /\ Age > STALE /\ Age \in Nat
  BY MainStampFacts DEF WorkerExit, Age
<1>2. raced = "no" /\ (Lost >= STALE \/ Age <= Lost + 1)
  BY <1>1, NatFacts DEF RInv, AgeIsLost
<1> QED BY <1>1, <1>2, NatFacts DEF Lost

\* A worker is told to exit under a live main only when the check-ins lost in a
\* row and the ticks main has booted make STALE.
THEOREM ExitsNeedRaces == WatchdogSpec => NoKillWithoutRaces
<1>1. SInv /\ RInv /\ [WNext]_vars =>
        [\A p \in Proc : MainUp /\ WorkerExit(p) => races + boot >= STALE]_vars
  BY ExitIsDeserved
<1> QED BY <1>1, WInitRaces, RNextInv, WatchdogInvariant, PTL
        DEF WatchdogSpec, NoKillWithoutRaces
=============================================================================
