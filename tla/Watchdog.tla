------------------------------ MODULE Watchdog ------------------------------
(***************************************************************************)
(* src/app/watchdog.py: the file pipe/watchdog.txt holds a time stamp for  *)
(* the main process of the gateway and one for each of its child           *)
(* processes. Everyone reads the whole file, stamps its own entry and      *)
(* writes the whole file back, at least every ten seconds; nothing keeps   *)
(* the others out in between. Main alerts when the stamp of a child is     *)
(* stale, a child exits when the stamp of main is.                         *)
(*                                                                         *)
(* Time is counted in ticks of ten seconds. Stamps are kept as ages, so    *)
(* that a tick makes all of them one older; ages above Cap are not told    *)
(* apart. A check-in is over well within a tick: time passes only when     *)
(* every process that runs has checked in. A worker is a process or a      *)
(* thread that calls watchdog_sleep; those of one child share its entry    *)
(* (one parachain process per network). A gateway that is started again    *)
(* starts the workers of a new session; those of the old one may still     *)
(* run.                                                                    *)
(***************************************************************************)
EXTENDS Integers, FiniteSets

CONSTANTS
  Child,        (* the entries besides "main"                              *)
  Enabled,      (* the children not switched off in config.processes()     *)
  Worker,
  ChildOf,      (* the entry of each worker                                *)
  Early,        (* the workers started before main's loop: the parachains  *)
  Resilient,    (* the workers that catch a KeyError and go on: the        *)
                (* withdrawal listener                                     *)
  Threaded,     (* the workers whose process has threads besides its main   *)
                (* thread: the withdrawal listener                         *)
  Unwatched,    (* the workers that never get to check in: the deposit     *)
                (* server, whose start() does not return                   *)
  STALE,        (* timing()["watchdog_stale"], in ticks                    *)
  REPEAT,       (* timing()["watchdog_repeat"], in ticks                   *)
  BOOT,         (* ticks main may need between its first check-in and its  *)
                (* loop (bound)                                            *)
  MaxSessions,  (* starts of the gateway (bound)                           *)
  Proc          (* the workers followed, each with its session (bound)     *)

ASSUME WatchdogAssumption ==
  /\ "main" \notin Child /\ Enabled \subseteq Child
  /\ ChildOf \in [Worker -> Child]
  /\ Early \subseteq Worker /\ Resilient \subseteq Worker
  /\ Threaded \subseteq Worker /\ Unwatched \subseteq Worker
  /\ Proc \subseteq Worker \X (1 .. MaxSessions)
  /\ STALE \in Nat /\ REPEAT \in Nat /\ BOOT \in Nat /\ MaxSessions \in Nat

Entry == Child \cup {"main"}

\* Older than anything that is told apart.
Cap == (IF STALE > REPEAT THEN STALE ELSE REPEAT) + 2

Older(n) == IF n < Cap THEN n + 1 ELSE Cap

Fresh == [age |-> 0, alive |-> TRUE]

\* The file as json_ipc("watchdog.txt", "{}") leaves it.
Scrubbed == [e \in {} |-> Fresh]

VARIABLES
  file,      (* the file: an age and a flag per entry, or Scrubbed         *)
  mpc,       (* main: "down", "init", "initread", "boot", "sleep", "due",
                "read"                                                     *)
  wpc,       (* workers: "none", "sleep", "due", "read", "hung", "gone";    *)
             (* "threads" when only the main thread has ended              *)
  copy,      (* the timestamps main or a worker has read                   *)
  session,   (* which start of the gateway this is                         *)
  boot,      (* ticks main has needed to reach its loop, until a later
                check-in of it has lasted for a tick                       *)
  alerts,    (* the children main has alerted about in this tick           *)
  silent,    (* history: ticks since an entry was really checked in        *)
  races,     (* history: ticks in a row in which a worker wrote a file it
                had read before main wrote it; STALE at once for a worker
                of an earlier session, whose stamp of main may be that old *)
  raced      (* history: whether this is such a tick: "no", "yes" or
                "orphan"                                                   *)

wVars == <<file, mpc, wpc, copy, session, boot, alerts>>
hVars == <<silent, races, raced>>
vars  == <<wVars, hVars>>

MainProc == <<"main", 0>>

Who == Proc \cup {MainProc}

MainUp  == mpc \notin {"down", "init", "initread"}
Running == {"sleep", "due", "read"}

Hold(who, f) == copy' = [copy EXCEPT ![who] = f]
Drop(who)    == copy' = [copy EXCEPT ![who] = Scrubbed]

-----------------------------------------------------------------------------
(* watchdog("main")                                                        *)

\* Mutant: one alert, never repeated.
AlertingOnce(stamps) ==
  {c \in Enabled \cap DOMAIN stamps : stamps[c].age > STALE /\ stamps[c].alive}

\* The children main alerts about: stale, and not yet reported as dead or
\* reported long ago.
Alerting(stamps) ==
  {c \in Enabled \cap DOMAIN stamps :
     /\ stamps[c].age > STALE
     /\ stamps[c].alive \/ stamps[c].age > REPEAT}

\* Mutant: the alert stamps the child as if it had checked in.
StampAlive(stamps) ==
  IF stamps = Scrubbed THEN [e \in Entry |-> Fresh]
  ELSE [e \in Entry |-> IF e = "main" \/ e \in Alerting(stamps) THEN Fresh ELSE stamps[e]]

\* Mutant: the alert removes the child's entry.
DropDead(stamps) ==
  IF stamps = Scrubbed THEN [e \in Entry |-> Fresh]
  ELSE [e \in Entry \ Alerting(stamps) |-> IF e = "main" THEN Fresh ELSE stamps[e]]

\* What main writes back: everything anew in a scrubbed file, otherwise its
\* own stamp and, for a child it has alerted about, the time of the alert.
MainStamps(stamps) ==
  IF stamps = Scrubbed THEN [e \in Entry |-> Fresh]
  ELSE [e \in Entry |->
          IF e = "main" THEN Fresh
          ELSE IF e \in Alerting(stamps) THEN [age |-> 0, alive |-> FALSE]
          ELSE stamps[e]]

MainRead ==
  /\ mpc \in {"init", "due"}
  /\ Hold(MainProc, file)
  /\ mpc' = IF mpc = "init" THEN "initread" ELSE "read"
  /\ UNCHANGED <<file, wpc, session, boot, alerts, hVars>>

MainWrite ==
  /\ mpc \in {"initread", "read"}
  /\ file' = MainStamps(copy[MainProc])
  /\ alerts' = Alerting(copy[MainProc])
  /\ mpc' = IF mpc = "initread" THEN "boot" ELSE "sleep"
  /\ wpc' = IF mpc = "initread"
            THEN [p \in Proc |-> IF p[1] \in Early /\ p[2] = session
                                 THEN "sleep" ELSE wpc[p]]
            ELSE wpc
  /\ boot' = IF mpc = "initread" THEN 0 ELSE boot
  /\ silent' = [e \in Entry |-> IF e = "main" \/ copy[MainProc] = Scrubbed
                                THEN 0 ELSE silent[e]]
  /\ Drop(MainProc)
  /\ UNCHANGED <<session, races, raced>>

\* Gateway.main: the file is scrubbed, main checks in for the first time and
\* starts the parachains; when the logo is done it starts the others and
\* enters its loop.
Start ==
  /\ mpc = "down" /\ session < MaxSessions
  /\ session' = session + 1
  /\ file' = Scrubbed
  /\ mpc' = "init"
  /\ boot' = 0 /\ alerts' = {}
  /\ races' = 0 /\ raced' = "no"
  /\ UNCHANGED <<wpc, copy, silent>>

Booted ==
  /\ mpc = "boot"
  /\ mpc' = "sleep"
  /\ wpc' = [p \in Proc |-> IF p[1] \notin Early /\ p[2] = session
                            THEN "sleep" ELSE wpc[p]]
  /\ UNCHANGED <<file, copy, session, boot, alerts, hVars>>

\* Main is killed, or ends with an exception.
MainDies ==
  /\ mpc # "down"
  /\ mpc' = "down"
  /\ Drop(MainProc)
  /\ UNCHANGED <<file, wpc, session, boot, alerts, hVars>>

-----------------------------------------------------------------------------
(* watchdog(child)                                                         *)

Become(p, s) == wpc' = [wpc EXCEPT ![p] = s]

WorkerRead(p) ==
  /\ wpc[p] = "due" /\ file # Scrubbed
  /\ file["main"].age <= STALE
  /\ Hold(p, file)
  /\ Become(p, "read")
  /\ UNCHANGED <<file, mpc, session, boot, alerts, hVars>>

\* Mutant: a child that goes on without its main.
WorkerStays(p) ==
  /\ wpc[p] = "due" /\ file # Scrubbed
  /\ file["main"].age > STALE
  /\ Become(p, "sleep")
  /\ UNCHANGED <<file, mpc, copy, session, boot, alerts, hVars>>

\* Mutant: a comparison that is off by one.
WorkerExitEarly(p) ==
  /\ wpc[p] = "due" /\ file # Scrubbed
  /\ file["main"].age >= STALE
  /\ Become(p, "gone")
  /\ UNCHANGED <<file, mpc, copy, session, boot, alerts, hVars>>

\* sys.exit() ends the main thread; a process ends with its last thread.
WorkerExit(p) ==
  /\ wpc[p] = "due" /\ file # Scrubbed
  /\ file["main"].age > STALE
  /\ Become(p, IF p[1] \in Threaded THEN "threads" ELSE "gone")
  /\ UNCHANGED <<file, mpc, copy, session, boot, alerts, hVars>>

\* timestamps["main"] of a scrubbed file
WorkerKeyError(p) ==
  /\ wpc[p] = "due" /\ file = Scrubbed
  /\ Become(p, IF p[1] \in Resilient THEN "sleep" ELSE "gone")
  /\ UNCHANGED <<file, mpc, copy, session, boot, alerts, hVars>>

WorkerWrite(p) ==
  LET c == ChildOf[p[1]] IN
  /\ wpc[p] = "read"
  /\ file' = [copy[p] EXCEPT ![c] = Fresh]
  /\ Become(p, "sleep")
  /\ Drop(p)
  /\ silent' = [silent EXCEPT ![c] = 0]
  /\ raced' = IF file = Scrubbed \/ copy[p]["main"].age > file["main"].age
              THEN IF p[2] < session \/ raced = "orphan" THEN "orphan" ELSE "yes"
              ELSE raced
  /\ UNCHANGED <<mpc, session, boot, alerts, races>>

Check(p) ==
  WorkerRead(p) \/ WorkerExit(p) \/ WorkerKeyError(p) \/ WorkerWrite(p)

-----------------------------------------------------------------------------
\* Main has checked in since the last tick, and nobody has written over it.
Survived == silent["main"] = 0 /\ raced = "no"

\* Ten seconds pass. The workers in busy block in their own work (external),
\* for this tick or, as when an exception ends one, for ever.
Tick ==
  /\ mpc \in {"down", "boot", "sleep"}
  /\ \A p \in Proc : wpc[p] \notin {"due", "read"}
  /\ mpc = "boot" => boot < BOOT
  /\ file' = [e \in DOMAIN file |-> [file[e] EXCEPT !.age = Older(@)]]
  /\ mpc' = IF mpc = "sleep" THEN "due" ELSE mpc
  /\ \E busy \in SUBSET {p \in Proc : p[1] \notin Unwatched /\ wpc[p] \in {"sleep", "hung"}} :
       wpc' = [p \in Proc |-> IF p[1] \in Unwatched THEN wpc[p]
                              ELSE IF p \in busy THEN "hung"
                              ELSE IF wpc[p] \in {"sleep", "hung"} THEN "due"
                              ELSE wpc[p]]
  /\ boot' = IF mpc = "boot" THEN boot + 1
             ELSE IF Survived THEN 0 ELSE boot
  /\ silent' = [e \in Entry |-> Older(silent[e])]
  /\ races' = CASE raced = "orphan" -> STALE
              [] raced = "yes"    -> IF races < STALE THEN races + 1 ELSE STALE
              [] Survived         -> 0
              [] OTHER            -> races
  /\ raced' = "no"
  /\ alerts' = {}
  /\ UNCHANGED <<copy, session>>

-----------------------------------------------------------------------------
WInit ==
  /\ file = Scrubbed
  /\ mpc = "down"
  /\ wpc = [p \in Proc |-> "none"]
  /\ copy = [who \in Who |-> Scrubbed]
  /\ session = 0 /\ boot = 0 /\ alerts = {}
  /\ silent = [e \in Entry |-> 0]
  /\ races = 0 /\ raced = "no"

Main == MainRead \/ MainWrite \/ Booted

WNext ==
  \/ Main \/ Start \/ MainDies \/ Tick
  \/ \E p \in Proc : Check(p)

WatchdogSpec == WInit /\ [][WNext]_vars

\* Main and the workers that do not hang run on, and time passes.
WatchdogFairSpec ==
  /\ WatchdogSpec
  /\ WF_vars(Main) /\ WF_vars(Tick)
  /\ \A p \in Proc : WF_vars(Check(p))

-----------------------------------------------------------------------------
(* Properties                                                              *)

Stamps == [Entry -> [age : 0 .. Cap, alive : BOOLEAN]] \cup {Scrubbed}

WatchdogTypeOK ==
  /\ file \in Stamps
  /\ mpc \in {"down", "init", "initread", "boot", "sleep", "due", "read"}
  /\ wpc \in [Proc -> {"none", "sleep", "due", "read", "hung", "gone", "threads"}]
  /\ copy \in [Who -> Stamps]
  /\ session \in 0 .. MaxSessions /\ boot \in 0 .. BOOT
  /\ alerts \subseteq Child
  /\ silent \in [Entry -> 0 .. Cap]
  /\ races \in 0 .. STALE /\ raced \in {"no", "yes", "orphan"}

\* However the reads and writes of the file overlap, nobody who is silent looks
\* alive: an entry that says alive is never newer than the last check-in of
\* main or of that child.
SilenceShows ==
  file # Scrubbed =>
    \A e \in Entry : file[e].alive => file[e].age >= silent[e]

\* A worker is told to exit while main is up only when workers have written over
\* main's check-ins in so many ticks in a row, or main has needed so many ticks
\* to reach its loop, that they make STALE; or when a worker of an earlier
\* session has done so once.
NoKillWithoutRaces ==
  [][\A p \in Proc : MainUp /\ WorkerExit(p) => races + boot >= STALE]_vars

\* The loop of a worker that checks in ends: it does not go round, and is not
\* about to write the file, when main has been silent for more than STALE ticks.
\* So the loops of two sessions run side by side only if the gateway is started
\* again within that time or they were stuck, or if main was stopped between
\* scrubbing the file and writing it. What runs on are the threads of a worker
\* of Threaded, and the workers of Unwatched.
OrphansEnd ==
  mpc = "down" =>
    \A p \in Proc :
      p[1] \notin Unwatched /\ wpc[p] \in {"sleep", "read"} =>
        silent["main"] <= STALE \/ (file = Scrubbed /\ p[1] \in Resilient)

\* "provide alert if they are not": when every worker of a child stays silent
\* main alerts about it, also about the deposit server that works and never
\* checks in.
SilentChildIsReported ==
  \A c \in Enabled :
    LET Quiet == \A p \in Proc :
                   ChildOf[p[1]] = c => p[1] \in Unwatched \/ wpc[p] \notin Running IN
    mpc = "due" /\ Quiet ~> (c \in alerts \/ mpc = "down" \/ ~Quiet)
=============================================================================
