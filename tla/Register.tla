------------------------------ MODULE Register ------------------------------
(***************************************************************************)
(* What the processes of the gateway take a file of the pipe folder for    *)
(* (src/app/ipc_utilities.py, json_ipc): one register, written and read    *)
(* whole. It goes blank when a write begins and is filled when a write is  *)
(* done; a writer that is killed in between leaves it blank. A read of a   *)
(* filled register gets the document written last, never an older one and  *)
(* never parts of two; None is the answer of a blank or a new register.    *)
(***************************************************************************)
CONSTANTS
  Process,   (* the processes and threads that use the file                *)
  Docs,      (* the JSON documents written to it                           *)
  None       (* what json_ipc returns when there is nothing to read        *)

VARIABLES
  val,       (* the document written last                                  *)
  blank,     (* a write has begun since, and none is done                  *)
  op,        (* what each process is doing: "idle", "write", "read"        *)
  arg,       (* the document it is writing, None when it is not            *)
  data       (* the answer of its last read                                *)

registerVars == <<val, blank, op, arg, data>>

Init ==
  /\ val \in Docs \cup {None}
  /\ blank = FALSE
  /\ op = [p \in Process |-> "idle"]
  /\ arg = [p \in Process |-> None]
  /\ data = [p \in Process |-> None]

CallWrite(p, d) ==
  /\ op[p] = "idle"
  /\ op' = [op EXCEPT ![p] = "write"]
  /\ arg' = [arg EXCEPT ![p] = d]
  /\ UNCHANGED <<val, blank, data>>

CallRead(p) ==
  /\ op[p] = "idle"
  /\ op' = [op EXCEPT ![p] = "read"]
  /\ UNCHANGED <<val, blank, arg, data>>

Blank(p) ==
  /\ op[p] = "write"
  /\ blank' = TRUE
  /\ UNCHANGED <<val, op, arg, data>>

EndCall(p) ==
  /\ op' = [op EXCEPT ![p] = "idle"]
  /\ arg' = [arg EXCEPT ![p] = None]

Fill(p) ==
  /\ op[p] = "write"
  /\ val' = arg[p]
  /\ blank' = FALSE
  /\ EndCall(p)
  /\ UNCHANGED data

Read(p) ==
  /\ op[p] = "read"
  /\ ~blank
  /\ data' = [data EXCEPT ![p] = val]
  /\ EndCall(p)
  /\ UNCHANGED <<val, blank>>

GiveUp(p) ==
  /\ op[p] = "read"
  /\ blank
  /\ data' = [data EXCEPT ![p] = None]
  /\ EndCall(p)
  /\ UNCHANGED <<val, blank>>

\* A process is terminated in a call and another one takes its place.
Die(p) ==
  /\ op[p] # "idle"
  /\ EndCall(p)
  /\ UNCHANGED <<val, blank, data>>

Next ==
  \E p \in Process :
    \/ \E d \in Docs : CallWrite(p, d)
    \/ CallRead(p) \/ Blank(p) \/ Fill(p) \/ Read(p) \/ GiveUp(p) \/ Die(p)

Spec == Init /\ [][Next]_registerVars
=============================================================================
