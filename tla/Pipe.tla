-------------------------------- MODULE Pipe --------------------------------
(***************************************************************************)
(* json_ipc of src/app/ipc_utilities.py on one file of the pipe folder,    *)
(* which any process may write while others write and read it. A write     *)
(* opens the file, which empties it, and writes its text from the start of *)
(* the file, over whatever another writer has put there since; the text is *)
(* the document between two tags, and a reader takes what is between the   *)
(* first two tags of the file. What a reader cannot take for JSON it tries *)
(* again, GIVEUP times.                                                    *)
(*                                                                         *)
(* A text is handed to the file in one call, and a read takes the whole    *)
(* file in one call. A document is a sequence of cells, none of which is   *)
(* the tag.                                                                *)
(***************************************************************************)
EXTENDS Integers, Sequences

CONSTANTS
  Process,   (* the processes and threads that use the file                *)
  Cell,      (* what documents are made of                                 *)
  Docs,      (* the JSON documents written to it                           *)
  Tag,       (* "<<< JSON IPC >>>"                                         *)
  None,      (* what json_ipc returns when there is nothing to read        *)
  REPAIR,    (* the iteration that makes the pipe folder (5)               *)
  GIVEUP     (* the last iteration (10)                                    *)

ASSUME PipeAssumption ==
  /\ Docs \subseteq Seq(Cell) /\ Docs # {}
  /\ Tag \notin Cell
  /\ None \notin Docs
  /\ REPAIR \in Nat /\ GIVEUP \in Nat /\ REPAIR < GIVEUP

VARIABLES
  disk,        (* "missing": no pipe folder; "empty": no file in it; "file" *)
  file,        (* the cells of the file                                    *)
  pc,          (* "idle", "open", "write", "read"; "dead" when terminated  *)
  doc,         (* the document a process writes, None when it writes none  *)
  iteration,   (* how often it has tried                                   *)
  data,        (* the answer of its last read                              *)
  last         (* history: the document of the last write                  *)

pipeVars == <<disk, file, pc, doc, iteration, data, last>>

-----------------------------------------------------------------------------
\* Mutant: a text without the tag after it.
NoPostscript(d) == <<Tag>> \o d

Text(d) == <<Tag>> \o d \o <<Tag>>

\* Mutant: a file opened to append to.
AtEnd(text, f) == f \o text

\* A text written from the start of a file that is not empty: the rest of a
\* longer one stays.
Overlay(text, f) ==
  [i \in 1 .. (IF Len(text) >= Len(f) THEN Len(text) ELSE Len(f)) |->
     IF i <= Len(text) THEN text[i] ELSE f[i]]

\* The first tag of f after position i, or the end of f.
NextTag(f, i) ==
  CHOOSE j \in (i + 1) .. (Len(f) + 1) :
    /\ j = Len(f) + 1 \/ f[j] = Tag
    /\ \A k \in (i + 1) .. (j - 1) : f[k] # Tag

\* read().split(tag)[1]
Clip(f) == SubSeq(f, NextTag(f, 0) + 1, NextTag(f, NextTag(f, 0)) - 1)

\* json_loads accepts it: an empty file has no [1], and only a document that
\* was written is one.
Legit(f) == f # <<>> /\ Clip(f) \in Docs

-----------------------------------------------------------------------------
CallWrite(p, d) ==
  /\ pc[p] = "idle"
  /\ pc' = [pc EXCEPT ![p] = "open"]
  /\ doc' = [doc EXCEPT ![p] = d]
  /\ UNCHANGED <<disk, file, iteration, data, last>>

CallRead(p) ==
  /\ pc[p] = "idle"
  /\ pc' = [pc EXCEPT ![p] = "read"]
  /\ UNCHANGED <<disk, file, doc, iteration, data, last>>

\* The local variables of a call end with it.
EndCall(p) ==
  /\ pc' = [pc EXCEPT ![p] = "idle"]
  /\ doc' = [doc EXCEPT ![p] = None]
  /\ iteration' = [iteration EXCEPT ![p] = 0]

\* return data
Return(p, answer) ==
  /\ EndCall(p)
  /\ data' = [data EXCEPT ![p] = answer]
  /\ UNCHANGED <<disk, file, last>>

\* Mutant: the limit tested one iteration late.
RetryLate(p) ==
  /\ iteration[p] <= GIVEUP
  /\ iteration' = [iteration EXCEPT ![p] = @ + 1]
  /\ disk' = IF iteration[p] = REPAIR /\ disk = "missing" THEN "empty" ELSE disk
  /\ UNCHANGED <<file, pc, doc, data, last>>

\* Mutant: a folder that nobody makes.
RetryAsIs(p) ==
  /\ iteration[p] < GIVEUP
  /\ iteration' = [iteration EXCEPT ![p] = @ + 1]
  /\ UNCHANGED <<disk, file, pc, doc, data, last>>

\* Mutant: the attempts not counted.
RetryUncounted(p) ==
  /\ iteration[p] < GIVEUP
  /\ disk' = IF iteration[p] = REPAIR /\ disk = "missing" THEN "empty" ELSE disk
  /\ UNCHANGED <<file, pc, doc, iteration, data, last>>

\* The except branch: the REPAIR-th failure makes the folder, the GIVEUP-th
\* returns None.
Retry(p) ==
  /\ iteration[p] < GIVEUP
  /\ iteration' = [iteration EXCEPT ![p] = @ + 1]
  /\ disk' = IF iteration[p] = REPAIR /\ disk = "missing" THEN "empty" ELSE disk
  /\ UNCHANGED <<file, pc, doc, data, last>>

Abandon(p) == iteration[p] = GIVEUP /\ Return(p, None)

\* open(doc, "w+")
Open(p) ==
  /\ pc[p] = "open" /\ disk # "missing"
  /\ disk' = "file"
  /\ file' = <<>>
  /\ pc' = [pc EXCEPT ![p] = "write"]
  /\ UNCHANGED <<doc, iteration, data, last>>

\* A write gives up as a read does. Nothing but the missing folder keeps the file
\* from being opened.
OpenFails(p) ==
  /\ pc[p] = "open" /\ disk = "missing"
  /\ Retry(p) \/ Abandon(p)

\* handle.write(text); handle.close()
Write(p) ==
  /\ pc[p] = "write"
  /\ file' = Overlay(Text(doc[p]), file)
  /\ last' = doc[p]
  /\ EndCall(p)
  /\ UNCHANGED <<disk, data>>

\* os.path.exists(doc) is false
NoFile(p) ==
  /\ pc[p] = "read" /\ disk # "file"
  /\ Return(p, None)

Read(p) ==
  /\ pc[p] = "read" /\ disk = "file" /\ Legit(file)
  /\ Return(p, Clip(file))

ReadFails(p) ==
  /\ pc[p] = "read" /\ disk = "file" /\ ~Legit(file)
  /\ Retry(p) \/ Abandon(p)

\* A process is terminated in a call: the maven of a block number, every ten
\* minutes; any other with the gateway.
Kill(p) ==
  /\ pc[p] \notin {"idle", "dead"}
  /\ pc' = [pc EXCEPT ![p] = "dead"]
  /\ doc' = [doc EXCEPT ![p] = None]
  /\ iteration' = [iteration EXCEPT ![p] = 0]
  /\ UNCHANGED <<disk, file, data, last>>

\* Another process takes its place.
Respawn(p) ==
  /\ pc[p] = "dead"
  /\ pc' = [pc EXCEPT ![p] = "idle"]
  /\ UNCHANGED <<disk, file, doc, iteration, data, last>>

-----------------------------------------------------------------------------
\* A new installation, one whose file has not been written yet, or the file of
\* an earlier session.
PipeInit ==
  /\ \/ disk \in {"missing", "empty"} /\ file = <<>> /\ last = None
     \/ disk = "file" /\ last \in Docs /\ file = Text(last)
  /\ pc = [p \in Process |-> "idle"]
  /\ doc = [p \in Process |-> None]
  /\ iteration = [p \in Process |-> 0]
  /\ data = [p \in Process |-> None]

json_ipc(p) ==
  \/ Open(p) \/ OpenFails(p) \/ Write(p)
  \/ NoFile(p) \/ Read(p) \/ ReadFails(p)

PipeNext ==
  \E p \in Process :
    \/ \E d \in Docs : CallWrite(p, d)
    \/ CallRead(p) \/ json_ipc(p) \/ Kill(p) \/ Respawn(p)

PipeSpec == PipeInit /\ [][PipeNext]_pipeVars

\* The loop runs on once it is entered.
PipeFairSpec == PipeSpec /\ \A p \in Process : WF_pipeVars(json_ipc(p))

-----------------------------------------------------------------------------
(* Properties                                                              *)

PipeTypeOK ==
  /\ disk \in {"missing", "empty", "file"}
  /\ file \in Seq(Cell \cup {Tag})
  /\ pc \in [Process -> {"idle", "open", "write", "read", "dead"}]
  /\ doc \in [Process -> Docs \cup {None}]
  /\ iteration \in [Process -> 0 .. GIVEUP]
  /\ data \in [Process -> Docs \cup {None}]
  /\ last \in Docs \cup {None}

\* However the openings and the writes of several processes overlap, a file
\* that is not empty is read as the document of the write that was done last:
\* neither an older one whose longer text it lies on nor a part of two.
FileIsLast == file # <<>> => disk = "file" /\ Clip(file) = last

\* The file is a register: reads and writes take effect at once, one after the
\* other, and a reader is answered None only while the file is new, or a write
\* has begun and none is done.
Atomic == INSTANCE Register WITH
            val   <- last,
            blank <- disk = "file" /\ file = <<>>,
            op    <- [p \in Process |->
                        IF pc[p] \in {"open", "write"} THEN "write"
                        ELSE IF pc[p] = "dead" THEN "idle" ELSE pc[p]],
            arg   <- doc

IsRegister == Atomic!Spec

\* No write is dropped without a word: the loop has made a missing pipe folder
\* before it runs out of attempts, so that a call that returns has written,
\* whoever else makes the folder, or opens the file, in between.
NoWriteIsDropped ==
  [][\A p \in Process : pc[p] = "open" => pc'[p] # "idle"]_pipeVars

\* A write opens the file in the end, unless its process is terminated.
WritesEnd == \A p \in Process : pc[p] = "open" ~> pc[p] \in {"write", "dead"}
=============================================================================
