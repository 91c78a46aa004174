----------------------------- MODULE Pipe_proofs -----------------------------
(***************************************************************************)
(* Proofs about Pipe, for every number of processes, every set of          *)
(* documents and every number of attempts. FileIsLast is not inductive: a  *)
(* later, shorter text leaves the end of an older one behind it, so the    *)
(* invariant says what the file starts with. Writers that have opened the  *)
(* file and not written yet do not matter, because every one of them       *)
(* writes from the start.                                                  *)
(***************************************************************************)
EXTENDS Pipe, TLAPS

\* f begins with the text of d.
StartsWith(f, d) ==
  /\ Len(f) >= Len(d) + 2
  /\ f[1] = Tag
  /\ f[Len(d) + 2] = Tag
  /\ \A i \in 1 .. Len(d) : f[i + 1] = d[i]

PInv ==
  /\ PipeTypeOK
  /\ \A p \in Process : pc[p] \in {"open", "write"} => doc[p] \in Docs
  /\ \A p \in Process : pc[p] = "write" => disk = "file"
  /\ \A p \in Process : pc[p] \in {"idle", "dead"} => iteration[p] = 0
  /\ disk = "missing" => \A p \in Process : pc[p] = "open" => iteration[p] <= REPAIR
  /\ disk # "file" => file = <<>> /\ last = None
  /\ file # <<>> => last \in Docs /\ StartsWith(file, last)

Cells == Cell \cup {Tag}

-----------------------------------------------------------------------------
(* The text of a document and what a reader clips                          *)

\* The text of a document: its cells between two tags.
LEMMA TextCells ==
  ASSUME NEW d \in Docs
  PROVE  /\ Text(d) \in Seq(Cells)
         /\ Len(d) \in Nat
         /\ Len(Text(d)) = Len(d) + 2
         /\ StartsWith(Text(d), d)
<1>1. d \in Seq(Cell) /\ d \in Seq(Cells)
  BY PipeAssumption DEF Cells
<1>2. <<Tag>> \in Seq(Cells) /\ Len(<<Tag>>) = 1
  BY DEF Cells
<1>3. <<Tag>> \o d \in Seq(Cells) /\ Len(<<Tag>> \o d) = Len(d) + 1 /\ Len(d) \in Nat
  BY <1>1, <1>2
<1>4. /\ (<<Tag>> \o d)[1] = Tag
      /\ \A i \in 1 .. Len(d) : (<<Tag>> \o d)[i + 1] = d[i]
  BY <1>1, <1>2, <1>3
<1>5. Text(d) \in Seq(Cells) /\ Len(Text(d)) = Len(d) + 2
  BY <1>2, <1>3 DEF Text
<1>6. Text(d)[Len(d) + 2] = Tag
  BY <1>2, <1>3 DEF Text
<1>7. \A j \in 1 .. (Len(d) + 1) : Text(d)[j] = (<<Tag>> \o d)[j]
  BY <1>2, <1>3 DEF Text
<1>8. Text(d)[1] = Tag /\ \A i \in 1 .. Len(d) : Text(d)[i + 1] = d[i]
  BY <1>3, <1>4, <1>7
<1> QED BY <1>3, <1>5, <1>6, <1>8 DEF StartsWith

\* Written over anything, the text of d is what the file then begins with.
LEMMA OverlayStarts ==
  ASSUME NEW d \in Docs, NEW f \in Seq(Cells)
  PROVE  /\ Overlay(Text(d), f) \in Seq(Cells)
         /\ Overlay(Text(d), f) # <<>>
         /\ StartsWith(Overlay(Text(d), f), d)
<1> DEFINE n == IF Len(Text(d)) >= Len(f) THEN Len(Text(d)) ELSE Len(f)
           g == Overlay(Text(d), f)
<1>1. Text(d) \in Seq(Cells) /\ Len(d) \in Nat /\ Len(Text(d)) = Len(d) + 2
      /\ StartsWith(Text(d), d)
  BY TextCells
<1>2. n \in Nat /\ n >= Len(d) + 2 /\ n >= Len(f) /\ Len(f) \in Nat
      /\ (n = Len(f) \/ n = Len(d) + 2)
  BY <1>1
<1>3. \A i \in 1 .. n :
        (IF i <= Len(Text(d)) THEN Text(d)[i] ELSE f[i]) \in Cells
  <2> SUFFICES ASSUME NEW i \in 1 .. n
               PROVE  (IF i <= Len(Text(d)) THEN Text(d)[i] ELSE f[i]) \in Cells
    OBVIOUS
  <2>1. CASE i <= Len(Text(d))
    BY <1>1, <1>2, <2>1
  <2>2. CASE ~(i <= Len(Text(d)))
    <3>1. i \in 1 .. Len(f)
      BY <1>1, <1>2, <2>2
    <3> QED BY <2>2, <3>1
  <2> QED BY <2>1, <2>2
<1>4. g \in [1 .. n -> Cells]
  BY <1>3 DEF Overlay
<1>5. g \in Seq(Cells) /\ Len(g) = n
  BY <1>2, <1>4
<1>6. \A i \in 1 .. (Len(d) + 2) : g[i] = Text(d)[i]
  BY <1>1, <1>2 DEF Overlay
<1>7. StartsWith(g, d)
  <2>1. 1 \in 1 .. (Len(d) + 2) /\ Len(d) + 2 \in 1 .. (Len(d) + 2)
    BY <1>1
  <2>2. \A i \in 1 .. Len(d) : i + 1 \in 1 .. (Len(d) + 2)
    BY <1>1
  <2>3. \A i \in 1 .. Len(d) : g[i + 1] = d[i]
    BY <1>1, <1>6, <2>2 DEF StartsWith
  <2> QED BY <1>1, <1>2, <1>5, <1>6, <2>1, <2>3 DEF StartsWith
<1>8. g # <<>>
  BY <1>1, <1>2, <1>5
<1> QED BY <1>5, <1>7, <1>8

\* The clipping of json_ipc: whatever follows the text of d, a reader gets d.
THEOREM ClipReadsText ==
  ASSUME NEW d \in Docs, NEW f \in Seq(Cells), StartsWith(f, d)
  PROVE  Clip(f) = d
<1>1. d \in Seq(Cell) /\ Len(d) \in Nat /\ Len(f) \in Nat /\ Len(f) >= Len(d) + 2
  BY PipeAssumption DEF StartsWith
<1>2. f[1] = Tag /\ f[Len(d) + 2] = Tag
  BY DEF StartsWith
<1>3. \A k \in 2 .. (Len(d) + 1) : f[k] # Tag
  <2> SUFFICES ASSUME NEW k \in 2 .. (Len(d) + 1)
               PROVE  f[k] # Tag
    OBVIOUS
  <2>1. k - 1 \in 1 .. Len(d) /\ (k - 1) + 1 = k
    BY <1>1
  <2>2. f[k] = d[k - 1]
    BY <2>1 DEF StartsWith
  <2>3. d[k - 1] \in Cell
    BY <1>1, <2>1
  <2> QED BY <2>2, <2>3, PipeAssumption
<1>4. NextTag(f, 0) = 1
  <2> DEFINE P(j) == /\ j = Len(f) + 1 \/ f[j] = Tag
                     /\ \A k \in (0 + 1) .. (j - 1) : f[k] # Tag
             S == (0 + 1) .. (Len(f) + 1)
  <2>1. 1 \in S /\ P(1)
    BY <1>1, <1>2
  <2>2. \A j \in S : P(j) => j = 1
    BY <1>1, <1>2
  <2>3. (CHOOSE j \in S : P(j)) = 1
    BY <2>1, <2>2
  <2> QED BY <2>3 DEF NextTag
<1>5. NextTag(f, 1) = Len(d) + 2
  <2> DEFINE P(j) == /\ j = Len(f) + 1 \/ f[j] = Tag
                     /\ \A k \in (1 + 1) .. (j - 1) : f[k] # Tag
             S == (1 + 1) .. (Len(f) + 1)
  <2>1. Len(d) + 2 \in S /\ P(Len(d) + 2)
    BY <1>1, <1>2, <1>3
  <2>2. ASSUME NEW j \in S, P(j)
        PROVE  j = Len(d) + 2
    <3>1. CASE j < Len(d) + 2
      <4>1. j \in 2 .. (Len(d) + 1) /\ j # Len(f) + 1
        BY <1>1, <3>1
      <4> QED BY <4>1, <1>3, <2>2
    <3>2. CASE j > Len(d) + 2
      <4>1. Len(d) + 2 \in (1 + 1) .. (j - 1)
        BY <1>1, <3>2
      <4> QED BY <4>1, <1>2, <2>2
    <3> QED BY <1>1, <3>1, <3>2
  <2>3. (CHOOSE j \in S : P(j)) = Len(d) + 2
    BY <2>1, <2>2
  <2> QED BY <2>3 DEF NextTag
<1>6. Clip(f) = SubSeq(f, 2, Len(d) + 1)
  BY <1>1, <1>4, <1>5 DEF Clip
<1>7. Len(SubSeq(f, 2, Len(d) + 1)) = Len(d) /\ SubSeq(f, 2, Len(d) + 1) \in Seq(Cells)
  BY <1>1
<1>8. \A i \in 1 .. Len(d) : SubSeq(f, 2, Len(d) + 1)[i] = d[i]
  BY <1>1 DEF StartsWith
<1> QED BY <1>1, <1>6, <1>7, <1>8

-----------------------------------------------------------------------------
(* The inductive invariant                                                 *)

LEMMA PInitInv == PipeInit => PInv
<1> SUFFICES ASSUME PipeInit PROVE PInv
  OBVIOUS
<1>1. CASE disk \in {"missing", "empty"} /\ file = <<>> /\ last = None
  BY <1>1, PipeAssumption DEF PipeInit, PInv, PipeTypeOK
<1>2. CASE disk = "file" /\ last \in Docs /\ file = Text(last)
  <2>1. file \in Seq(Cells) /\ StartsWith(file, last)
    BY <1>2, TextCells
  <2> QED BY <1>2, <2>1, PipeAssumption DEF PipeInit, PInv, PipeTypeOK, Cells
<1> QED BY <1>1, <1>2 DEF PipeInit

LEMMA PNextInv == PInv /\ [PipeNext]_pipeVars => PInv'
<1> SUFFICES ASSUME PInv, [PipeNext]_pipeVars PROVE PInv'
  OBVIOUS
<1> USE DEF PInv, PipeTypeOK
<1>1. ASSUME NEW p \in Process, NEW d \in Docs, CallWrite(p, d) PROVE PInv'
  BY <1>1, PipeAssumption DEF CallWrite
<1>2. ASSUME NEW p \in Process, CallRead(p) PROVE PInv'
  BY <1>2 DEF CallRead
<1>3. ASSUME NEW p \in Process, Open(p) PROVE PInv'
  BY <1>3 DEF Open
<1>4. ASSUME NEW p \in Process, pc[p] \in {"open", "read"}, Retry(p) PROVE PInv'
  <2>1. disk' = "missing" =>
          \A q \in Process : pc'[q] = "open" => iteration'[q] <= REPAIR
    BY <1>4, PipeAssumption DEF Retry
  <2>2. PipeTypeOK' /\ \A q \in Process : pc'[q] \in {"idle", "dead"} => iteration'[q] = 0
    BY <1>4, PipeAssumption DEF Retry
  <2> QED BY <1>4, <2>1, <2>2 DEF Retry
<1>5. ASSUME NEW p \in Process, Write(p) PROVE PInv'
  <2>1. doc[p] \in Docs /\ file \in Seq(Cells) /\ disk = "file"
    BY <1>5 DEF Write, Cells
  <2>2. file' \in Seq(Cells) /\ StartsWith(file', doc[p])
    BY <1>5, <2>1, OverlayStarts DEF Write
  <2>3. file' \in Seq(Cell \cup {Tag})
    BY <2>2 DEF Cells
  <2> QED BY <1>5, <2>1, <2>2, <2>3, PipeAssumption DEF Write, EndCall
<1>6. ASSUME NEW p \in Process, NEW a \in Docs \cup {None}, Return(p, a) PROVE PInv'
  BY <1>6, PipeAssumption DEF Return, EndCall
<1>7. ASSUME NEW p \in Process, Kill(p) PROVE PInv'
  BY <1>7, PipeAssumption DEF Kill
<1>8. ASSUME NEW p \in Process, json_ipc(p) PROVE PInv'
  <2>1. CASE Open(p) BY <2>1, <1>3
  <2>2. CASE OpenFails(p) BY <2>2, <1>4, <1>6 DEF OpenFails, Abandon
  <2>3. CASE Write(p) BY <2>3, <1>5
  <2>4. CASE NoFile(p) BY <2>4, <1>6 DEF NoFile
  <2>5. CASE Read(p) BY <2>5, <1>6 DEF Read, Legit
  <2>6. CASE ReadFails(p) BY <2>6, <1>4, <1>6 DEF ReadFails, Abandon
  <2> QED BY <1>8, <2>1, <2>2, <2>3, <2>4, <2>5, <2>6 DEF json_ipc
<1>9. CASE UNCHANGED pipeVars
  BY <1>9 DEF pipeVars
<1>10. ASSUME NEW p \in Process, Respawn(p) PROVE PInv'
  BY <1>10, PipeAssumption DEF Respawn
<1> QED BY <1>1, <1>2, <1>7, <1>8, <1>9, <1>10 DEF PipeNext

\* Every behaviour of the pipe keeps the invariant.
THEOREM PipeInvariant == PipeSpec => []PInv
<1> QED BY PInitInv, PNextInv, PTL DEF PipeSpec

\* The types of the pipe's state.
THEOREM PipeType == PipeSpec => []PipeTypeOK
<1>1. PInv => PipeTypeOK BY DEF PInv
<1> QED BY <1>1, PipeInvariant, PTL

LEMMA InvReadsLast == PInv => FileIsLast
<1> SUFFICES ASSUME PInv, file # <<>> PROVE disk = "file" /\ Clip(file) = last
  BY DEF FileIsLast
<1>1. file \in Seq(Cells)
  BY DEF PInv, PipeTypeOK, Cells
<1> QED BY <1>1, ClipReadsText DEF PInv, PipeTypeOK

\* A file that is not empty is read as the document written last.
THEOREM PipeReadsLast == PipeSpec => []FileIsLast
<1> QED BY InvReadsLast, PipeInvariant, PTL

\* A write does not run out of attempts: the loop has made the folder before.
LEMMA WriteGoesOn ==
  ASSUME PInv, NEW p \in Process, OpenFails(p)
  PROVE  ~Abandon(p)
BY PipeAssumption DEF PInv, PipeTypeOK, OpenFails, Abandon

\* A call that is to write does not return without having written, whoever makes
\* the folder first and however many attempts others have made.
THEOREM PipeDropsNoWrite == PipeSpec => NoWriteIsDropped
<1>1. PInv /\ [PipeNext]_pipeVars => [\A p \in Process : pc[p] = "open" => pc'[p] # "idle"]_pipeVars
  <2> SUFFICES ASSUME PInv, PipeNext, NEW q \in Process, pc[q] = "open"
               PROVE  pc'[q] # "idle"
    OBVIOUS
  <2> USE DEF PInv, PipeTypeOK
  <2>1. ASSUME NEW p \in Process, NEW d \in Docs, CallWrite(p, d) PROVE pc'[q] # "idle"
    BY <2>1 DEF CallWrite
  <2>2. ASSUME NEW p \in Process, CallRead(p) \/ Kill(p) \/ Respawn(p) PROVE pc'[q] # "idle"
    BY <2>2 DEF CallRead, Kill, Respawn
  <2>3. ASSUME NEW p \in Process, Open(p) \/ Write(p) \/ NoFile(p) \/ Read(p) PROVE pc'[q] # "idle"
    BY <2>3 DEF Open, Write, NoFile, Read, Return, EndCall
  <2>4. ASSUME NEW p \in Process, ReadFails(p) PROVE pc'[q] # "idle"
    BY <2>4 DEF ReadFails, Retry, Abandon, Return, EndCall
  <2>5. ASSUME NEW p \in Process, OpenFails(p) PROVE pc'[q] # "idle"
    <3>1. Retry(p)
      BY <2>5, WriteGoesOn DEF OpenFails
    <3> QED BY <3>1 DEF Retry
  <2> QED BY <2>1, <2>2, <2>3, <2>4, <2>5 DEF PipeNext, json_ipc
<1> QED BY <1>1, PipeInvariant, PTL DEF PipeSpec, NoWriteIsDropped

-----------------------------------------------------------------------------
(* The pipe implements the register                                        *)

opBar    == [p \in Process |-> IF pc[p] \in {"open", "write"} THEN "write"
                               ELSE IF pc[p] = "dead" THEN "idle" ELSE pc[p]]
blankBar == disk = "file" /\ file = <<>>

LEMMA InitMaps == PipeInit => Atomic!Init
<1> SUFFICES ASSUME PipeInit PROVE Atomic!Init
  OBVIOUS
<1>1. last \in Docs \cup {None}
  BY DEF PipeInit
<1>2. ~blankBar
  <2>1. CASE disk \in {"missing", "empty"}
    BY <2>1 DEF blankBar
  <2>2. CASE last \in Docs /\ file = Text(last)
    <3>1. Text(last) \in Seq(Cells) /\ Len(Text(last)) = Len(last) + 2 /\ Len(last) \in Nat
      BY <2>2, TextCells
    <3>2. file # <<>>
      BY <2>2, <3>1
    <3> QED BY <3>2 DEF blankBar
  <2> QED BY <2>1, <2>2 DEF PipeInit
<1>3. opBar = [p \in Process |-> "idle"]
  BY DEF PipeInit, opBar
<1> QED BY <1>1, <1>2, <1>3 DEF PipeInit, Atomic!Init, opBar, blankBar

LEMMA StepMaps == PInv /\ [PipeNext]_pipeVars => [Atomic!Next]_Atomic!registerVars
<1> SUFFICES ASSUME PInv, [PipeNext]_pipeVars
             PROVE  Atomic!Next \/ UNCHANGED Atomic!registerVars
  OBVIOUS
<1> USE DEF PInv, PipeTypeOK
<1> DEFINE Same == UNCHANGED Atomic!registerVars
<1>1. ASSUME NEW p \in Process, NEW d \in Docs, CallWrite(p, d)
      PROVE  Atomic!CallWrite(p, d)
  BY <1>1 DEF CallWrite, Atomic!CallWrite
<1>2. ASSUME NEW p \in Process, CallRead(p)
      PROVE  Atomic!CallRead(p)
  BY <1>2 DEF CallRead, Atomic!CallRead
<1>3. ASSUME NEW p \in Process, Open(p)
      PROVE  Atomic!Blank(p)
  BY <1>3 DEF Open, Atomic!Blank
<1>4. ASSUME NEW p \in Process, Retry(p)
      PROVE  Same
  <2>1. (disk' = "file") <=> (disk = "file")
    BY <1>4 DEF Retry
  <2> QED BY <1>4, <2>1 DEF Retry, Atomic!registerVars
<1>5. ASSUME NEW p \in Process, Write(p)
      PROVE  Atomic!Fill(p)
  <2>1. doc[p] \in Docs /\ file \in Seq(Cells)
    BY <1>5 DEF Write, Cells
  <2>2. file' # <<>>
    BY <1>5, <2>1, OverlayStarts DEF Write
  <2> QED BY <1>5, <2>2 DEF Write, EndCall, Atomic!Fill, Atomic!EndCall
<1>6. ASSUME NEW p \in Process, NoFile(p)
      PROVE  Atomic!Read(p)
  BY <1>6 DEF NoFile, Return, EndCall, Atomic!Read, Atomic!EndCall
<1>7. ASSUME NEW p \in Process, Read(p)
      PROVE  Atomic!Read(p)
  <2>1. Clip(file) = last /\ file # <<>>
    BY <1>7, InvReadsLast DEF Read, Legit, FileIsLast
  <2> QED BY <1>7, <2>1 DEF Read, Return, EndCall, Atomic!Read, Atomic!EndCall
<1>8. ASSUME NEW p \in Process, ReadFails(p), Abandon(p)
      PROVE  Atomic!GiveUp(p)
  <2>1. file = <<>>
    BY <1>8, InvReadsLast DEF ReadFails, Legit, FileIsLast
  <2> QED BY <1>8, <2>1 DEF ReadFails, Abandon, Return, EndCall, Atomic!GiveUp, Atomic!EndCall
<1>9. ASSUME NEW p \in Process, Kill(p)
      PROVE  Atomic!Die(p)
  BY <1>9 DEF Kill, Atomic!Die, Atomic!EndCall
<1>10. ASSUME NEW p \in Process, json_ipc(p)
       PROVE  Atomic!Next \/ Same
  <2>1. CASE Open(p) BY <2>1, <1>3 DEF Atomic!Next
  <2>2. CASE OpenFails(p) BY <2>2, <1>4, WriteGoesOn DEF OpenFails
  <2>3. CASE Write(p) BY <2>3, <1>5 DEF Atomic!Next
  <2>4. CASE NoFile(p) BY <2>4, <1>6 DEF Atomic!Next
  <2>5. CASE Read(p) BY <2>5, <1>7 DEF Atomic!Next
  <2>6. CASE ReadFails(p)
    BY <2>6, <1>4, <1>8 DEF ReadFails, Atomic!Next
  <2> QED BY <1>10, <2>1, <2>2, <2>3, <2>4, <2>5, <2>6 DEF json_ipc
<1>11. CASE UNCHANGED pipeVars
  BY <1>11 DEF pipeVars, Atomic!registerVars
<1>12. ASSUME NEW p \in Process, Respawn(p) PROVE Same
  BY <1>12 DEF Respawn, Atomic!registerVars
<1> QED BY <1>1, <1>2, <1>9, <1>10, <1>11, <1>12 DEF PipeNext, Atomic!Next

\* However the openings, writes, reads, retries and deaths of the processes
\* interleave, the file behaves as a register that is written and read whole.
THEOREM PipeIsRegister == PipeSpec => IsRegister
<1> QED BY InitMaps, StepMaps, PipeInvariant, PTL DEF PipeSpec, IsRegister, Atomic!Spec
=============================================================================
