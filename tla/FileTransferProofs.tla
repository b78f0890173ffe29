------------------------- MODULE FileTransferProofs -------------------------
(***************************************************************************)
(* Proofs about FileTransfer, for any downloads, paths, files and numbers  *)
(* of slots and attempts, with or without failures of the database and of  *)
(* renames.  The argument: each note of a chunk, in the tracker, in the    *)
(* bitmap, in the row, is made after the chunk is in the temporary file,   *)
(* and the temporary file only leaves its name when no note is left.  This *)
(* is an argument about one path and the downloads to it; it ends when a   *)
(* second one begins there, which would keep its tracker while the first   *)
(* renames the file.                                                       *)
(***************************************************************************)
EXTENDS FileTransfer, FiniteSetTheorems, WellFoundedInduction, TLAPS

\* Types, and that a download which goes on has an attempt left.
Attempts ==
  \A d \in Download : dl[d].pc \in Active \cup {"idle"} => dl[d].attempt < MaxRetries

Typed == TypeOK /\ Attempts

\* What Typed says of dl.
Pc == Active \cup {"idle", "ok", "failed", "killed"}

Placed ==
  /\ dl \in [Download -> [pc : Pc, attempt : 0 .. MaxRetries, next : 1 .. Slots + 1]]
  /\ \A d \in Download : dl[d].pc \in Saving => dl[d].next \in Slot
  /\ Attempts

\* A set of slots has no more members than there are slots.
LEMMA SlotCount ==
  ASSUME NEW T \in SUBSET Slot
  PROVE  Cardinality(T) \in 0 .. Slots
  <1>1. IsFiniteSet(Slot) /\ Cardinality(Slot) = Slots
    BY FS_Interval, TransferAssumption DEF Slot
  <1>2. IsFiniteSet(T) /\ Cardinality(T) <= Slots
    BY <1>1, FS_Subset
  <1> QED
    BY <1>2, FS_CardinalityType, TransferAssumption

\* Every non-empty set of numbers has a least one.
LEMMA LeastSlot ==
  ASSUME NEW T \in SUBSET Nat, T # {}
  PROVE  \E s \in T : \A r \in T : s <= r
  <1> DEFINE R == {ss \in Nat \X Nat : ss[1] < ss[2]}
  <1>1. IsWellFoundedOn(R, Nat)
    BY NatLessThanWellFounded DEF OpToRel
  <1>2. \A r, s \in Nat : ~(<<r, s>> \in R) => s <= r
    OBVIOUS
  <1> HIDE DEF R
  <1>3. PICK s \in T : \A r \in T : ~(<<r, s>> \in R)
    BY <1>1, WFMin
  <1> QED
    BY <1>2, <1>3

\* A download resumes at a slot or at the end of the file.
LEMMA ResumeSlotType ==
  ASSUME TypeOK, NEW d \in Download
  PROVE  ResumeSlot(d) \in 1 .. Slots + 1
  <1> DEFINE missing == Slot \ bitmap[PathOf[d]].slots
  <1>1. CASE bitmap[PathOf[d]].state # "saved"
    <2>1. row[d].transferred \in 0 .. Slots
      BY DEF TypeOK
    <2> QED
      BY <1>1, <2>1, TransferAssumption DEF ResumeSlot
  <1>2. CASE bitmap[PathOf[d]].state = "saved" /\ missing = {}
    BY <1>2, TransferAssumption DEF ResumeSlot
  <1>3. CASE bitmap[PathOf[d]].state = "saved" /\ missing # {}
    <2>1. missing \in SUBSET Nat
      BY TransferAssumption DEF Slot
    <2>2. \E s \in missing : \A r \in missing : s <= r
      BY <1>3, <2>1, LeastSlot
    <2>3. ResumeSlot(d) = CHOOSE s \in missing : \A r \in missing : s <= r
      BY <1>3 DEF ResumeSlot
    <2>4. ResumeSlot(d) \in missing
      BY <2>2, <2>3
    <2> QED
      BY <2>4, TransferAssumption DEF Slot
  <1> QED
    BY <1>1, <1>2, <1>3

LEMMA InitTyped == Init => Typed
  BY TransferAssumption
  DEF Init, Typed, TypeOK, Attempts, Active, Saving, NoFile, NoBitmap, NoTracker, Slot

\* A download moves on; it becomes active only if it was, or had not begun.
LEMMA PcMoves ==
  ASSUME Typed, NEW d \in Download, NEW x \in Pc \ {"idle"},
         dl' = [dl EXCEPT ![d].pc = x],
         x \in Active => dl[d].pc \in Active \cup {"idle"},
         x \in Saving => dl[d].next \in Slot
  PROVE  Placed'
  <1>1. dl' \in [Download -> [pc : Pc, attempt : 0 .. MaxRetries, next : 1 .. Slots + 1]]
    BY DEF Typed, TypeOK, Pc
  <1>2. \A e \in Download : dl'[e].pc \in Saving => dl'[e].next \in Slot
    BY DEF Typed, TypeOK
  <1>3. Attempts'
    BY DEF Typed, TypeOK, Attempts, Pc
  <1> QED
    BY <1>1, <1>2, <1>3 DEF Placed

\* A download returns to its stream, at some slot.
LEMMA StreamMoves ==
  ASSUME Typed, NEW d \in Download, NEW n \in 1 .. Slots + 1, dl[d].pc \in Active,
         dl' = [dl EXCEPT ![d].pc = "stream", ![d].next = n]
  PROVE  Placed'
  <1>0. "stream" \in Pc
    BY DEF Pc, Active
  <1>1. dl' \in [Download -> [pc : Pc, attempt : 0 .. MaxRetries, next : 1 .. Slots + 1]]
    <2>1. dl \in [Download -> [pc : Pc, attempt : 0 .. MaxRetries, next : 1 .. Slots + 1]]
      BY DEF Typed, TypeOK, Pc
    <2> QED
      BY <1>0, <2>1
  <1>2. \A e \in Download : dl'[e].pc \in Saving => dl'[e].next \in Slot
    BY DEF Typed, TypeOK, Saving
  <1>3. Attempts'
    BY DEF Typed, TypeOK, Attempts
  <1> QED
    BY <1>1, <1>2, <1>3 DEF Placed

\* An attempt ends, and another one begins only if there is one left.
LEMMA RetryMoves ==
  ASSUME Typed, NEW d \in Download, dl[d].pc \in Active, Retry(d)
  PROVE  Placed'
  <1>1. dl[d].attempt \in 0 .. MaxRetries /\ dl[d].attempt < MaxRetries
    BY DEF Typed, TypeOK, Attempts
  <1>2. dl[d].attempt + 1 \in 0 .. MaxRetries
    BY <1>1, TransferAssumption
  <1>3. PICK x \in {"prepare", "failed"} :
          /\ dl' = [dl EXCEPT ![d].attempt = @ + 1, ![d].pc = x]
          /\ x = "prepare" => dl[d].attempt + 1 < MaxRetries
    BY DEF Retry
  <1>4. dl' \in [Download -> [pc : Pc, attempt : 0 .. MaxRetries, next : 1 .. Slots + 1]]
    <2>1. dl \in [Download -> [pc : Pc, attempt : 0 .. MaxRetries, next : 1 .. Slots + 1]]
      BY DEF Typed, TypeOK, Pc
    <2>2. x \in Pc
      BY DEF Pc, Active
    <2> QED
      BY <1>2, <1>3, <2>1, <2>2
  <1>5. \A e \in Download : dl'[e].pc \in Saving => dl'[e].next \in Slot
    BY <1>3 DEF Typed, TypeOK, Saving
  <1>6. Attempts'
    <2>1. \A e \in Download : e # d => dl'[e] = dl[e]
      BY <1>3 DEF Typed, TypeOK
    <2>2. dl'[d].pc = x /\ dl'[d].attempt = dl[d].attempt + 1
      BY <1>3 DEF Typed, TypeOK
    <2>3. "failed" \notin Active \cup {"idle"}
      BY DEF Active, Saving
    <2> QED
      BY <1>3, <2>1, <2>2, <2>3 DEF Typed, Attempts
  <1> QED
    BY <1>4, <1>5, <1>6 DEF Placed

LEMMA TypedStep == Typed /\ [Next]_vars => Typed'
  <1> SUFFICES ASSUME Typed, [Next]_vars PROVE Typed'
    OBVIOUS
  <1> DEFINE FileType == [present : BOOLEAN, data : [Slot -> File \cup {Hole}]]
             OnDisk == /\ tmp \in [Path -> FileType] /\ target \in [Path -> FileType]
                       /\ bitmap \in [Path -> [state : {"absent", "torn", "saved"},
                                               slots : SUBSET Slot]]
                       /\ shared \subseteq Path /\ latest \in [Path -> File \cup {Hole}]
             InMemory == /\ row \in [Download -> [status : {"none", "transferring", "completed"},
                                                transferred : 0 .. Slots]]
                       /\ tracker \in [Download -> [cached : BOOLEAN, slots : SUBSET Slot]]
  <1>0. OnDisk /\ InMemory /\ PathOf \in [Download -> Path] /\ FileOf \in [Download -> File]
    BY TransferAssumption DEF Typed, TypeOK
  <1>a. OnDisk' /\ InMemory' /\ Placed' => Typed'
    BY DEF Typed, TypeOK, Placed, Pc
  <1> USE DEF Pc, Active, Saving
  <1>1. ASSUME NEW d \in Download, Start(d) PROVE Typed'
    <2>1. Placed'
      BY <1>1, PcMoves DEF Start
    <2>2. row' = row \/ row' = [row EXCEPT ![d].status = "transferring"]
      BY <1>1 DEF Start
    <2>3. InMemory'
      <3>1. CASE row' = row
        BY <1>1, <1>0, <3>1 DEF Start
      <3>2. CASE row' = [row EXCEPT ![d].status = "transferring"]
        BY <1>1, <1>0, <3>2 DEF Start
      <3> QED
        BY <2>2, <3>1, <3>2
    <2>4. shared' \subseteq Path /\ latest' = latest
      BY <1>1, <1>0 DEF Start
    <2> QED
      BY <1>1, <1>0, <1>a, <2>1, <2>3, <2>4 DEF Start
  <1>2. ASSUME NEW d \in Download, Prepare(d) PROVE Typed'
    <2>1. ResumeSlot(d) \in 1 .. Slots + 1
      BY ResumeSlotType DEF Typed
    <2>2. Placed'
      BY <1>2, <2>1, PcMoves, StreamMoves, RetryMoves DEF Prepare
    <2> QED
      BY <1>2, <1>0, <1>a, <2>2 DEF Prepare
  <1>3. ASSUME NEW d \in Download, StreamFails(d) PROVE Typed'
    <2>1. Placed'
      BY <1>3, RetryMoves DEF StreamFails
    <2> QED
      BY <1>3, <1>0, <1>a, <2>1 DEF StreamFails
  <1>4. ASSUME NEW d \in Download, StreamEnds(d) PROVE Typed'
    <2>1. Placed'
      BY <1>4, PcMoves DEF StreamEnds
    <2> QED
      BY <1>4, <1>0, <1>a, <2>1 DEF StreamEnds
  <1>5. ASSUME NEW d \in Download, WriteChunk(d) PROVE Typed'
    <2>1. tmp' \in [Path -> FileType]
      BY <1>5, <1>0 DEF WriteChunk
    <2>2. Placed'
      BY <1>5, PcMoves DEF WriteChunk
    <2> QED
      BY <1>5, <1>0, <1>a, <2>1, <2>2 DEF WriteChunk
  <1>6. ASSUME NEW d \in Download, MarkChunk(d) PROVE Typed'
    <2>1. dl[d].next \in Slot
      BY <1>6 DEF MarkChunk, Typed, TypeOK
    <2>2. Received(d) \in SUBSET Slot
      BY <1>0 DEF Received
    <2>3. OnDisk' /\ InMemory'
      <3>1. UNCHANGED <<tmp, target, row, shared, latest>>
        BY <1>6 DEF MarkChunk
      <3>2. tracker' = tracker \/ tracker' = [tracker EXCEPT ![d] =
              [cached |-> TRUE, slots |-> Received(d) \cup {dl[d].next}]]
        BY <1>6 DEF MarkChunk
      <3>3. bitmap' = bitmap
              \/ bitmap' = [bitmap EXCEPT ![PathOf[d]] = [state |-> "torn", slots |-> {}]]
        BY <1>6 DEF MarkChunk
      <3>4. tracker' \in [Download -> [cached : BOOLEAN, slots : SUBSET Slot]]
        <4>1. [cached |-> TRUE, slots |-> Received(d) \cup {dl[d].next}]
                \in [cached : BOOLEAN, slots : SUBSET Slot]
          BY <2>1, <2>2
        <4> QED
          BY <1>0, <3>2, <4>1
      <3>5. bitmap' \in [Path -> [state : {"absent", "torn", "saved"}, slots : SUBSET Slot]]
        <4>1. [state |-> "torn", slots |-> {}]
                \in [state : {"absent", "torn", "saved"}, slots : SUBSET Slot]
          OBVIOUS
        <4> QED
          BY <1>0, <3>3, <4>1
      <3> QED
        BY <1>0, <3>1, <3>4, <3>5
    <2>4. Placed'
      BY <1>6, <2>1, PcMoves, RetryMoves DEF MarkChunk
    <2> QED
      BY <1>a, <2>3, <2>4
  <1>7. ASSUME NEW d \in Download, SaveBitmap(d) PROVE Typed'
    <2>1. Placed'
      BY <1>7, PcMoves DEF SaveBitmap, Typed, TypeOK
    <2> QED
      BY <1>7, <1>0, <1>a, <2>1 DEF SaveBitmap
  <1>8. ASSUME NEW d \in Download, UpdateLog(d) PROVE Typed'
    <2>1. Cardinality(tracker[d].slots) \in 0 .. Slots
      BY <1>0, SlotCount
    <2>2. dl[d].next \in Slot /\ dl[d].next + 1 \in 1 .. Slots + 1
      BY <1>8, TransferAssumption DEF UpdateLog, Typed, TypeOK, Slot
    <2>3. PICK x \in [status : {"none", "transferring", "completed"}, transferred : 0 .. Slots] :
            row' = [row EXCEPT ![d] = x]
      <3>1. Slots \in 0 .. Slots
        BY TransferAssumption
      <3>2. CASE row' = row
        BY <1>0, <3>2
      <3> QED
        BY <1>8, <2>1, <3>1, <3>2 DEF UpdateLog
    <2>4. Placed'
      BY <1>8, <2>2, PcMoves, StreamMoves, RetryMoves DEF UpdateLog
    <2>5. latest' \in [Path -> File \cup {Hole}]
      <3>1. latest' = latest \/ latest' = [latest EXCEPT ![PathOf[d]] = FileOf[d]]
        BY <1>8 DEF UpdateLog
      <3> QED
        BY <1>0, <3>1
    <2> QED
      BY <1>8, <1>0, <1>a, <2>3, <2>4, <2>5 DEF UpdateLog
  <1>9. ASSUME NEW d \in Download, RemoveBitmap(d) PROVE Typed'
    <2>1. Placed'
      BY <1>9, PcMoves DEF RemoveBitmap, Typed, TypeOK
    <2> QED
      BY <1>9, <1>0, <1>a, <2>1 DEF RemoveBitmap, NoBitmap, NoTracker
  <1>10. ASSUME NEW d \in Download, RenameFails(d) PROVE Typed'
    <2>1. target' \in [Path -> FileType]
      <3>1. NoFile \in FileType
        BY DEF NoFile
      <3>2. target' = target \/ target' = [target EXCEPT ![PathOf[d]] = NoFile]
        BY <1>10 DEF RenameFails
      <3> QED
        BY <1>0, <3>1, <3>2
    <2>2. Placed'
      BY <1>10, RetryMoves DEF RenameFails
    <2> QED
      BY <1>10, <1>0, <1>a, <2>1, <2>2 DEF RenameFails
  <1>11. ASSUME NEW d \in Download, Rename(d) PROVE Typed'
    <2>1. NoFile \in FileType
      BY DEF NoFile
    <2>2. dl[d].next + 1 \in 1 .. Slots + 1
      BY <1>11, TransferAssumption DEF Rename, Typed, TypeOK, Slot
    <2>3. Placed'
      BY <1>11, <2>2, StreamMoves DEF Rename
    <2> QED
      BY <1>11, <1>0, <1>a, <2>1, <2>3 DEF Rename
  <1>12. ASSUME Kill PROVE Typed'
    <2>1. Placed'
      BY <1>12 DEF Kill, Placed, Typed, TypeOK, Attempts
    <2> QED
      BY <1>12, <1>0, <1>a, <2>1 DEF Kill, NoTracker
  <1>13. ASSUME UNCHANGED vars PROVE Typed'
    BY <1>13 DEF vars, Typed, TypeOK, Attempts
  <1> QED
    BY <1>1, <1>2, <1>3, <1>4, <1>5, <1>6, <1>7, <1>8, <1>9, <1>10, <1>11, <1>12, <1>13 DEF Next

\* The types of all variables hold in every state of the specification.
THEOREM TypeCorrect == Spec => []TypeOK
  <1>1. Typed => TypeOK
    BY DEF Typed
  <1> QED
    BY <1>1, InitTyped, TypedStep, PTL DEF Spec
-----------------------------------------------------------------------------
\* The downloads to a path.
At(p) == {d \in Download : PathOf[d] = p}

Held(p, s) == tmp[p].data[s] # Hole

Full(p) == \A s \in Slot : Held(p, s)

\* One download works on the path.
Alone(p) ==
  \A d, e \in At(p) : dl[d].pc \in Active /\ dl[e].pc \in Active => d = e

\* A temporary file holds nothing but chunks of one file, that of the download at work.
Contents(p) ==
  /\ \A s \in Slot : Held(p, s) => tmp[p].present
  /\ \A s, r \in Slot : Held(p, s) /\ Held(p, r) => tmp[p].data[s] = tmp[p].data[r]
  /\ \A d \in At(p) : dl[d].pc \in Active =>
       \A s \in Slot : tmp[p].data[s] \in {Hole, FileOf[d]}

\* What a download at work has marked has been written.
Trackers(p) ==
  \A d \in At(p) :
    /\ dl[d].pc = "idle" => tracker[d].slots = {}
    /\ dl[d].pc \in Active => \A s \in tracker[d].slots : Held(p, s)

\* Where SaveChunk is says what the temporary file holds.
Steps(p) ==
  \A d \in At(p) :
    /\ dl[d].pc = "mark" => Held(p, dl[d].next)
    /\ dl[d].pc \in {"unlink", "rename"} => Full(p) /\ latest[p] = FileOf[d]
    /\ dl[d].pc = "rename" => bitmap[p].slots = {} /\ tracker[d].slots = {}

\* The three properties, of one path.
Promised(p) == \A s \in bitmap[p].slots : tmp[p].present /\ tmp[p].data[s] # Hole

Named(p) == target[p].present => Whole(target[p])

Stored(p) ==
  \A d \in At(p) : row[d].status = "completed" /\ latest[p] = FileOf[d] =>
    Holds(tmp[p], FileOf[d]) \/ Holds(target[p], FileOf[d])

Sound(p) ==
  /\ Alone(p) /\ Contents(p) /\ Trackers(p) /\ Steps(p)
  /\ Promised(p) /\ Named(p) /\ Stored(p)

Inv == Typed /\ \A p \in Path \ shared : Sound(p)

\* A temporary file with every chunk holds the file of the download at work.
LEMMA FullHolds ==
  ASSUME Typed, NEW p \in Path, Contents(p), Full(p), NEW d \in At(p), dl[d].pc \in Active
  PROVE  Holds(tmp[p], FileOf[d]) /\ Whole(tmp[p])
  <1>1. 1 \in Slot /\ FileOf[d] \in File
    BY TransferAssumption DEF Slot, At
  <1>2. tmp[p] \in [present : BOOLEAN, data : [Slot -> File \cup {Hole}]]
    BY DEF Typed, TypeOK
  <1>3. tmp[p].present /\ \A s \in Slot : tmp[p].data[s] = FileOf[d]
    BY <1>1 DEF Contents, Full, Held
  <1>4. tmp[p].data = [s \in Slot |-> FileOf[d]]
    BY <1>2, <1>3
  <1> QED
    BY <1>1, <1>3, <1>4 DEF Holds, Whole

LEMMA InitInv == Init => Inv
  <1> SUFFICES ASSUME Init PROVE Inv
    OBVIOUS
  <1>1. Typed
    BY InitTyped
  <1> SUFFICES ASSUME NEW p \in Path PROVE Sound(p)
    BY <1>1 DEF Inv
  <1>2. Alone(p) /\ Trackers(p) /\ Steps(p)
    BY DEF Init, Alone, Trackers, Steps, At, Active, Saving, NoTracker
  <1>3. Contents(p)
    BY DEF Init, Contents, Held, NoFile
  <1>4. Promised(p) /\ Named(p) /\ Stored(p)
    BY DEF Init, Promised, Named, Stored, At, NoBitmap, NoFile
  <1> QED
    BY <1>2, <1>3, <1>4 DEF Sound

\* The steps that a download takes.
Step(d) ==
  \/ Start(d) \/ Prepare(d) \/ StreamFails(d) \/ StreamEnds(d)
  \/ WriteChunk(d) \/ MarkChunk(d) \/ SaveBitmap(d) \/ UpdateLog(d)
  \/ RemoveBitmap(d) \/ RenameFails(d) \/ Rename(d)

\* What a retry does to dl.
LEMMA RetryEffect ==
  ASSUME Typed, NEW d \in Download, Retry(d)
  PROVE  /\ \A e \in Download \ {d} : dl'[e] = dl[e]
         /\ dl'[d].pc \in {"prepare", "failed"}
  BY DEF Retry, Typed, TypeOK

\* A download only touches its own record, row and tracker and the files of its path.
Touches(d) ==
  /\ \A e \in Download \ {d} : dl'[e] = dl[e] /\ tracker'[e] = tracker[e] /\ row'[e] = row[e]
  /\ \A p \in Path \ {PathOf[d]} :
       tmp'[p] = tmp[p] /\ bitmap'[p] = bitmap[p] /\ target'[p] = target[p]
                                  /\ latest'[p] = latest[p]
  /\ shared \subseteq shared' /\ shared' \subseteq shared \cup {PathOf[d]}

LEMMA StepTouches ==
  ASSUME Typed, NEW d \in Download, Step(d)
  PROVE  Touches(d)
  <1>1. \A e \in Download \ {d} : dl'[e] = dl[e]
    <2>1. CASE Start(d) \/ Prepare(d)
      BY <2>1, RetryEffect DEF Start, Prepare, Typed, TypeOK
    <2>2. CASE StreamFails(d) \/ StreamEnds(d) \/ WriteChunk(d) \/ MarkChunk(d) \/ SaveBitmap(d)
      BY <2>2, RetryEffect
      DEF StreamFails, StreamEnds, WriteChunk, MarkChunk, SaveBitmap, Typed, TypeOK
    <2>3. CASE UpdateLog(d) \/ RemoveBitmap(d) \/ RenameFails(d) \/ Rename(d)
      BY <2>3, RetryEffect DEF UpdateLog, RemoveBitmap, RenameFails, Rename, Typed, TypeOK
    <2> QED
      BY <2>1, <2>2, <2>3 DEF Step
  <1>2. \A e \in Download \ {d} : tracker'[e] = tracker[e]
    BY DEF Step, Start, Prepare, StreamFails, StreamEnds, WriteChunk, MarkChunk, SaveBitmap,
           UpdateLog, RemoveBitmap, RenameFails, Rename, Typed, TypeOK
  <1>3. \A e \in Download \ {d} : row'[e] = row[e]
    BY DEF Step, Start, Prepare, StreamFails, StreamEnds, WriteChunk, MarkChunk, SaveBitmap,
           UpdateLog, RemoveBitmap, RenameFails, Rename, Typed, TypeOK
  <1>4. \A p \in Path \ {PathOf[d]} :
          tmp'[p] = tmp[p] /\ target'[p] = target[p] /\ latest'[p] = latest[p]
    BY DEF Step, Start, Prepare, StreamFails, StreamEnds, WriteChunk, MarkChunk, SaveBitmap,
           UpdateLog, RemoveBitmap, RenameFails, Rename, Typed, TypeOK
  <1>5. \A p \in Path \ {PathOf[d]} : bitmap'[p] = bitmap[p]
    BY DEF Step, Start, Prepare, StreamFails, StreamEnds, WriteChunk, MarkChunk, SaveBitmap,
           UpdateLog, RemoveBitmap, RenameFails, Rename, Typed, TypeOK
  <1>6. shared \subseteq shared' /\ shared' \subseteq shared \cup {PathOf[d]}
    BY DEF Step, Start, Prepare, StreamFails, StreamEnds, WriteChunk, MarkChunk, SaveBitmap,
           UpdateLog, RemoveBitmap, RenameFails, Rename
  <1> QED
    BY <1>1, <1>2, <1>3, <1>4, <1>5, <1>6 DEF Touches

\* A path that nothing touches stays sound.
LEMMA Untouched ==
  ASSUME NEW p \in Path, Sound(p),
         \A e \in At(p) : dl'[e] = dl[e] /\ tracker'[e] = tracker[e] /\ row'[e] = row[e],
         tmp'[p] = tmp[p], bitmap'[p] = bitmap[p], target'[p] = target[p],
         latest'[p] = latest[p]
  PROVE  Sound(p)'
  <1>1. At(p)' = At(p)
    BY DEF At
  <1>2. \A s : Held(p, s)' <=> Held(p, s)
    BY DEF Held
  <1>3. Full(p)' <=> Full(p)
    BY <1>2 DEF Full
  <1>4. Alone(p)' /\ Contents(p)'
    BY <1>1, <1>2 DEF Sound, Alone, Contents
  <1>5. Trackers(p)' /\ Steps(p)'
    BY <1>1, <1>2, <1>3 DEF Sound, Trackers, Steps
  <1>6. Promised(p)' /\ Named(p)' /\ Stored(p)'
    BY <1>1 DEF Sound, Promised, Named, Stored, Whole, Holds
  <1> QED
    BY <1>4, <1>5, <1>6 DEF Sound

\* A step that begins no download keeps them apart.
LEMMA AloneStays ==
  ASSUME NEW p \in Path, Alone(p), \A e \in At(p) : dl'[e].pc \in Active => dl[e].pc \in Active
  PROVE  Alone(p)'
  BY DEF Alone, At

\* The temporary file of e's path holds no chunks of another file than e's.
Fits(e) == \A s \in Slot : tmp[PathOf[e]].data[s] \in {Hole, FileOf[e]}

\* A step that leaves the files alone, and lets a download go on only to where
\* nothing is claimed of them.
LEMMA Quiet ==
  ASSUME NEW p \in Path, Sound(p), Alone(p)',
         tmp'[p] = tmp[p], bitmap'[p] = bitmap[p], target'[p] = target[p],
         latest'[p] = latest[p],
         \A e \in At(p) :
           \/ dl'[e] = dl[e] /\ tracker'[e] = tracker[e]
           \/ /\ dl'[e].pc \notin {"mark", "unlink", "rename"}
              /\ dl'[e].pc = "idle" => dl[e].pc = "idle"
              /\ dl'[e].pc \in Active => dl[e].pc \in Active \/ (dl[e].pc = "idle" /\ Fits(e))
              /\ tracker'[e] = tracker[e] \/ tracker'[e].slots = {},
         \A e \in At(p) : row'[e].status = "completed" => row[e].status = "completed"
  PROVE  Sound(p)'
  <1>1. At(p)' = At(p) /\ \A e \in At(p) : PathOf[e] = p
    BY DEF At
  <1>2. \A s : Held(p, s)' <=> Held(p, s)
    BY DEF Held
  <1>3. Full(p)' <=> Full(p)
    BY <1>2 DEF Full
  <1>4. Contents(p)'
    <2>1. \A e \in At(p) : dl'[e].pc \in Active => dl[e].pc \in Active \/ Fits(e)
      OBVIOUS
    <2> QED
      BY <1>1, <1>2, <2>1 DEF Sound, Contents, Fits
  <1>5. Trackers(p)'
    BY <1>1, <1>2 DEF Sound, Trackers
  <1>6. Steps(p)'
    BY <1>1, <1>2, <1>3 DEF Sound, Steps
  <1>7. Promised(p)' /\ Named(p)' /\ Stored(p)'
    BY <1>1 DEF Sound, Promised, Named, Stored, Whole, Holds
  <1> QED
    BY <1>4, <1>5, <1>6, <1>7 DEF Sound

\* The steps that change no file, seen from the path of the download.  A download begins
\* alone, and with a temporary file that fits, or else the path becomes a shared one.
LEMMA QuietSteps ==
  ASSUME Typed, NEW d \in Download, Sound(PathOf[d]), PathOf[d] \notin shared',
         \/ Start(d) \/ Prepare(d) \/ StreamFails(d) \/ StreamEnds(d)
         \/ (MarkChunk(d) /\ ~Known(d))
         \/ UpdateLog(d) /\ ~(row'[d].status = "completed" /\ dl'[d].pc = "unlink")
  PROVE  Sound(PathOf[d])'
  <1> DEFINE P == PathOf[d]
             Calm(e) ==
               \/ dl'[e] = dl[e] /\ tracker'[e] = tracker[e]
               \/ /\ dl'[e].pc \notin {"mark", "unlink", "rename"}
                  /\ dl'[e].pc = "idle" => dl[e].pc = "idle"
                  /\ dl'[e].pc \in Active =>
                       dl[e].pc \in Active \/ (dl[e].pc = "idle" /\ Fits(e))
                  /\ tracker'[e] = tracker[e] \/ tracker'[e].slots = {}
             Done(e) == row'[e].status = "completed" => row[e].status = "completed"
  <1>0. P \in Path /\ Alone(P) /\ \A e \in At(P) : e \in Download /\ PathOf[e] = P
    BY TransferAssumption DEF Sound, At
  <1>t. dl \in [Download -> [pc : Pc, attempt : 0 .. MaxRetries, next : 1 .. Slots + 1]]
        /\ row \in [Download -> [status : {"none", "transferring", "completed"},
                               transferred : 0 .. Slots]]
    BY DEF Typed, TypeOK, Pc
  <1>1. CASE Start(d)
    <2>1. \A e \in Download \ {d} : dl'[e] = dl[e]
      BY <1>1, <1>t DEF Start
    <2>2. UNCHANGED <<tmp, bitmap, target, tracker, latest>> /\ dl[d].pc = "idle"
      BY <1>1 DEF Start
    <2>3. \/ dl'[d].pc = "failed"
          \/ /\ dl'[d].pc = "prepare" /\ Fits(d)
             /\ \A e \in At(P) : dl[e].pc \notin Active
      <3>1. \/ dl' = [dl EXCEPT ![d].pc = "failed"]
            \/ /\ dl' = [dl EXCEPT ![d].pc = "prepare"]
               /\ shared' = IF Meets(d) THEN shared \cup {P} ELSE shared
        BY <1>1 DEF Start
      <3>2. CASE dl' = [dl EXCEPT ![d].pc = "failed"]
        BY <1>t, <3>2
      <3>3. CASE /\ dl' = [dl EXCEPT ![d].pc = "prepare"]
                 /\ shared' = IF Meets(d) THEN shared \cup {P} ELSE shared
        <4>1. ~ Meets(d)
          BY <3>3
        <4> QED
          BY <1>0, <1>t, <3>3, <4>1 DEF Meets, Fits
      <3> QED
        BY <3>1, <3>2, <3>3
    <2>4. Alone(P)'
      BY <1>0, <2>1, <2>3 DEF Alone, At, Active, Saving
    <2>5. \A e \in At(P) : Calm(e)
      BY <1>0, <2>1, <2>2, <2>3 DEF Active, Saving
    <2>6. \A e \in At(P) : Done(e)
      <3>1. row' = row \/ row' = [row EXCEPT ![d].status = "transferring"]
        BY <1>1 DEF Start
      <3>2. CASE row' = row
        BY <3>2
      <3>3. CASE row' = [row EXCEPT ![d].status = "transferring"]
        BY <1>0, <1>t, <3>3
      <3> QED
        BY <3>1, <3>2, <3>3
    <2> QED
      BY <1>0, <2>2, <2>4, <2>5, <2>6, Quiet
  <1>2. CASE Prepare(d) \/ StreamFails(d) \/ StreamEnds(d) \/ (MarkChunk(d) /\ ~Known(d))
    <2>1. \A e \in Download \ {d} : dl'[e] = dl[e]
      BY <1>2, <1>t, RetryEffect DEF Prepare, StreamFails, StreamEnds, MarkChunk
    <2>2. dl'[d].pc \in {"prepare", "failed", "stream", "ok"} /\ dl[d].pc \in Active
      BY <1>2, <1>t, RetryEffect DEF Prepare, StreamFails, StreamEnds, MarkChunk, Active, Saving
    <2>3. UNCHANGED <<tmp, bitmap, target, tracker, row, latest>>
      BY <1>2 DEF Prepare, StreamFails, StreamEnds, MarkChunk
    <2>4. Alone(P)'
      BY <1>0, <2>1, <2>2, AloneStays
    <2>5. \A e \in At(P) : Calm(e)
      BY <1>0, <2>1, <2>2, <2>3
    <2> QED
      BY <1>0, <2>3, <2>4, <2>5, Quiet
  <1>3. CASE UpdateLog(d) /\ ~(row'[d].status = "completed" /\ dl'[d].pc = "unlink")
    <2>1. ~(Complete(d) /\ row' = [row EXCEPT ![d] = [status |-> "completed", transferred |-> Slots]]
                        /\ dl' = [dl EXCEPT ![d].pc = "unlink"])
      BY <1>3, <1>t
    <2>2. \/ Retry(d) /\ UNCHANGED row
          \/ /\ row' = [row EXCEPT ![d] =
                  [status |-> "transferring", transferred |-> Cardinality(tracker[d].slots)]]
             /\ dl' = [dl EXCEPT ![d].pc = "stream", ![d].next = @ + 1]
      BY <1>3, <2>1 DEF UpdateLog
    <2>3. \A e \in Download \ {d} : dl'[e] = dl[e]
      BY <1>t, <2>2, RetryEffect
    <2>4. dl'[d].pc \in {"prepare", "failed", "stream"} /\ dl[d].pc \in Active
      BY <1>3, <1>t, <2>2, RetryEffect DEF UpdateLog, Active, Saving
    <2>5. UNCHANGED <<tmp, bitmap, target, tracker, latest>>
      BY <1>3, <2>1 DEF UpdateLog
    <2>6. Alone(P)'
      BY <1>0, <2>3, <2>4, AloneStays
    <2>7. \A e \in At(P) : Calm(e)
      BY <1>0, <2>3, <2>4, <2>5
    <2>8. \A e \in At(P) : Done(e)
      BY <1>0, <1>t, <2>2
    <2> QED
      BY <1>0, <2>5, <2>6, <2>7, <2>8, Quiet
  <1> QED
    BY <1>1, <1>2, <1>3

\* The other downloads to the path of one at work are not at work.
LEMMA OthersRest ==
  ASSUME NEW d \in Download, Alone(PathOf[d]), dl[d].pc \in Active,
         NEW e \in At(PathOf[d]) \ {d}
  PROVE  dl[e].pc \notin Active
  BY DEF Alone, At

LEMMA WriteStep ==
  ASSUME Typed, Typed', NEW d \in Download, Sound(PathOf[d]), WriteChunk(d)
  PROVE  Sound(PathOf[d])'
  <1> DEFINE P == PathOf[d]
  <1>0. /\ P \in Path /\ dl[d].pc \in Active /\ dl[d].next \in Slot /\ FileOf[d] \in File
        /\ d \in At(P) /\ At(P)' = At(P) /\ At(P) \subseteq Download
    BY TransferAssumption DEF WriteChunk, Active, At
  <1>1. UNCHANGED <<bitmap, target, row, tracker, latest>>
    BY DEF WriteChunk
  <1>2. /\ \A e \in Download \ {d} : dl'[e] = dl[e]
        /\ dl'[d].pc = "mark" /\ dl'[d].next = dl[d].next
    BY DEF WriteChunk, Typed, TypeOK
  <1>3. /\ tmp'[P].present
        /\ tmp'[P].data = [tmp[P].data EXCEPT ![dl[d].next] = FileOf[d]]
    BY <1>0 DEF WriteChunk, Typed, TypeOK
  <1>4. \A s \in Slot : tmp'[P].data[s] = IF s = dl[d].next THEN FileOf[d] ELSE tmp[P].data[s]
    BY <1>0, <1>3 DEF Typed, TypeOK
  <1>5. tmp'[P].data[dl[d].next] # Hole
    BY <1>0, <1>4, TransferAssumption
  <1>6. \A s \in Slot : Held(P, s) => Held(P, s)'
    BY <1>4, <1>5 DEF Held
  <1>7. Full(P) => Full(P)'
    BY <1>6 DEF Full
  <1>8. Alone(P)'
    BY <1>0, <1>2, AloneStays DEF Sound
  <1>9. Contents(P)'
    <2>1. \A s \in Slot : tmp'[P].data[s] \in {Hole, FileOf[d]}
      BY <1>0, <1>4 DEF Sound, Contents
    <2>2. \A e \in At(P) : dl'[e].pc \in Active => e = d
      BY <1>0, <1>2, OthersRest DEF Sound
    <2> QED
      BY <1>0, <1>3, <2>1, <2>2 DEF Contents, Held
  <1>10. Trackers(P)'
    <2>1. \A e \in At(P) : tracker[e].slots \subseteq Slot
      BY <1>0 DEF Typed, TypeOK
    <2>2. \A e \in At(P) : /\ dl'[e].pc \in Active => dl[e].pc \in Active
                           /\ dl'[e].pc = "idle" => dl[e].pc = "idle"
      BY <1>0, <1>2
    <2> QED
      BY <1>0, <1>1, <1>6, <2>1, <2>2 DEF Sound, Trackers
  <1>11. Steps(P)'
    <2> SUFFICES ASSUME NEW e \in At(P)
                 PROVE  /\ dl'[e].pc = "mark" => Held(P, dl[e].next)'
                        /\ dl'[e].pc \notin {"unlink", "rename"}
                        /\ dl'[e].pc = "rename" => bitmap[P].slots = {} /\ tracker[e].slots = {}
      BY <1>0, <1>1 DEF Steps
    <2>1. CASE e = d
      BY <1>2, <1>5, <2>1 DEF Held
    <2>2. CASE e # d
      <3>1. dl'[e].pc \notin Active
        BY <1>0, <1>2, <2>2, OthersRest DEF Sound
      <3> QED
        BY <3>1 DEF Active, Saving
    <2> QED
      BY <2>1, <2>2
  <1>12. Promised(P)'
    <2>1. bitmap[P].slots \subseteq Slot
      BY <1>0 DEF Typed, TypeOK
    <2> QED
      BY <1>1, <1>3, <1>6, <2>1 DEF Sound, Promised, Held
  <1>13. Named(P)'
    BY <1>1 DEF Sound, Named
  <1>14. Stored(P)'
    <2>1. ASSUME NEW c \in File, Holds(tmp[P], c) PROVE Holds(tmp'[P], c)
      <3>1. c = FileOf[d]
        BY <1>0, <2>1, TransferAssumption DEF Holds, Sound, Contents
      <3>2. tmp'[P].data = tmp[P].data
        BY <1>0, <1>3, <2>1, <3>1 DEF Holds
      <3> QED
        BY <1>3, <2>1, <3>2 DEF Holds
    <2>2. \A e \in At(P) : FileOf[e] \in File
      BY <1>0, TransferAssumption
    <2> QED
      BY <1>0, <1>1, <2>1, <2>2 DEF Sound, Stored
  <1> QED
    BY <1>8, <1>9, <1>10, <1>11, <1>12, <1>13, <1>14 DEF Sound

\* A step that only changes the tracker, the bitmap or the row of a download,
\* the temporary file and the target staying as they are.
LEMMA NotesStep ==
  ASSUME Typed, NEW d \in Download, Sound(PathOf[d]), dl[d].pc \in Active, dl'[d].pc \in Active,
         Touches(d), UNCHANGED <<tmp, target>>,
         \A s \in tracker'[d].slots \cup bitmap'[PathOf[d]].slots : s \in Slot /\ Held(PathOf[d], s),
         dl'[d].pc # "mark",
         dl'[d].pc \in {"unlink", "rename"} => Full(PathOf[d]) /\ latest'[PathOf[d]] = FileOf[d],
         dl'[d].pc = "rename" => bitmap'[PathOf[d]].slots = {} /\ tracker'[d].slots = {},
         \/ /\ latest'[PathOf[d]] = latest[PathOf[d]]
            /\ row'[d].status = "completed" => row[d].status = "completed"
         \/ latest'[PathOf[d]] = FileOf[d] /\ Full(PathOf[d])
  PROVE  Sound(PathOf[d])'
  <1> DEFINE P == PathOf[d]
  <1>0. P \in Path /\ d \in At(P) /\ At(P)' = At(P) /\ At(P) \subseteq Download
    BY TransferAssumption DEF At
  <1>1. \A e \in At(P) \ {d} : /\ dl'[e] = dl[e] /\ tracker'[e] = tracker[e] /\ row'[e] = row[e]
                               /\ dl[e].pc \notin Active
    BY <1>0, OthersRest DEF Touches, Sound
  <1>2. /\ \A s : Held(P, s)' <=> Held(P, s)
        /\ Full(P)' <=> Full(P)
    BY DEF Held, Full
  <1>3. Alone(P)'
    BY <1>0, <1>1, AloneStays DEF Sound
  <1>4. Contents(P)'
    BY <1>0, <1>1, <1>2 DEF Sound, Contents
  <1>5. Trackers(P)'
    <2> SUFFICES ASSUME NEW e \in At(P)
                 PROVE  /\ dl'[e].pc = "idle" => tracker'[e].slots = {}
                        /\ dl'[e].pc \in Active => \A s \in tracker'[e].slots : Held(P, s)
      BY <1>0, <1>2 DEF Trackers
    <2>1. CASE e = d
      BY <2>1 DEF Active, Saving
    <2>2. CASE e # d
      BY <1>1, <2>2 DEF Sound, Trackers
    <2> QED
      BY <2>1, <2>2
  <1>6. Steps(P)'
    <2> SUFFICES ASSUME NEW e \in At(P)
                 PROVE  /\ dl'[e].pc # "mark"
                        /\ dl'[e].pc \in {"unlink", "rename"} =>
                             Full(P) /\ latest'[P] = FileOf[e]
                        /\ dl'[e].pc = "rename" => bitmap'[P].slots = {} /\ tracker'[e].slots = {}
      BY <1>0, <1>2 DEF Steps
    <2>1. CASE e = d
      BY <2>1
    <2>2. CASE e # d
      BY <1>1, <2>2 DEF Active, Saving
    <2> QED
      BY <2>1, <2>2
  <1>7. Promised(P)'
    BY DEF Sound, Promised, Contents, Held
  <1>8. Named(P)'
    BY DEF Sound, Named
  <1>9. Stored(P)'
    <2>1. CASE /\ latest'[P] = latest[P]
               /\ row'[d].status = "completed" => row[d].status = "completed"
      BY <1>0, <1>1, <2>1 DEF Sound, Stored
    <2>2. CASE latest'[P] = FileOf[d] /\ Full(P)
      <3>1. Holds(tmp[P], FileOf[d])
        BY <1>0, <2>2, FullHolds DEF Sound
      <3> QED
        BY <1>0, <2>2, <3>1 DEF Stored
    <2> QED
      BY <2>1, <2>2
  <1> QED
    BY <1>3, <1>4, <1>5, <1>6, <1>7, <1>8, <1>9 DEF Sound

\* MarkChunk, SaveBitmap, the UpdateLog of a complete file and RemoveBitmap.
LEMMA NotesSteps ==
  ASSUME Typed, NEW d \in Download, Sound(PathOf[d]),
         \/ MarkChunk(d) /\ Known(d)
         \/ SaveBitmap(d)
         \/ UpdateLog(d) /\ row'[d].status = "completed" /\ dl'[d].pc = "unlink"
         \/ RemoveBitmap(d)
  PROVE  Sound(PathOf[d])'
  <1> DEFINE P == PathOf[d]
  <1>0. /\ P \in Path /\ d \in At(P)
        /\ bitmap[P].slots \subseteq Slot /\ tracker[d].slots \subseteq Slot
        /\ \A s \in bitmap[P].slots : Held(P, s)
    BY TransferAssumption DEF Typed, TypeOK, Sound, Promised, Held, At
  <1>a. dl[d].pc \in Active => \A s \in tracker[d].slots : Held(P, s)
    BY <1>0 DEF Sound, Trackers
  <1>b. Touches(d)
    BY StepTouches DEF Step
  <1>1. CASE MarkChunk(d) /\ Known(d)
    <2>1. /\ tracker' = [tracker EXCEPT ![d] =
               [cached |-> TRUE, slots |-> Received(d) \cup {dl[d].next}]]
          /\ bitmap' = [bitmap EXCEPT ![P] = [state |-> "torn", slots |-> {}]]
          /\ dl' = [dl EXCEPT ![d].pc = "save"]
          /\ UNCHANGED <<tmp, target, row, latest>>
          /\ dl[d].pc = "mark"
      BY <1>1 DEF MarkChunk
    <2>2. dl[d].next \in Slot /\ Held(P, dl[d].next)
      BY <1>0, <2>1 DEF Sound, Steps, Typed, TypeOK, Saving
    <2>3. \A s \in Received(d) : s \in Slot /\ Held(P, s)
      BY <1>0, <1>a, <2>1 DEF Received, Active, Saving
    <2>4. tracker'[d].slots = Received(d) \cup {dl[d].next} /\ bitmap'[P].slots = {}
      BY <1>0, <2>1 DEF Typed, TypeOK
    <2>5. dl'[d].pc = "save"
      BY <2>1 DEF Typed, TypeOK
    <2> QED
      BY <1>b, <2>1, <2>2, <2>3, <2>4, <2>5, NotesStep DEF Active, Saving
  <1>2. CASE SaveBitmap(d)
    <2>1. /\ bitmap' = [bitmap EXCEPT ![P] = [state |-> "saved", slots |-> tracker[d].slots]]
          /\ dl' = [dl EXCEPT ![d].pc = "log"]
          /\ UNCHANGED <<tmp, target, row, tracker, latest>>
          /\ dl[d].pc = "save"
      BY <1>2 DEF SaveBitmap
    <2>2. bitmap'[P].slots = tracker[d].slots /\ dl'[d].pc = "log"
      BY <1>0, <2>1 DEF Typed, TypeOK
    <2>3. \A s \in tracker[d].slots : s \in Slot /\ Held(P, s)
      BY <1>0, <1>a, <2>1 DEF Active, Saving
    <2> QED
      BY <1>b, <2>1, <2>2, <2>3, NotesStep DEF Active, Saving
  <1>3. CASE UpdateLog(d) /\ row'[d].status = "completed" /\ dl'[d].pc = "unlink"
    <2>1. dl[d].pc = "log" /\ UNCHANGED <<tmp, bitmap, target, tracker>>
      BY <1>3 DEF UpdateLog
    <2>2. Complete(d)
      <3>1. CASE Retry(d)
        BY <1>3, <3>1, RetryEffect
      <3>2. CASE dl' = [dl EXCEPT ![d].pc = "stream", ![d].next = @ + 1]
        BY <1>3, <3>2 DEF Typed, TypeOK
      <3> QED
        BY <1>3, <3>1, <3>2 DEF UpdateLog
    <2>3. Full(P)
      BY <1>a, <2>1, <2>2 DEF Complete, Full, Active, Saving
    <2>4. \A s \in tracker[d].slots \cup bitmap[P].slots : s \in Slot /\ Held(P, s)
      BY <1>0, <2>3 DEF Full
    <2>5. latest'[P] = FileOf[d]
      <3>1. ~Retry(d)
        BY <1>3, RetryEffect
      <3>2. latest' = [latest EXCEPT ![P] = FileOf[d]]
        BY <1>3, <2>2, <3>1 DEF UpdateLog
      <3> QED
        BY <1>0, <3>2 DEF Typed, TypeOK
    <2> QED
      BY <1>b, <1>3, <2>1, <2>3, <2>4, <2>5, NotesStep DEF Active, Saving
  <1>4. CASE RemoveBitmap(d)
    <2>1. /\ bitmap' = [bitmap EXCEPT ![P] = NoBitmap]
          /\ tracker' = [tracker EXCEPT ![d] = NoTracker]
          /\ dl' = [dl EXCEPT ![d].pc = "rename"]
          /\ UNCHANGED <<tmp, target, row, latest>>
          /\ dl[d].pc = "unlink"
      BY <1>4 DEF RemoveBitmap
    <2>2. bitmap'[P].slots = {} /\ tracker'[d].slots = {} /\ dl'[d].pc = "rename"
      BY <1>0, <2>1 DEF Typed, TypeOK, NoBitmap, NoTracker
    <2>3. Full(P) /\ latest[P] = FileOf[d]
      BY <1>0, <2>1 DEF Sound, Steps
    <2> QED
      BY <1>b, <2>1, <2>2, <2>3, NotesStep DEF Active, Saving
  <1> QED
    BY <1>1, <1>2, <1>3, <1>4

LEMMA RenameFailsStep ==
  ASSUME Typed, NEW d \in Download, Sound(PathOf[d]), RenameFails(d)
  PROVE  Sound(PathOf[d])'
  <1> DEFINE P == PathOf[d]
  <1>0. P \in Path /\ d \in At(P) /\ At(P)' = At(P) /\ At(P) \subseteq Download
    BY TransferAssumption DEF At
  <1>1. /\ dl[d].pc = "rename"
        /\ UNCHANGED <<tmp, bitmap, row, tracker, latest>>
        /\ target' = target \/ target' = [target EXCEPT ![P] = NoFile]
    BY DEF RenameFails
  <1>2. /\ \A e \in Download \ {d} : dl'[e] = dl[e]
        /\ dl'[d].pc \in {"prepare", "failed"}
    BY RetryEffect DEF RenameFails
  <1>3. Holds(tmp[P], FileOf[d]) /\ latest[P] = FileOf[d]
    BY <1>0, <1>1, FullHolds DEF Sound, Steps, Active, Saving
  <1>4. /\ \A s : Held(P, s)' <=> Held(P, s)
        /\ Full(P)' <=> Full(P)
    BY <1>1 DEF Held, Full
  <1>5. \A e \in At(P) : dl'[e].pc \in Active => dl[e].pc \in Active
    BY <1>0, <1>1, <1>2 DEF Active, Saving
  <1>6. Alone(P)'
    BY <1>0, <1>5, AloneStays DEF Sound
  <1>7. Contents(P)' /\ Promised(P)'
    BY <1>0, <1>1, <1>4, <1>5 DEF Sound, Contents, Promised
  <1>8. Trackers(P)'
    BY <1>0, <1>1, <1>2, <1>4, <1>5 DEF Sound, Trackers
  <1>9. Steps(P)'
    BY <1>0, <1>1, <1>2, <1>4 DEF Sound, Steps
  <1>10. Named(P)'
    BY <1>0, <1>1 DEF Sound, Named, NoFile, Typed, TypeOK
  <1>11. Stored(P)'
    BY <1>0, <1>1, <1>3 DEF Stored
  <1> QED
    BY <1>6, <1>7, <1>8, <1>9, <1>10, <1>11 DEF Sound

\* The temporary file is full and nothing in memory or on disk speaks of it.
LEMMA RenameStep ==
  ASSUME Typed, NEW d \in Download, Sound(PathOf[d]), Rename(d)
  PROVE  Sound(PathOf[d])'
  <1> DEFINE P == PathOf[d]
  <1>0. P \in Path /\ d \in At(P) /\ At(P)' = At(P) /\ At(P) \subseteq Download
    BY TransferAssumption DEF At
  <1>1. /\ dl[d].pc = "rename"
        /\ UNCHANGED <<bitmap, row, tracker, latest>>
        /\ dl' = [dl EXCEPT ![d].pc = "stream", ![d].next = @ + 1]
    BY DEF Rename
  <1>2. /\ \A e \in Download \ {d} : dl'[e] = dl[e]
        /\ dl'[d].pc = "stream"
    BY <1>1 DEF Typed, TypeOK
  <1>3. target'[P] = tmp[P] /\ tmp'[P] = NoFile
    BY <1>0 DEF Rename, Typed, TypeOK
  <1>4. /\ Whole(tmp[P]) /\ Holds(tmp[P], FileOf[d]) /\ latest[P] = FileOf[d]
        /\ bitmap[P].slots = {} /\ tracker[d].slots = {}
    BY <1>0, <1>1, FullHolds DEF Sound, Steps, Active, Saving
  <1>5. \A e \in At(P) \ {d} : dl'[e] = dl[e] /\ dl[e].pc \notin Active
    BY <1>0, <1>1, <1>2, OthersRest DEF Sound, Active, Saving
  <1>6. \A e \in At(P) : dl'[e].pc \in Active => e = d
    BY <1>5
  <1>7. Alone(P)'
    BY <1>0, <1>6 DEF Alone
  <1>8. Contents(P)'
    BY <1>0, <1>3 DEF Contents, Held, NoFile
  <1>9. Trackers(P)'
    BY <1>0, <1>1, <1>2, <1>4, <1>5 DEF Sound, Trackers
  <1>10. Steps(P)'
    BY <1>0, <1>2, <1>5 DEF Steps, Active, Saving
  <1>11. Promised(P)'
    BY <1>1, <1>4 DEF Promised
  <1>12. Named(P)' /\ Stored(P)'
    BY <1>0, <1>1, <1>3, <1>4 DEF Named, Stored
  <1> QED
    BY <1>7, <1>8, <1>9, <1>10, <1>11, <1>12 DEF Sound

LEMMA KillStep ==
  ASSUME Typed, NEW p \in Path, Sound(p), Kill
  PROVE  Sound(p)'
  <1>1. UNCHANGED <<tmp, bitmap, target, row, latest>>
    BY DEF Kill
  <1>2. \A e \in Download :
          /\ dl'[e].pc = IF dl[e].pc \in Active THEN "killed" ELSE dl[e].pc
          /\ tracker'[e].slots = {}
    BY DEF Kill, NoTracker, Typed, TypeOK
  <1>3. \A e \in Download : dl'[e].pc \notin Active /\ (dl'[e].pc = "idle" => dl[e].pc = "idle")
    BY <1>2 DEF Active, Saving
  <1>4. Alone(p)'
    BY <1>3 DEF Alone, At
  <1>5. At(p) \subseteq Download
    BY DEF At
  <1> QED
    BY <1>1, <1>2, <1>3, <1>4, <1>5, Quiet DEF Active, Saving

LEMMA HereStep ==
  ASSUME Typed, Typed', NEW d \in Download, Step(d), Sound(PathOf[d]), PathOf[d] \notin shared'
  PROVE  Sound(PathOf[d])'
  <1>1. CASE Start(d) \/ Prepare(d) \/ StreamFails(d) \/ StreamEnds(d)
    BY <1>1, QuietSteps
  <1>2. CASE WriteChunk(d)
    BY <1>2, WriteStep
  <1>3. CASE MarkChunk(d) \/ SaveBitmap(d) \/ UpdateLog(d) \/ RemoveBitmap(d)
    BY <1>3, QuietSteps, NotesSteps
  <1>4. CASE RenameFails(d) \/ Rename(d)
    BY <1>4, RenameFailsStep, RenameStep
  <1> QED
    BY <1>1, <1>2, <1>3, <1>4 DEF Step

LEMMA InvStep == Inv /\ [Next]_vars => Inv'
  <1> SUFFICES ASSUME Inv, [Next]_vars PROVE Inv'
    OBVIOUS
  <1>0. Typed /\ Typed'
    BY TypedStep DEF Inv
  <1>1. ASSUME NEW d \in Download, Step(d) PROVE Inv'
    <2>1. Touches(d)
      BY <1>0, <1>1, StepTouches
    <2> SUFFICES ASSUME NEW p \in Path \ shared' PROVE Sound(p)'
      BY <1>0 DEF Inv
    <2>2. Sound(p) /\ p \in Path
      BY <2>1 DEF Inv, Touches
    <2>3. CASE p = PathOf[d]
      BY <1>0, <1>1, <2>2, <2>3, HereStep
    <2>4. CASE p # PathOf[d]
      BY <2>1, <2>2, <2>4, Untouched DEF Touches, At
    <2> QED
      BY <2>3, <2>4
  <1>2. ASSUME Kill PROVE Inv'
    BY <1>0, <1>2, KillStep DEF Inv, Kill
  <1>3. ASSUME UNCHANGED vars PROVE Inv'
    BY <1>0, <1>3, Untouched DEF Inv, vars
  <1> QED
    BY <1>1, <1>2, <1>3 DEF Next, Step

LEMMA InvAlways == Spec => []Inv
  BY InitInv, InvStep, PTL DEF Spec

\* Every file that stands under its target's name is a whole remote file.
THEOREM TargetsWhole == Spec => []TargetWhole
  <1>1. Inv => TargetWhole
    BY DEF Inv, Sound, Named, TargetWhole
  <1> QED
    BY <1>1, InvAlways, PTL

\* What a bitmap on disk promises is in the temporary file, wherever the
\* process was killed.
THEOREM BitmapsCovered == Spec => []BitmapCovered
  <1>1. Inv => BitmapCovered
    BY DEF Inv, Sound, Promised, BitmapCovered
  <1> QED
    BY <1>1, InvAlways, PTL

\* The own file of a download that is completed in the database stays on disk,
\* under one name or the other, until another file is completed at the path.
THEOREM CompletedDataStored == Spec => []CompletedStored
  <1>1. Inv => CompletedStored
    BY TransferAssumption DEF Inv, Sound, Stored, At, CompletedStored
  <1> QED
    BY <1>1, InvAlways, PTL
=============================================================================
