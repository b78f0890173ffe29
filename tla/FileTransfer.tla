---------------------------- MODULE FileTransfer ----------------------------
(***************************************************************************)
(* Downloads of remote files in chunks (internal/network/libp2p_file.go,   *)
(* internal/file/transfer.go and chunk_tracker.go).                        *)
(*                                                                         *)
(* A chunk goes through four places in turn: the temporary file, the       *)
(* tracker in memory, the bitmap file and the row of file_logs; a complete *)
(* download then loses its bitmap and its temporary file takes the name of *)
(* the target.  The process may be killed between any two of these steps.  *)
(* Every call of StartDownload has a task id of its own, so that only the  *)
(* temporary file and the bitmap, which are named after the target, tell a *)
(* later download what an earlier one has received.                        *)
(*                                                                         *)
(* The sender reads chunks from a multiple of the chunk size on, so a      *)
(* chunk fills exactly one slot.  All files have the same number of slots. *)
(***************************************************************************)
EXTENDS Integers, FiniteSets

CONSTANTS
  Download,   \* the calls of StartDownload
  Path,       \* local paths
  File,       \* contents of remote files
  Hole,       \* what a sparse file holds where nothing was written
  PathOf,     \* the target of every download
  FileOf,     \* the remote file of every download
  Slots,      \* number of chunks of a file
  MaxRetries, \* number of attempts (3)
  Crowd,      \* bound: whether more downloads begin at a path that some have shared
  MayFail     \* whether the database and renames can fail

ASSUME TransferAssumption ==
  /\ PathOf \in [Download -> Path] /\ FileOf \in [Download -> File] /\ Hole \notin File
  /\ Slots \in Nat \ {0} /\ MaxRetries \in Nat \ {0}
  /\ Crowd \in BOOLEAN /\ MayFail \in BOOLEAN

Slot == 1 .. Slots

VARIABLES
  tmp,      \* the file <path>.parade_tmp
  bitmap,   \* the file <path>.parade_tmp.bitmap
  target,   \* the file at the path itself
  row,      \* the row of file_logs of every download
  tracker,  \* the ChunkTracker of every download, if there is one in memory
  dl,       \* where StartDownload is, its attempt and the slot it expects
  shared,   \* history: the paths at which a download has met another, or its leavings
  latest    \* history: the file of the last download that was completed at a path

vars == <<tmp, bitmap, target, row, tracker, dl, shared, latest>>

NoFile    == [present |-> FALSE, data |-> [s \in Slot |-> Hole]]
NoBitmap  == [state |-> "absent", slots |-> {}]
NoTracker == [cached |-> FALSE, slots |-> {}]

Saving == {"mark", "save", "log", "unlink", "rename"}
Active == {"prepare", "stream"} \cup Saving

TypeOK ==
  /\ tmp \in [Path -> [present : BOOLEAN, data : [Slot -> File \cup {Hole}]]]
  /\ target \in [Path -> [present : BOOLEAN, data : [Slot -> File \cup {Hole}]]]
  /\ bitmap \in [Path -> [state : {"absent", "torn", "saved"}, slots : SUBSET Slot]]
  /\ row \in [Download -> [status : {"none", "transferring", "completed"},
                           transferred : 0 .. Slots]]
  /\ tracker \in [Download -> [cached : BOOLEAN, slots : SUBSET Slot]]
  /\ dl \in [Download -> [pc : Active \cup {"idle", "ok", "failed", "killed"},
                          attempt : 0 .. MaxRetries, next : 1 .. Slots + 1]]
  /\ \A d \in Download : dl[d].pc \in Saving => dl[d].next \in Slot
  /\ shared \subseteq Path /\ latest \in [Path -> File \cup {Hole}]

Init ==
  /\ tmp = [p \in Path |-> NoFile] /\ target = [p \in Path |-> NoFile]
  /\ bitmap = [p \in Path |-> NoBitmap]
  /\ row = [d \in Download |-> [status |-> "none", transferred |-> 0]]
  /\ tracker = [d \in Download |-> NoTracker]
  /\ dl = [d \in Download |-> [pc |-> "idle", attempt |-> 0, next |-> 1]]
  /\ shared = {} /\ latest = [p \in Path |-> Hole]
-----------------------------------------------------------------------------
(* StartDownload: the attempts. *)

\* Another download is at work at the path, or the temporary file holds chunks of
\* another file.  Nothing in the code looks: the task lock is per task.
Meets(d) ==
  \/ \E e \in Download : PathOf[e] = PathOf[d] /\ dl[e].pc \in Active
  \/ \E s \in Slot : tmp[PathOf[d]].data[s] \notin {Hole, FileOf[d]}

\* The size is asked for and the row is made, or one of them fails.
Start(d) ==
  /\ dl[d].pc = "idle" /\ (PathOf[d] \in shared => Crowd)
  /\ \/ /\ row' = [row EXCEPT ![d].status = "transferring"]
        /\ dl' = [dl EXCEPT ![d].pc = "prepare"]
        /\ shared' = IF Meets(d) THEN shared \cup {PathOf[d]} ELSE shared
     \/ /\ dl' = [dl EXCEPT ![d].pc = "failed"]
        /\ UNCHANGED <<row, shared>>
  /\ UNCHANGED <<tmp, bitmap, target, tracker, latest>>

\* A bug Retry could have: one attempt too many.
RetryOnceMore(d) ==
  dl' = [dl EXCEPT ![d].attempt = @ + 1,
                   ![d].pc = IF dl[d].attempt < MaxRetries THEN "prepare" ELSE "failed"]

\* An attempt has ended with an error.
Retry(d) ==
  dl' = [dl EXCEPT ![d].attempt = @ + 1,
                   ![d].pc = IF dl[d].attempt + 1 < MaxRetries THEN "prepare" ELSE "failed"]

\* PrepareDownload: the first slot that the bitmap misses, the end if it misses
\* none, or, without a bitmap that can be loaded, what the row says.
ResumeSlot(d) ==
  LET b       == bitmap[PathOf[d]]
      missing == Slot \ b.slots
  IN  IF b.state # "saved" THEN row[d].transferred + 1
      ELSE IF missing = {} THEN Slots + 1
      ELSE CHOOSE s \in missing : \A r \in missing : s <= r

\* The row is read, which may fail.
Prepare(d) ==
  /\ dl[d].pc = "prepare"
  /\ \/ /\ row[d].status = "completed"
        /\ dl' = [dl EXCEPT ![d].pc = "ok"]
     \/ /\ row[d].status # "completed"
        /\ dl' = [dl EXCEPT ![d].pc = "stream", ![d].next = ResumeSlot(d)]
     \/ MayFail /\ Retry(d)
  /\ UNCHANGED <<tmp, bitmap, target, row, tracker, shared, latest>>

\* The stream breaks, or the sender reports an error.
StreamFails(d) ==
  /\ dl[d].pc = "stream"
  /\ Retry(d)
  /\ UNCHANGED <<tmp, bitmap, target, row, tracker, shared, latest>>

\* The sender closes the stream or says that it has sent its last chunk.
\* StartDownload succeeds, however much it has received.
StreamEnds(d) ==
  /\ dl[d].pc = "stream"
  /\ dl' = [dl EXCEPT ![d].pc = "ok"]
  /\ UNCHANGED <<tmp, bitmap, target, row, tracker, shared, latest>>
-----------------------------------------------------------------------------
(* SaveChunk, which a download calls for one chunk after the other. *)

\* The next chunk arrives and is written.
WriteChunk(d) ==
  /\ dl[d].pc = "stream" /\ dl[d].next \in Slot
  /\ tmp' = [tmp EXCEPT ![PathOf[d]] =
       [present |-> TRUE, data |-> [@.data EXCEPT ![dl[d].next] = FileOf[d]]]]
  /\ dl' = [dl EXCEPT ![d].pc = "mark"]
  /\ UNCHANGED <<bitmap, target, row, tracker, shared, latest>>

\* The tracker is the one in memory, or is read from the bitmap, or is new;
\* a bitmap that is not whole is an error.
Known(d) == tracker[d].cached \/ bitmap[PathOf[d]].state # "torn"

Received(d) == IF tracker[d].cached THEN tracker[d].slots ELSE bitmap[PathOf[d]].slots

\* The slot is marked and Save truncates the bitmap.
MarkChunk(d) ==
  /\ dl[d].pc = "mark"
  /\ \/ /\ Known(d)
        /\ tracker' = [tracker EXCEPT ![d] =
             [cached |-> TRUE, slots |-> Received(d) \cup {dl[d].next}]]
        /\ bitmap' = [bitmap EXCEPT ![PathOf[d]] = [state |-> "torn", slots |-> {}]]
        /\ dl' = [dl EXCEPT ![d].pc = "save"]
     \/ /\ ~Known(d)
        /\ Retry(d)
        /\ UNCHANGED <<tracker, bitmap>>
  /\ UNCHANGED <<tmp, target, row, shared, latest>>

SaveBitmap(d) ==
  /\ dl[d].pc = "save"
  /\ bitmap' = [bitmap EXCEPT ![PathOf[d]] = [state |-> "saved", slots |-> tracker[d].slots]]
  /\ dl' = [dl EXCEPT ![d].pc = "log"]
  /\ UNCHANGED <<tmp, target, row, tracker, shared, latest>>

\* A bug Complete could have: it counts from zero.
AllButOne(d) == Cardinality(tracker[d].slots) + 1 >= Slots

Complete(d) == tracker[d].slots = Slot

UpdateLog(d) ==
  /\ dl[d].pc = "log"
  /\ \/ /\ Complete(d)
        /\ latest' = [latest EXCEPT ![PathOf[d]] = FileOf[d]]
        /\ row' = [row EXCEPT ![d] = [status |-> "completed", transferred |-> Slots]]
        /\ dl' = [dl EXCEPT ![d].pc = "unlink"]
     \/ /\ ~Complete(d)
        /\ UNCHANGED latest
        /\ row' = [row EXCEPT ![d] =
             [status |-> "transferring", transferred |-> Cardinality(tracker[d].slots)]]
        /\ dl' = [dl EXCEPT ![d].pc = "stream", ![d].next = @ + 1]
     \/ /\ MayFail
        /\ Retry(d)
        /\ UNCHANGED <<row, latest>>
  /\ UNCHANGED <<tmp, bitmap, target, tracker, shared>>

\* A bug RemoveBitmap could have: only the tracker in memory goes.
ForgetTracker(d) ==
  /\ dl[d].pc = "unlink"
  /\ tracker' = [tracker EXCEPT ![d] = NoTracker]
  /\ dl' = [dl EXCEPT ![d].pc = "rename"]
  /\ UNCHANGED <<tmp, bitmap, target, row, shared, latest>>

RemoveBitmap(d) ==
  /\ dl[d].pc = "unlink"
  /\ bitmap' = [bitmap EXCEPT ![PathOf[d]] = NoBitmap]
  /\ tracker' = [tracker EXCEPT ![d] = NoTracker]
  /\ dl' = [dl EXCEPT ![d].pc = "rename"]
  /\ UNCHANGED <<tmp, target, row, shared, latest>>

\* A bug RenameFails could have: it tidies the temporary file up.
RemoveOnFailure(d) ==
  /\ dl[d].pc = "rename" /\ MayFail
  /\ tmp' = [tmp EXCEPT ![PathOf[d]] = NoFile]
  /\ Retry(d)
  /\ UNCHANGED <<bitmap, target, row, tracker, shared, latest>>

\* Nothing to rename, or a target in the way; that is removed before a second
\* attempt, which may fail too.
RenameFails(d) ==
  /\ dl[d].pc = "rename" /\ (MayFail \/ ~tmp[PathOf[d]].present)
  /\ \/ UNCHANGED target
     \/ MayFail /\ target' = [target EXCEPT ![PathOf[d]] = NoFile]
  /\ Retry(d)
  /\ UNCHANGED <<tmp, bitmap, row, tracker, shared, latest>>

Rename(d) ==
  /\ dl[d].pc = "rename" /\ tmp[PathOf[d]].present
  /\ target' = [target EXCEPT ![PathOf[d]] = tmp[PathOf[d]]]
  /\ tmp' = [tmp EXCEPT ![PathOf[d]] = NoFile]
  /\ dl' = [dl EXCEPT ![d].pc = "stream", ![d].next = @ + 1]
  /\ UNCHANGED <<bitmap, row, tracker, shared, latest>>
-----------------------------------------------------------------------------
\* The process is killed and starts again: no download goes on by itself.
Kill ==
  /\ dl' = [d \in Download |-> IF dl[d].pc \in Active THEN [dl[d] EXCEPT !.pc = "killed"] ELSE dl[d]]
  /\ tracker' = [d \in Download |-> NoTracker]
  /\ UNCHANGED <<tmp, bitmap, target, row, shared, latest>>

Next ==
  \/ \E d \in Download :
       \/ Start(d) \/ Prepare(d) \/ StreamFails(d) \/ StreamEnds(d)
       \/ WriteChunk(d) \/ MarkChunk(d) \/ SaveBitmap(d) \/ UpdateLog(d)
       \/ RemoveBitmap(d) \/ RenameFails(d) \/ Rename(d)
  \/ Kill

Spec == Init /\ [][Next]_vars
-----------------------------------------------------------------------------
\* The file f is there and is all of c.
Holds(f, c) == f.present /\ f.data = [s \in Slot |-> c]

Whole(f) == \E c \in File : Holds(f, c)

\* What stands at a target path is one whole remote file, whatever was killed,
\* resumed or failed on the way: no slot is missing, whoever received it.  The
\* exceptions, here and below, are paths that downloads have shared: two at work
\* there truncate, rename and complete each other's files.
TargetWhole == \A p \in Path \ shared : target[p].present => Whole(target[p])

\* A bitmap never promises a chunk that the temporary file does not hold, at
\* whatever step of SaveChunk the process was killed: a later download, which
\* trusts the bitmap, skips nothing it needs.
BitmapCovered ==
  \A p \in Path \ shared :
    \A s \in bitmap[p].slots : tmp[p].present /\ tmp[p].data[s] # Hole

\* A download that the database calls completed has its own file on disk, under
\* its name or, when the rename failed or never happened, under the temporary one,
\* until a download of another file is completed at the path: beginning one,
\* breaking it off or failing it there takes nothing from the disk.
CompletedStored ==
  \A d \in Download :
    /\ row[d].status = "completed"
    /\ PathOf[d] \notin shared /\ latest[PathOf[d]] = FileOf[d]
    => Holds(tmp[PathOf[d]], FileOf[d]) \/ Holds(target[PathOf[d]], FileOf[d])
=============================================================================
