-------------------------------- MODULE JsonStore ------------------------------
(***************************************************************************)
(* Saving a store's file (internal/jsonstore/jsonstore.go) one system call *)
(* at a time, with any of them failing, the process killed or the power    *)
(* lost in between, and loading what is left.  The store's mutex lets one  *)
(* save run at a time.                                                     *)
(*                                                                         *)
(* The file system keeps a name's entry and a file's data apart: data      *)
(* reaches the disk with fsync or later, a rename when the directory is    *)
(* flushed, which WriteAtomic does not ask for.                            *)
(***************************************************************************)
EXTENDS Naturals

CONSTANTS
    Docs,      \* documents a store can save
    Missing,   \* no file, or no document
    Torn,      \* data that is not a whole document (truncated, half written)
    MaxLosses  \* bound of the model: kills and power losses

ASSUME JsonStoreAssumption ==
    /\ Missing # Torn
    /\ {Missing, Torn} \cap Docs = {}
    /\ MaxLosses \in Nat

VARIABLES
    file,    \* the file under path
    tmp,     \* the file under path + ".tmp"
    older,   \* files a power loss may bring back under path
    pc,      \* where WriteAtomic is
    data,    \* the document it saves, or saved last
    answer,  \* what it returned last: nil ("saved"), an error, or nothing yet
    before,  \* history: the file when the last save began
    losses

fileVars == <<file, tmp, older, pc, data, answer, before, losses>>

--------------------------------------------------------------------------------

(* A file and whether its data has reached the disk. *)
File == [data : Docs \cup {Missing, Torn}, synced : BOOLEAN]
NoFile == [data |-> Missing, synced |-> TRUE]

PC == {"idle", "open", "write", "sync", "close", "rename"}

(* What may be left of a file after a power loss. *)
Survivors(f) == {[f EXCEPT !.synced = TRUE]}
                    \cup (IF f.synced THEN {} ELSE {[data |-> Torn, synced |-> TRUE]})

FileInit ==
    /\ file = NoFile
    /\ tmp = NoFile
    /\ older = {}
    /\ pc = "idle"
    /\ data = Missing
    /\ answer = "none"
    /\ before = Missing
    /\ losses = 0

Goto(l) == pc' = l /\ UNCHANGED <<data, answer, before, losses>>

--------------------------------------------------------------------------------
(* Plausible bugs, one per property a run checks *)

SyncSkipped ==
    /\ pc = "sync"
    /\ Goto("close")
    /\ UNCHANGED <<file, tmp, older>>

(* The document is written to path itself. *)
WriteInPlace ==
    /\ pc = "write"
    /\ file' = [data |-> data, synced |-> FALSE]
    /\ Goto("sync")
    /\ UNCHANGED <<tmp, older>>

(* The error of the rename is dropped. *)
RenameErrorDropped ==
    /\ pc = "rename"
    /\ pc' = "idle"
    /\ answer' = "saved"
    /\ UNCHANGED <<file, tmp, older, data, before, losses>>

--------------------------------------------------------------------------------
(* SaveSlice and WriteAtomic *)

SaveSlice(d) ==
    /\ pc = "idle"
    /\ pc' = "open"
    /\ data' = d
    /\ before' = file.data
    /\ answer' = "none"
    /\ UNCHANGED <<file, tmp, older, losses>>

(* O_TRUNC empties a temp file a killed save left behind. *)
Open ==
    /\ pc = "open"
    /\ tmp' = [data |-> Torn, synced |-> FALSE]
    /\ Goto("write")
    /\ UNCHANGED <<file, older>>

Write ==
    /\ pc = "write"
    /\ tmp' = [data |-> data, synced |-> FALSE]
    /\ Goto("sync")
    /\ UNCHANGED <<file, older>>

Sync ==
    /\ pc = "sync"
    /\ tmp' = [tmp EXCEPT !.synced = TRUE]
    /\ Goto("close")
    /\ UNCHANGED <<file, older>>

Close ==
    /\ pc = "close"
    /\ Goto("rename")
    /\ UNCHANGED <<file, tmp, older>>

Rename ==
    /\ pc = "rename"
    /\ file' = tmp
    /\ older' = older \cup {file}
    /\ tmp' = NoFile
    /\ pc' = "idle"
    /\ answer' = "saved"
    /\ UNCHANGED <<data, before, losses>>

Fail ==
    /\ pc' = "idle"
    /\ answer' = "error"
    /\ UNCHANGED <<file, older, data, before, losses>>

(* MkdirAll, MarshalIndent or OpenFile fails: the temp file is not touched.  *)
OpenFails == pc = "open" /\ Fail /\ UNCHANGED tmp

(* A later call fails: the temp file is removed (best effort). *)
WriteFails ==
    /\ pc \in {"write", "sync", "close"}
    /\ Fail
    /\ tmp' \in {NoFile, [data |-> Torn, synced |-> FALSE]}

(* A rename that fails leaves the temp file. *)
RenameFails == pc = "rename" /\ Fail /\ UNCHANGED tmp

--------------------------------------------------------------------------------
(* The system around it *)

(* The kernel writes back what it holds. *)
Flush ==
    /\ older' = {}
    /\ file' = [file EXCEPT !.synced = TRUE]
    /\ tmp' = [tmp EXCEPT !.synced = TRUE]
    /\ UNCHANGED <<pc, data, answer, before, losses>>

Lose ==
    /\ losses < MaxLosses
    /\ losses' = losses + 1
    /\ pc' = "idle"
    /\ answer' = "none"
    /\ UNCHANGED <<data, before>>

Kill == Lose /\ UNCHANGED <<file, tmp, older>>

PowerLoss ==
    /\ Lose
    /\ \E f \in {file} \cup older : file' \in Survivors(f)
    /\ tmp' \in {NoFile} \cup Survivors(tmp)
    /\ older' = {}

--------------------------------------------------------------------------------

FileNext ==
    \/ \E d \in Docs : SaveSlice(d)
    \/ Open \/ Write \/ Sync \/ Close \/ Rename
    \/ OpenFails \/ WriteFails \/ RenameFails
    \/ Flush \/ Kill \/ PowerLoss

FileSpec == FileInit /\ [][FileNext]_fileVars

--------------------------------------------------------------------------------
(* Properties *)

(* Every variable is what it can be; above all, the file LoadSlice reads at  *)
(* the next start is a whole document or missing, after whatever crash.      *)
FileTypeOK ==
    /\ file \in [data : Docs \cup {Missing}, synced : BOOLEAN]
    /\ tmp \in File
    /\ older \subseteq [data : Docs \cup {Missing}, synced : BOOLEAN]
    /\ pc \in PC
    /\ data \in Docs \cup {Missing}
    /\ answer \in {"none", "saved", "error"}
    /\ before \in Docs \cup {Missing}
    /\ losses \in 0 .. MaxLosses

(* While no save is running and no crash intervened, a save that returned    *)
(* nil has put its document in place and one that returned an error has      *)
(* changed nothing.                                                          *)
AnswersAreTrue ==
    /\ answer = "saved" => file.data = data
    /\ answer = "error" => file.data = before

(* WriteAtomic keeps the promise of AtomicFile, through every failing call   *)
(* and every crash.                                                          *)
Promise == INSTANCE AtomicFile
               WITH contents <- file.data,
                    older <- {f.data : f \in older},
                    writing <- IF pc = "idle" THEN Missing ELSE data

KeepsFilePromise == Promise!Spec

================================================================================
