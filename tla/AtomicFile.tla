------------------------------- MODULE AtomicFile ------------------------------
(***************************************************************************)
(* What WriteAtomic promises the stores ("writes data to path via temp     *)
(* file, fsync, and rename"), apart from how: a save replaces the contents *)
(* at one instant or not at all, and a power loss may at worst bring back  *)
(* contents the file had before a replacement the directory has not yet    *)
(* flushed.                                                                *)
(***************************************************************************)
CONSTANTS Docs, Missing

VARIABLES
    contents,  \* what a reader of the file finds: a document, or Missing
    older,     \* what a power loss may bring back instead
    writing    \* the document of the save in progress, or Missing

vars == <<contents, older, writing>>

Init == contents = Missing /\ older = {} /\ writing = Missing

Begin(d) ==
    /\ writing = Missing
    /\ writing' = d
    /\ UNCHANGED <<contents, older>>

Replace ==
    /\ writing # Missing
    /\ contents' = writing
    /\ older' = older \cup {contents}
    /\ writing' = Missing

(* The save fails or its process is killed. *)
GiveUp ==
    /\ writing # Missing
    /\ writing' = Missing
    /\ UNCHANGED <<contents, older>>

Flush ==
    /\ older' = {}
    /\ UNCHANGED <<contents, writing>>

PowerLoss ==
    /\ contents' \in {contents} \cup older
    /\ older' = {}
    /\ writing' = Missing

Next ==
    \/ \E d \in Docs : Begin(d)
    \/ Replace
    \/ GiveUp
    \/ Flush
    \/ PowerLoss

Spec == Init /\ [][Next]_vars

================================================================================
