------------------------------- MODULE BackupSave -------------------------------
(***************************************************************************)
(* engine/backup.rs: save_validated_with_replace and publish_no_clobber.   *)
(* Several savers publish to one path, each its own bytes, some of them    *)
(* with the user's consent to replace what is there.  One action per       *)
(* system call: calls of different savers interleave, each may fail, a     *)
(* process may die between two of them and the machine may lose power.     *)
(***************************************************************************)
EXTENDS FiniteSets

CONSTANTS
    Savers,           \* calls of save_validated_with_replace
    Replacers,        \* those with replace = true
    Other,            \* another program, which may create the file
    None,             \* no file at the path
    HardLinks,        \* the filesystem has hard links
    SyncsDirectory    \* #[cfg(unix)]: the directory is synced

ASSUME SaverAssumption ==
    /\ Replacers \subseteq Savers /\ Other \notin Savers
    /\ HardLinks \in BOOLEAN /\ SyncsDirectory \in BOOLEAN

\* A saver writes its temporary file and, without hard links, the destination.
Files == [by : Savers \cup {Other}, name : {"temp", "path"}]

ASSUME FileAssumption == None \notin Files

Temp(s) == [by |-> s, name |-> "temp"]
Copy(s) == [by |-> s, name |-> "path"]

VARIABLES
    pc,       \* the next system call of each saver
    result,   \* what each returned
    data,     \* what each file holds for whoever reads it
    synced,   \* the files whose data has reached the disk
    entry,    \* the file the path names
    lasting   \* the files it may name after a loss of power

vars == <<pc, result, data, synced, entry, lasting>>

Data == {"none", "part", "garbled", "whole"}
Running == {"validate", "exists", "create", "write", "sync", "readBack", "publish",
            "createCopy", "copy", "syncCopy", "undo", "readPublished", "syncDirectory"}
Begun == Running \ {"validate"}

Init ==
    /\ pc = [s \in Savers |-> "validate"]
    /\ result = [s \in Savers |-> "none"]
    /\ data = [f \in Files |-> "none"]
    /\ synced = {} /\ entry = None /\ lasting = {None}

-----------------------------------------------------------------------------
Goto(s, step) == pc' = [pc EXCEPT ![s] = step] /\ UNCHANGED result
Return(s, r) ==
    /\ pc' = [pc EXCEPT ![s] = "done"] /\ result' = [result EXCEPT ![s] = r]
Fail(s) == Return(s, "error") /\ UNCHANGED <<data, synced, entry, lasting>>

\* The path names another file, or none.
Rename(f) == entry' = f /\ lasting' = lasting \cup {f} /\ UNCHANGED <<data, synced>>

(* validate(bytes), before anything is created. *)
Validate(s) ==
    /\ pc[s] = "validate"
    /\ Fail(s) \/ (Goto(s, "exists") /\ UNCHANGED <<data, synced, entry, lasting>>)

(* path.symlink_metadata, which only a saver without consent looks at. *)
CheckExists(s) ==
    /\ pc[s] = "exists"
    /\ IF s \in Replacers \/ entry = None
       THEN Goto(s, "create") /\ UNCHANGED <<data, synced, entry, lasting>>
       ELSE Fail(s)

(* The temporary file: its name holds the process and a counter. *)
CreateTemp(s) ==
    /\ pc[s] = "create"
    /\ Fail(s) \/ (Goto(s, "write") /\ UNCHANGED <<data, synced, entry, lasting>>)

(* write_all: short on a full disk, or not what was asked for. *)
Write(s) ==
    /\ pc[s] = "write"
    /\ \E d \in {"part", "garbled", "whole"} :
         /\ data' = [data EXCEPT ![Temp(s)] = d]
         /\ IF d = "part" THEN Return(s, "error") ELSE Goto(s, "sync")
    /\ UNCHANGED <<synced, entry, lasting>>

\* A mutant: the temporary file is read back through the cache and not synced.
SkipSyncTemp(s) ==
    pc[s] = "sync" /\ Goto(s, "readBack") /\ UNCHANGED <<data, synced, entry, lasting>>

SyncTemp(s) ==
    /\ pc[s] = "sync"
    /\ \/ Fail(s)
       \/ /\ synced' = synced \cup {Temp(s)}
          /\ Goto(s, "readBack") /\ UNCHANGED <<data, entry, lasting>>

(* Read the temporary file back, compare and validate it. *)
ReadBack(s) ==
    /\ pc[s] = "readBack"
    /\ \/ Fail(s)
       \/ /\ data[Temp(s)] = "whole"
          /\ Goto(s, "publish") /\ UNCHANGED <<data, synced, entry, lasting>>

(* rename over the destination, with consent. *)
PublishOver(s) ==
    /\ pc[s] = "publish" /\ s \in Replacers
    /\ Fail(s) \/ (Rename(Temp(s)) /\ Goto(s, "readPublished"))

(* publish_no_clobber: the link is refused where the path exists. *)
Link(s) ==
    /\ pc[s] = "publish" /\ s \notin Replacers
    /\ IF HardLinks /\ entry = None
       THEN Rename(Temp(s)) /\ Goto(s, "readPublished")
       ELSE Goto(s, "createCopy") /\ UNCHANGED <<data, synced, entry, lasting>>

\* A mutant: the destination is opened with create instead of create_new.
CreateCopyOver(s) ==
    /\ pc[s] = "createCopy" /\ ~HardLinks
    /\ Rename(Copy(s)) /\ Goto(s, "copy")

(* ... then the destination is created exclusively ... *)
CreateCopy(s) ==
    /\ pc[s] = "createCopy"
    /\ \/ Fail(s)
       \/ /\ ~HardLinks /\ entry = None
          /\ Rename(Copy(s)) /\ Goto(s, "copy")

(* ... copied ... *)
CopyBytes(s) ==
    /\ pc[s] = "copy"
    /\ \E d \in {"part", "garbled", "whole"} :
         /\ data' = [data EXCEPT ![Copy(s)] = d]
         /\ Goto(s, IF d = "part" THEN "undo" ELSE "syncCopy")
    /\ UNCHANGED <<synced, entry, lasting>>

\* A mutant: the result of the copy's sync is ignored.
SyncCopyIgnored(s) ==
    /\ pc[s] = "syncCopy" /\ Goto(s, "readPublished")
    /\ UNCHANGED data /\ UNCHANGED <<entry, lasting>>
    /\ synced' \in {synced, synced \cup {Copy(s)}}

(* ... and synced; a failure removes the file at the path. *)
SyncCopy(s) ==
    /\ pc[s] = "syncCopy"
    /\ \/ Goto(s, "undo") /\ UNCHANGED <<data, synced, entry, lasting>>
       \/ /\ synced' = synced \cup {Copy(s)}
          /\ Goto(s, "readPublished") /\ UNCHANGED <<data, entry, lasting>>

UndoCopy(s) ==
    /\ pc[s] = "undo" /\ Return(s, "error")
    /\ Rename(None) \/ UNCHANGED <<data, synced, entry, lasting>>

(* Read back what is at the path now, and compare. *)
ReadPublished(s) ==
    /\ pc[s] = "readPublished"
    /\ \/ Fail(s)
       \/ /\ entry # None /\ entry.by = s /\ data[entry] = "whole"
          /\ IF SyncsDirectory THEN Goto(s, "syncDirectory") ELSE Return(s, "saved")
          /\ UNCHANGED <<data, synced, entry, lasting>>

SyncDirectory(s) ==
    /\ pc[s] = "syncDirectory"
    /\ \/ Fail(s)
       \/ Return(s, "saved") /\ lasting' = {entry} /\ UNCHANGED <<data, synced, entry>>

-----------------------------------------------------------------------------
(* The environment. *)

OtherCreates ==
    /\ entry = None /\ data[Copy(Other)] = "none"
    /\ entry' = Copy(Other) /\ lasting' = lasting \cup {Copy(Other)}
    /\ data' = [data EXCEPT ![Copy(Other)] = "whole"]
    /\ synced' = synced \cup {Copy(Other)}
    /\ UNCHANGED <<pc, result>>

Die(s) == pc[s] \in Begun /\ Return(s, "died") /\ UNCHANGED <<data, synced, entry, lasting>>

\* The directory is as some operation since its last sync left it, and a file
\* that was not synced may have lost any of its data.
LosePower ==
    /\ pc' = [s \in Savers |-> IF pc[s] = "validate" THEN "validate" ELSE "done"]
    /\ result' = [s \in Savers |-> IF pc[s] \in Begun THEN "died" ELSE result[s]]
    /\ \E lost \in SUBSET {f \in Files \ synced : data[f] # "none"} :
         data' = [f \in Files |-> IF f \in lost THEN "part" ELSE data[f]]
    /\ synced' = synced \cup {f \in Files : data[f] # "none"}
    /\ entry' \in lasting /\ lasting' = {entry'}

Save(s) ==
    \/ Validate(s) \/ CheckExists(s) \/ CreateTemp(s) \/ Write(s) \/ SyncTemp(s) \/ ReadBack(s)
    \/ PublishOver(s) \/ Link(s) \/ CreateCopy(s) \/ CopyBytes(s) \/ SyncCopy(s) \/ UndoCopy(s)
    \/ ReadPublished(s) \/ SyncDirectory(s)

Next ==
    \/ \E s \in Savers : Save(s) \/ Die(s)
    \/ OtherCreates \/ LosePower

Spec == Init /\ [][Next]_vars
-----------------------------------------------------------------------------
TypeOK ==
    /\ pc \in [Savers -> Running \cup {"done"}]
    /\ result \in [Savers -> {"none", "error", "died", "saved"}]
    /\ data \in [Files -> Data]
    /\ synced \subseteq Files
    /\ entry \in Files \cup {None} /\ lasting \subseteq Files \cup {None}

Whole(f) == f # None /\ data[f] = "whole" /\ f \in synced

\* When a call returned success, the path names its whole file, or a confirmed
\* replacement's, and that survives a loss of power at any later moment.
\* (backup.rs: the syncs and read-backs of save_validated_with_replace.)
SavedIsSafe ==
    \A s \in Savers : result[s] = "saved" =>
        \A f \in lasting : Whole(f) /\ f.by \in {s} \cup Replacers

\* No call, whatever it fails at, removes or displaces a file that another
\* program made or that a call reported saved, unless the user confirmed the
\* replacement. (backup.rs:1, "without ever replacing an existing file".)
NoClobber ==
    [][\/ LosePower
       \/ entry # None /\ (entry.by = Other \/ result[entry.by] = "saved") =>
            entry' \in {entry} \cup {Temp(r) : r \in Replacers}]_vars

\* With hard links, an inductive strengthening: a file that the path names, or
\* may name after a loss of power, is whole and on the disk, at every moment.
Published == {"readPublished", "syncDirectory"}

SaverInv(s) ==
    /\ pc[s] \notin {"copy", "syncCopy", "undo"}
    /\ pc[s] \in {"readBack", "publish"} => Temp(s) \in synced
    /\ pc[s] = "publish" => data[Temp(s)] = "whole"
    /\ pc[s] \in {"validate", "exists", "create", "write", "sync"} => Temp(s) \notin lasting
    /\ pc[s] \in Published => entry # None /\ entry.by \in {s} \cup Replacers
    /\ pc[s] # "done" => result[s] = "none"
    /\ result[s] = "saved" => \A f \in lasting : f # None /\ f.by \in {s} \cup Replacers

SaveInv ==
    /\ TypeOK
    /\ entry \in lasting
    /\ \A f \in lasting \ {None} : Whole(f) /\ f \in {Temp(f.by), Copy(Other)}
    /\ \A s \in Savers : SaverInv(s)

\* Seen from outside, the path is an atomic file: torn is what it never shows.
Shows(f) == IF f = None THEN None ELSE IF Whole(f) THEN f.by ELSE "torn"

Atomic == INSTANCE AtomicFile WITH
    Writers <- Savers \cup {Other},
    shown <- Shows(entry),
    lasting <- {Shows(f) : f \in lasting},
    reported <- {s \in Savers : result[s] = "saved"}

\* With hard links, the interleaved system calls are an atomic, durable,
\* exclusive publication. (backup.rs: publish_no_clobber, "publish atomically".)
ImplementsAtomicFile == Atomic!AtomicSpec
=============================================================================
