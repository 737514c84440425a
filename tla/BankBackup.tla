-------------------------------- MODULE BankBackup --------------------------------
(***************************************************************************)
(* backends/pioneer/bank_backup.rs: persist and persist_bridge.  The       *)
(* library that writes a Pioneer transition asks for a receipt of the      *)
(* drive's persistent bank before it erases it, and for the temporary      *)
(* bridge firmware to be kept before it writes it.  The file goes into a directory whose ancestors    *)
(* may have to be created; each directory entry survives a loss of power   *)
(* only once the directory that holds it has been synced.  One action per  *)
(* system call, each may fail, and the power may be lost between any two.  *)
(***************************************************************************)
EXTENDS Naturals

CONSTANT Depth   \* directories 1..Depth lead from the root, 0, to the file

ASSUME DepthAssumption == Depth \in Nat \ {0}

VARIABLES
    content,    \* what is saved: the "bank" or the "bridge"
    made,       \* the directories that exist: 1..made, for whoever looks
    lasting,    \* entry k, of directory k or of the file, Depth + 1, is on the disk
    file,       \* "none", "part" or "whole": what the path reads as
    saving,     \* the next call of persist
    syncing,    \* the directory to be synced next, from the file's up to the root
    receipt     \* the library has its answer and may erase the bank, or write the bridge

bankVars == <<content, made, lasting, file, saving, syncing, receipt>>

Entries == 1..(Depth + 1)

\* Directories an earlier run made and did not sync exist without being durable.
BankInit ==
    /\ content \in {"bank", "bridge"}
    /\ made \in 0..Depth
    /\ \E d \in 0..made : lasting = [k \in Entries |-> k <= d]
    /\ file = "none" /\ saving = "create" /\ syncing = Depth /\ receipt = FALSE

Stops == saving' = "failed" /\ UNCHANGED <<made, lasting, file, syncing, receipt>>

\* create_dir_all makes what is missing, from the top; it may fail half way.
CreateDirectories ==
    /\ saving = "create"
    /\ \/ /\ made' = Depth /\ saving' = "publish"
       \/ /\ made' \in made..Depth /\ saving' = "failed"
    /\ UNCHANGED <<lasting, file, syncing, receipt>>

\* save_validated: a whole file whose entry is durable, or an error and no file.
Publish ==
    /\ saving = "publish"
    /\ \/ /\ file' = "whole" /\ lasting' = [lasting EXCEPT ![Depth + 1] = TRUE]
          /\ saving' = "ancestors" /\ UNCHANGED <<made, syncing, receipt>>
       \/ Stops

\* A mutant: only the file's own directory is synced.
SyncParentOnly ==
    /\ saving = "ancestors"
    /\ lasting' = [lasting EXCEPT ![Depth + 1] = TRUE]
    /\ saving' = "confirm" /\ UNCHANGED <<made, file, syncing, receipt>>

\* sync_ancestors: directory k holds entry k + 1.
SyncAncestor ==
    /\ saving = "ancestors"
    /\ \/ /\ lasting' = [lasting EXCEPT ![syncing + 1] = TRUE]
          /\ IF syncing = 0
             THEN saving' = "confirm" /\ UNCHANGED syncing
             ELSE syncing' = syncing - 1 /\ UNCHANGED saving
          /\ UNCHANGED <<made, file, receipt>>
       \/ Stops

\* Read back the published file; the library turns its own bytes into a receipt,
\* the bridge is compared.
Confirm ==
    /\ saving = "confirm"
    /\ \/ file = "whole" /\ receipt' = TRUE /\ saving' = "done" /\ UNCHANGED <<made, lasting, file, syncing>>
       \/ Stops

\* The entries that were not synced are gone, and what lay below them.
LoseBankPower ==
    /\ \E kept \in SUBSET {k \in 1..made : ~lasting[k]} :
         LET reach == {k \in 1..made : \A j \in 1..k : lasting[j] \/ j \in kept} IN
         /\ made' = IF reach = {} THEN 0 ELSE CHOOSE k \in reach : \A j \in reach : j <= k
         /\ file' = IF made' = Depth /\ lasting[Depth + 1] THEN file ELSE "none"
         /\ lasting' = [k \in Entries |-> (k <= made') \/ (k = Depth + 1 /\ file' # "none")]
    /\ saving' = "failed" /\ UNCHANGED <<content, syncing, receipt>>

Saves == (CreateDirectories \/ Publish \/ SyncAncestor \/ Confirm) /\ UNCHANGED content

\* Both archives are saved alike; they differ in how the bytes read back are judged.
Persist == content = "bank" /\ Saves
PersistBridge == content = "bridge" /\ Saves

BankNext == Persist \/ PersistBridge \/ LoseBankPower

BankSpec == BankInit /\ [][BankNext]_bankVars
-----------------------------------------------------------------------------
\* Once the library holds a receipt, and so may erase the only other copy, or put
\* the bridge on the drive, the archive is whole and is found at its path whenever
\* the power is lost.
\* (bank_backup.rs:1, "Durable full-bank evidence, acknowledged only after
\* published readback".)
ReceiptIsDurable == receipt => file = "whole" /\ \A k \in Entries : lasting[k]
=============================================================================
