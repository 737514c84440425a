------------------------------- MODULE AtomicFile -------------------------------
(***************************************************************************)
(* What the savers of one backup file promise together: a reader, and a    *)
(* machine that lost power, see no file or a complete one; only a          *)
(* confirmed replacement takes the place of a file; and what was reported  *)
(* saved has reached the disk.  BackupSave implements it.                  *)
(***************************************************************************)
CONSTANTS Writers, Replacers, None

VARIABLES
    shown,     \* the writer whose complete file is at the path, or None
    lasting,   \* what may be there after a loss of power
    reported   \* the writers that were told their file is saved

atomicVars == <<shown, lasting, reported>>

AtomicInit == shown = None /\ lasting = {None} /\ reported = {}

Publish(w) ==
    /\ shown = None \/ w \in Replacers
    /\ shown' = w /\ lasting' = lasting \cup {w} /\ UNCHANGED reported

Report(w) ==
    /\ shown \in {w} \cup Replacers
    /\ lasting' = {shown}
    /\ reported' = reported \cup {w} /\ UNCHANGED shown

LosePower ==
    /\ shown' \in lasting /\ lasting' = {shown'} /\ UNCHANGED reported

AtomicNext ==
    \/ \E w \in Writers : Publish(w) \/ Report(w)
    \/ LosePower
AtomicSpec == AtomicInit /\ [][AtomicNext]_atomicVars
=============================================================================
