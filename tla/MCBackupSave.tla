------------------------------ MODULE MCBackupSave ------------------------------
(***************************************************************************)
(* BackupSave with three savers of one path; the cfg files say which of    *)
(* them may replace and whether the filesystem has hard links.             *)
(***************************************************************************)
EXTENDS BackupSave, TLC

CONSTANTS s1, s2, s3

MCSavers == {s1, s2, s3}
OneReplacer == {s3}
NoReplacer == {}

\* Savers that ask for the same thing are interchangeable.
Alike == Permutations(MCSavers \ Replacers)
=============================================================================
