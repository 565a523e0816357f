--------------------------- MODULE MCBackupJournal ---------------------------
(***************************************************************************)
(* Small instances of BackupJournal: two data blocks and at most one       *)
(* spare, blocks of two pages.                                             *)
(***************************************************************************)
EXTENDS BackupJournal

CONSTANTS b1, b2, s1

OneSpare == <<s1>>
NoSpare == << >>
=============================================================================
