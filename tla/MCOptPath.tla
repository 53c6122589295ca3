----------------------------- MODULE MCOptPath -----------------------------
(***************************************************************************)
(* Instances of OptPath for TLC: four authorities, and a window of two     *)
(* leaders unless said otherwise, so the leaders of heights 1, 2, 3 are    *)
(* 1-2, 2-3, 3-0.  A universe of blocks is a table of rows                 *)
(* <<author, height, parent>>; block 0 is genesis, another block its row.  *)
(***************************************************************************)
EXTENDS OptPath, Sequences

Rows(t) == 1..Len(t)
AuthorIn(t) == [b \in Rows(t) |-> t[b][1]]
HeightIn(t) == [b \in Rows(t) \cup {0} |-> IF b = 0 THEN 0 ELSE t[b][2]]
ParentIn(t) == [b \in Rows(t) \cup {0} |-> IF b = 0 THEN 0 ELSE t[b][3]]

(* Faulty node 2, the only leader of height 2, signs two blocks there. *)
Twins == << <<1, 1, 0>>, <<2, 2, 1>>, <<2, 2, 1>>, <<3, 3, 2>> >>
TwinsBlock == Rows(Twins)
TwinsAuthor == AuthorIn(Twins)
TwinsHeight == HeightIn(Twins)
TwinsQC == ParentIn(Twins)

(* Node 1 is silent and its backup, node 2, takes over; node 2 could fill    *)
(* its first proposal in two ways.                                         *)
Silent == << <<2, 1, 0>>, <<2, 1, 0>>, <<2, 2, 1>>, <<2, 2, 2>>, <<3, 3, 3>>, <<3, 3, 4>> >>
SilentBlock == Rows(Silent)
SilentAuthor == AuthorIn(Silent)
SilentHeight == HeightIn(Silent)
SilentQC == ParentIn(Silent)

(* One block per height; the backup leaders propose at heights 2 and 3. *)
Backup == << <<1, 1, 0>>, <<3, 2, 1>>, <<0, 3, 2>> >>
BackupBlock == Rows(Backup)
BackupAuthor == AuthorIn(Backup)
BackupHeight == HeightIn(Backup)
BackupQC == ParentIn(Backup)
=============================================================================
