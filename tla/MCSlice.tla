------------------------------- MODULE MCSlice ------------------------------
(***************************************************************************)
(* An instance of Slice: three keys, and snapshots that differ in one field *)
(* each, or whose bytes run into those of the next account.                 *)
(***************************************************************************)
EXTENDS Slice

MCAccount == 0..2

Holding(lamports, owner, data) == [lamports |-> lamports, owner |-> owner, data |-> data]
MCSnapshots == {Holding(1, 0, <<>>), Holding(1, 0, <<1, 1>>), Holding(0, 0, <<>>),
                Holding(1, 1, <<>>)}

MCVerdicts == {[level |-> Info, findings |-> {[level |-> Info, code |-> "F1"]}],
               [level |-> Red, findings |-> {[level |-> Red, code |-> "F2"],
                                             [level |-> Info, code |-> "F1"]}]}
=============================================================================
