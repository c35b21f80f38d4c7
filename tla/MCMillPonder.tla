---------------------------- MODULE MCMillPonder ----------------------------
(***************************************************************************)
(* MillPonder with three human turns: a quiet one, a mill with its         *)
(* removal, and one that wins.  Two threads are enough because one search  *)
(* runs at a time and the other thread can still have its timer asleep.    *)
(***************************************************************************)
EXTENDS MillPonder

QuietMillOrWin == {<<"quiet">>, <<"mill", "remove">>, <<"win">>}
Win == {<<"win">>}
QuietOrMill == {<<"quiet">>, <<"mill", "remove">>}
None == {}

=============================================================================
