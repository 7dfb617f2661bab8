------------------------------ MODULE MCPlayout ------------------------------
(***************************************************************************)
(* The sets of options of the run of Playout.                              *)
(***************************************************************************)
EXTENDS Playout

Opt(i, r, c) == [init_buffer |-> i, req_num |-> r, coalescing |-> c]

\* One with which the player pulls from its second segment on, and one with
\* which the downloads ask for nearly all of the video.
TwoOptions == {Opt(2, 1, FALSE), Opt(3, 2, FALSE)}
=============================================================================
