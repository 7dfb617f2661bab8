--------------------------- MODULE MCHybridSession ---------------------------
(***************************************************************************)
(* The sets of options of the runs of HybridSession.                       *)
(***************************************************************************)
EXTENDS HybridSession

Opt(i, r) == [init_buffer |-> i, req_num |-> r, coalescing |-> FALSE]

\* The options of main that fit a video of four segments.
LeastBuffer == {Opt(1, 2)}
=============================================================================
