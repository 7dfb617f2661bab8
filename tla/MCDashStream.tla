---------------------------- MODULE MCDashStream ----------------------------
(***************************************************************************)
(* The sets of options of the runs of DashStream.                          *)
(***************************************************************************)
EXTENDS DashStream

Opt(i, r, c) == [init_buffer |-> i, req_num |-> r, coalescing |-> c]

\* The options the scenarios start with.
Default == {Opt(4, 2, FALSE)}

\* Every option the assumptions allow, and a TCP that coalesces requests.
Apart == {Opt(i, r, FALSE) : i, r \in 0 .. SegCount - 2}
AllOptions == {o \in Apart : o.init_buffer + o.req_num < SegCount} \cup {Opt(4, 2, TRUE)}

\* A TCP that coalesces requests.
EvenCoalescing == {Opt(2, 2, TRUE)}
=============================================================================
