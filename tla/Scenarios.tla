------------------------------ MODULE Scenarios ------------------------------
(***************************************************************************)
(* main of the scenarios of src/examples: read the files, build the nodes  *)
(* and links, install the applications, run, report.  The tables that main *)
(* fills from the files are the ones the applications index without any    *)
(* check once they run, and each scenario fills other ones.                *)
(*                                                                         *)
(* A table is the sequence of what its rows were read from.  The contents  *)
(* of the lines, and the options that have a default that can be used, are *)
(* left out: they are taken as well formed.  Where an index is out of      *)
(* range, a string cannot be parsed or an address is given twice, the      *)
(* program may do anything, or aborts, and the model stops with fault set. *)
(***************************************************************************)
EXTENDS Integers, Sequences, FiniteSets

CONSTANTS
  MaxUsers,  \* Users, users in the user_info file, algorithms in -protocol.
  MaxLines,  \* Lines of the file of bandwidth classes.
  MaxIdx,    \* The option bw_idx: which of the windows of the file is used.
  MaxWifi,   \* Stations of dash-wifi, and background transfers.
  Networks   \* Values of one byte of an address: 256.

ASSUME BoundsAssumption ==
  /\ MaxUsers \in Nat \ {0}
  /\ {MaxLines, MaxIdx, MaxWifi} \subseteq Nat
  /\ Networks \in Nat \ {0}

VARIABLES
  scenario,
  in,             \* options and files: set by the user, never changed
  phase,
  fault,
  rows_read,      \* rows of user_info that have been read
  user_bw,        \* the line of the file that each bandwidth was read from
  user_seg_size,  \* the row of user_info that each row was read for
  video_series,   \* number of rows
  links,          \* point to point links: client's node, server's node, rate
  protocols,      \* the algorithms, as their positions in -protocol
  protoNum,
  clientApps,     \* applications of the clients, in the order of installation
  asked           \* first requests: the client's m_id, the row it looked up

tables == <<user_bw, user_seg_size, video_series>>
apps == <<protocols, protoNum, clientApps>>
vars == <<scenario, in, phase, fault, rows_read, tables, links, apps, asked>>

-----------------------------------------------------------------------------
(* What each program reads.  "trace" is the file of bandwidth classes,     *)
(* "bw" and "dy" the options, empty by default, with the rate and delay of *)
(* all links, "users" the user_info file, "sizes" a file of segment sizes  *)
(* per row of it, "series" stands for the rows of zeros, and "ownRate" for *)
(* a rate in the name of a file.                                           *)

Reads_udp_dash        == {"trace", "bw", "dy", "users", "sizes", "series"}
Reads_dash_4g         == {"trace", "users", "sizes", "series", "ownRate"}
Reads_dash_fix        == {"trace", "users", "sizes", "series", "ownRate"}
Reads_dash_multi      == {"trace", "bw", "dy", "users", "sizes", "series"}
Reads_dash_add        == {"users", "series"}
Reads_dash_multi_back == {"users", "series"}
Reads_dash_example    == {"users", "series"}
Reads_link_example    == {}
Reads_dash_wifi       == {"stations"}

Reads ==
  [ udp_dash        |-> Reads_udp_dash,
    dash_4g         |-> Reads_dash_4g,
    dash_fix        |-> Reads_dash_fix,
    dash_multi      |-> Reads_dash_multi,
    dash_add        |-> Reads_dash_add,
    dash_multi_back |-> Reads_dash_multi_back,
    dash_example    |-> Reads_dash_example,
    link_example    |-> Reads_link_example,
    dash_wifi       |-> Reads_dash_wifi ]

Scenario == DOMAIN Reads

(* The topologies: the node of the server, the links as pairs of nodes,    *)
(* the node where each user's client is installed, and the networks that   *)
(* get their addresses from a base of their own, as the byte of the base   *)
(* in which they differ.                                                   *)

\* One node per user, all linked with one more.  The byte of a network is
\* made of the number of its user, which is cut off where it does not fit.
Star(users) ==
  [ server   |-> users,
    links    |-> [u \in 1 .. users |-> <<u - 1, users>>],
    home     |-> [u \in 1 .. users |-> u - 1],
    networks |-> [u \in 1 .. users |-> (u - 1) % Networks] ]

\* Two nodes: all clients on the one, the server on the other.
Pair(users) ==
  [ server   |-> 1,
    links    |-> <<<<0, 1>>>>,
    home     |-> [u \in 1 .. users |-> 0],
    networks |-> <<1>> ]

\* Fixed links; of the users, three get a client, the others none.
Fixed(users, extra) ==
  LET ends == <<<<0, 2>>, <<1, 2>>, <<3, 2>>>> \o extra
  IN  [ server   |-> 2,
        links    |-> ends,
        home     |-> SubSeq(<<0, 1, 3>>, 1, IF users < 3 THEN users ELSE 3),
        networks |-> [l \in DOMAIN ends |-> l] ]

Topology_udp_dash(i)        == Star(i.users)
Topology_dash_4g(i)         == Star(i.users)
Topology_dash_fix(i)        == Star(i.users)
Topology_dash_multi(i)      == Star(i.users)
Topology_dash_add(i)        == Fixed(i.users, <<<<2, 4>>>>)
Topology_dash_multi_back(i) == Fixed(i.users, <<>>)
Topology_dash_example(i)    == Pair(i.users)
Topology_link_example(i)    == Pair(i.users)

\* The stations of one wireless channel; the first one is the server.
Topology_dash_wifi(i) ==
  [ server   |-> 0,
    links    |-> <<>>,
    home     |-> [u \in 1 .. i.users |-> u],
    networks |-> <<2>> ]

Topology ==
  [ udp_dash        |-> Topology_udp_dash(in),
    dash_4g         |-> Topology_dash_4g(in),
    dash_fix        |-> Topology_dash_fix(in),
    dash_multi      |-> Topology_dash_multi(in),
    dash_add        |-> Topology_dash_add(in),
    dash_multi_back |-> Topology_dash_multi_back(in),
    dash_example    |-> Topology_dash_example(in),
    link_example    |-> Topology_link_example(in),
    dash_wifi       |-> Topology_dash_wifi(in) ][scenario]

(* The applications: what is installed for each user, whether main calls   *)
(* GetStats of the first application of each container at the end, and     *)
(* whether the simulation stops at the time that the option stopTime says. *)

DashApps == [perUser |-> <<"dash">>, stats |-> TRUE, stopTime |-> FALSE]

Apps_udp_dash ==
  [perUser |-> <<"dash", "dudp">>, stats |-> FALSE, stopTime |-> FALSE]
Apps_dash_4g         == DashApps
Apps_dash_fix        == DashApps
Apps_dash_multi      == DashApps
Apps_dash_add        == DashApps
Apps_dash_multi_back == DashApps
Apps_dash_example    == DashApps
Apps_link_example    == [DashApps EXCEPT !.stopTime = TRUE]
Apps_dash_wifi       == [DashApps EXCEPT !.stopTime = TRUE]

Apps ==
  [ udp_dash        |-> Apps_udp_dash,
    dash_4g         |-> Apps_dash_4g,
    dash_fix        |-> Apps_dash_fix,
    dash_multi      |-> Apps_dash_multi,
    dash_add        |-> Apps_dash_add,
    dash_multi_back |-> Apps_dash_multi_back,
    dash_example    |-> Apps_dash_example,
    link_example    |-> Apps_link_example,
    dash_wifi       |-> Apps_dash_wifi ][scenario]

-----------------------------------------------------------------------------

has(what) == what \in Reads[scenario]

\* What the user may hand to a scenario that reads r.
Inputs(r) ==
  [ users      : 1 .. MaxUsers,
    algorithms : 0 .. MaxUsers + 1,  \* the names in -protocol
    lines      : IF "trace" \in r THEN 0 .. MaxLines ELSE {0},
    bw_idx     : IF "trace" \in r THEN 0 .. MaxIdx ELSE {0},
    bw         : IF "bw" \in r THEN BOOLEAN ELSE {FALSE},
    dy         : IF "dy" \in r THEN BOOLEAN ELSE {FALSE},
    names      : IF "users" \in r THEN 0 .. 1 ELSE {0},  \* all rows show video 0
    rows       : IF "users" \in r THEN 0 .. MaxUsers + 1 ELSE {0},
    sizes      : IF "sizes" \in r THEN BOOLEAN ELSE {FALSE},
    nWifi      : IF "stations" \in r THEN 0 .. MaxWifi ELSE {0},
    bulkNo     : IF "stations" \in r THEN 0 .. MaxWifi ELSE {0} ]

Init ==
  /\ scenario \in Scenario
  /\ in \in Inputs(Reads[scenario])
  /\ phase = "start"
  /\ fault = "none"
  /\ rows_read = 0
  /\ user_bw = <<>>
  /\ user_seg_size = <<>>
  /\ video_series = 0
  /\ links = <<>>
  /\ protocols = <<>>
  /\ protoNum = 0
  /\ clientApps = <<>>
  /\ asked = {}

\* The program stops here if bad, and goes on to the next phase otherwise.
Go(next, bad, why) ==
  /\ fault' = IF bad THEN why ELSE "none"
  /\ phase' = IF bad THEN phase ELSE next

At(p) == phase = p /\ fault = "none"

\* Bug: the window begins one line early.
WindowOneEarly(cnt) ==
  cnt >= in.bw_idx * in.users /\ cnt < (in.bw_idx + 1) * in.users

\* Bug: the window has no end.
WindowNoEnd(cnt) == cnt > in.bw_idx * in.users

\* The lines of the file that belong to this run.
Window(cnt) ==
  cnt > in.bw_idx * in.users /\ cnt <= (in.bw_idx + 1) * in.users

\* The lines of the window, after cnt lines of the file.
WindowLines[cnt \in 0 .. in.lines] ==
  IF cnt = 0 THEN <<>>
  ELSE IF Window(cnt) THEN Append(WindowLines[cnt - 1], cnt)
  ELSE WindowLines[cnt - 1]

\* udp_dash also makes a number of the first two characters of the option bw.
ReadTrace ==
  /\ At("start")
  /\ user_bw' = IF has("trace") THEN WindowLines[in.lines] ELSE <<>>
  /\ Go("users", scenario = "udp_dash" /\ ~in.bw, "stod")
  /\ UNCHANGED <<scenario, in, rows_read, user_seg_size, video_series, links,
                 apps, asked>>

\* One row of user_info: the name of the video, with some programs also the
\* bandwidth of the row, make up the name of the file of segment sizes.
ReadUser ==
  /\ At("users")
  /\ rows_read < in.rows
  /\ LET bad == in.names = 0 \/ (has("ownRate") /\ rows_read >= Len(user_bw))
     IN  /\ Go("users", bad, "row")
         /\ IF bad THEN UNCHANGED <<rows_read, user_seg_size>>
            ELSE /\ rows_read' = rows_read + 1
                 /\ user_seg_size' = IF has("sizes")
                                     THEN Append(user_seg_size, rows_read + 1)
                                     ELSE <<>>
  /\ UNCHANGED <<scenario, in, user_bw, video_series, links, apps, asked>>

\* Rows of zeros, one for every user whatever the file holds.
Allocate ==
  /\ At("users")
  /\ rows_read = in.rows
  /\ video_series' = IF has("series") THEN in.users ELSE 0
  /\ Go("links", FALSE, "none")
  /\ UNCHANGED <<scenario, in, rows_read, user_bw, user_seg_size, links, apps,
                 asked>>

\* The links: a rate and a delay for all, or a rate for each out of user_bw
\* (dash-4g.cc 325-347).  dash-wifi only counts its stations.
BuildLinks ==
  /\ At("links")
  /\ IF has("stations") /\ in.bulkNo + in.users > in.nWifi + 1
     THEN phase' = "exit" /\ UNCHANGED <<fault, links>>
     ELSE LET bad == \/ has("bw") /\ ~in.bw
                     \/ has("dy") /\ ~in.dy
                     \/ has("ownRate") /\ Len(user_bw) < in.users
          IN  /\ Go("addresses", bad, "rate")
              /\ links' = IF bad THEN links
                          ELSE [l \in DOMAIN Topology.links |->
                                 [ends |-> Topology.links[l],
                                  rate |-> IF has("ownRate") THEN user_bw[l] ELSE 0]]
  /\ UNCHANGED <<scenario, in, rows_read, tables, apps, asked>>

\* Each network gets addresses; the generator of addresses aborts the program
\* when it is asked for one a second time.
AssignAddresses ==
  /\ At("addresses")
  /\ Go("protocols",
        \E a, b \in DOMAIN Topology.networks :
          a # b /\ Topology.networks[a] = Topology.networks[b],
        "address")
  /\ UNCHANGED <<scenario, in, rows_read, tables, links, apps, asked>>

\* Bug: the count goes up before the end of the list is noticed.
ReadProtocolsCountsEnd ==
  /\ At("protocols")
  /\ protocols' = [p \in 1 .. (IF in.algorithms < in.users
                               THEN in.algorithms ELSE in.users) |-> p]
  /\ protoNum' = in.algorithms + 1
  /\ Go("clients", FALSE, "none")
  /\ UNCHANGED <<scenario, in, rows_read, tables, links, clientApps, asked>>

\* protoNum counts one name too many when there are more names than users.
ReadProtocols ==
  /\ At("protocols")
  /\ protocols' = [p \in 1 .. (IF in.algorithms < in.users
                               THEN in.algorithms ELSE in.users) |-> p]
  /\ protoNum' = IF in.algorithms > in.users THEN in.users + 1 ELSE in.algorithms
  /\ Go("clients", FALSE, "none")
  /\ UNCHANGED <<scenario, in, rows_read, tables, links, clientApps, asked>>

\* The k-th application, where each user gets the kinds of Apps.perUser.
App(k) ==
  LET n == Len(Apps.perUser)
      u == ((k - 1) \div n) + 1
  IN  [ kind  |-> Apps.perUser[((k - 1) % n) + 1],
        node  |-> Topology.home[u],
        m_id  |-> u,
        proto |-> protocols[((u - 1) % protoNum) + 1] ]

InstallClients ==
  /\ At("clients")
  /\ LET home == Topology.home
         bad  == \/ home # <<>> /\ protoNum = 0
                 \/ \E u \in DOMAIN home : (u - 1) % protoNum >= Len(protocols)
                 \/ has("stations") /\ \E u \in DOMAIN home : home[u] >= in.nWifi
     IN  /\ Go("server", bad, "client")
         /\ clientApps' = IF bad THEN <<>>
                          ELSE [k \in 1 .. Len(home) * Len(Apps.perUser) |-> App(k)]
  /\ UNCHANGED <<scenario, in, rows_read, tables, links, protocols, protoNum,
                 asked>>

\* The server, and the background transfers of dash-wifi behind the clients.
InstallServer ==
  /\ At("server")
  /\ Go("run",
        has("stations") /\ in.bulkNo > 0 /\ in.users + in.bulkNo >= in.nWifi,
        "station")
  /\ UNCHANGED <<scenario, in, rows_read, tables, links, apps, asked>>

Dashes == {k \in DOMAIN clientApps : clientApps[k].kind = "dash"}

\* Is there a way from the client to the server?
Connected(k) ==
  \/ has("stations")
  \/ \E l \in DOMAIN links :
       links[l].ends = <<clientApps[k].node, Topology.server>>

\* A client is connected and asks for segment 0: it looks up the size in the
\* row of its m_id, and writes the number of packets to video_series.
FirstRequest(k) ==
  /\ At("run")
  /\ k \in Dashes
  /\ Connected(k)
  /\ LET m_id == clientApps[k].m_id
     IN  /\ \A a \in asked : a.m_id # m_id
         /\ asked' = asked \cup {[m_id |-> m_id, row |-> m_id]}
         /\ Go("run",
               \/ m_id > Len(user_seg_size) \/ ~in.sizes
               \/ m_id > video_series,
               "request")
  /\ UNCHANGED <<scenario, in, rows_read, tables, links, apps>>

\* The simulation is over; GetStats of clientApps[k] for every user k.
Stats ==
  /\ At("run")
  /\ Apps.stopTime \/ Cardinality(asked) = Cardinality(Dashes)
  /\ Go("done", Apps.stats /\ ~(1 .. in.users \subseteq Dashes), "stats")
  /\ UNCHANGED <<scenario, in, rows_read, tables, links, apps, asked>>

Next ==
  \/ ReadTrace
  \/ ReadUser
  \/ Allocate
  \/ BuildLinks
  \/ AssignAddresses
  \/ ReadProtocols
  \/ InstallClients
  \/ InstallServer
  \/ \E k \in DOMAIN clientApps : FirstRequest(k)
  \/ Stats

Spec == Init /\ [][Next]_vars

-----------------------------------------------------------------------------

\* What the state is made of.  The window of the file of bandwidth classes
\* holds no more lines than there are users, and no table is longer than what
\* it was filled from (udp_dash.cc 203-398).
TypeOK ==
  /\ scenario \in Scenario
  /\ in \in Inputs(Reads[scenario])
  /\ phase \in {"start", "users", "links", "addresses", "protocols", "clients",
                "server", "run", "done", "exit"}
  /\ fault \in {"none", "stod", "row", "rate", "address", "client", "station",
                "request", "stats"}
  /\ rows_read \in 0 .. in.rows
  /\ user_bw \in Seq(1 .. in.lines) /\ Len(user_bw) <= in.users
  /\ user_seg_size \in Seq(1 .. in.rows) /\ Len(user_seg_size) <= rows_read
  /\ video_series \in 0 .. in.users
  /\ \A l \in DOMAIN links : links[l].rate \in 0 .. in.lines
  /\ protocols \in Seq(1 .. in.algorithms) /\ Len(protocols) <= protoNum
  /\ protoNum \in 0 .. in.users + 1
  /\ Len(clientApps) <= in.users * Len(Apps.perUser)
  /\ asked \subseteq [m_id : 1 .. in.users, row : 1 .. in.users]

\* What a scenario needs so that all its clients get an answer, said without
\* the order in which main reads and builds.  No options are enough for the
\* programs that never fill user_seg_size.
Sufficient ==
  /\ has("sizes") /\ in.sizes
  /\ in.names > 0
  /\ in.algorithms > 0
  /\ in.rows >= in.users
  /\ in.users <= Networks
  /\ has("bw") => in.bw
  /\ has("dy") => in.dy
  /\ has("ownRate") =>
       /\ in.lines >= (in.bw_idx + 1) * in.users
       /\ in.rows = in.users

\* Of what the model leaves open, the options and files that a run cannot do
\* without are those named in Sufficient.  With them no table is indexed out
\* of range, the rate and the delay of every link are given and no address is
\* given twice, from the first file to GetStats.  Without one of them, no run
\* in which all clients have asked gets to the end undisturbed (dash-client.cc
\* 224, dash-4g.cc 244 and 343, udp_dash.cc 232, 447-448 and 504-513,
\* dash-multi.cc 360-361, protocols[user % protoNum]).
SufficientIsExact ==
  /\ Sufficient => fault = "none"
  /\ phase = "done" /\ Cardinality(asked) = in.users => Sufficient

\* Each client finds its own row of user_info in the table that it indexes by
\* the order of construction, and a link of its own joins it to the server,
\* which has the rate of its own line of the window where links have rates of
\* their own (dash-client.cc 112 and 224, dash-4g.cc 315-348).
UserGetsOwn ==
  \A a \in asked :
    /\ fault = "none" => user_seg_size[a.row] = a.m_id
    /\ has("sizes") =>
         \E l \in DOMAIN links :
           /\ links[l].ends = <<a.m_id - 1, in.users>>
           /\ has("ownRate") =>
                links[l].rate = in.bw_idx * in.users + a.m_id
=============================================================================
