--------------------------- MODULE ScenariosProofs ----------------------------
(***************************************************************************)
(* Proofs about Scenarios, for any number of users, lines, windows and     *)
(* stations.                                                               *)
(*                                                                         *)
(* Nothing that main reads is changed later, so the inductive invariant    *)
(* says for each table what it holds, as a function of the options and     *)
(* files, from the phase on in which main has filled it, and that the      *)
(* tests main passed on the way were passed.  The nine programs enter only *)
(* through a lemma on what they read, link and install.                    *)
(***************************************************************************)
EXTENDS Scenarios, SumTheorems, SequenceTheorems, TLAPS

\* The last line before the window.
Skipped == in.bw_idx * in.users

\* How many of the first cnt lines of the file lie in the window.
WindowLen(cnt) ==
  IF cnt <= Skipped THEN 0
  ELSE IF cnt <= Skipped + in.users THEN cnt - Skipped
  ELSE in.users

\* Those lines, in the order of the file.
WindowSeq(cnt) == [i \in 1 .. WindowLen(cnt) |-> Skipped + i]

\* The number of the last line before the window is a natural number, and the
\* window has as many lines as there are users.
LEMMA WindowBounds ==
  ASSUME in.users \in Nat, in.bw_idx \in Nat
  PROVE  /\ Skipped \in Nat
         /\ (in.bw_idx + 1) * in.users = Skipped + in.users
         /\ \A cnt \in Nat : WindowLen(cnt) \in Nat /\ WindowLen(cnt) <= cnt
                             /\ WindowLen(cnt) <= in.users
                             /\ Skipped + WindowLen(cnt) <= cnt + Skipped
                             /\ (WindowLen(cnt) > 0 => Skipped + WindowLen(cnt) <= cnt)
<1>1. \A a, b \in Nat : a * b \in Nat /\ (a + 1) * b = a * b + b
  OBVIOUS
<1>2. Skipped \in Nat /\ (in.bw_idx + 1) * in.users = Skipped + in.users
  BY <1>1 DEF Skipped
<1> HIDE DEF Skipped
<1> QED BY <1>2 DEF WindowLen

\* A line of the window comes behind the lines of the window before it.
LEMMA WindowStep ==
  ASSUME in.users \in Nat, in.bw_idx \in Nat, NEW cnt \in Nat \ {0}
  PROVE  WindowSeq(cnt) = IF Window(cnt) THEN Append(WindowSeq(cnt - 1), cnt)
                          ELSE WindowSeq(cnt - 1)
<1>1. /\ Skipped \in Nat
      /\ Window(cnt) <=> cnt > Skipped /\ cnt <= Skipped + in.users
      /\ WindowLen(cnt - 1) \in Nat
  BY WindowBounds DEF Window, Skipped
<1>2. CASE Window(cnt)
  <2>1. WindowLen(cnt) = WindowLen(cnt - 1) + 1 /\ Skipped + WindowLen(cnt) = cnt
    BY <1>1, <1>2 DEF WindowLen
  <2> DEFINE n == WindowLen(cnt - 1)
             s == [i \in 1 .. n |-> Skipped + i]
             t == [i \in 1 .. n + 1 |-> Skipped + i]
  <2>2. n \in Nat /\ Skipped + (n + 1) = cnt
    BY <1>1, <2>1
  <2>3. t = Append(s, cnt)
    <3> HIDE DEF n
    <3>1. s \in Seq(Int) /\ Len(s) = n
      BY <1>1, <2>2
    <3>2. Append(s, cnt) = [i \in 1 .. n + 1 |-> IF i = n + 1 THEN cnt ELSE s[i]]
      BY <3>1, <1>1, <2>2
    <3> QED BY <3>2, <2>2, <1>1
  <2> QED BY <2>1, <2>3, <1>2 DEF WindowSeq
<1>3. CASE ~Window(cnt)
  <2>1. WindowLen(cnt) = WindowLen(cnt - 1)
    BY <1>1, <1>3 DEF WindowLen
  <2> QED BY <2>1, <1>3 DEF WindowSeq
<1> QED BY <1>2, <1>3

\* The loop over the file of bandwidth classes leaves exactly the lines of the
\* window that the file has.
LEMMA WindowRead ==
  ASSUME in.users \in Nat, in.bw_idx \in Nat, in.lines \in Nat
  PROVE  WindowLines[in.lines] = WindowSeq(in.lines)
<1> DEFINE N == in.lines
           Solves(g) == g = [cnt \in 0 .. N |->
                              IF cnt = 0 THEN <<>>
                              ELSE IF Window(cnt) THEN Append(g[cnt - 1], cnt)
                              ELSE g[cnt - 1]]
           all == [cnt \in 0 .. N |-> WindowSeq(cnt)]
<1>1. WindowLines = CHOOSE g : Solves(g)
  BY DEF WindowLines
<1>2. WindowSeq(0) = <<>>
  <2>1. WindowLen(0) = 0
    BY WindowBounds DEF WindowLen
  <2> QED BY <2>1 DEF WindowSeq
<1>3. ASSUME NEW cnt \in 1 .. N
      PROVE  WindowSeq(cnt) = IF Window(cnt) THEN Append(WindowSeq(cnt - 1), cnt)
                              ELSE WindowSeq(cnt - 1)
  BY WindowStep
<1>4. Solves(all)
  <2>1. ASSUME NEW cnt \in 0 .. N
        PROVE  all[cnt] = IF cnt = 0 THEN <<>>
                          ELSE IF Window(cnt) THEN Append(all[cnt - 1], cnt)
                          ELSE all[cnt - 1]
    <3>1. CASE cnt = 0
      BY <3>1, <1>2
    <3>2. CASE cnt # 0
      <4>1. cnt \in 1 .. N /\ cnt - 1 \in 0 .. N
        BY <3>2
      <4>2. all[cnt] = WindowSeq(cnt) /\ all[cnt - 1] = WindowSeq(cnt - 1)
        BY <4>1
      <4> QED BY <4>1, <4>2, <3>2, <1>3
    <3> QED BY <3>1, <3>2
  <2> QED BY <2>1
<1>5. Solves(WindowLines)
  <2> HIDE DEF all
  <2> QED BY <1>1, <1>4
<1> DEFINE S == {n \in Nat : n <= N => WindowLines[n] = WindowSeq(n)}
<1>6. 0 \in S
  BY <1>5, <1>2
<1>7. ASSUME NEW n \in Nat, n \in S PROVE n + 1 \in S
  <2> SUFFICES ASSUME n + 1 <= N PROVE WindowLines[n + 1] = WindowSeq(n + 1)
    OBVIOUS
  <2> DEFINE m == n + 1
  <2>1. m \in 1 .. N /\ m - 1 = n /\ WindowLines[n] = WindowSeq(n)
    BY <1>7
  <2> HIDE DEF m
  <2>2. m \in 0 .. N /\ m # 0 /\ WindowLines[m - 1] = WindowSeq(m - 1)
    BY <2>1
  <2>3. WindowLines[m] = IF Window(m) THEN Append(WindowLines[m - 1], m)
                         ELSE WindowLines[m - 1]
    <3> HIDE DEF N
    <3> QED BY <1>5, <2>2
  <2>4. WindowLines[m] = WindowSeq(m)
    BY <2>1, <2>2, <2>3, <1>3, Zenon
  <2> QED BY <2>4 DEF m
<1>8. N \in S
  <2>1. \A n \in Nat : n \in S
    <3> HIDE DEF S
    <3> QED BY <1>6, <1>7, SetInduction
  <2> QED BY <2>1
<1> QED BY <1>8

-----------------------------------------------------------------------------

\* What the nine programs read: who reads segment sizes also reads the other
\* files about users and allocates the rows, and the rates come with the sizes.
LEMMA ReadsFacts ==
  ASSUME scenario \in Scenario
  PROVE  /\ has("sizes") => /\ has("series") /\ has("users") /\ has("trace")
                            /\ ~has("stations")
         /\ has("ownRate") => has("sizes")
         /\ has("bw") => has("sizes")
         /\ scenario = "udp_dash" => has("bw")
BY DEF Scenario, has, Reads, Reads_udp_dash, Reads_dash_4g, Reads_dash_fix,
       Reads_dash_multi, Reads_dash_add, Reads_dash_multi_back,
       Reads_dash_example, Reads_link_example, Reads_dash_wifi

\* Where the clients are when three nodes are there for them.
LEMMA FixedHome ==
  ASSUME NEW users \in Nat \ {0}, NEW extra
  PROVE  /\ DOMAIN Fixed(users, extra).home = 1 .. Len(Fixed(users, extra).home)
         /\ Len(Fixed(users, extra).home) \in 1 .. users
<1> DEFINE n == IF users < 3 THEN users ELSE 3
           s == <<0, 1, 3>>
<1>1. s \in Seq(Nat) /\ Len(s) = 3 /\ n \in 1 .. 3 /\ n \in 1 .. users
  OBVIOUS
<1>2. SubSeq(s, 1, n) \in Seq(Nat) /\ Len(SubSeq(s, 1, n)) = n
  <2>1. \A i \in 1 .. n : s[i] \in Nat
    OBVIOUS
  <2> HIDE DEF s, n
  <2>2. n \in Int /\ 1 <= n /\ n - 1 + 1 = n
    BY <1>1
  <2> QED BY <2>1, <2>2, SubSeqProperties
<1>3. Fixed(users, extra).home = SubSeq(s, 1, n)
  BY DEF Fixed
<1> QED BY <1>1, <1>2, <1>3

\* Where the clients are in the other topologies.
LEMMA Homes ==
  ASSUME NEW users \in Nat \ {0}
  PROVE  /\ DOMAIN Star(users).home = 1 .. users /\ Len(Star(users).home) = users
         /\ DOMAIN Pair(users).home = 1 .. users /\ Len(Pair(users).home) = users
<1>1. Star(users).home = [u \in 1 .. users |-> u - 1]
  BY DEF Star
<1>2. Pair(users).home = [u \in 1 .. users |-> 0]
  BY DEF Pair
<1> QED BY <1>1, <1>2

\* What the nine programs link and install: some user gets a client and none
\* gets two, and a program that reads segment sizes is a star.
LEMMA TopologyFacts ==
  ASSUME scenario \in Scenario, in.users \in Nat \ {0}
  PROVE  /\ DOMAIN Topology.home = 1 .. Len(Topology.home)
         /\ Len(Topology.home) \in 1 .. in.users
         /\ has("sizes") => Topology = Star(in.users)
<1> DEFINE users == in.users
<1>1. CASE scenario \in {"udp_dash", "dash_4g", "dash_fix", "dash_multi"}
  <2>1. Topology = Star(users)
    BY <1>1 DEF Topology, Topology_udp_dash, Topology_dash_4g, Topology_dash_fix,
                Topology_dash_multi
  <2> QED BY <2>1, Homes
<1>2. CASE scenario \in {"dash_add", "dash_multi_back"}
  <2>1. \E extra : Topology = Fixed(users, extra)
    BY <1>2 DEF Topology, Topology_dash_add, Topology_dash_multi_back
  <2>2. ~has("sizes")
    BY <1>2 DEF has, Reads, Reads_dash_add, Reads_dash_multi_back
  <2> QED BY <2>1, <2>2, FixedHome
<1>3. CASE scenario \in {"dash_example", "link_example"}
  <2>1. Topology = Pair(users)
    BY <1>3 DEF Topology, Topology_dash_example, Topology_link_example
  <2>2. ~has("sizes")
    BY <1>3 DEF has, Reads, Reads_dash_example, Reads_link_example
  <2> QED BY <2>1, <2>2, Homes
<1>4. CASE scenario = "dash_wifi"
  <2>1. Topology.home = [u \in 1 .. users |-> u]
    BY <1>4 DEF Topology, Topology_dash_wifi
  <2>2. ~has("sizes")
    BY <1>4 DEF has, Reads, Reads_dash_wifi
  <2>3. Len(Topology.home) = users
    BY <2>1
  <2> QED BY <2>1, <2>2, <2>3
<1> QED BY <1>1, <1>2, <1>3, <1>4 DEF Scenario, Reads

\* Every user gets a DashClient; only udp_dash installs another client behind
\* each and asks none for its statistics.
LEMMA AppsFacts ==
  ASSUME scenario \in Scenario
  PROVE  \/ Apps.perUser = <<"dash">>
         \/ Apps.perUser = <<"dash", "dudp">> /\ Apps.stats = FALSE
BY DEF Scenario, Reads, Apps, DashApps, Apps_udp_dash, Apps_dash_4g, Apps_dash_fix,
       Apps_dash_multi, Apps_dash_add, Apps_dash_multi_back, Apps_dash_example,
       Apps_link_example, Apps_dash_wifi

\* The scenario and its options stay as they are, and what follows from them.
LEMMA Still ==
  ASSUME scenario' = scenario, in' = in
  PROVE  /\ Topology' = Topology /\ Apps' = Apps
         /\ \A what : has(what)' = has(what)
<1>1. Topology' = Topology
  BY DEF Topology, Topology_udp_dash, Topology_dash_4g, Topology_dash_fix,
         Topology_dash_multi, Topology_dash_add, Topology_dash_multi_back,
         Topology_dash_example, Topology_link_example, Topology_dash_wifi
<1>2. Apps' = Apps
  BY DEF Apps
<1>3. \A what : has(what)' = has(what)
  BY DEF has
<1> QED BY <1>1, <1>2, <1>3
-----------------------------------------------------------------------------

\* What main has filled the tables with, as a function of options and files.
BandwidthTable == IF has("trace") THEN WindowSeq(in.lines) ELSE <<>>

SizeTable(rows) == IF has("sizes") THEN [r \in 1 .. rows |-> r] ELSE <<>>

\* Two networks get their addresses from the same base.
Clash ==
  \E a, b \in DOMAIN Topology.networks :
    a # b /\ Topology.networks[a] = Topology.networks[b]

LinkTable ==
  [l \in DOMAIN Topology.links |->
    [ends |-> Topology.links[l],
     rate |-> IF has("ownRate") THEN user_bw[l] ELSE 0]]

Shorter(a, b) == IF a < b THEN a ELSE b

ClientTable == [k \in 1 .. Len(Topology.home) * Len(Apps.perUser) |-> App(k)]

\* The parts of the inductive invariant, in the order of main.
Typed ==
  /\ scenario \in Scenario
  /\ in \in Inputs(Reads[scenario])
  /\ phase \in {"start", "users", "links", "addresses", "protocols", "clients",
                "server", "run", "done", "exit"}
  /\ fault \in {"none", "stod", "row", "rate", "address", "client", "station",
                "request", "stats"}
  /\ phase = "done" => fault = "none"

TraceRead ==
  /\ user_bw \in {<<>>, BandwidthTable}
  /\ phase # "start" => user_bw = BandwidthTable

UsersRead ==
  /\ rows_read \in 0 .. in.rows
  /\ phase = "start" => rows_read = 0
  /\ phase \notin {"start", "users"} => rows_read = in.rows
  /\ rows_read > 0 => /\ in.names > 0
                      /\ has("ownRate") => rows_read <= Len(user_bw)
  /\ user_seg_size = SizeTable(rows_read)

Allocated ==
  video_series = IF has("series") /\ phase \notin {"start", "users"}
                 THEN in.users ELSE 0

LinksBuilt ==
  IF phase \in {"addresses", "protocols", "clients", "server", "run", "done"}
  THEN /\ links = LinkTable
       /\ has("bw") => in.bw
       /\ has("dy") => in.dy
       /\ has("ownRate") => Len(user_bw) >= in.users
  ELSE links = <<>>

AddressesAssigned ==
  phase \in {"protocols", "clients", "server", "run", "done"} => ~Clash

ProtocolsRead ==
  IF phase \in {"clients", "server", "run", "done"}
  THEN /\ protocols = [p \in 1 .. Shorter(in.algorithms, in.users) |-> p]
       /\ protoNum = Shorter(in.algorithms, in.users + 1)
  ELSE protocols = <<>> /\ protoNum = 0

ClientsInstalled ==
  IF phase \in {"server", "run", "done"}
  THEN clientApps = ClientTable /\ in.algorithms > 0
  ELSE clientApps = <<>>

Requested ==
  /\ phase \notin {"run", "done"} => asked = {}
  /\ \A a \in asked : /\ a.m_id \in 1 .. in.users
                      /\ a = [m_id |-> a.m_id, row |-> a.m_id]
  /\ fault = "none" => \A a \in asked : in.sizes /\ a.m_id <= Len(user_seg_size)

\* The inductive invariant.
IInv ==
  /\ Typed
  /\ TraceRead
  /\ UsersRead
  /\ Allocated
  /\ LinksBuilt
  /\ AddressesAssigned
  /\ ProtocolsRead
  /\ ClientsInstalled
  /\ Requested
  /\ Sufficient => fault = "none"

\* The options and what the files hold, of any scenario.
LEMMA InputFacts ==
  ASSUME Typed
  PROVE  /\ in.users \in Nat \ {0}
         /\ {in.algorithms, in.lines, in.bw_idx, in.rows, in.names} \subseteq Nat
         /\ {in.nWifi, in.bulkNo} \subseteq Nat
         /\ in.bw \in BOOLEAN /\ in.dy \in BOOLEAN /\ in.sizes \in BOOLEAN
<1> DEFINE r == Reads[scenario]
<1>1. in \in Inputs(r)
  BY DEF Typed
<1> HIDE DEF r
<1>2. /\ in.users \in 1 .. MaxUsers
      /\ in.algorithms \in 0 .. MaxUsers + 1
      /\ in.lines \in 0 .. MaxLines \cup {0} /\ in.bw_idx \in 0 .. MaxIdx \cup {0}
      /\ in.rows \in 0 .. MaxUsers + 1 \cup {0} /\ in.names \in 0 .. 1 \cup {0}
      /\ in.nWifi \in 0 .. MaxWifi \cup {0} /\ in.bulkNo \in 0 .. MaxWifi \cup {0}
      /\ in.bw \in BOOLEAN /\ in.dy \in BOOLEAN /\ in.sizes \in BOOLEAN
  BY <1>1 DEF Inputs
<1> QED BY <1>2, BoundsAssumption

\* The table of bandwidths has at most a row per user, and one for each exactly
\* if the window lies within the file.
LEMMA BandwidthFacts ==
  ASSUME Typed
  PROVE  /\ BandwidthTable \in Seq(1 .. in.lines)
         /\ Len(BandwidthTable) <= in.users
         /\ \A l \in 1 .. Len(BandwidthTable) : BandwidthTable[l] = Skipped + l
         /\ has("trace") => (Len(BandwidthTable) >= in.users
                              <=> in.lines >= (in.bw_idx + 1) * in.users)
<1>1. in.users \in Nat \ {0} /\ in.lines \in Nat /\ in.bw_idx \in Nat
  BY InputFacts
<1> DEFINE n == WindowLen(in.lines)
<1>2. /\ Skipped \in Nat /\ (in.bw_idx + 1) * in.users = Skipped + in.users
      /\ n \in Nat /\ n <= in.users /\ (n > 0 => Skipped + n <= in.lines)
  BY <1>1, WindowBounds
<1>3. n >= in.users <=> in.lines >= Skipped + in.users
  BY <1>1, <1>2 DEF WindowLen
<1> HIDE DEF n
<1>4. CASE has("trace")
  <2>1. BandwidthTable = [i \in 1 .. n |-> Skipped + i]
    BY <1>4 DEF BandwidthTable, WindowSeq, n
  <2>2. \A i \in 1 .. n : Skipped + i \in 1 .. in.lines
    BY <1>1, <1>2
  <2>3. BandwidthTable \in Seq(1 .. in.lines) /\ Len(BandwidthTable) = n
    BY <2>1, <2>2, <1>2
  <2> QED BY <2>1, <2>3, <1>1, <1>2, <1>3
<1>5. CASE ~has("trace")
  <2>1. BandwidthTable = <<>>
    BY <1>5 DEF BandwidthTable
  <2> QED BY <2>1, <1>1, <1>5
<1> QED BY <1>4, <1>5

\* What the tables hold is the same as long as what it is made of is.
LEMMA TablesStill ==
  ASSUME scenario' = scenario, in' = in
  PROVE  /\ BandwidthTable' = BandwidthTable
         /\ \A rows : SizeTable(rows)' = SizeTable(rows)
         /\ user_bw' = user_bw => LinkTable' = LinkTable
         /\ protocols' = protocols /\ protoNum' = protoNum => ClientTable' = ClientTable
         /\ Sufficient' = Sufficient
         /\ Clash' = Clash
<1>1. BandwidthTable' = BandwidthTable
  BY Still DEF BandwidthTable, WindowSeq, WindowLen, Skipped
<1>2. \A rows : SizeTable(rows)' = SizeTable(rows)
  BY Still DEF SizeTable
<1>3. user_bw' = user_bw => LinkTable' = LinkTable
  BY Still DEF LinkTable
<1>4. protocols' = protocols /\ protoNum' = protoNum => ClientTable' = ClientTable
  BY Still DEF ClientTable, App
<1>5. Sufficient' = Sufficient
  BY Still DEF Sufficient
<1>6. Clash' = Clash
  BY Still DEF Clash
<1> QED BY <1>1, <1>2, <1>3, <1>4, <1>5, <1>6

\* Of a star, two networks get the same base exactly if there are more users
\* than values of a byte.
LEMMA NetworksFacts ==
  ASSUME scenario \in Scenario, in.users \in Nat \ {0}, has("sizes")
  PROVE  Clash <=> in.users > Networks
<1> DEFINE n == in.users
           byte == [u \in 1 .. n |-> (u - 1) % Networks]
<1>1. Topology.networks = byte /\ DOMAIN byte = 1 .. n
  <2>1. Topology = Star(n)
    BY TopologyFacts
  <2> QED BY <2>1 DEF Star
<1>2. n \in Nat \ {0} /\ Networks \in Nat \ {0}
  BY BoundsAssumption
<1>3. ASSUME n <= Networks PROVE ~Clash
  <2>1. \A u \in 1 .. n : (u - 1) % Networks = u - 1
    BY <1>2, <1>3
  <2>2. \A a, b \in 1 .. n : a # b => byte[a] # byte[b]
    BY <2>1
  <2> HIDE DEF byte
  <2> QED BY <2>2, <1>1 DEF Clash
<1>4. ASSUME n > Networks PROVE Clash
  <2>1. 0 % Networks = 0 /\ Networks % Networks = 0
    BY <1>2
  <2>2. 1 \in 1 .. n /\ Networks + 1 \in 1 .. n /\ 1 # Networks + 1
    BY <1>2, <1>4
  <2>3. byte[1] = 0 /\ byte[Networks + 1] = 0
    BY <2>1, <2>2, <1>2
  <2> HIDE DEF byte
  <2> QED BY <2>2, <2>3, <1>1 DEF Clash
<1> QED BY <1>2, <1>3, <1>4

\* The user must have named an algorithm to be Sufficient, and so on: what
\* Sufficient says of the tables.
LEMMA SufficientFacts ==
  ASSUME Typed, Sufficient
  PROVE  /\ has("sizes") /\ has("series") /\ ~has("stations") /\ in.sizes
         /\ scenario = "udp_dash" => in.bw
         /\ (has("bw") => in.bw) /\ (has("dy") => in.dy) /\ ~Clash
         /\ in.names > 0 /\ in.algorithms > 0 /\ in.rows >= in.users
         /\ has("ownRate") => /\ Len(BandwidthTable) = in.users
                              /\ in.rows = in.users
<1>1. scenario \in Scenario
  BY DEF Typed
<1>2. /\ has("sizes") /\ has("series") /\ has("trace") /\ ~has("stations")
      /\ scenario = "udp_dash" => has("bw")
  BY <1>1, ReadsFacts DEF Sufficient
<1>3. ~Clash
  <2>1. in.users \in Nat \ {0} /\ Networks \in Nat
    BY InputFacts, BoundsAssumption
  <2> QED BY <2>1, <1>1, <1>2, NetworksFacts DEF Sufficient
<1>4. has("ownRate") => Len(BandwidthTable) = in.users
  <2> SUFFICES ASSUME has("ownRate") PROVE Len(BandwidthTable) = in.users
    OBVIOUS
  <2>1. in.lines >= (in.bw_idx + 1) * in.users
    BY DEF Sufficient
  <2>2. /\ Len(BandwidthTable) \in Nat /\ Len(BandwidthTable) <= in.users
        /\ Len(BandwidthTable) >= in.users
    BY <2>1, <1>2, BandwidthFacts
  <2> QED BY <2>2, InputFacts
<1> QED BY <1>2, <1>3, <1>4 DEF Sufficient

\* The start: nothing is filled and nothing asked.
LEMMA InitIInv == Init => IInv
<1> SUFFICES ASSUME Init PROVE IInv
  OBVIOUS
<1>1. Typed
  BY DEF Init, Typed
<1>2. UsersRead
  <2>1. SizeTable(0) = <<>>
    BY DEF SizeTable
  <2>2. 0 \in 0 .. in.rows
    BY <1>1, InputFacts
  <2> QED BY <2>1, <2>2 DEF Init, UsersRead
<1>3. /\ TraceRead /\ Allocated /\ LinksBuilt /\ AddressesAssigned
      /\ ProtocolsRead /\ ClientsInstalled
  BY DEF Init, TraceRead, Allocated, LinksBuilt, AddressesAssigned, ProtocolsRead,
         ClientsInstalled
<1>4. Requested /\ fault = "none"
  BY DEF Init, Requested
<1> QED BY <1>1, <1>2, <1>3, <1>4 DEF IInv
-----------------------------------------------------------------------------

\* The file of bandwidth classes is read.
LEMMA ReadTraceIInv ==
  ASSUME IInv, ReadTrace
  PROVE  IInv'
<1>1. /\ scenario' = scenario /\ in' = in /\ phase = "start" /\ fault = "none"
      /\ UNCHANGED <<rows_read, user_seg_size, video_series, links, protocols,
                     protoNum, clientApps, asked>>
      /\ user_bw' = IF has("trace") THEN WindowLines[in.lines] ELSE <<>>
      /\ phase' = IF scenario = "udp_dash" /\ ~in.bw THEN phase ELSE "users"
      /\ fault' = IF scenario = "udp_dash" /\ ~in.bw THEN "stod" ELSE "none"
  BY DEF ReadTrace, At, Go, apps
<1>2. IInv
  OBVIOUS
<1>3. /\ BandwidthTable' = BandwidthTable /\ SizeTable(rows_read)' = SizeTable(rows_read)
      /\ Sufficient' = Sufficient /\ has("ownRate")' = has("ownRate")
      /\ has("series")' = has("series")
  BY <1>1, TablesStill, Still DEF SizeTable
<1>4. Typed'
  BY <1>1, <1>2 DEF IInv, Typed
<1>5. TraceRead'
  <2>1. user_bw' = BandwidthTable
    BY <1>1, <1>2, InputFacts, WindowRead DEF BandwidthTable, IInv
  <2> QED BY <2>1, <1>3 DEF TraceRead
<1>6. UsersRead'
  BY <1>1, <1>2, <1>3 DEF IInv, UsersRead
<1>7. /\ Allocated' /\ LinksBuilt' /\ AddressesAssigned'
      /\ ProtocolsRead' /\ ClientsInstalled'
  BY <1>1, <1>2, <1>3 DEF IInv, Allocated, LinksBuilt, AddressesAssigned,
                          ProtocolsRead, ClientsInstalled
<1>8. Requested'
  BY <1>1, <1>2 DEF IInv, Requested
<1>9. (Sufficient => fault = "none")'
  BY <1>1, <1>2, <1>3, SufficientFacts DEF IInv
<1> QED BY <1>4, <1>5, <1>6, <1>7, <1>8, <1>9 DEF IInv

\* A row of user_info is read.
LEMMA ReadUserIInv ==
  ASSUME IInv, ReadUser
  PROVE  IInv'
<1> DEFINE bad == in.names = 0 \/ (has("ownRate") /\ rows_read >= Len(user_bw))
<1>1. /\ scenario' = scenario /\ in' = in /\ phase = "users" /\ fault = "none"
      /\ rows_read < in.rows
      /\ UNCHANGED <<user_bw, video_series, links, protocols, protoNum, clientApps,
                     asked>>
      /\ phase' = "users"
      /\ fault' = IF bad THEN "row" ELSE "none"
  BY DEF ReadUser, At, Go, apps
<1>2. \/ bad /\ rows_read' = rows_read /\ user_seg_size' = user_seg_size
      \/ /\ ~bad /\ rows_read' = rows_read + 1
         /\ user_seg_size' = IF has("sizes") THEN Append(user_seg_size, rows_read + 1)
                             ELSE <<>>
  BY DEF ReadUser
<1>3. /\ IInv /\ rows_read \in Nat /\ in.rows \in Nat /\ in.names \in Nat
      /\ user_seg_size = SizeTable(rows_read)
      /\ user_bw = BandwidthTable
      /\ Len(user_bw) \in Nat
  BY <1>1, InputFacts, BandwidthFacts DEF IInv, UsersRead, TraceRead
<1>4. /\ BandwidthTable' = BandwidthTable /\ Sufficient' = Sufficient
      /\ \A what : has(what)' = has(what)
      /\ \A rows : SizeTable(rows)' = SizeTable(rows)
  BY <1>1, TablesStill, Still
<1>5. Typed'
  BY <1>1, <1>3 DEF IInv, Typed
<1>6. TraceRead'
  BY <1>1, <1>3, <1>4 DEF IInv, TraceRead
<1>7. user_seg_size' = SizeTable(rows_read')
  <2>1. CASE bad
    BY <2>1, <1>2, <1>3
  <2>2. CASE ~bad
    <3> DEFINE n == rows_read
               s == [r \in 1 .. n |-> r]
    <3>1. n \in Nat /\ n' = n + 1
      BY <2>2, <1>2, <1>3
    <3>2. [r \in 1 .. n + 1 |-> r] = Append(s, n + 1)
      <4> HIDE DEF n
      <4>1. s \in Seq(Int) /\ Len(s) = n
        BY <3>1
      <4>2. Append(s, n + 1) = [i \in 1 .. n + 1 |-> IF i = n + 1 THEN n + 1 ELSE s[i]]
        BY <4>1, <3>1
      <4> QED BY <4>2, <3>1
    <3> QED BY <3>1, <3>2, <2>2, <1>2, <1>3 DEF SizeTable
  <2> QED BY <2>1, <2>2
<1>8. UsersRead'
  <2>1. /\ rows_read' \in 0 .. in.rows
        /\ rows_read' > 0 => /\ in.names > 0
                             /\ has("ownRate") => rows_read' <= Len(user_bw)
    BY <1>1, <1>2, <1>3 DEF IInv, UsersRead
  <2> QED BY <2>1, <1>1, <1>4, <1>7 DEF UsersRead
<1>9. /\ Allocated' /\ LinksBuilt' /\ AddressesAssigned'
      /\ ProtocolsRead' /\ ClientsInstalled'
  BY <1>1, <1>3, <1>4 DEF IInv, Allocated, LinksBuilt, AddressesAssigned,
                          ProtocolsRead, ClientsInstalled
<1>10. Requested'
  BY <1>1, <1>3 DEF IInv, Requested
<1>11. (Sufficient => fault = "none")'
  BY <1>1, <1>3, <1>4, SufficientFacts DEF IInv
<1> QED BY <1>5, <1>6, <1>8, <1>9, <1>10, <1>11 DEF IInv

\* The rows of zeros are allocated.
LEMMA AllocateIInv ==
  ASSUME IInv, Allocate
  PROVE  IInv'
<1>1. /\ scenario' = scenario /\ in' = in /\ phase = "users" /\ fault = "none"
      /\ rows_read = in.rows
      /\ UNCHANGED <<rows_read, user_bw, user_seg_size, links, protocols, protoNum,
                     clientApps, asked>>
      /\ phase' = "links" /\ fault' = "none"
      /\ video_series' = IF has("series") THEN in.users ELSE 0
  BY DEF Allocate, At, Go, apps
<1>2. /\ IInv /\ BandwidthTable' = BandwidthTable
      /\ SizeTable(rows_read)' = SizeTable(rows_read)
      /\ \A what : has(what)' = has(what)
  BY <1>1, TablesStill, Still DEF SizeTable
<1>3. Typed' /\ (Sufficient => fault = "none")'
  BY <1>1, <1>2 DEF IInv, Typed
<1>4. TraceRead' /\ UsersRead'
  BY <1>1, <1>2 DEF IInv, TraceRead, UsersRead
<1>5. /\ Allocated' /\ LinksBuilt' /\ AddressesAssigned'
      /\ ProtocolsRead' /\ ClientsInstalled'
  BY <1>1, <1>2 DEF IInv, Allocated, LinksBuilt, AddressesAssigned,
                          ProtocolsRead, ClientsInstalled
<1>6. Requested'
  BY <1>1, <1>2 DEF IInv, Requested
<1> QED BY <1>3, <1>4, <1>5, <1>6 DEF IInv

\* The links are made, or dash-wifi gives up.
LEMMA BuildLinksIInv ==
  ASSUME IInv, BuildLinks
  PROVE  IInv'
<1> DEFINE exit == has("stations") /\ in.bulkNo + in.users > in.nWifi + 1
           bad == \/ has("bw") /\ ~in.bw
                  \/ has("dy") /\ ~in.dy
                  \/ has("ownRate") /\ Len(user_bw) < in.users
<1>1. /\ scenario' = scenario /\ in' = in /\ phase = "links" /\ fault = "none"
      /\ UNCHANGED <<rows_read, user_bw, user_seg_size, video_series, protocols,
                     protoNum, clientApps, asked>>
  BY DEF BuildLinks, At, apps, tables
<1>2. \/ exit /\ phase' = "exit" /\ fault' = fault /\ links' = links
      \/ ~exit /\ bad /\ phase' = phase /\ fault' = "rate" /\ links' = links
      \/ ~exit /\ ~bad /\ phase' = "addresses" /\ fault' = "none" /\ links' = LinkTable
  <2>1. CASE exit
    BY <2>1 DEF BuildLinks
  <2>2. CASE ~exit
    <3>1. /\ Go("addresses", bad, "rate")
          /\ links' = IF bad THEN links ELSE LinkTable
      BY <2>2 DEF BuildLinks, LinkTable
    <3> HIDE DEF bad
    <3> QED BY <3>1, <2>2 DEF Go
  <2> QED BY <2>1, <2>2
<1>3. /\ IInv /\ BandwidthTable' = BandwidthTable
      /\ SizeTable(rows_read)' = SizeTable(rows_read)
      /\ Clash' = Clash /\ LinkTable' = LinkTable /\ Sufficient' = Sufficient
      /\ \A what : has(what)' = has(what)
  BY <1>1, TablesStill, Still DEF SizeTable
<1>4. user_bw = BandwidthTable /\ Len(user_bw) \in Nat /\ in.users \in Nat
  BY <1>1, <1>3, InputFacts, BandwidthFacts DEF IInv, TraceRead
<1>5. Sufficient => ~exit /\ ~bad
  BY <1>3, <1>4, SufficientFacts DEF IInv
<1>6. LinksBuilt'
  <2>1. CASE phase' = "addresses"
    <3>1. links' = LinkTable /\ ~bad
      BY <2>1, <1>1, <1>2
    <3>2. has("ownRate") => Len(user_bw) >= in.users
      BY <3>1, <1>4
    <3>3. (has("bw") => in.bw) /\ (has("dy") => in.dy)
      BY <3>1
    <3> HIDE DEF bad
    <3> QED BY <3>1, <3>2, <3>3, <2>1, <1>1, <1>3 DEF LinksBuilt
  <2>2. CASE phase' # "addresses"
    <3> HIDE DEF bad, exit
    <3> QED BY <2>2, <1>1, <1>2, <1>3 DEF IInv, LinksBuilt
  <2> QED BY <2>1, <2>2
<1> HIDE DEF exit, bad
<1>7. Typed' /\ (Sufficient => fault = "none")'
  BY <1>1, <1>2, <1>3, <1>5 DEF IInv, Typed
<1>8. TraceRead' /\ UsersRead'
  BY <1>1, <1>2, <1>3 DEF IInv, TraceRead, UsersRead
<1>9. Allocated' /\ AddressesAssigned' /\ ProtocolsRead' /\ ClientsInstalled'
  BY <1>1, <1>2, <1>3 DEF IInv, Allocated, AddressesAssigned, ProtocolsRead,
                          ClientsInstalled
<1>10. Requested'
  BY <1>1, <1>2, <1>3 DEF IInv, Requested
<1> QED BY <1>6, <1>7, <1>8, <1>9, <1>10 DEF IInv

\* The networks get their addresses.
LEMMA AssignAddressesIInv ==
  ASSUME IInv, AssignAddresses
  PROVE  IInv'
<1>1. /\ scenario' = scenario /\ in' = in /\ phase = "addresses" /\ fault = "none"
      /\ UNCHANGED <<rows_read, user_bw, user_seg_size, video_series, links,
                     protocols, protoNum, clientApps, asked>>
  BY DEF AssignAddresses, At, tables, apps
<1>2. \/ Clash /\ phase' = "addresses" /\ fault' = "address"
      \/ ~Clash /\ phase' = "protocols" /\ fault' = "none"
  <2>1. Go("protocols", Clash, "address")
    BY DEF AssignAddresses, Clash
  <2> QED BY <2>1, <1>1 DEF Go
<1>3. /\ IInv /\ BandwidthTable' = BandwidthTable
      /\ SizeTable(rows_read)' = SizeTable(rows_read)
      /\ Clash' = Clash /\ LinkTable' = LinkTable
      /\ Sufficient' = Sufficient
      /\ \A what : has(what)' = has(what)
  BY <1>1, TablesStill, Still DEF SizeTable
<1>4. Typed' /\ (Sufficient => fault = "none")'
  BY <1>1, <1>2, <1>3, SufficientFacts DEF IInv, Typed
<1>5. TraceRead' /\ UsersRead' /\ Allocated' /\ LinksBuilt'
  BY <1>1, <1>2, <1>3 DEF IInv, TraceRead, UsersRead, Allocated, LinksBuilt
<1>6. AddressesAssigned'
  BY <1>1, <1>2, <1>3 DEF AddressesAssigned
<1>7. ProtocolsRead' /\ ClientsInstalled' /\ Requested'
  BY <1>1, <1>2, <1>3 DEF IInv, ProtocolsRead, ClientsInstalled, Requested
<1> QED BY <1>4, <1>5, <1>6, <1>7 DEF IInv

\* The names of the algorithms are taken apart.
LEMMA ReadProtocolsIInv ==
  ASSUME IInv, ReadProtocols
  PROVE  IInv'
<1>1. /\ scenario' = scenario /\ in' = in /\ phase = "protocols" /\ fault = "none"
      /\ UNCHANGED <<rows_read, user_bw, user_seg_size, video_series, links,
                     clientApps, asked>>
      /\ phase' = "clients" /\ fault' = "none"
      /\ protocols' = [p \in 1 .. Shorter(in.algorithms, in.users) |-> p]
      /\ protoNum' = IF in.algorithms > in.users THEN in.users + 1 ELSE in.algorithms
  BY DEF ReadProtocols, At, Go, tables, Shorter
<1>2. /\ IInv /\ BandwidthTable' = BandwidthTable
      /\ SizeTable(rows_read)' = SizeTable(rows_read)
      /\ Clash' = Clash /\ LinkTable' = LinkTable
      /\ \A what : has(what)' = has(what)
  BY <1>1, TablesStill, Still DEF SizeTable
<1>3. protoNum' = Shorter(in.algorithms, in.users + 1)
  <2>1. in.algorithms \in Nat /\ in.users \in Nat
    BY <1>2, InputFacts DEF IInv
  <2> QED BY <2>1, <1>1 DEF Shorter
<1>4. Typed' /\ (Sufficient => fault = "none")'
  BY <1>1, <1>2 DEF IInv, Typed
<1>5. /\ TraceRead' /\ UsersRead' /\ Allocated' /\ LinksBuilt'
      /\ AddressesAssigned'
  BY <1>1, <1>2 DEF IInv, TraceRead, UsersRead, Allocated, LinksBuilt,
                    AddressesAssigned
<1>6. ProtocolsRead'
  <2>1. in' = in /\ protocols' = [p \in 1 .. Shorter(in'.algorithms, in'.users) |-> p]
    BY <1>1
  <2> QED BY <2>1, <1>1, <1>3 DEF ProtocolsRead
<1>7. ClientsInstalled' /\ Requested'
  BY <1>1, <1>2 DEF IInv, ClientsInstalled, Requested
<1> QED BY <1>4, <1>5, <1>6, <1>7 DEF IInv

\* A list of algorithms that is not empty has one for every user, whichever
\* way it ends.
LEMMA AlgorithmForEach ==
  ASSUME NEW a \in Nat \ {0}, NEW users \in Nat \ {0}, NEW u \in 1 .. users
  PROVE  /\ Shorter(a, users + 1) \in Nat \ {0}
         /\ (u - 1) % Shorter(a, users + 1) \in 0 .. Shorter(a, users) - 1
<1>1. CASE a < users + 1
  <2>1. Shorter(a, users + 1) = a /\ Shorter(a, users) = a
    BY <1>1 DEF Shorter
  <2>2. (u - 1) % a \in 0 .. a - 1
    OBVIOUS
  <2> QED BY <2>1, <2>2
<1>2. CASE ~(a < users + 1)
  <2>1. Shorter(a, users + 1) = users + 1 /\ Shorter(a, users) = users
    BY <1>2 DEF Shorter
  <2>2. (u - 1) % (users + 1) = u - 1
    OBVIOUS
  <2> QED BY <2>1, <2>2
<1> QED BY <1>1, <1>2

\* The clients are installed.
LEMMA InstallClientsIInv ==
  ASSUME IInv, InstallClients
  PROVE  IInv'
<1> DEFINE home == Topology.home
           bad == \/ home # <<>> /\ protoNum = 0
                  \/ \E u \in DOMAIN home : (u - 1) % protoNum >= Len(protocols)
                  \/ has("stations") /\ \E u \in DOMAIN home : home[u] >= in.nWifi
<1>1. /\ scenario' = scenario /\ in' = in /\ phase = "clients" /\ fault = "none"
      /\ UNCHANGED <<rows_read, user_bw, user_seg_size, video_series, links,
                     protocols, protoNum, asked>>
  BY DEF InstallClients, At, tables
<1>2. \/ bad /\ phase' = phase /\ fault' = "client" /\ clientApps' = <<>>
      \/ ~bad /\ phase' = "server" /\ fault' = "none" /\ clientApps' = ClientTable
  <2>1. /\ Go("server", bad, "client")
        /\ clientApps' = IF bad THEN <<>> ELSE ClientTable
    BY DEF InstallClients, ClientTable
  <2> HIDE DEF bad
  <2> QED BY <2>1 DEF Go
<1>3. /\ IInv /\ BandwidthTable' = BandwidthTable
      /\ SizeTable(rows_read)' = SizeTable(rows_read)
      /\ Clash' = Clash /\ LinkTable' = LinkTable /\ ClientTable' = ClientTable
      /\ Sufficient' = Sufficient
      /\ \A what : has(what)' = has(what)
  BY <1>1, TablesStill, Still DEF SizeTable
<1>4. /\ Typed /\ in.users \in Nat \ {0} /\ in.algorithms \in Nat
      /\ clientApps = <<>>
      /\ protocols = [p \in 1 .. Shorter(in.algorithms, in.users) |-> p]
      /\ protoNum = Shorter(in.algorithms, in.users + 1)
  BY <1>1, <1>3, InputFacts DEF IInv, ProtocolsRead, ClientsInstalled
<1>5. DOMAIN home = 1 .. Len(home) /\ Len(home) \in 1 .. in.users /\ home # <<>>
  <2>1. DOMAIN home = 1 .. Len(home) /\ Len(home) \in 1 .. in.users
    BY <1>4, TopologyFacts DEF Typed
  <2>2. Len(<<>>) = 0
    OBVIOUS
  <2> QED BY <2>1, <2>2
<1>6. ~bad => in.algorithms > 0
  <2>1. in.algorithms = 0 => protoNum = 0
    BY <1>4 DEF Shorter
  <2>2. protoNum = 0 => bad
    BY <1>5
  <2> HIDE DEF bad
  <2> QED BY <2>1, <2>2, <1>4
<1>7. Sufficient => ~bad
  <2> SUFFICES ASSUME Sufficient PROVE ~bad
    OBVIOUS
  <2>1. in.algorithms \in Nat \ {0} /\ ~has("stations")
    BY <1>4, SufficientFacts
  <2>2. Len(protocols) = Shorter(in.algorithms, in.users)
    <3> DEFINE m == Shorter(in.algorithms, in.users)
    <3>1. m \in Nat
      BY <1>4 DEF Shorter
    <3> HIDE DEF m
    <3>2. Len([p \in 1 .. m |-> p]) = m
      BY <3>1
    <3> QED BY <3>2, <1>4 DEF m
  <2> HIDE DEF home
  <2>3. ASSUME NEW u \in DOMAIN home
        PROVE  ~((u - 1) % protoNum >= Len(protocols))
    <3>1. u \in 1 .. in.users
      BY <1>4, <1>5
    <3>2. (u - 1) % protoNum \in 0 .. Len(protocols) - 1 /\ Len(protocols) \in Nat
      BY <3>1, <2>1, <2>2, <1>4, AlgorithmForEach DEF Shorter
    <3> QED BY <3>2
  <2>4. protoNum # 0
    BY <2>1, <1>4 DEF Shorter
  <2> QED BY <2>1, <2>3, <2>4
<1> HIDE DEF bad, home
<1>8. Typed' /\ (Sufficient => fault = "none")'
  BY <1>1, <1>2, <1>3, <1>7 DEF IInv, Typed
<1>9. /\ TraceRead' /\ UsersRead' /\ Allocated' /\ LinksBuilt'
      /\ AddressesAssigned' /\ ProtocolsRead'
  BY <1>1, <1>2, <1>3 DEF IInv, TraceRead, UsersRead, Allocated, LinksBuilt,
                          AddressesAssigned, ProtocolsRead
<1>10. ClientsInstalled'
  BY <1>1, <1>2, <1>3, <1>6 DEF ClientsInstalled
<1>11. Requested'
  BY <1>1, <1>2, <1>3 DEF IInv, Requested
<1> QED BY <1>8, <1>9, <1>10, <1>11 DEF IInv

\* The server is installed, and the background transfers.
LEMMA InstallServerIInv ==
  ASSUME IInv, InstallServer
  PROVE  IInv'
<1>1. /\ scenario' = scenario /\ in' = in /\ phase = "server" /\ fault = "none"
      /\ UNCHANGED <<rows_read, user_bw, user_seg_size, video_series, links,
                     protocols, protoNum, clientApps, asked>>
      /\ \/ has("stations") /\ phase' = "server" /\ fault' = "station"
         \/ phase' = "run" /\ fault' = "none"
  BY DEF InstallServer, At, Go, tables, apps
<1>2. /\ IInv /\ BandwidthTable' = BandwidthTable
      /\ SizeTable(rows_read)' = SizeTable(rows_read)
      /\ Clash' = Clash /\ LinkTable' = LinkTable /\ ClientTable' = ClientTable
      /\ Sufficient' = Sufficient
      /\ \A what : has(what)' = has(what)
  BY <1>1, TablesStill, Still DEF SizeTable
<1>3. Typed' /\ (Sufficient => fault = "none")'
  BY <1>1, <1>2, SufficientFacts DEF IInv, Typed
<1>4. /\ TraceRead' /\ UsersRead' /\ Allocated' /\ LinksBuilt'
      /\ AddressesAssigned' /\ ProtocolsRead'
  BY <1>1, <1>2 DEF IInv, TraceRead, UsersRead, Allocated, LinksBuilt,
                          AddressesAssigned, ProtocolsRead
<1>5. ClientsInstalled' /\ Requested'
  BY <1>1, <1>2 DEF IInv, ClientsInstalled, Requested
<1> QED BY <1>3, <1>4, <1>5 DEF IInv

\* The clients of the table, by the place where they are: as many as users that
\* have one times the kinds each gets, with the number of the user as m_id.
LEMMA ClientFacts ==
  ASSUME Typed, clientApps = ClientTable
  PROVE  /\ \A k \in DOMAIN clientApps : clientApps[k].m_id \in 1 .. in.users
         /\ Len(clientApps) <= in.users * Len(Apps.perUser)
         /\ has("sizes") /\ Apps.stats => 1 .. in.users \subseteq Dashes
<1> DEFINE h == Len(Topology.home)
           n == Len(Apps.perUser)
<1>1. scenario \in Scenario /\ in.users \in Nat \ {0}
  BY InputFacts DEF Typed
<1>2. h \in 1 .. in.users
  BY <1>1, TopologyFacts
<1>3. n \in {1, 2}
  <2>1. Len(<<"dash">>) = 1 /\ Len(<<"dash", "dudp">>) = 2
    OBVIOUS
  <2> QED BY <2>1, <1>1, AppsFacts
<1>4. h * n \in Nat /\ h * n <= in.users * n
  <2>1. \A a, b \in Nat : a * 1 = a /\ a * 2 \in Nat /\ (a <= b => a * 2 <= b * 2)
    OBVIOUS
  <2> HIDE DEF h, n
  <2> QED BY <2>1, <1>1, <1>2, <1>3
<1>5. DOMAIN clientApps = 1 .. h * n /\ Len(clientApps) = h * n
  BY <1>4 DEF ClientTable
<1>6. ASSUME NEW k \in DOMAIN clientApps PROVE clientApps[k].m_id \in 1 .. in.users
  <2>1. clientApps[k].m_id = ((k - 1) \div n) + 1
    BY <1>5 DEF ClientTable, App
  <2>2. k \in 1 .. h * n
    BY <1>5
  <2> HIDE DEF h, n
  <2>3. CASE n = 1
    <3>1. (k - 1) \div 1 = k - 1
      BY <2>2, <1>2
    <3> QED BY <3>1, <2>1, <2>2, <2>3, <1>1, <1>2
  <2>4. CASE n = 2
    <3>1. (k - 1) \div 2 \in 0 .. h - 1
      BY <2>2, <2>4, <1>2
    <3> QED BY <3>1, <2>1, <2>4, <1>1, <1>2
  <2> QED BY <2>3, <2>4, <1>3
<1>7. ASSUME has("sizes"), Apps.stats PROVE 1 .. in.users \subseteq Dashes
  <2>1. Apps.perUser = <<"dash">> /\ n = 1
    BY <1>1, <1>7, AppsFacts
  <2>2. h = in.users
    BY <1>1, <1>7, TopologyFacts, Homes
  <2> SUFFICES ASSUME NEW k \in 1 .. in.users PROVE k \in Dashes
    OBVIOUS
  <2>3. k \in DOMAIN clientApps
    BY <2>1, <2>2, <1>1, <1>5
  <2>4. clientApps[k].kind = Apps.perUser[((k - 1) % n) + 1]
    BY <2>3, <1>5 DEF ClientTable, App
  <2>5. (k - 1) % 1 = 0
    OBVIOUS
  <2> QED BY <2>1, <2>3, <2>4, <2>5 DEF Dashes
<1> QED BY <1>4, <1>5, <1>6, <1>7

\* The table of sizes has a row for each row of user_info, if it has any.
LEMMA SizeFacts ==
  ASSUME NEW rows \in Nat
  PROVE  /\ SizeTable(rows) \in Seq(1 .. rows)
         /\ Len(SizeTable(rows)) = IF has("sizes") THEN rows ELSE 0
         /\ \A r \in 1 .. Len(SizeTable(rows)) : SizeTable(rows)[r] = r
<1>1. CASE has("sizes")
  <2>1. SizeTable(rows) = [r \in 1 .. rows |-> r]
    BY <1>1 DEF SizeTable
  <2>2. SizeTable(rows) \in Seq(1 .. rows) /\ Len(SizeTable(rows)) = rows
    BY <2>1
  <2> QED BY <2>1, <2>2, <1>1
<1>2. CASE ~has("sizes")
  <2>1. SizeTable(rows) = <<>>
    BY <1>2 DEF SizeTable
  <2> QED BY <2>1, <1>2
<1> QED BY <1>1, <1>2

\* A client asks for its first segment.
LEMMA FirstRequestIInv ==
  ASSUME IInv, NEW k \in DOMAIN clientApps, FirstRequest(k)
  PROVE  IInv'
<1> DEFINE m_id == clientApps[k].m_id
           bad == \/ m_id > Len(user_seg_size) \/ ~in.sizes
                  \/ m_id > video_series
<1>1. /\ scenario' = scenario /\ in' = in /\ phase = "run" /\ fault = "none"
      /\ UNCHANGED <<rows_read, user_bw, user_seg_size, video_series, links,
                     protocols, protoNum, clientApps>>
      /\ asked' = asked \cup {[m_id |-> m_id, row |-> m_id]}
      /\ phase' = "run"
      /\ fault' = IF bad THEN "request" ELSE "none"
  BY DEF FirstRequest, At, Go, tables, apps
<1>2. /\ IInv /\ BandwidthTable' = BandwidthTable
      /\ SizeTable(rows_read)' = SizeTable(rows_read)
      /\ Clash' = Clash /\ LinkTable' = LinkTable /\ ClientTable' = ClientTable
      /\ Sufficient' = Sufficient
      /\ \A what : has(what)' = has(what)
  BY <1>1, TablesStill, Still DEF SizeTable
<1>3. /\ Typed /\ in.users \in Nat \ {0} /\ in.rows \in Nat /\ rows_read = in.rows
      /\ clientApps = ClientTable
      /\ user_seg_size = SizeTable(in.rows)
      /\ video_series = IF has("series") THEN in.users ELSE 0
  BY <1>1, <1>2, InputFacts DEF IInv, UsersRead, Allocated, ClientsInstalled
<1>4. m_id \in 1 .. in.users
  BY <1>3, ClientFacts
<1>5. Len(user_seg_size) = IF has("sizes") THEN in.rows ELSE 0
  BY <1>3, SizeFacts
<1>6. Sufficient => ~bad
  BY <1>3, <1>4, <1>5, SufficientFacts
<1>7. Requested'
  <2> HIDE DEF m_id
  <2>1. \A a \in asked' : /\ a.m_id \in 1 .. in.users
                          /\ a = [m_id |-> a.m_id, row |-> a.m_id]
    BY <1>1, <1>2, <1>4 DEF IInv, Requested
  <2>2. ASSUME fault' = "none", NEW a \in asked'
        PROVE  in.sizes /\ a.m_id <= Len(user_seg_size)
    <3>1. ~bad
      BY <2>2, <1>1
    <3>2. CASE a \in asked
      BY <3>2, <1>1, <1>2 DEF IInv, Requested
    <3>3. CASE a = [m_id |-> m_id, row |-> m_id]
      BY <3>1, <3>3, <1>3, <1>4, <1>5
    <3> QED BY <3>2, <3>3, <1>1
  <2> HIDE DEF bad
  <2> QED BY <2>1, <2>2, <1>1 DEF Requested
<1> HIDE DEF bad, m_id
<1>8. Typed' /\ (Sufficient => fault = "none")'
  BY <1>1, <1>2, <1>6 DEF IInv, Typed
<1>9. /\ TraceRead' /\ UsersRead' /\ Allocated' /\ LinksBuilt'
      /\ AddressesAssigned' /\ ProtocolsRead'
      /\ ClientsInstalled'
  BY <1>1, <1>2 DEF IInv, TraceRead, UsersRead, Allocated, LinksBuilt,
                    AddressesAssigned, ProtocolsRead,
                    ClientsInstalled
<1> QED BY <1>7, <1>8, <1>9 DEF IInv

\* The statistics are printed.
LEMMA StatsIInv ==
  ASSUME IInv, Stats
  PROVE  IInv'
<1> DEFINE bad == Apps.stats /\ ~(1 .. in.users \subseteq Dashes)
<1>1. /\ scenario' = scenario /\ in' = in /\ phase = "run" /\ fault = "none"
      /\ UNCHANGED <<rows_read, user_bw, user_seg_size, video_series, links,
                     protocols, protoNum, clientApps, asked>>
  BY DEF Stats, At, tables, apps
<1>2. \/ bad /\ phase' = "run" /\ fault' = "stats"
      \/ phase' = "done" /\ fault' = "none"
  <2>1. Go("done", bad, "stats")
    BY DEF Stats
  <2> HIDE DEF bad
  <2> QED BY <2>1, <1>1 DEF Go
<1>3. /\ IInv /\ BandwidthTable' = BandwidthTable
      /\ SizeTable(rows_read)' = SizeTable(rows_read)
      /\ Clash' = Clash /\ LinkTable' = LinkTable /\ ClientTable' = ClientTable
      /\ Sufficient' = Sufficient
      /\ \A what : has(what)' = has(what)
  BY <1>1, TablesStill, Still DEF SizeTable
<1>4. Sufficient => ~bad
  BY <1>1, <1>3, SufficientFacts, ClientFacts DEF IInv, ClientsInstalled
<1> HIDE DEF bad
<1>5. Typed' /\ (Sufficient => fault = "none")'
  BY <1>1, <1>2, <1>3, <1>4 DEF IInv, Typed
<1>6. /\ TraceRead' /\ UsersRead' /\ Allocated' /\ LinksBuilt'
      /\ AddressesAssigned' /\ ProtocolsRead'
  BY <1>1, <1>2, <1>3 DEF IInv, TraceRead, UsersRead, Allocated, LinksBuilt,
                          AddressesAssigned, ProtocolsRead
<1>7. ClientsInstalled' /\ Requested'
  BY <1>1, <1>2, <1>3 DEF IInv, ClientsInstalled, Requested
<1> QED BY <1>5, <1>6, <1>7 DEF IInv

-----------------------------------------------------------------------------

\* In every reachable state the tables hold what the options and files say.
THEOREM Invariance == Spec => []IInv
<1>1. Init => IInv
  BY InitIInv
<1>2. IInv /\ [Next]_vars => IInv'
  <2> SUFFICES ASSUME IInv, [Next]_vars PROVE IInv'
    OBVIOUS
  <2>1. CASE ReadTrace
    BY <2>1, ReadTraceIInv
  <2>2. CASE ReadUser
    BY <2>2, ReadUserIInv
  <2>3. CASE Allocate
    BY <2>3, AllocateIInv
  <2>4. CASE BuildLinks
    BY <2>4, BuildLinksIInv
  <2>5. CASE AssignAddresses
    BY <2>5, AssignAddressesIInv
  <2>6. CASE ReadProtocols
    BY <2>6, ReadProtocolsIInv
  <2>7. CASE InstallClients
    BY <2>7, InstallClientsIInv
  <2>8. CASE InstallServer
    BY <2>8, InstallServerIInv
  <2>9. ASSUME NEW k \in DOMAIN clientApps, FirstRequest(k) PROVE IInv'
    BY <2>9, FirstRequestIInv
  <2>10. CASE Stats
    BY <2>10, StatsIInv
  <2>11. CASE UNCHANGED vars
    <3>1. /\ scenario' = scenario /\ in' = in /\ phase' = phase /\ fault' = fault
          /\ UNCHANGED <<rows_read, user_bw, user_seg_size, video_series, links,
                         protocols, protoNum, clientApps, asked>>
      BY <2>11 DEF vars, tables, apps
    <3>2. /\ BandwidthTable' = BandwidthTable
          /\ SizeTable(rows_read)' = SizeTable(rows_read)
          /\ Clash' = Clash /\ LinkTable' = LinkTable /\ ClientTable' = ClientTable
          /\ Sufficient' = Sufficient
          /\ \A what : has(what)' = has(what)
      BY <3>1, TablesStill, Still DEF SizeTable
    <3> QED BY <3>1, <3>2 DEF IInv, Typed, TraceRead, UsersRead, Allocated, LinksBuilt,
                             AddressesAssigned, ProtocolsRead, ClientsInstalled, Requested
  <2> QED BY <2>1, <2>2, <2>3, <2>4, <2>5, <2>6, <2>7, <2>8, <2>9, <2>10, <2>11
          DEF Next
<1> QED BY <1>1, <1>2, PTL DEF Spec

\* The tables have the types and lengths that main gives them, whatever the
\* options and files: no window is longer than the list of users, and no count
\* goes past the end of what it counts by more than one (udp_dash.cc 203-398).
THEOREM TypeCorrect == Spec => []TypeOK
<1>1. IInv => TypeOK
  <2> SUFFICES ASSUME IInv PROVE TypeOK
    OBVIOUS
  <2>1. /\ Typed /\ in.users \in Nat \ {0} /\ in.rows \in Nat /\ in.lines \in Nat
        /\ in.algorithms \in Nat
    BY InputFacts DEF IInv
  <2>2. user_bw \in Seq(1 .. in.lines) /\ Len(user_bw) <= in.users
    <3>1. <<>> \in Seq(1 .. in.lines) /\ Len(<<>>) = 0
      OBVIOUS
    <3>2. BandwidthTable \in Seq(1 .. in.lines) /\ Len(BandwidthTable) <= in.users
      BY <2>1, BandwidthFacts
    <3>3. user_bw = <<>> \/ user_bw = BandwidthTable
      BY DEF IInv, TraceRead
    <3>4. 0 <= in.users
      BY <2>1
    <3> QED BY <3>1, <3>2, <3>3, <3>4
  <2>3. user_seg_size \in Seq(1 .. in.rows) /\ Len(user_seg_size) <= rows_read
    <3>1. rows_read \in Nat /\ rows_read <= in.rows /\ user_seg_size = SizeTable(rows_read)
      BY <2>1 DEF IInv, UsersRead
    <3>2. SizeTable(rows_read) \in Seq(1 .. in.rows)
      <4> DEFINE n == rows_read
      <4>1. n \in Nat /\ 1 .. n \subseteq 1 .. in.rows
        BY <2>1, <3>1
      <4> HIDE DEF n
      <4>2. [r \in 1 .. n |-> r] \in Seq(1 .. in.rows) /\ <<>> \in Seq(1 .. in.rows)
        BY <4>1
      <4> QED BY <4>2 DEF SizeTable, n
    <3>3. Len(SizeTable(rows_read)) <= rows_read
      BY <3>1, SizeFacts
    <3> QED BY <3>1, <3>2, <3>3
  <2>4. \A l \in DOMAIN links : links[l].rate \in 0 .. in.lines
    <3>1. CASE links = <<>>
      BY <3>1
    <3>2. CASE links = LinkTable /\ (has("ownRate") => Len(user_bw) >= in.users)
      <4> SUFFICES ASSUME NEW l \in DOMAIN Topology.links
                   PROVE  LinkTable[l].rate \in 0 .. in.lines
        BY <3>2 DEF LinkTable
      <4>1. LinkTable[l].rate = IF has("ownRate") THEN user_bw[l] ELSE 0
        BY DEF LinkTable
      <4>2. CASE has("ownRate")
        <5>1. Topology = Star(in.users)
          BY <4>2, <2>1, ReadsFacts, TopologyFacts DEF Typed
        <5>2. DOMAIN Star(in.users).links = 1 .. in.users
          BY DEF Star
        <5>3. l \in 1 .. Len(user_bw) /\ Len(user_bw) \in Nat
          BY <5>1, <5>2, <4>2, <3>2, <2>1, <2>2
        <5>4. \A S : \A s \in Seq(S) : \A i \in 1 .. Len(s) : s[i] \in S
          OBVIOUS
        <5>5. user_bw[l] \in 1 .. in.lines
          BY <5>3, <5>4, <2>2
        <5> QED BY <5>5, <4>1, <4>2, <2>1
      <4>3. CASE ~has("ownRate")
        BY <4>1, <4>3, <2>1
      <4> QED BY <4>2, <4>3
    <3> QED BY <3>1, <3>2 DEF IInv, LinksBuilt
  <2>5. /\ protocols \in Seq(1 .. in.algorithms) /\ Len(protocols) <= protoNum
        /\ protoNum \in 0 .. in.users + 1
    <3> DEFINE m == Shorter(in.algorithms, in.users)
    <3>1. /\ m \in Nat /\ m <= in.algorithms /\ m <= Shorter(in.algorithms, in.users + 1)
          /\ Shorter(in.algorithms, in.users + 1) \in 0 .. in.users + 1
      BY <2>1 DEF Shorter
    <3>2. \/ protocols = <<>> /\ protoNum = 0
          \/ /\ protocols = [p \in 1 .. m |-> p]
             /\ protoNum = Shorter(in.algorithms, in.users + 1)
      BY DEF IInv, ProtocolsRead
    <3> HIDE DEF m
    <3>3. [p \in 1 .. m |-> p] \in Seq(1 .. in.algorithms) /\ Len([p \in 1 .. m |-> p]) = m
      BY <3>1, <2>1
    <3>4. <<>> \in Seq(1 .. in.algorithms) /\ Len(<<>>) = 0
      OBVIOUS
    <3>5. CASE protocols = <<>> /\ protoNum = 0
      <4>1. 0 <= 0 /\ 0 \in 0 .. in.users + 1
        BY <2>1
      <4> QED BY <4>1, <3>4, <3>5
    <3>6. CASE /\ protocols = [p \in 1 .. m |-> p]
               /\ protoNum = Shorter(in.algorithms, in.users + 1)
      <4>1. Len(protocols) = m
        BY <3>3, <3>6
      <4> QED BY <4>1, <3>1, <3>3, <3>6
    <3> QED BY <3>2, <3>5, <3>6
  <2>6. Len(clientApps) <= in.users * Len(Apps.perUser)
    <3>1. CASE clientApps = ClientTable
      BY <3>1, <2>1, ClientFacts
    <3>2. CASE clientApps = <<>>
      <4>1. Len(<<"dash">>) = 1 /\ Len(<<"dash", "dudp">>) = 2 /\ Len(<<>>) = 0
        OBVIOUS
      <4>2. Len(Apps.perUser) \in Nat
        BY <4>1, <2>1, AppsFacts DEF Typed
      <4>3. \A a, b \in Nat : 0 <= a * b
        OBVIOUS
      <4> QED BY <4>1, <4>2, <4>3, <3>2, <2>1
    <3> QED BY <3>1, <3>2 DEF IInv, ClientsInstalled
  <2>7. asked \subseteq [m_id : 1 .. in.users, row : 1 .. in.users]
    BY DEF IInv, Requested
  <2>8. video_series \in 0 .. in.users /\ rows_read \in 0 .. in.rows
    BY <2>1 DEF IInv, Allocated, UsersRead
  <2> QED BY <2>1, <2>2, <2>3, <2>4, <2>5, <2>6, <2>7, <2>8 DEF TypeOK, Typed
<1> QED BY <1>1, Invariance, PTL

\* Every client that asks looks up the row of user_info of its own user, and
\* where links have rates of their own its link has the rate of its own line
\* of the window (dash-client.cc 112 and 224, dash-4g.cc 315-348).
THEOREM OwnRows == Spec => []UserGetsOwn
<1>1. IInv => UserGetsOwn
  <2> SUFFICES ASSUME IInv, NEW a \in asked
               PROVE  /\ fault = "none" => user_seg_size[a.row] = a.m_id
                      /\ has("sizes") =>
                           \E l \in DOMAIN links :
                             /\ links[l].ends = <<a.m_id - 1, in.users>>
                             /\ has("ownRate") =>
                                  links[l].rate = in.bw_idx * in.users + a.m_id
    BY DEF UserGetsOwn
  <2>1. /\ Typed /\ in.users \in Nat \ {0} /\ in.rows \in Nat /\ phase \in {"run", "done"}
        /\ a.m_id \in 1 .. in.users /\ a.row = a.m_id
    BY InputFacts DEF IInv, Requested
  <2> DEFINE u == a.m_id
  <2>2. ASSUME fault = "none" PROVE user_seg_size[u] = u
    <3>1. user_seg_size = SizeTable(rows_read) /\ rows_read \in Nat
      BY <2>1 DEF IInv, UsersRead
    <3>2. u <= Len(user_seg_size)
      BY <2>2 DEF IInv, Requested
    <3>3. Len(user_seg_size) \in Nat
      BY <3>1, SizeFacts
    <3>4. u \in 1 .. Len(SizeTable(rows_read))
      BY <3>1, <3>2, <3>3, <2>1
    <3>5. SizeTable(rows_read)[u] = u
      BY <3>1, <3>4, SizeFacts
    <3> QED BY <3>1, <3>5
  <2>3. ASSUME has("sizes")
        PROVE  /\ u \in DOMAIN links
               /\ links[u].ends = <<u - 1, in.users>>
               /\ has("ownRate") => links[u].rate = in.bw_idx * in.users + u
    <3>1. links = LinkTable /\ (has("ownRate") => Len(user_bw) >= in.users)
      BY <2>1 DEF IInv, LinksBuilt
    <3>2. Topology.links = [v \in 1 .. in.users |-> <<v - 1, in.users>>]
      <4>1. Topology = Star(in.users)
        BY <2>1, <2>3, TopologyFacts DEF Typed
      <4> QED BY <4>1 DEF Star
    <3>3. /\ u \in DOMAIN links
          /\ links[u] = [ends |-> <<u - 1, in.users>>,
                         rate |-> IF has("ownRate") THEN user_bw[u] ELSE 0]
      BY <3>1, <3>2, <2>1 DEF LinkTable
    <3>4. ASSUME has("ownRate") PROVE user_bw[u] = Skipped + u
      <4>1. user_bw = BandwidthTable
        BY <2>1 DEF IInv, TraceRead
      <4>2. u \in 1 .. Len(user_bw)
        <5>1. Len(user_bw) \in Nat
          BY <4>1, <2>1, BandwidthFacts
        <5> QED BY <5>1, <3>1, <3>4, <2>1
      <4> QED BY <4>1, <4>2, <2>1, BandwidthFacts
    <3> QED BY <3>3, <3>4 DEF Skipped
  <2> QED BY <2>1, <2>2, <2>3
<1> QED BY <1>1, Invariance, PTL

\* All users have asked when as many requests as users were made.
LEMMA AllAsked ==
  ASSUME IInv, Cardinality(asked) = in.users
  PROVE  [m_id |-> in.users, row |-> in.users] \in asked
<1> DEFINE N == in.users
           f == [m \in 1 .. N |-> [m_id |-> m, row |-> m]]
           A == {f[m] : m \in 1 .. N}
<1>1. N \in Nat \ {0}
  BY InputFacts DEF IInv
<1>2. asked \subseteq A
  <2> SUFFICES ASSUME NEW a \in asked PROVE a \in A
    OBVIOUS
  <2>1. a.m_id \in 1 .. N /\ a = [m_id |-> a.m_id, row |-> a.m_id]
    BY DEF IInv, Requested
  <2> QED BY <2>1
<1> HIDE DEF N
<1>3. IsFiniteSet(1 .. N) /\ Cardinality(1 .. N) = N
  BY <1>1, FS_Interval
<1>4. f \in Surjection(1 .. N, A)
  BY DEF Surjection
<1> HIDE DEF f, A
<1>5. IsFiniteSet(A) /\ Cardinality(A) <= N
  BY <1>3, <1>4, FS_Surjection
<1>6. Cardinality(asked) <= Cardinality(A) /\ (Cardinality(A) = Cardinality(asked) => A = asked)
  BY <1>2, <1>5, FS_Subset
<1>7. Cardinality(A) \in Nat /\ Cardinality(asked) = N
  BY <1>5, FS_CardinalityType DEF N
<1>8. A = asked
  BY <1>1, <1>5, <1>6, <1>7
<1>9. [m_id |-> N, row |-> N] \in A
  BY <1>1 DEF A, f
<1> QED BY <1>8, <1>9 DEF N

\* Of what the model leaves open, the options and files that Sufficient names are
\* those that a run cannot do without, for any number of users, rows, lines and
\* algorithms: with them no table is indexed out of range, every link has a rate
\* and a delay and no address is given twice; without one of them no run in which
\* all clients ask ends well.  More users than the byte of their network can tell
\* apart are one of the shortages (udp_dash.cc 447-448 and 504-513).
THEOREM ExactlySufficient == Spec => []SufficientIsExact
<1>1. IInv => SufficientIsExact
  <2> SUFFICES ASSUME IInv, phase = "done", Cardinality(asked) = in.users
               PROVE  Sufficient
    BY DEF IInv, SufficientIsExact
  <2> DEFINE a == [m_id |-> in.users, row |-> in.users]
  <2>1. /\ Typed /\ scenario \in Scenario /\ in.users \in Nat \ {0}
        /\ {in.algorithms, in.lines, in.bw_idx, in.rows, in.names} \subseteq Nat
        /\ fault = "none"
    BY InputFacts DEF IInv, Typed
  <2>2. a \in asked
    BY AllAsked
  <2>3. in.sizes /\ in.users <= Len(user_seg_size)
    BY <2>1, <2>2 DEF IInv, Requested
  <2>4. /\ user_seg_size = SizeTable(in.rows) /\ rows_read = in.rows
        /\ user_bw = BandwidthTable
    BY DEF IInv, UsersRead, TraceRead
  <2>5. has("sizes") /\ in.rows >= in.users
    <3>1. Len(SizeTable(in.rows)) = IF has("sizes") THEN in.rows ELSE 0
      BY <2>1, SizeFacts
    <3> QED BY <3>1, <2>1, <2>3, <2>4
  <2>6. /\ in.names > 0
        /\ has("ownRate") => in.rows <= Len(user_bw) /\ Len(user_bw) >= in.users
        /\ (has("bw") => in.bw) /\ (has("dy") => in.dy)
        /\ in.algorithms > 0
    BY <2>1, <2>4, <2>5 DEF IInv, UsersRead, LinksBuilt, ClientsInstalled
  <2>7. ASSUME has("ownRate")
        PROVE  in.lines >= (in.bw_idx + 1) * in.users /\ in.rows = in.users
    <3>1. has("trace")
      BY <2>1, <2>5, ReadsFacts
    <3>2. /\ Len(BandwidthTable) \in Nat /\ Len(BandwidthTable) <= in.users
          /\ Len(BandwidthTable) >= in.users => in.lines >= (in.bw_idx + 1) * in.users
      BY <3>1, <2>1, BandwidthFacts
    <3> QED BY <3>2, <2>1, <2>4, <2>5, <2>6, <2>7
  <2>8. in.users <= Networks
    <3>1. ~Clash
      BY DEF IInv, AddressesAssigned
    <3> QED BY <3>1, <2>1, <2>5, NetworksFacts, BoundsAssumption
  <2> QED BY <2>3, <2>5, <2>6, <2>7, <2>8 DEF Sufficient
<1> QED BY <1>1, Invariance, PTL
==============================================================================
