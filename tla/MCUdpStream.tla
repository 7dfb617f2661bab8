---------------------------- MODULE MCUdpStream ----------------------------
(***************************************************************************)
(* What the repository's own scripts and comments say of the UDP stream,   *)
(* for runs in which the code does otherwise.                              *)
(***************************************************************************)
EXTENDS UdpStream

\* code/com.py adds up the log of a finished stream and expects the packets
\* received and the packets reported lost to make up the packets asked for.
\* A late packet of a segment already reported short is counted in both.
PacketsAreTheSame ==
  client.v_num = SegCount => client.received + client.lost = client.asked

\* The first field of a "u,3" line, now_seg, is meant to be the segment that
\* was played short: com.py looks the loss up under that number.
LossNamesSegment ==
  [][client'.lost # client.lost => server.now_seg = client.v_num]_vars
=============================================================================
