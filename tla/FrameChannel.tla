----------------------------- MODULE FrameChannel -----------------------------
(***************************************************************************)
(* What a TCP connection of the simulator promises to the players: frames  *)
(* are numbered in the order the server makes them, wait in its queue, go  *)
(* out, and are handed over, each once and in that order.  DashStream is   *)
(* built on this promise.                                                  *)
(***************************************************************************)
EXTENDS Naturals

CONSTANT Requests     \* How many segments are asked for at most.
CONSTANT PacketNums   \* How many frames a segment may have.

VARIABLES
  asked,   \* segments asked for
  made,    \* frames the server has queued
  sent,    \* of those, the ones its socket has taken
  got      \* of those, the ones handed to the client

vars == <<asked, made, sent, got>>

Init == asked = 0 /\ made = 0 /\ sent = 0 /\ got = 0

Make ==
  /\ asked < Requests
  /\ \E n \in PacketNums : made' = made + n
  /\ asked' = asked + 1
  /\ UNCHANGED <<sent, got>>

Send ==
  /\ sent < made
  /\ sent' = sent + 1
  /\ UNCHANGED <<asked, made, got>>

HandOver ==
  /\ got < sent
  /\ got' = got + 1
  /\ UNCHANGED <<asked, made, sent>>

Next == Make \/ Send \/ HandOver

ChannelSpec == Init /\ [][Next]_vars

\* No frame stays behind.
ChannelFairSpec == ChannelSpec /\ WF_vars(Send) /\ WF_vars(HandOver)
=============================================================================
