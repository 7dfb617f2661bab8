----------------------------- MODULE SegmentPull -----------------------------
(***************************************************************************)
(* What the UDP stream promises: a pull protocol, one segment per request. *)
(*                                                                         *)
(* The client opens, asks for the first segment, and from then on asks for *)
(* exactly one more each time its player moves to the next segment; the    *)
(* play of the last segment closes it.  The server serves requests in the  *)
(* order of their segments, each at most once.  When, how often and with   *)
(* how many packets a segment is answered is left open.                    *)
(***************************************************************************)
EXTENDS Integers

CONSTANTS
  SegCount,  \* segments of the stream
  Lossy      \* may a request be lost, and its segment be skipped by the server?

VARIABLES
  open,       \* the client's socket is open
  requested,  \* number of segments asked for
  answered,   \* one more than the newest segment the server has begun to serve
  played      \* number of segments the player has left behind

pullVars == <<open, requested, answered, played>>

Init ==
  /\ open = FALSE
  /\ requested = 0
  /\ answered = 0
  /\ played = 0

Open ==
  /\ ~open
  /\ requested = 0
  /\ open' = TRUE
  /\ UNCHANGED <<requested, answered, played>>

AskFirst ==
  /\ open
  /\ requested = 0
  /\ requested' = 1
  /\ UNCHANGED <<open, answered, played>>

Answer ==
  /\ answered < requested
  /\ answered' \in (answered + 1) .. (IF Lossy THEN requested ELSE answered + 1)
  /\ UNCHANGED <<open, requested, played>>

\* The player moves on and pulls the next segment, in one step.
PlayAndAsk ==
  /\ open
  /\ answered > 0
  /\ requested = played + 1
  /\ requested < SegCount
  /\ played' = played + 1
  /\ requested' = requested + 1
  /\ UNCHANGED <<open, answered>>

PlayLast ==
  /\ open
  /\ answered > 0
  /\ requested = SegCount
  /\ played = SegCount - 1
  /\ played' = SegCount
  /\ open' = FALSE
  /\ UNCHANGED <<requested, answered>>

Next == Open \/ AskFirst \/ Answer \/ PlayAndAsk \/ PlayLast

Spec == Init /\ [][Next]_pullVars

\* A request that is not lost is served.
FairSpec == Spec /\ WF_pullVars(Answer)
=============================================================================
