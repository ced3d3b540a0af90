----------------------------- MODULE CcdChannel -----------------------------
(***************************************************************************)
(* What the CCD promises a kernel client of one rpmsg endpoint: the        *)
(* messages it sends leave the channel in the order they were sent, each   *)
(* at most once, either read by the user-space worker or, once the         *)
(* endpoint is being destroyed, handed back to the client's callback.      *)
(* CcdEndpoint is shown to implement this specification.                   *)
(***************************************************************************)
EXTENDS Naturals, Sequences

VARIABLES
  sent,      \* how many messages the client has sent; message k is the k-th
  left,      \* the messages that left the channel, oldest first
  closing    \* the endpoint is being destroyed

channelVars == <<sent, left, closing>>

ChannelInit == sent = 0 /\ left = <<>> /\ closing = FALSE

Put == sent' = sent + 1 /\ UNCHANGED <<left, closing>>

Close == ~closing /\ closing' = TRUE /\ UNCHANGED <<sent, left>>

\* The oldest message still inside leaves; a reader that was already past
\* its checks when the endpoint started closing may still take one.
Take ==
  /\ Len(left) < sent
  /\ left' = Append(left, Len(left) + 1)
  /\ UNCHANGED <<sent, closing>>

ChannelNext == Put \/ Close \/ Take

ChannelSpec == ChannelInit /\ [][ChannelNext]_channelVars
=============================================================================
