---------------------------- MODULE MCFrameSync ----------------------------
(* Small instances of FrameSync for TLC.                                   *)
EXTENDS FrameSync

\* Both sensors alike, and one whose frame length acts a frame later.
MCAlike  == {[s \in Sensors |-> 2]}
MCUnlike == {[s \in Sensors |-> 2 + s]}
MCDelays == MCAlike \cup MCUnlike

\* The first sensor can do every exposure, the second not quite; neither can do
\* the longest cells of the other.
MCMaxFls == {[s \in Sensors |-> 4 - s]}

\* What follows once an access has gone wrong is not promised anything.
NotRaced == ~raced
=============================================================================
