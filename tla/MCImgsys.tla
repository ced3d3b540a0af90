------------------------------ MODULE MCImgsys ------------------------------
(* Small instances of Imgsys for TLC.                                      *)
EXTENDS Imgsys, TLC

CONSTANTS r1, r2, r3, g1, g2, h1, h2

\* One request of two groups, the first with an early call-back, and two of
\* one group each.
ThreeReqs == (g1 :> r1 @@ g2 :> r1 @@ h1 :> r2 @@ h2 :> r3)
FirstGroups == {g1, h1, h2}
FewTasks == (g1 :> <<TRUE, FALSE>> @@ g2 :> <<FALSE>> @@ h1 :> <<FALSE>> @@ h2 :> <<FALSE>>)
=============================================================================
