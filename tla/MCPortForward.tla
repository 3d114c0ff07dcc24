---------------------------- MODULE MCPortForward ----------------------------
EXTENDS PortForward, TLC

CONSTANTS s1, s2, t1, t2

MCModes == s1 :> {"netns"} @@ s2 :> {"NODE", "L3"}
MCMaxData == s1 :> 1 @@ s2 :> 0
=============================================================================
