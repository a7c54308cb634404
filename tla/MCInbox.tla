------------------------------- MODULE MCInbox -------------------------------
(* An instance of Inbox for TLC.                                           *)
EXTENDS Inbox, TLC

CONSTANTS k1, k2, k3, p1, p2

\* Two messages with p1, one with p2.
ThreeMessages == (k1 :> p1) @@ (k2 :> p1) @@ (k3 :> p2)

\* Clocks disagree: k2 is older than k1, and k1 and k3 have the same time.
ThreeTimes == (k1 :> 2) @@ (k2 :> 1) @@ (k3 :> 2)

==============================================================================
