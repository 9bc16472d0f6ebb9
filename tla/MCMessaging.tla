----------------------------- MODULE MCMessaging -----------------------------
(***************************************************************************)
(* Instances of Messaging for TLC.                                         *)
(***************************************************************************)
EXTENDS Messaging, TLC

CONSTANTS w1, w2, w3, w4, t1, t2, t3

Arg(q, way) == [quantity |-> q, callway |-> way]

\* Two workers on node 0, one on each of nodes 1 and 2.
Workers == {w1, w2, w3, w4}
NodeOf  == w1 :> 0 @@ w2 :> 0 @@ w3 :> 1 @@ w4 :> 2
VpId    == w1 :> 0 @@ w2 :> 1 @@ w3 :> 0 @@ w4 :> 0

\* Both workers of node 0 send a task to node 1, the first after a broadcast;
\* the first task creates one for the server of node 2.
Tasks    == {t1, t2, t3}
Creators == t1 :> w1 @@ t2 :> w2 @@ t3 :> t1
Targets  == t1 :> 1 @@ t2 :> 1 @@ t3 :> 2
DirectTasks == {t3}
Arguments ==
     t1 :> <<Arg(2, "COP"), Arg(1, "REF"), Arg(0, "PTR")>>
  @@ t2 :> <<Arg(1, "PTR"), Arg(2, "RES")>>
  @@ t3 :> <<Arg(1, "COP"), Arg(1, "VAD")>>
AnyLibrary == BOOLEAN
OneThief == {{0}, {2}}

\* Two nodes that send each other a task with one argument.
TwoWorkers  == {w1, w3}
TwoNodeOf   == w1 :> 0 @@ w3 :> 1
TwoVpId     == w1 :> 0 @@ w3 :> 0
TwoTasks    == {t1, t2}
TwoCreators == t1 :> w1 @@ t2 :> w3
TwoTargets  == t1 :> 1 @@ t2 :> 0
TwoArguments == t1 :> <<Arg(1, "PTR")>> @@ t2 :> <<Arg(1, "PTR")>>
UnsafeLibrary == {FALSE}
None == {}
NoThief == {{}}

\* What the theorems about Messaging take for granted holds here.
ASSUME QuietInstance == QuietServers

==============================================================================
