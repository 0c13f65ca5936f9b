---------------------------- MODULE MCChordRing ----------------------------
(***************************************************************************)
(* Instances of ChordRing for TLC: the request numbers a node draws from,  *)
(* by what the request is for.                                             *)
(***************************************************************************)
EXTENDS ChordRing

\* One open request of each kind. The updater thread of the model has at most
\* MaxOpen = 1 of them open, which is enough while nothing is ever given up.
OneId ==
  [k \in Kind |->
     CASE k = "join"   -> {1}
       [] k = "notify" -> {1}
       [] k = "finger" -> {2}
       [] k = "check"  -> {3}
       [] k = "succ"   -> {4}
       [] k = "lookup" -> {5}]

\* A check for each request that may time out while another check is open, and
\* a recovery lookup for each peer removed while another one is open.
MoreIds == [OneId EXCEPT !["check"] = {3, 6}, !["succ"] = {4, 7}]

\* A lookup asked again while the answer to the last one may still come, and what
\* follows from giving it up.
LateId == [OneId EXCEPT !["lookup"] = {5, 8}, !["check"] = {3, 6, 9}, !["succ"] = {4, 7, 10}]
=============================================================================
