----------------------------- MODULE WriteOnce -----------------------------
(***************************************************************************)
(* What a promise promises: a value that is written once, by whichever     *)
(* writer is first, and that every reader waits for and gets.              *)
(***************************************************************************)
CONSTANTS Writer, Reader, Nothing

VARIABLES value, got

Init == value = Nothing /\ got = [r \in Reader |-> Nothing]

Write ==
  /\ value = Nothing
  /\ value' \in Writer
  /\ UNCHANGED got

Read(r) ==
  /\ value # Nothing
  /\ got[r] = Nothing
  /\ got' = [got EXCEPT ![r] = value]
  /\ UNCHANGED value

Next == Write \/ \E r \in Reader : Read(r)

Safety == Init /\ [][Next]_<<value, got>>

Spec ==
  /\ Safety
  /\ WF_<<value, got>>(Write)
  /\ \A r \in Reader : WF_<<value, got>>(Read(r))
============================================================================
