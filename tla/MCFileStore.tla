---------------------------- MODULE MCFileStore ----------------------------
(***************************************************************************)
(* Instances of FileStore for TLC: what users write.                       *)
(***************************************************************************)
EXTENDS FileStore

\* Two names for the same contents, which belong to the node with the lowest
\* identifier, across the end of the circle, and one for others.
ThreeFiles == {<<"a", 7>>, <<"b", 7>>, <<"c", 3>>}
=============================================================================
