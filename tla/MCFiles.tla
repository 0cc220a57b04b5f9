------------------------------- MODULE MCFiles -------------------------------
(***************************************************************************)
(* FileStore on a small instance.                                          *)
(***************************************************************************)
EXTENDS FileStore, TLC

\* Requests are alike, and so are tool calls, and to VersionedFile, whose steps
\* name the one that wrote.  Nothing is asked that needs fairness.
CallSymmetry == Permutations(Requests) \cup Permutations(Tools)
=============================================================================
