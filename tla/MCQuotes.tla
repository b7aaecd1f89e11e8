------------------------------ MODULE MCQuotes ------------------------------
(***************************************************************************)
(* Instances of Quotes for TLC.                                            *)
(***************************************************************************)
EXTENDS Quotes, TLC

\* Requests, files and workers are interchangeable in the safety runs.
Interchangeable ==
  Permutations(Request) \cup Permutations(File) \cup Permutations(Process)
=============================================================================
