----------------------------- MODULE MCFileGet -----------------------------
(***************************************************************************)
(* Instances of FileGet for TLC.                                           *)
(***************************************************************************)
EXTENDS FileGet

\* Peers and connection ids are interchangeable in every state predicate.
Symmetry == Permutations(Peers) \cup Permutations(ConnectionIds)

=============================================================================
