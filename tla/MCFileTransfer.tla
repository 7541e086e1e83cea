--------------------------- MODULE MCFileTransfer ---------------------------
(***************************************************************************)
(* Instances of FileTransfer for TLC.                                      *)
(***************************************************************************)
EXTENDS FileTransfer

CONSTANTS n1, n2, n3, f, a1, a2, b1, b2, b3

\* Two nodes have different files of the same name, a third has none.
TwoVersions ==
    [n \in Nodes |->
        IF n = n1 THEN [g \in {f} |-> <<a1, a2>>]
        ELSE IF n = n2 THEN [g \in {f} |-> <<b1, b2, b3>>]
        ELSE [g \in {} |-> <<>>]]

=============================================================================
