----------------------------- MODULE MCDownload -----------------------------
(* Instances of Download. *)
EXTENDS Download, TLC

CONSTANTS n1, n2, n3, f1, f2, t1, t2, t3

TxSymmetry == Permutations(Txs)
\* Every file has its own name, and the first node has all files at first.
OwnName    == [f \in Files |-> f]
OneUploader == [f \in Files |-> n1]
\* Two nodes uploaded different files of one name.
SameName     == [f \in Files |-> "name"]
TwoUploaders == [f \in Files |-> IF f = f1 THEN n1 ELSE n2]
=============================================================================
