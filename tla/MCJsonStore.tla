---------------------------- MODULE MCJsonStore -----------------------------
(* An instance of JsonStore: entries of two keys and two sizes. *)
EXTENDS JsonStore

CONSTANTS p1, p2, k1, k2

New(k, d) == [key |-> k, data |-> d, voted |-> FALSE]
TwoEntries == {New(k1, "short"), New(k2, "long")}
TwoSizes   == [d \in Data |-> IF d = "short" THEN 8 ELSE 10]
AllStores  == {Uploaded, Downloaded, Transactions}
=============================================================================
