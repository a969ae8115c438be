----------------------------- MODULE IndexerMC -----------------------------
(* Instances of Indexer for TLC: what a transaction may mention. *)
EXTENDS Indexer

Tx(p, w, a) == [program |-> p, wallet |-> w, account |-> a]

\* One trade through the wallet, one that mentions only its Drift account,
\* and one of the program that is another user's.
StreamKinds == {Tx(TRUE, TRUE, FALSE), Tx(TRUE, FALSE, TRUE), Tx(TRUE, FALSE, FALSE)}

\* A trade through the wallet, and one that mentions only its account.
RecordKinds == {Tx(TRUE, TRUE, FALSE), Tx(TRUE, FALSE, TRUE)}

=============================================================================
