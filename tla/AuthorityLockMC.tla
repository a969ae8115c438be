-------------------------- MODULE AuthorityLockMC --------------------------
(* Symmetry for the model-checking runs of AuthorityLock. *)
EXTENDS AuthorityLock, TLC

\* Requests and wallets are interchangeable; only safety runs use this.
RequestWalletSymmetry == Permutations(Requests) \cup Permutations(Wallets)
=============================================================================
