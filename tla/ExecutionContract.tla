-------------------------- MODULE ExecutionContract --------------------------
(***************************************************************************)
(* What a client of the /execute and /actions/decode routes can rely on.   *)
(* Each request is answered at most once, and a transaction is sent at     *)
(* most once, never after the answer of the request that built it.  "ok"   *)
(* says of an executed request that its transaction has succeeded, and of  *)
(* one that stores that every action of the transaction it asked about is  *)
(* in the log; "unlogged" promises the first alone.  An error, or a client *)
(* that is gone, promises nothing: the transaction may still succeed.      *)
(***************************************************************************)
CONSTANTS
    Requests,
    Executing, \* those that execute a transaction,
    Storing    \* and those that store the actions of one

VARIABLES
    asked,  \* the transaction each request is about
    reply,  \* what it was answered
    fate,   \* of the transaction it built
    stored  \* the transactions whose actions are all in the log

contractVars == <<asked, reply, fate, stored>>

Landed == {r \in Requests : fate[r] \in {"landed", "reverted"}}
Open   == {r \in Requests : reply[r] = "none"}

Init == /\ asked = [r \in Requests |-> r]
        /\ reply = [r \in Requests |-> "none"]
        /\ fate = [r \in Requests |-> "unsent"]
        /\ stored = {}

Stores == stored \subseteq stored' /\ stored' \subseteq Landed

\* A request that does not execute asks about a landed transaction.
Asks(r) == /\ r \in Open \ Executing
           /\ \E sig \in Landed : asked' = [asked EXCEPT ![r] = sig]
           /\ UNCHANGED <<reply, fate, stored>>

Sends(r) == r \in Open \cap Executing /\ fate[r] = "unsent"

Submit(r) == /\ Sends(r) /\ fate' = [fate EXCEPT ![r] = "flying"]
             /\ UNCHANGED <<asked, reply, stored>>

\* One without actions to store is stored at once.
Land(r) == /\ fate[r] = "flying"
           /\ \E how \in {"landed", "reverted"} : fate' = [fate EXCEPT ![r] = how]
           /\ stored' \in {stored, stored \cup {r}}
           /\ UNCHANGED <<asked, reply>>

Expire(r) == /\ fate[r] = "flying" /\ fate' = [fate EXCEPT ![r] = "expired"]
             /\ UNCHANGED <<asked, reply, stored>>

Store == Stores /\ UNCHANGED <<asked, reply, fate>>

Answer(r, what) ==
    /\ r \in Open /\ reply' = [reply EXCEPT ![r] = what] /\ Stores
    /\ what \in {"ok", "unlogged"} /\ r \in Executing => fate[r] = "landed"
    /\ what = "ok" /\ r \in Storing => asked[r] \in stored'
    /\ UNCHANGED <<asked, fate>>

\* A client leaves, perhaps just as its transaction is sent.
Leave(r) == /\ r \in Open /\ reply' = [reply EXCEPT ![r] = "gone"] /\ Stores
            /\ \/ UNCHANGED fate
               \/ Sends(r) /\ fate' = [fate EXCEPT ![r] = "flying"]
            /\ UNCHANGED asked

\* The server is restarted under some of them.
Restart == /\ \E gone \in SUBSET Open :
                 reply' = [r \in Requests |-> IF r \in gone THEN "gone" ELSE reply[r]]
           /\ Stores
           /\ UNCHANGED <<asked, fate>>

Next == \/ \E r \in Requests : \/ Asks(r) \/ Submit(r) \/ Land(r) \/ Expire(r) \/ Leave(r)
                               \/ \E what \in {"ok", "unlogged", "error"} : Answer(r, what)
        \/ Store \/ Restart

Spec == Init /\ [][Next]_contractVars
==============================================================================
