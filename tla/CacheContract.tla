---------------------------- MODULE CacheContract ----------------------------
(***************************************************************************)
(* What SecretCache promises its callers: a map from names to values that  *)
(* clear() empties.  SecretCache is shown to implement it.                 *)
(***************************************************************************)
CONSTANTS
    Names,   \* what ResolverCache asks for: a ref in its scope, a tag, an e-mail
    Values,  \* plaintexts
    None     \* undefined

VARIABLES
    store,   \* name -> the value last set since the last clear, or None
    call,    \* the last call and its arguments
    answer   \* what the last get returned

Init ==
    /\ store = [n \in Names |-> None]
    /\ call = <<"new">> /\ answer = None

Get(n) ==
    /\ call' = <<"get", n>> /\ answer' = store[n]
    /\ UNCHANGED store

Set(n, v) ==
    /\ call' = <<"set", n, v>>
    /\ store' = [store EXCEPT ![n] = v]
    /\ UNCHANGED answer

Clear ==
    /\ call' = <<"clear">>
    /\ store' = [n \in Names |-> None]
    /\ UNCHANGED answer

Next ==
    \/ \E n \in Names : Get(n)
    \/ \E n \in Names, v \in Values : Set(n, v)
    \/ Clear

Spec == Init /\ [][Next]_<<store, call, answer>>
=============================================================================
