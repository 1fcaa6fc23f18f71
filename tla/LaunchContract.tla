---------------------------- MODULE LaunchContract ----------------------------
(***************************************************************************)
(* What the resolver promises VS Code: a launch is answered at most once,  *)
(* with what its own request allows, whatever other launches are under way *)
(* and whatever the cache holds.  LaunchResolver is shown to implement it. *)
(***************************************************************************)
CONSTANTS
    Launches, Requests,
    None,               \* no request yet
    Pending,            \* no answer yet
    Promised(_, _, _),  \* the answers a request allows, cancelled or not
    WithoutOp(_)        \* the answers that are given without running anything

VARIABLES
    asked,      \* the request of each launch
    answer,     \* what resolve() returned or threw
    cancelled,  \* whether VS Code cancelled the launch
    trusted     \* whether the workspace is trusted

vars == <<asked, answer, cancelled, trusted>>

Init ==
    /\ asked = [l \in Launches |-> None] /\ answer = [l \in Launches |-> Pending]
    /\ cancelled = [l \in Launches |-> FALSE]
    /\ trusted \in BOOLEAN

Answers(l, request) ==
    /\ answer' = [answer EXCEPT ![l] = answer'[l]]
    /\ Promised(request, answer'[l], cancelled[l])

(* Nothing runs in a workspace that is not trusted. *)
Ask(l, request) ==
    /\ asked[l] = None
    /\ asked' = [asked EXCEPT ![l] = request]
    /\ \/ trusted /\ answer' = answer
       \/ Answers(l, request) /\ (trusted \/ WithoutOp(answer'[l]))
    /\ UNCHANGED <<cancelled, trusted>>

Open(l) == asked[l] # None /\ answer[l] = Pending

Answer(l) ==
    /\ Open(l) /\ Answers(l, asked[l])
    /\ UNCHANGED <<asked, cancelled, trusted>>

Cancel(l) ==
    /\ Open(l) /\ cancelled' = [cancelled EXCEPT ![l] = TRUE]
    /\ UNCHANGED <<asked, answer, trusted>>

GrantTrust == trusted' = TRUE /\ UNCHANGED <<asked, answer, cancelled>>

Next ==
    \/ \E l \in Launches, request \in Requests : Ask(l, request)
    \/ \E l \in Launches : Answer(l) \/ Cancel(l)
    \/ GrantTrust

Spec == Init /\ [][Next]_vars
=============================================================================
