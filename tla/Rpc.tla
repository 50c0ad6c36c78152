-------------------------------- MODULE Rpc --------------------------------
(***************************************************************************)
(* What the user actions promise to the code that calls async: an action   *)
(* is served after it has been asked for, once, with a response or with an *)
(* error, and its handler is called with that after it, once.  Nothing is  *)
(* said of the order in which different actions are served and answered.   *)
(***************************************************************************)
EXTENDS Sequences, SequencesExt

CONSTANT Id

VARIABLES
    asked,    \* the actions sent to the server
    served,   \* what the server has found: an id, and whether it is an error
    answers   \* what handlers have been called with, oldest first

rpcVars == <<asked, served, answers>>

RpcInit == asked = {} /\ served = {} /\ answers = <<>>

Ask(i) ==
    /\ i \notin asked
    /\ asked' = asked \union {i}
    /\ UNCHANGED <<served, answers>>

Serve(i, error) ==
    /\ i \in asked
    /\ \A r \in served : r.id # i
    /\ served' = served \union {[id |-> i, error |-> error]}
    /\ UNCHANGED <<asked, answers>>

Answer(i) ==
    /\ \E r \in served \ ToSet(answers) : r.id = i /\ answers' = Append(answers, r)
    /\ UNCHANGED <<asked, served>>

RpcNext == \E i \in Id : Ask(i) \/ Answer(i) \/ \E error \in BOOLEAN : Serve(i, error)

RpcSpec == RpcInit /\ [][RpcNext]_rpcVars
=============================================================================
