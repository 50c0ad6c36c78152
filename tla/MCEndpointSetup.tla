-------------------------- MODULE MCEndpointSetup --------------------------
(* The values of EndpointSetup's constants that TLC uses. *)
EXTENDS EndpointSetup, TLC

CONSTANTS s1, s2, c1, c2, here, there

\* Servers are alike, and so are clients: they are created in a fixed order.
MCBefore == [o \in Objects |-> IF o = s2 THEN {s1} ELSE IF o = c2 THEN {c1} ELSE {}]

\* The server may send its responses under an identifier that clients do not know.
MCAgain == {<<"server", "response">>}

\* Addresses are only compared.
MCSymmetry == Permutations({here, there})

\* An action without parameters binds its id only, a response also its error.
MCMembers == [t \in MessageTypes |-> IF t = "action" THEN {"id"} ELSE {"id", "error"}]
=============================================================================
