----------------------------- MODULE MCEndpoint -----------------------------
(* Instances of Endpoint for TLC: a server, one or two clients, and threads
   s1 of the server's process, a1, a2 of the first client, b1 of the second. *)
EXTENDS Endpoint

CONSTANTS srv, c1, c2, s1, a1, a2, b1

MCHome ==
    [t \in Threads |-> IF t = s1 THEN Server ELSE IF t \in {a1, a2} THEN c1 ELSE c2]

=============================================================================
