----------------------------- MODULE MCLogWire -----------------------------
(* The values of LogWire's constants that TLC uses. *)
EXTENDS LogWire

\* Texts of one byte up to the largest size a header can tell, and of one more; no exception,
\* one without a stack, one whose description cannot be built, and stacks of one and two
\* frames; a message that cannot be serialized.
MCEntries == {
    [size |-> 3, throws |-> FALSE, exc |-> NoException],
    [size |-> 1, throws |-> FALSE, exc |-> Bare("what")],
    [size |-> 1, throws |-> FALSE, exc |-> Thrown("what", FALSE, <<<<2>>>>)],
    [size |-> 2, throws |-> FALSE, exc |-> Thrown("what", TRUE, <<<<3, 2>>, <<2, 1, 3>>>>)],
    [size |-> 1, throws |-> TRUE, exc |-> NoException],
    [size |-> 4, throws |-> FALSE, exc |-> NoException]}
=============================================================================
