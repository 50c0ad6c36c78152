--------------------------- MODULE MCUserActions ---------------------------
(* Instances of UserActions for TLC: threads t1 and t2 ask for actions of one
   kind, t3 for actions of another; handlers of one kind may start an action
   of the other, those of the other an action of either.                    *)
EXTENDS UserActions

CONSTANTS t1, t2, t3, recv, zoom, focus

MCKindOf == [t \in Callers |-> IF t = t3 THEN focus ELSE zoom]
MCFollow == [k \in Kinds |-> IF k = zoom THEN {focus} ELSE Kinds]
=============================================================================
