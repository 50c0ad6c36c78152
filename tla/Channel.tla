------------------------------ MODULE Channel ------------------------------
(***************************************************************************)
(* What one direction of an endpoint promises to the code that calls       *)
(* Endpoint::send and registers slots: a mailbox of one place.  A message  *)
(* is put only once the previous one has been delivered and its slot has   *)
(* returned.  Messages are delivered once each, in the order in which they *)
(* were put, until the receiving side is closed; after that nothing is     *)
(* delivered and messages that are put are lost.                           *)
(***************************************************************************)
EXTENDS Sequences, Naturals

CONSTANT Message

VARIABLES
    sent,       \* the messages put, oldest first
    delivered,  \* the messages handed to a slot, oldest first
    busy,       \* is the slot of the last one running?
    closed      \* has the receiving side been closed?

chanVars == <<sent, delivered, busy, closed>>

ChanInit ==
    /\ sent = <<>>
    /\ delivered = <<>>
    /\ busy = FALSE
    /\ closed = FALSE

\* The place is free; that of a closed mailbox is once its last slot has returned.
Free == (closed \/ sent = delivered) /\ ~busy

\* A sender that finds the place free fills it; a closed mailbox takes anything.
Put(m) ==
    /\ Free
    /\ sent' = Append(sent, m)
    /\ UNCHANGED <<delivered, busy, closed>>

\* The receiver calls the slot of the message that is waiting.
Deliver ==
    /\ ~closed /\ ~busy
    /\ \E m \in Message :
          /\ sent = Append(delivered, m)
          /\ delivered' = Append(delivered, m)
    /\ busy' = TRUE
    /\ UNCHANGED <<sent, closed>>

\* The slot returns.
Return ==
    /\ busy
    /\ busy' = FALSE
    /\ UNCHANGED <<sent, delivered, closed>>

Close ==
    /\ ~closed
    /\ closed' = TRUE
    /\ UNCHANGED <<sent, delivered, busy>>

ChanNext == (\E m \in Message : Put(m)) \/ Deliver \/ Return \/ Close

ChanSpec == ChanInit /\ [][ChanNext]_chanVars
=============================================================================
