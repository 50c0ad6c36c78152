--------------------------- MODULE EndpointSetup ---------------------------
(***************************************************************************)
(* The life of lesf::ipc::Endpoint objects around the exchange of messages *)
(* (src/src/ipc/endpoint.cpp): a server takes a system-wide name for its   *)
(* shared segment, clients find the segment by that name, slots and        *)
(* exception handlers are registered while the receive thread dispatches   *)
(* what comes in, and destructors and crashes leave things behind for the  *)
(* next server and the next client.                                        *)
(*                                                                         *)
(* How a message gets through the segment is the subject of Endpoint; here *)
(* each direction is a place for one message.  The messages are those of   *)
(* an action (src/inc/lesf/ipc/user_actions.h): a request for which the    *)
(* server has a slot once registerAction was called, and a response for    *)
(* which async registers one on an endpoint it has not seen before.        *)
(***************************************************************************)
EXTENDS Naturals, FiniteSets, MessageFactory

CONSTANTS
    Servers,     \* endpoints that a server program creates, each in a run of its own
    Clients,     \* endpoints that a client program creates
    Addresses,   \* where the client program may have them allocated
    Again,       \* pairs of a program and a type that it may register again
    Before,      \* for each endpoint those that are created before it
    Reporting,   \* the endpoints that an exception handler is registered on
    Nobody,      \* no endpoint, no address
    MaxCrashes   \* bound: server processes that are killed

Objects == Servers \union Clients
Program(o) == IF o \in Servers THEN "server" ELSE "client"

ASSUME EndpointSetupAssumption ==
    /\ Servers \intersect Clients = {} /\ Nobody \notin Objects \union Addresses
    /\ Reporting \subseteq Objects /\ Before \in [Objects -> SUBSET Objects]
    /\ MessageTypes = {"action", "response"} /\ MessageTypes \subseteq Identifiers
    /\ Again \subseteq {"server", "client"} \X MessageTypes
    /\ MaxCrashes \in Nat

VARIABLES
    reg,         \* the MessageFactory of each program
    path,        \* the server whose segment has the name, if any
    segment,     \* the segment of each server
    pc,          \* where each endpoint is in its life
    mapped,      \* the server whose segment a client has mapped
    address,     \* of each client endpoint
    slots,       \* m_slots: the type that the slot for an identifier takes
    handler,     \* m_exc_handler: the endpoints that have one
    endpoints,   \* m_internals.endpoints of the action, a set of addresses
    thread,      \* what each receive thread does
    box,         \* the message in each direction of each segment
    call,        \* how far the action of each client has come
    overlapped,  \* history: was a server created while another was there?
    prepared,    \* history: clients whose request was sent when its slot was registered
    reused,      \* history: clients at the address of an earlier one
    crashes      \* history: how many servers were killed

vars == <<reg, path, segment, pc, mapped, address, slots, handler, endpoints, thread, box, call,
          overlapped, prepared, reused, crashes>>
nameVars == <<path, segment, overlapped, crashes>>
clientVars == <<mapped, address, reused>>
slotVars == <<reg, slots, handler, endpoints>>
messageVars == <<thread, box, call, prepared>>

\* The type of each Internals object registers the messages of its action.
Shipped ==
    [m_rtti_map |-> [t \in MessageTypes |-> t],
     m_ctors |-> [id \in Identifiers |-> IF id \in MessageTypes THEN id ELSE Nothing]]

AsShipped == \A p \in {"server", "client"} : reg[p] = Shipped

\* Its turn has come to be created.
Turn(o) == pc[o] = "new" /\ \A before \in Before[o] : pc[before] # "new"

Init ==
    /\ reg = [p \in {"server", "client"} |-> Shipped]
    /\ path = Nobody
    /\ segment = [s \in Servers |-> "none"]
    /\ pc = [o \in Objects |-> "new"]
    /\ mapped = [c \in Clients |-> Nobody]
    /\ address = [c \in Clients |-> Nobody]
    /\ slots = [o \in Objects |-> [id \in Identifiers |-> Nothing]]
    /\ handler = {} /\ endpoints = {}
    /\ thread = [o \in Objects |-> "waits"]
    /\ box = [b \in Servers \X {"request", "response"} |-> Nothing]
    /\ call = [c \in Clients |-> "none"]
    /\ overlapped = FALSE /\ prepared = {} /\ reused = {} /\ crashes = 0

\* A program registers one of its types again, under another identifier, before it creates
\* endpoints: the maps are not protected against the receive threads.
RegisterMessageType(p) ==
    /\ \A o \in Objects : Program(o) = p => pc[o] = "new"
    /\ AsShipped  \* bound: one of the programs does, once
    /\ \E type \in {t \in MessageTypes : <<p, t>> \in Again}, id \in Identifiers :
          /\ MayRegister(reg[p], id)
          /\ reg' = [reg EXCEPT ![p] = registerMessageType(@, type, id)]
    /\ UNCHANGED <<nameVars, clientVars, slots, handler, endpoints, messageVars, pc>>

-----------------------------------------------------------------------------
(* Constructor and destructor of a server.                                  *)

Present(s) == pc[s] \notin {"new", "gone", "failed", "crashed"}

\* Mutation: whatever has the name is left there.
KeepName(s) ==
    /\ Turn(s)
    /\ pc' = [pc EXCEPT ![s] = "removed"]
    /\ overlapped' = (overlapped \/ \E t \in Servers : Present(t))
    /\ UNCHANGED <<path, segment, crashes, clientVars, slotVars, messageVars>>

\* shared_memory_object::remove, in case an earlier server did not.
RemoveOldName(s) ==
    /\ Turn(s)
    /\ pc' = [pc EXCEPT ![s] = "removed"]
    /\ path' = Nobody
    /\ overlapped' = (overlapped \/ \E t \in Servers : Present(t))
    /\ UNCHANGED <<segment, crashes, clientVars, slotVars, messageVars>>

\* create_only throws if the name is there again; the segment has no length yet.
CreateSegment(s) ==
    /\ pc[s] = "removed"
    /\ \/ /\ path = Nobody
          /\ path' = s
          /\ segment' = [segment EXCEPT ![s] = "created"]
          /\ pc' = [pc EXCEPT ![s] = "created"]
       \/ /\ path # Nobody
          /\ pc' = [pc EXCEPT ![s] = "failed"]
          /\ UNCHANGED <<path, segment>>
    /\ UNCHANGED <<overlapped, crashes, clientVars, slotVars, messageVars>>

\* truncate: the segment has its length, and is full of zeros.
Truncate(s) ==
    /\ pc[s] = "created"
    /\ segment' = [segment EXCEPT ![s] = "sized"]
    /\ pc' = [pc EXCEPT ![s] = "sized"]
    /\ UNCHANGED <<path, overlapped, crashes, clientVars, slotVars, messageVars>>

\* The server maps it, constructs SharedData in it and starts the receive thread.
ConstructShared(s) ==
    /\ pc[s] = "sized"
    /\ segment' = [segment EXCEPT ![s] = "ready"]
    /\ pc' = [pc EXCEPT ![s] = "up"]
    /\ UNCHANGED <<path, overlapped, crashes, clientVars, slotVars, messageVars>>

\* The destructor of either side asks the receive thread to stop.
BeginDestroy(o) ==
    /\ pc[o] = "up"
    /\ o \in Clients => call[o] # "registered"
    /\ pc' = [pc EXCEPT ![o] = "closing"]
    /\ UNCHANGED <<nameVars, clientVars, slotVars, messageVars>>

\* It has stopped: a server destroys SharedData, without waiting for its client.
JoinServer(s) ==
    /\ pc[s] = "closing" /\ thread[s] = "waits"
    /\ segment' = [segment EXCEPT ![s] = "destroyed"]
    /\ pc' = [pc EXCEPT ![s] = "joined"]
    /\ UNCHANGED <<path, overlapped, crashes, clientVars, slotVars, messageVars>>

\* shared_memory_object::remove removes the name, whoever has it.
RemoveName(s) ==
    /\ pc[s] = "joined"
    /\ path' = Nobody
    /\ pc' = [pc EXCEPT ![s] = "gone"]
    /\ UNCHANGED <<segment, overlapped, crashes, clientVars, slotVars, messageVars>>

\* The process of a server is killed; the name stays.
Crash(s) ==
    /\ Present(s)
    /\ crashes < MaxCrashes
    /\ crashes' = crashes + 1
    /\ pc' = [pc EXCEPT ![s] = "crashed"]
    /\ UNCHANGED <<path, segment, overlapped, clientVars, slotVars, messageVars>>

-----------------------------------------------------------------------------
(* Constructor and destructor of a client.                                  *)

Live == {c \in Clients : pc[c] \in {"up", "closing"}}

\* open_only needs the name and a segment that has its length.  A client that maps the
\* segment before SharedData is constructed in it starts to wait on semaphores that are
\* then overwritten: it may never be woken.
Open(c) ==
    /\ Turn(c)
    /\ \/ /\ path = Nobody \/ (path # Nobody /\ segment[path] = "created")
          /\ pc' = [pc EXCEPT ![c] = "failed"]
          /\ UNCHANGED clientVars
       \/ /\ path # Nobody /\ segment[path] # "created"
          /\ mapped' = [mapped EXCEPT ![c] = path]
          /\ \E at \in Addresses \ {address[d] : d \in Live} :
                /\ address' = [address EXCEPT ![c] = at]
                /\ reused' = IF \E d \in Clients : address[d] = at THEN reused \union {c} ELSE reused
          /\ \/ pc' = [pc EXCEPT ![c] = "up"]
             \/ /\ segment[path] = "sized"
                /\ pc' = [pc EXCEPT ![c] = "undefined"]
    /\ UNCHANGED <<nameVars, slotVars, messageVars>>

JoinClient(c) ==
    /\ pc[c] = "closing" /\ thread[c] = "waits"
    /\ pc' = [pc EXCEPT ![c] = "gone"]
    /\ UNCHANGED <<nameVars, clientVars, slotVars, messageVars>>

-----------------------------------------------------------------------------
(* Registration, from the threads of the application.                       *)

\* m_slots is not locked: the receive thread may be looking something up in it.
registerSlot(o, type) ==
    /\ slots' = [slots EXCEPT ![o][typeIdentifier(reg[Program(o)], type)] = type]
    /\ thread' = [thread EXCEPT ![o] = IF @ = "finds" THEN "races" ELSE @]

\* ActionServer::registerAction.
RegisterAction(s) ==
    /\ pc[s] = "up"
    /\ \A id \in Identifiers : slots[s][id] = Nothing
    /\ registerSlot(s, "action")
    /\ UNCHANGED <<nameVars, clientVars, reg, handler, endpoints, box, call, prepared, pc>>

\* registerExceptionHandler deletes the handler it replaces, which may be running.
RegisterExceptionHandler(o) ==
    /\ o \in Reporting
    /\ pc[o] = "up"
    /\ \/ /\ handler' = handler \union {o}
          /\ UNCHANGED pc
       \/ /\ o \in handler /\ thread[o] = "handles"
          /\ pc' = [pc EXCEPT ![o] = "undefined"]
          /\ UNCHANGED handler
    /\ UNCHANGED <<nameVars, clientVars, reg, slots, endpoints, messageVars>>

\* Mutation: the endpoint is put in the set before it is looked for.
AsyncInsertFirst(c) ==
    /\ pc[c] = "up" /\ call[c] = "none"
    /\ call' = [call EXCEPT ![c] = "registered"]
    /\ endpoints' = endpoints \union {address[c]}
    /\ UNCHANGED <<nameVars, clientVars, reg, handler, slots, thread, box, prepared, pc>>

\* async registers the slot for the response on an endpoint whose address it has not seen.
AsyncRegister(c) ==
    /\ pc[c] = "up" /\ call[c] = "none"
    /\ call' = [call EXCEPT ![c] = "registered"]
    /\ endpoints' = endpoints \union {address[c]}
    /\ IF address[c] \in endpoints THEN UNCHANGED <<slots, thread>> ELSE registerSlot(c, "response")
    /\ UNCHANGED <<nameVars, clientVars, reg, handler, box, prepared, pc>>

\* A message is put in its place once that is free.
Put(b, type, p, c) ==
    /\ box[b] = Nothing
    /\ box' = [box EXCEPT ![b] = [json |-> serialize(reg[p], type), call |-> c]]

\* async sends the request.
AsyncSend(c) ==
    /\ pc[c] = "up" /\ call[c] = "registered"
    /\ Put(<<mapped[c], "request">>, "action", "client", c)
    /\ call' = [call EXCEPT ![c] = "sent"]
    /\ prepared' = IF \E id \in Identifiers : slots[mapped[c]][id] # Nothing
                   THEN prepared \union {c} ELSE prepared
    /\ UNCHANGED <<nameVars, clientVars, slotVars, thread, pc>>

\* The thread that the slot of the server has started answers while the endpoint is there.
Answer(c) ==
    /\ call[c] = "served" /\ pc[mapped[c]] \in {"up", "closing"}
    /\ Put(<<mapped[c], "response">>, "response", "server", c)
    /\ call' = [call EXCEPT ![c] = "answered"]
    /\ UNCHANGED <<nameVars, clientVars, slotVars, thread, prepared, pc>>

-----------------------------------------------------------------------------
(* The receive thread.                                                      *)

Inbox(o) == IF o \in Servers THEN <<o, "request">> ELSE <<mapped[o], "response">>

\* A message without a slot: what becomes of the action it is part of.  A response may have
\* come to another client of the segment than the one that asked.
Dropped(o, m) ==
    call' = [call EXCEPT ![m.call] = IF o \in Servers THEN "refused"
                                     ELSE IF o = m.call THEN "unheard" ELSE "overheard"]

\* Signal that the message is consumed.
Release(o) ==
    /\ thread' = [thread EXCEPT ![o] = "waits"]
    /\ box' = [box EXCEPT ![Inbox(o)] = Nothing]

\* A thread keeps the mutex of its buffer until the slot or the handler has returned.
Free(b) == \A o \in Objects : Inbox(o) = b => thread[o] = "waits"

\* A message is there, and the thread was not asked to stop: construct it, which may throw.
Construct(o) ==
    /\ pc[o] = "up" /\ thread[o] = "waits"
    /\ box[Inbox(o)] # Nothing /\ Free(Inbox(o))
    /\ LET m == box[Inbox(o)]
       IN IF construct(reg[Program(o)], m.json) # Nothing
          THEN /\ thread' = [thread EXCEPT ![o] = "finds"]
               /\ UNCHANGED call
          ELSE /\ thread' = [thread EXCEPT ![o] = "throws"]
               /\ Dropped(o, m)
    /\ UNCHANGED <<nameVars, clientVars, slotVars, box, prepared, pc>>

\* Look the slot up and call it, or throw if there is none.  While one is being registered
\* either may happen, and a damaged map may end the process.
FindSlot(o) ==
    LET m == box[Inbox(o)]
        slot == slots[o][m.json.id]
    IN /\ pc[o] \in {"up", "closing"}
       /\ thread[o] \in {"finds", "races"}
       /\ \/ /\ slot # Nothing
             /\ call' = [call EXCEPT ![m.call] = IF o \in Servers THEN "served" ELSE "done"]
             /\ Release(o)
             /\ UNCHANGED pc
          \/ /\ slot = Nothing \/ thread[o] = "races"
             /\ thread' = [thread EXCEPT ![o] = "throws"]
             /\ IF thread[o] = "races" THEN call' = [call EXCEPT ![m.call] = "raced"] ELSE Dropped(o, m)
             /\ UNCHANGED <<box, pc>>
          \/ /\ thread[o] = "races"
             /\ pc' = [pc EXCEPT ![o] = "undefined"]
             /\ UNCHANGED <<thread, box, call>>
       /\ UNCHANGED <<nameVars, clientVars, slotVars, prepared>>

\* Mutation of Catch: the place is free before the handler has returned.
CatchReleasing(o) ==
    /\ pc[o] \in {"up", "closing"} /\ thread[o] = "throws"
    /\ thread' = [thread EXCEPT ![o] = IF o \in handler THEN "handles" ELSE "waits"]
    /\ box' = [box EXCEPT ![Inbox(o)] = Nothing]
    /\ UNCHANGED <<nameVars, clientVars, slotVars, call, prepared, pc>>

\* The exception is caught, and given to the handler if there is one.
Catch(o) ==
    /\ pc[o] \in {"up", "closing"} /\ thread[o] = "throws"
    /\ IF o \in handler
       THEN /\ thread' = [thread EXCEPT ![o] = "handles"]
            /\ UNCHANGED box
       ELSE Release(o)
    /\ UNCHANGED <<nameVars, clientVars, slotVars, call, prepared, pc>>

HandlerReturns(o) ==
    /\ pc[o] \in {"up", "closing"} /\ thread[o] = "handles"
    /\ Release(o)
    /\ UNCHANGED <<nameVars, clientVars, slotVars, call, prepared, pc>>

Receive(o) == Construct(o) \/ FindSlot(o) \/ Catch(o) \/ HandlerReturns(o)

ServerStep(s) ==
    \/ RemoveOldName(s) \/ CreateSegment(s) \/ Truncate(s) \/ ConstructShared(s)
    \/ JoinServer(s) \/ RemoveName(s) \/ Crash(s) \/ RegisterAction(s)

ClientStep(c) == Open(c) \/ JoinClient(c) \/ AsyncRegister(c) \/ AsyncSend(c) \/ Answer(c)

Next ==
    \/ \E p \in {"server", "client"} : RegisterMessageType(p)
    \/ \E s \in Servers : ServerStep(s)
    \/ \E c \in Clients : ClientStep(c)
    \/ \E o \in Objects : BeginDestroy(o) \/ RegisterExceptionHandler(o) \/ Receive(o)

Spec == Init /\ [][Next]_vars

-----------------------------------------------------------------------------
(* Properties.                                                              *)

Types ==
    /\ reg \in [{"server", "client"} -> Registry]
    /\ path \in Servers \union {Nobody}
    /\ segment \in [Servers -> {"none", "created", "sized", "ready", "destroyed"}]
    /\ pc \in [Objects -> {"new", "removed", "created", "sized", "up", "closing", "joined", "gone",
                           "failed", "crashed", "undefined"}]
    /\ mapped \in [Clients -> Servers \union {Nobody}]
    /\ address \in [Clients -> Addresses \union {Nobody}]
    /\ slots \in [Objects -> [Identifiers -> MessageTypes \union {Nothing}]]
    /\ handler \subseteq Reporting /\ endpoints \subseteq Addresses
    /\ thread \in [Objects -> {"waits", "finds", "races", "throws", "handles"}]
    /\ \A b \in DOMAIN box : box[b] # Nothing => box[b].call \in Clients /\ box[b].json.id \in Identifiers
    /\ call \in [Clients -> {"none", "registered", "sent", "served", "answered", "done",
                             "refused", "unheard", "overheard", "raced"}]
    /\ overlapped \in BOOLEAN /\ crashes \in 0 .. MaxCrashes
    /\ prepared \subseteq Clients /\ reused \subseteq Clients

\* Every variable has its type.  A receive thread keeps the place of its message until it is
\* done with it: the exception handler has returned, too, before another one is put there.
TypeOK == Types /\ \A o \in Objects : thread[o] # "waits" => box[Inbox(o)] # Nothing

\* A slot is only ever called with a message of the type it was registered for, however
\* types are registered again: m_ctors constructs that type for the slot's identifier.
\* Otherwise the dynamic_cast in registerSlot would throw std::bad_cast, which the receive
\* thread does not catch, and end the process.
SlotsGetTheirType ==
    \A o \in Objects : \A id \in Identifiers :
        slots[o][id] # Nothing => reg[Program(o)].m_ctors[id] = slots[o][id]

\* While servers follow one another, each of them starts, whatever an earlier one has left
\* behind, and has the name while it is up: a client that opens it then shares that
\* server's segment, with its semaphores constructed.  What has the name was left by a
\* crash or belongs to a server that is there.
NameIsTheServers ==
    ~overlapped =>
        \A s \in Servers : /\ pc[s] # "failed"
                           /\ pc[s] = "up" => path = s /\ segment[s] = "ready"
                           /\ path = s => Present(s) \/ pc[s] = "crashed"

\* A request sent once the server has registered its action finds the slot, and its
\* response finds that of the endpoint that asked: async registers it before it sends.
\* The exceptions are an endpoint at the address of a deleted one, which async takes for
\* one that has its slot (user_actions.h, m_internals.endpoints); types registered again
\* under another identifier; a lookup that runs into a registration; and a response that
\* is "overheard": the receive thread of another client takes it and has no slot.  The
\* constructor lets two clients have one segment (endpoint.cpp, the test of client_mutex
\* is commented out), and a server may answer when its client is gone and another one has
\* come.  A client that has the segment for itself never loses its response that way.
SlotsAreReady ==
    \A c \in Clients : AsShipped =>
        /\ c \in prepared => call[c] # "refused"
        /\ c \notin reused => call[c] # "unheard"
        /\ call[c] = "overheard" => \E d \in Clients \ {c} : mapped[d] = mapped[c]
=============================================================================
