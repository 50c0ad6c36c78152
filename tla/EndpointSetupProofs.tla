------------------------- MODULE EndpointSetupProofs -------------------------
(* Theorems about module EndpointSetup, for any servers, clients and addresses,
   any types that are registered again and any number of crashes.           *)
EXTENDS EndpointSetup, TLAPS

-----------------------------------------------------------------------------
(* The inductive invariant.                                                 *)

Boxes == Servers \X {"request", "response"}

\* Each type has an identifier, for which it is constructed.
RegistryInv ==
    \A p \in {"server", "client"} : \A t \in MessageTypes :
        /\ reg[p].m_rtti_map[t] \in Identifiers
        /\ reg[p].m_ctors[reg[p].m_rtti_map[t]] = t

\* An endpoint that is not there yet has no slots, no thread and no call.
FreshInv ==
    \A o \in Objects : pc[o] = "new" =>
        /\ \A id \in Identifiers : slots[o][id] = Nothing
        /\ thread[o] = "waits"
        /\ o \in Clients => call[o] = "none" /\ mapped[o] = Nobody

\* What has the name, and how far the server is that has it.
NameInv ==
    ~overlapped => \A s \in Servers :
        /\ \A t \in Servers : Present(s) /\ Present(t) => s = t
        /\ pc[s] # "failed"
        /\ pc[s] = "removed" => path = Nobody
        /\ pc[s] = "created" => path = s /\ segment[s] = "created"
        /\ pc[s] = "sized" => path = s /\ segment[s] = "sized"
        /\ pc[s] \in {"up", "closing"} => path = s /\ segment[s] = "ready"
        /\ path = s => Present(s) \/ pc[s] = "crashed"

\* A client that has been created has a segment and an address.
MappedInv ==
    \A c \in Clients :
        /\ pc[c] \in {"up", "closing", "gone", "undefined"} =>
              mapped[c] \in Servers /\ address[c] \in Addresses
        /\ pc[c] \in {"new", "failed"} => call[c] = "none" /\ thread[c] = "waits"
        /\ pc[c] \in {"new", "failed", "up", "closing", "gone", "undefined"}

\* A message is part of a call over the segment it is in.
BoxInv ==
    /\ DOMAIN box = Boxes
    /\ \A s \in Servers : \A way \in {"request", "response"} :
        box[<<s, way>>] # Nothing =>
            mapped[box[<<s, way>>].call] = s /\ call[box[<<s, way>>].call] # "none"

\* A receive thread that is not waiting has a message, and the buffer for itself.
ThreadInv ==
    \A o \in Objects : thread[o] # "waits" =>
        /\ box[Inbox(o)] # Nothing
        /\ \A other \in Objects : Inbox(other) = Inbox(o) => other = o \/ thread[other] = "waits"

\* An address is in use once, unless it is known to be in use again.
AddressInv ==
    /\ \A c \in Live, d \in Clients : c # d /\ address[c] = address[d] => c \in reused
    /\ \A a \in endpoints : \E d \in Clients : call[d] # "none" /\ address[d] = a

\* The messages that are under way, and the slots that are ready for them.
Waiting(s, way, type) ==
    box[<<s, way>>] # Nothing => box[<<s, way>>].json = serialize(Shipped, type)

ReadyBody ==
    /\ \A s \in Servers : Waiting(s, "request", "action") /\ Waiting(s, "response", "response")
    /\ \A s \in Servers : \A id \in Identifiers : slots[s][id] # Nothing => id = "action"
    /\ \A c \in prepared : call[c] # "none" /\ slots[mapped[c]]["action"] # Nothing
    /\ \A c \in Clients : c \notin reused /\ call[c] # "none" => slots[c]["response"] # Nothing

ReadyInv == AsShipped => ReadyBody

IInv ==
    /\ Types /\ RegistryInv /\ FreshInv /\ SlotsGetTheirType /\ NameInv
    /\ MappedInv /\ BoxInv /\ ThreadInv /\ AddressInv /\ ReadyInv /\ SlotsAreReady

-----------------------------------------------------------------------------
(* Every step preserves it.                                                 *)

\* Registering a type again keeps those that are registered.
LEMMA RegisterKeeps ==
    ASSUME Types, RegistryInv, NEW p \in {"server", "client"}, RegisterMessageType(p)
    PROVE  /\ reg' \in [{"server", "client"} -> Registry]
           /\ RegistryInv'
           /\ \A q \in {"server", "client"} : q # p => reg'[q] = reg[q]
           /\ ~AsShipped'
  <1>1. PICK type \in MessageTypes, id \in Identifiers :
          /\ MayRegister(reg[p], id)
          /\ reg' = [reg EXCEPT ![p] = registerMessageType(@, type, id)]
    BY DEF RegisterMessageType
  <1> DEFINE old == reg[p]
             new == registerMessageType(old, type, id)
  <1>2. /\ old \in Registry
        /\ old.m_rtti_map \in [MessageTypes -> Identifiers \union {Nothing}]
        /\ old.m_ctors \in [Identifiers -> MessageTypes \union {Nothing}]
        /\ old.m_ctors[id] = Nothing
    BY <1>1 DEF Types, Registry, MayRegister
  <1>3. /\ new \in Registry
        /\ new.m_rtti_map = [old.m_rtti_map EXCEPT ![type] = id]
        /\ new.m_ctors = [old.m_ctors EXCEPT ![id] = type]
    BY <1>2 DEF registerMessageType, Registry
  <1>4. \A t \in MessageTypes : new.m_rtti_map[t] \in Identifiers
        /\ new.m_ctors[new.m_rtti_map[t]] = t
    BY <1>2, <1>3, MessageFactoryAssumption DEF RegistryInv
  <1>5. reg'[p] = new /\ reg' \in [{"server", "client"} -> Registry]
        /\ \A q \in {"server", "client"} : q # p => reg'[q] = reg[q]
    BY <1>1, <1>3 DEF Types
  <1>6. RegistryInv'
    BY <1>4, <1>5 DEF RegistryInv
  <1>7. reg[p] = Shipped
    BY DEF RegisterMessageType, AsShipped
  <1>8. id \notin MessageTypes
    BY <1>2, <1>7, EndpointSetupAssumption, MessageFactoryAssumption DEF Shipped
  <1>9. new.m_rtti_map[type] = id /\ Shipped.m_rtti_map[type] = type
    BY <1>2, <1>3 DEF Shipped
  <1>10. reg'[p] # Shipped
    BY <1>5, <1>8, <1>9
  <1>11. QED
    BY <1>5, <1>6, <1>10 DEF AsShipped

\* The identifier under which a program knows one of its types.
LEMMA IdentifierTyped ==
    ASSUME RegistryInv, NEW p \in {"server", "client"}, NEW t \in MessageTypes
    PROVE  /\ typeIdentifier(reg[p], t) \in Identifiers
           /\ reg[p].m_ctors[typeIdentifier(reg[p], t)] = t
  BY DEF RegistryInv, typeIdentifier

\* Where a receive thread finds its message.
LEMMA InboxTyped ==
    ASSUME Types, MappedInv, NEW o \in Objects, o \in Servers \/ pc[o] \in {"up", "closing"}
    PROVE  /\ Inbox(o) \in Boxes
           /\ o \in Servers => Inbox(o) = <<o, "request">>
           /\ o \notin Servers =>
                 o \in Clients /\ mapped[o] \in Servers /\ Inbox(o) = <<mapped[o], "response">>
  BY DEF Inbox, Boxes, MappedInv, Objects

\* What it finds there.
LEMMA MessageTyped ==
    ASSUME Types, MappedInv, BoxInv, NEW b \in Boxes, box[b] # Nothing
    PROVE  /\ box[b].call \in Clients /\ box[b].json.id \in Identifiers
           /\ mapped[box[b].call] = b[1] /\ call[box[b].call] # "none"
  <1>1. PICK s \in Servers, way \in {"request", "response"} : b = <<s, way>>
    BY DEF Boxes
  <1>2. QED
    BY <1>1 DEF Types, BoxInv

\* The message that a receive thread is at.
LEMMA MessageThere ==
    ASSUME Types, MappedInv, BoxInv, ThreadInv, NEW o \in Objects,
           Construct(o) \/ FindSlot(o) \/ Catch(o) \/ HandlerReturns(o)
    PROVE  /\ Inbox(o) \in Boxes /\ box[Inbox(o)] # Nothing
           /\ box[Inbox(o)].call \in Clients
           /\ call[box[Inbox(o)].call] # "none"
  <1>1. pc[o] \in {"up", "closing"} /\ box[Inbox(o)] # Nothing
    BY DEF Construct, FindSlot, Catch, HandlerReturns, ThreadInv
  <1>2. QED
    BY <1>1, InboxTyped, MessageTyped

\* Opening concerns the client that is opened.
LEMMA OpenKeeps ==
    ASSUME Types, NEW c \in Clients, Open(c)
    PROVE  /\ UNCHANGED <<path, segment, overlapped, crashes>>
           /\ pc[c] = "new" /\ pc'[c] \in {"up", "failed", "undefined"}
           /\ \A o \in Objects : o # c => pc'[o] = pc[o]
  BY DEF Open, Turn, Types, Objects, nameVars

\* What a receive thread does concerns its endpoint and the call that the message is part of.
LEMMA ReceiveDoes ==
    ASSUME Types, MappedInv, BoxInv, ThreadInv, NEW o \in Objects,
           Construct(o) \/ FindSlot(o) \/ Catch(o) \/ HandlerReturns(o)
    PROVE  /\ UNCHANGED <<reg, path, segment, mapped, address, slots, handler, endpoints,
                          overlapped, prepared, reused, crashes>>
           /\ pc[o] \in {"up", "closing"} /\ pc'[o] \in {pc[o], "undefined"}
           /\ \A x \in Objects : x # o => pc'[x] = pc[x] /\ thread'[x] = thread[x]
           /\ \A c \in Clients : call'[c] = call[c]
                 \/ (c = box[Inbox(o)].call /\ call'[c] # "none")
           /\ \A c \in Clients : call[c] # "none" => call'[c] # "none"
           /\ \A b \in Boxes : box'[b] = box[b] \/ (b = Inbox(o) /\ box'[b] = Nothing)
           /\ box' = box \/ thread'[o] = "waits"
           /\ DOMAIN box' = Boxes
  <1> DEFINE b == Inbox(o)
             m == box[b]
  <1>1. b \in Boxes /\ m.call \in Clients /\ DOMAIN box = Boxes
    BY MessageThere DEF BoxInv
  <1>2. DOMAIN pc = Objects /\ DOMAIN thread = Objects /\ DOMAIN call = Clients
    BY DEF Types
  <1>3. UNCHANGED <<reg, path, segment, mapped, address, slots, handler, endpoints,
                    overlapped, prepared, reused, crashes>>
    BY DEF Construct, FindSlot, Catch, HandlerReturns, nameVars, clientVars, slotVars
  <1>4. pc[o] \in {"up", "closing"} /\ (pc' = pc \/ pc' = [pc EXCEPT ![o] = "undefined"])
    BY DEF Construct, FindSlot, Catch, HandlerReturns
  <1>5. thread' = thread \/ \E w : thread' = [thread EXCEPT ![o] = w]
    BY DEF Construct, FindSlot, Catch, HandlerReturns, Release
  <1>6. call' = call \/ \E v : v # "none" /\ call' = [call EXCEPT ![m.call] = v]
    <2>1. CASE Construct(o)
      BY <2>1 DEF Construct, Dropped
    <2>2. CASE FindSlot(o)
      BY <2>2 DEF FindSlot, Dropped
    <2>3. CASE Catch(o) \/ HandlerReturns(o)
      BY <2>3 DEF Catch, HandlerReturns
    <2>4. QED
      BY <2>1, <2>2, <2>3
  <1>7. box' = box
        \/ (thread' = [thread EXCEPT ![o] = "waits"] /\ box' = [box EXCEPT ![b] = Nothing])
    BY DEF Construct, FindSlot, Catch, HandlerReturns, Release
  <1> HIDE DEF b, m
  <1>8. /\ pc'[o] \in {pc[o], "undefined"}
        /\ \A x \in Objects : x # o => pc'[x] = pc[x] /\ thread'[x] = thread[x]
    BY <1>2, <1>4, <1>5
  <1>9. \A c \in Clients : call'[c] = call[c] \/ (c = m.call /\ call'[c] # "none")
    BY <1>1, <1>2, <1>6
  <1>10. /\ \A x \in Boxes : box'[x] = box[x] \/ (x = b /\ box'[x] = Nothing)
         /\ box' = box \/ thread'[o] = "waits"
         /\ DOMAIN box' = Boxes
    BY <1>1, <1>2, <1>7
  <1>11. QED
    BY <1>3, <1>4, <1>8, <1>9, <1>10 DEF b, m

LEMMA RegistryStep ==
    ASSUME Types, RegistryInv, [Next]_vars
    PROVE  RegistryInv'
  <1>1. ASSUME NEW p \in {"server", "client"}, RegisterMessageType(p)
       PROVE  RegistryInv'
    BY <1>1, RegisterKeeps
  <1>2. ASSUME NEW s \in Servers, RemoveOldName(s)
       PROVE  RegistryInv'
    BY <1>2 DEF RegistryInv, RemoveOldName, clientVars, slotVars, messageVars, Turn
  <1>3. ASSUME NEW s \in Servers, CreateSegment(s)
       PROVE  RegistryInv'
    BY <1>3 DEF RegistryInv, CreateSegment, clientVars, slotVars, messageVars
  <1>4. ASSUME NEW s \in Servers, Truncate(s)
       PROVE  RegistryInv'
    BY <1>4 DEF RegistryInv, Truncate, clientVars, slotVars, messageVars
  <1>5. ASSUME NEW s \in Servers, ConstructShared(s)
       PROVE  RegistryInv'
    BY <1>5 DEF RegistryInv, ConstructShared, clientVars, slotVars, messageVars
  <1>6. ASSUME NEW s \in Servers, JoinServer(s)
       PROVE  RegistryInv'
    BY <1>6 DEF RegistryInv, JoinServer, clientVars, slotVars, messageVars
  <1>7. ASSUME NEW s \in Servers, RemoveName(s)
       PROVE  RegistryInv'
    BY <1>7 DEF RegistryInv, RemoveName, clientVars, slotVars, messageVars
  <1>8. ASSUME NEW s \in Servers, Crash(s)
       PROVE  RegistryInv'
    BY <1>8 DEF RegistryInv, Crash, clientVars, slotVars, messageVars
  <1>9. ASSUME NEW s \in Servers, RegisterAction(s)
       PROVE  RegistryInv'
    BY <1>9 DEF RegistryInv, RegisterAction, registerSlot, nameVars, clientVars
  <1>10. ASSUME NEW c \in Clients, Open(c)
       PROVE  RegistryInv'
    BY <1>10 DEF RegistryInv, Open, Turn, nameVars, slotVars, messageVars, clientVars
  <1>11. ASSUME NEW c \in Clients, JoinClient(c)
       PROVE  RegistryInv'
    BY <1>11 DEF RegistryInv, JoinClient, nameVars, clientVars, slotVars, messageVars
  <1>12. ASSUME NEW c \in Clients, AsyncRegister(c)
       PROVE  RegistryInv'
    BY <1>12 DEF RegistryInv, AsyncRegister, registerSlot, nameVars, clientVars
  <1>13. ASSUME NEW c \in Clients, AsyncSend(c)
       PROVE  RegistryInv'
    BY <1>13 DEF RegistryInv, AsyncSend, Put, nameVars, clientVars, slotVars
  <1>14. ASSUME NEW c \in Clients, Answer(c)
       PROVE  RegistryInv'
    BY <1>14 DEF RegistryInv, Answer, Put, nameVars, clientVars, slotVars
  <1>15. ASSUME NEW o \in Objects, BeginDestroy(o)
       PROVE  RegistryInv'
    BY <1>15 DEF RegistryInv, BeginDestroy, nameVars, clientVars, slotVars, messageVars
  <1>16. ASSUME NEW o \in Objects, RegisterExceptionHandler(o)
       PROVE  RegistryInv'
    BY <1>16 DEF RegistryInv, RegisterExceptionHandler, nameVars, clientVars, messageVars
  <1>17. ASSUME NEW o \in Objects, Construct(o)
       PROVE  RegistryInv'
    BY <1>17 DEF RegistryInv, Construct, Dropped, nameVars, clientVars, slotVars
  <1>18. ASSUME NEW o \in Objects, FindSlot(o)
       PROVE  RegistryInv'
    BY <1>18 DEF RegistryInv, FindSlot, Dropped, Release, nameVars, clientVars, slotVars
  <1>19. ASSUME NEW o \in Objects, Catch(o)
       PROVE  RegistryInv'
    BY <1>19 DEF RegistryInv, Catch, Release, nameVars, clientVars, slotVars
  <1>20. ASSUME NEW o \in Objects, HandlerReturns(o)
       PROVE  RegistryInv'
    BY <1>20 DEF RegistryInv, HandlerReturns, Release, nameVars, clientVars, slotVars
  <1>21. CASE UNCHANGED vars
    BY <1>21 DEF RegistryInv, vars
  <1>22. QED
    BY <1>1, <1>2, <1>3, <1>4, <1>5, <1>6, <1>7, <1>8, <1>9, <1>10, <1>11, <1>12, <1>13, <1>14,
       <1>15, <1>16, <1>17, <1>18, <1>19, <1>20, <1>21
    DEF Next, ServerStep, ClientStep, Receive

LEMMA NameStep ==
    ASSUME Types, NameInv, [Next]_vars
    PROVE  NameInv'
  <1>1. ASSUME NEW p \in {"server", "client"}, RegisterMessageType(p)
       PROVE  NameInv'
    BY <1>1, EndpointSetupAssumption
    DEF Types, NameInv, Present, Objects, RegisterMessageType, nameVars, clientVars, messageVars
  <1>2. ASSUME NEW s \in Servers, RemoveOldName(s)
       PROVE  NameInv'
    BY <1>2, EndpointSetupAssumption
    DEF Types, NameInv, Present, Objects, RemoveOldName, clientVars, slotVars, messageVars, Turn
  <1>3. ASSUME NEW s \in Servers, CreateSegment(s)
       PROVE  NameInv'
    BY <1>3, EndpointSetupAssumption
    DEF Types, NameInv, Present, Objects, CreateSegment, clientVars, slotVars, messageVars
  <1>4. ASSUME NEW s \in Servers, Truncate(s)
       PROVE  NameInv'
    BY <1>4, EndpointSetupAssumption
    DEF Types, NameInv, Present, Objects, Truncate, clientVars, slotVars, messageVars
  <1>5. ASSUME NEW s \in Servers, ConstructShared(s)
       PROVE  NameInv'
    BY <1>5, EndpointSetupAssumption
    DEF Types, NameInv, Present, Objects, ConstructShared, clientVars, slotVars, messageVars
  <1>6. ASSUME NEW s \in Servers, JoinServer(s)
       PROVE  NameInv'
    BY <1>6, EndpointSetupAssumption
    DEF Types, NameInv, Present, Objects, JoinServer, clientVars, slotVars, messageVars
  <1>7. ASSUME NEW s \in Servers, RemoveName(s)
       PROVE  NameInv'
    BY <1>7, EndpointSetupAssumption
    DEF Types, NameInv, Present, Objects, RemoveName, clientVars, slotVars, messageVars
  <1>8. ASSUME NEW s \in Servers, Crash(s)
       PROVE  NameInv'
    BY <1>8, EndpointSetupAssumption
    DEF Types, NameInv, Present, Objects, Crash, clientVars, slotVars, messageVars
  <1>9. ASSUME NEW s \in Servers, RegisterAction(s)
       PROVE  NameInv'
    BY <1>9, EndpointSetupAssumption
    DEF Types, NameInv, Present, Objects, RegisterAction, registerSlot, nameVars, clientVars
  <1>10. ASSUME NEW c \in Clients, Open(c)
       PROVE  NameInv'
    BY <1>10, OpenKeeps, EndpointSetupAssumption DEF NameInv, Present, Objects
  <1>11. ASSUME NEW c \in Clients, JoinClient(c)
       PROVE  NameInv'
    BY <1>11, EndpointSetupAssumption
    DEF Types, NameInv, Present, Objects, JoinClient, nameVars, clientVars, slotVars, messageVars
  <1>12. ASSUME NEW c \in Clients, AsyncRegister(c)
       PROVE  NameInv'
    BY <1>12, EndpointSetupAssumption
    DEF Types, NameInv, Present, Objects, AsyncRegister, registerSlot, nameVars, clientVars
  <1>13. ASSUME NEW c \in Clients, AsyncSend(c)
       PROVE  NameInv'
    BY <1>13, EndpointSetupAssumption
    DEF Types, NameInv, Present, Objects, AsyncSend, Put, nameVars, clientVars, slotVars
  <1>14. ASSUME NEW c \in Clients, Answer(c)
       PROVE  NameInv'
    BY <1>14, EndpointSetupAssumption
    DEF Types, NameInv, Present, Objects, Answer, Put, nameVars, clientVars, slotVars
  <1>15. ASSUME NEW o \in Objects, BeginDestroy(o)
       PROVE  NameInv'
    BY <1>15, EndpointSetupAssumption
    DEF Types, NameInv, Present, Objects, BeginDestroy, nameVars, clientVars, slotVars,
        messageVars
  <1>16. ASSUME NEW o \in Objects, RegisterExceptionHandler(o)
       PROVE  NameInv'
    BY <1>16, EndpointSetupAssumption
    DEF Types, NameInv, Present, Objects, RegisterExceptionHandler, nameVars, clientVars,
        messageVars
  <1>17. ASSUME NEW o \in Objects, Construct(o)
       PROVE  NameInv'
    BY <1>17, EndpointSetupAssumption
    DEF Types, NameInv, Present, Objects, Construct, Dropped, nameVars, clientVars, slotVars
  <1>18. ASSUME NEW o \in Objects, FindSlot(o)
       PROVE  NameInv'
    BY <1>18, EndpointSetupAssumption
    DEF Types, NameInv, Present, Objects, FindSlot, Dropped, Release, nameVars, clientVars,
        slotVars
  <1>19. ASSUME NEW o \in Objects, Catch(o)
       PROVE  NameInv'
    BY <1>19, EndpointSetupAssumption
    DEF Types, NameInv, Present, Objects, Catch, Release, nameVars, clientVars, slotVars
  <1>20. ASSUME NEW o \in Objects, HandlerReturns(o)
       PROVE  NameInv'
    BY <1>20, EndpointSetupAssumption
    DEF Types, NameInv, Present, Objects, HandlerReturns, Release, nameVars, clientVars, slotVars
  <1>21. CASE UNCHANGED vars
    BY <1>21, EndpointSetupAssumption DEF Types, NameInv, Present, Objects, vars
  <1>22. QED
    BY <1>1, <1>2, <1>3, <1>4, <1>5, <1>6, <1>7, <1>8, <1>9, <1>10, <1>11, <1>12, <1>13, <1>14,
       <1>15, <1>16, <1>17, <1>18, <1>19, <1>20, <1>21
    DEF Next, ServerStep, ClientStep, Receive

LEMMA FreshStep ==
    ASSUME Types, FreshInv, MappedInv, BoxInv, ThreadInv, [Next]_vars
    PROVE  FreshInv'
  <1>1. ASSUME NEW p \in {"server", "client"}, RegisterMessageType(p)
       PROVE  FreshInv'
    BY <1>1, EndpointSetupAssumption
    DEF Types, FreshInv, Objects, RegisterMessageType, nameVars, clientVars, messageVars
  <1>2. ASSUME NEW s \in Servers, RemoveOldName(s)
       PROVE  FreshInv'
    BY <1>2, EndpointSetupAssumption
    DEF Types, FreshInv, Objects, RemoveOldName, clientVars, slotVars, messageVars, Turn
  <1>3. ASSUME NEW s \in Servers, CreateSegment(s)
       PROVE  FreshInv'
    BY <1>3, EndpointSetupAssumption
    DEF Types, FreshInv, Objects, CreateSegment, clientVars, slotVars, messageVars
  <1>4. ASSUME NEW s \in Servers, Truncate(s)
       PROVE  FreshInv'
    BY <1>4, EndpointSetupAssumption
    DEF Types, FreshInv, Objects, Truncate, clientVars, slotVars, messageVars
  <1>5. ASSUME NEW s \in Servers, ConstructShared(s)
       PROVE  FreshInv'
    BY <1>5, EndpointSetupAssumption
    DEF Types, FreshInv, Objects, ConstructShared, clientVars, slotVars, messageVars
  <1>6. ASSUME NEW s \in Servers, JoinServer(s)
       PROVE  FreshInv'
    BY <1>6, EndpointSetupAssumption
    DEF Types, FreshInv, Objects, JoinServer, clientVars, slotVars, messageVars
  <1>7. ASSUME NEW s \in Servers, RemoveName(s)
       PROVE  FreshInv'
    BY <1>7, EndpointSetupAssumption
    DEF Types, FreshInv, Objects, RemoveName, clientVars, slotVars, messageVars
  <1>8. ASSUME NEW s \in Servers, Crash(s)
       PROVE  FreshInv'
    BY <1>8, EndpointSetupAssumption
    DEF Types, FreshInv, Objects, Crash, clientVars, slotVars, messageVars
  <1>9. ASSUME NEW s \in Servers, RegisterAction(s)
       PROVE  FreshInv'
    BY <1>9, EndpointSetupAssumption
    DEF Types, FreshInv, Objects, RegisterAction, registerSlot, nameVars, clientVars
  <1>10. ASSUME NEW c \in Clients, Open(c)
       PROVE  FreshInv'
    BY <1>10, EndpointSetupAssumption
    DEF Types, FreshInv, Objects, Open, Turn, nameVars, slotVars, messageVars, clientVars
  <1>11. ASSUME NEW c \in Clients, JoinClient(c)
       PROVE  FreshInv'
    BY <1>11, EndpointSetupAssumption
    DEF Types, FreshInv, Objects, JoinClient, nameVars, clientVars, slotVars, messageVars
  <1>12. ASSUME NEW c \in Clients, AsyncRegister(c)
       PROVE  FreshInv'
    BY <1>12, EndpointSetupAssumption
    DEF Types, FreshInv, Objects, AsyncRegister, registerSlot, nameVars, clientVars
  <1>13. ASSUME NEW c \in Clients, AsyncSend(c)
       PROVE  FreshInv'
    BY <1>13, EndpointSetupAssumption
    DEF Types, FreshInv, Objects, AsyncSend, Put, nameVars, clientVars, slotVars
  <1>14. ASSUME NEW c \in Clients, Answer(c)
       PROVE  FreshInv'
    BY <1>14, EndpointSetupAssumption
    DEF Types, FreshInv, Objects, Answer, Put, nameVars, clientVars, slotVars
  <1>15. ASSUME NEW o \in Objects, BeginDestroy(o)
       PROVE  FreshInv'
    BY <1>15, EndpointSetupAssumption
    DEF Types, FreshInv, Objects, BeginDestroy, nameVars, clientVars, slotVars, messageVars
  <1>16. ASSUME NEW o \in Objects, RegisterExceptionHandler(o)
       PROVE  FreshInv'
    BY <1>16, EndpointSetupAssumption
    DEF Types, FreshInv, Objects, RegisterExceptionHandler, nameVars, clientVars, messageVars
  <1>17. ASSUME NEW o \in Objects, Construct(o)
       PROVE  FreshInv'
    BY <1>17, ReceiveDoes, MessageThere DEF FreshInv, Objects
  <1>18. ASSUME NEW o \in Objects, FindSlot(o)
       PROVE  FreshInv'
    BY <1>18, ReceiveDoes, MessageThere DEF FreshInv, Objects
  <1>19. ASSUME NEW o \in Objects, Catch(o)
       PROVE  FreshInv'
    BY <1>19, ReceiveDoes, MessageThere DEF FreshInv, Objects
  <1>20. ASSUME NEW o \in Objects, HandlerReturns(o)
       PROVE  FreshInv'
    BY <1>20, ReceiveDoes, MessageThere DEF FreshInv, Objects
  <1>21. CASE UNCHANGED vars
    BY <1>21, EndpointSetupAssumption DEF Types, FreshInv, Objects, vars
  <1>22. QED
    BY <1>1, <1>2, <1>3, <1>4, <1>5, <1>6, <1>7, <1>8, <1>9, <1>10, <1>11, <1>12, <1>13, <1>14,
       <1>15, <1>16, <1>17, <1>18, <1>19, <1>20, <1>21
    DEF Next, ServerStep, ClientStep, Receive

\* A message is put in an empty place.
LEMMA PutDoes ==
    ASSUME RegistryInv, DOMAIN box = Boxes, NEW b \in Boxes, NEW type \in MessageTypes,
           NEW p \in {"server", "client"}, NEW c \in Clients, Put(b, type, p, c)
    PROVE  /\ box[b] = Nothing /\ DOMAIN box' = Boxes
           /\ \A x \in Boxes : x # b => box'[x] = box[x]
           /\ box'[b].call = c /\ box'[b].json = serialize(reg[p], type)
           /\ box'[b].json.id \in Identifiers
  <1>1. typeIdentifier(reg[p], type) \in Identifiers
    BY IdentifierTyped
  <1>2. QED
    BY <1>1 DEF Put, serialize

LEMMA SendDoes ==
    ASSUME Types, RegistryInv, MappedInv, BoxInv, NEW c \in Clients, AsyncSend(c) \/ Answer(c)
    PROVE  /\ mapped[c] \in Servers /\ call[c] # "none" /\ DOMAIN box' = Boxes
           /\ \E way \in {"request", "response"} :
                /\ way = "request" => AsyncSend(c)
                /\ way = "response" => Answer(c)
                /\ \A x \in Boxes : x # <<mapped[c], way>> => box'[x] = box[x]
                /\ box[<<mapped[c], way>>] = Nothing
                /\ box'[<<mapped[c], way>>].call = c
                /\ box'[<<mapped[c], way>>].json.id \in Identifiers
                /\ way = "request" =>
                      box'[<<mapped[c], way>>].json = serialize(reg["client"], "action")
                /\ way = "response" =>
                      box'[<<mapped[c], way>>].json = serialize(reg["server"], "response")
  <1>1. mapped[c] \in Servers /\ call[c] # "none"
    BY DEF MappedInv, AsyncSend, Answer
  <1>2. DOMAIN box = Boxes /\ \A way \in {"request", "response"} : <<mapped[c], way>> \in Boxes
    BY <1>1 DEF BoxInv, Boxes
  <1>3. "action" \in MessageTypes /\ "response" \in MessageTypes
    BY EndpointSetupAssumption
  <1>4. CASE AsyncSend(c)
    <2>1. Put(<<mapped[c], "request">>, "action", "client", c)
      BY <1>4 DEF AsyncSend
    <2>2. QED
      BY <1>1, <1>2, <1>3, <1>4, <2>1, PutDoes
  <1>5. CASE Answer(c)
    <2>1. Put(<<mapped[c], "response">>, "response", "server", c)
      BY <1>5 DEF Answer
    <2>2. QED
      BY <1>1, <1>2, <1>3, <1>5, <2>1, PutDoes
  <1>6. QED
    BY <1>4, <1>5

\* A slot is registered under the identifier of its type.
LEMMA SlotDoes ==
    ASSUME Types, RegistryInv, NEW o \in Objects, NEW type \in MessageTypes,
          registerSlot(o, type)
    PROVE  /\ slots' \in [Objects -> [Identifiers -> MessageTypes \union {Nothing}]]
           /\ thread' \in [Objects -> {"waits", "finds", "races", "throws", "handles"}]
           /\ thread'[o] = "waits" <=> thread[o] = "waits"
           /\ \A x \in Objects : x # o => slots'[x] = slots[x] /\ thread'[x] = thread[x]
           /\ \A id \in Identifiers :
                slots'[o][id] = IF id = typeIdentifier(reg[Program(o)], type) THEN type ELSE slots[o][id]
  <1>1. typeIdentifier(reg[Program(o)], type) \in Identifiers
    BY IdentifierTyped DEF Program
  <1>2. QED
    BY <1>1 DEF registerSlot, Types

LEMMA TypeStep ==
    ASSUME Types, RegistryInv, MappedInv, BoxInv, ThreadInv, [Next]_vars
    PROVE  Types'
  <1>1. ASSUME NEW p \in {"server", "client"}, RegisterMessageType(p)
       PROVE  Types'
    BY <1>1, RegisterKeeps DEF Types, RegisterMessageType, nameVars, clientVars, messageVars
  <1>2. ASSUME NEW s \in Servers, RemoveOldName(s)
       PROVE  Types'
    BY <1>2 DEF Types, Objects, RemoveOldName, clientVars, slotVars, messageVars, Turn
  <1>3. ASSUME NEW s \in Servers, CreateSegment(s)
       PROVE  Types'
    <2>1. path' \in Servers \union {Nobody}
      BY <1>3 DEF CreateSegment, Types
    <2>2. segment' \in [Servers -> {"none", "created", "sized", "ready", "destroyed"}]
      BY <1>3 DEF CreateSegment, Types
    <2>3. pc' \in [Objects -> {"new", "removed", "created", "sized", "up", "closing", "joined", "gone",
                                "failed", "crashed", "undefined"}]
      BY <1>3 DEF CreateSegment, Types
    <2>4. QED
      BY <1>3, <2>1, <2>2, <2>3 DEF Types, CreateSegment, clientVars, slotVars, messageVars
  <1>4. ASSUME NEW s \in Servers, Truncate(s)
       PROVE  Types'
    BY <1>4 DEF Types, Objects, Truncate, clientVars, slotVars, messageVars
  <1>5. ASSUME NEW s \in Servers, ConstructShared(s)
       PROVE  Types'
    BY <1>5 DEF Types, Objects, ConstructShared, clientVars, slotVars, messageVars
  <1>6. ASSUME NEW s \in Servers, JoinServer(s)
       PROVE  Types'
    BY <1>6 DEF Types, Objects, JoinServer, clientVars, slotVars, messageVars
  <1>7. ASSUME NEW s \in Servers, RemoveName(s)
       PROVE  Types'
    BY <1>7 DEF Types, Objects, RemoveName, clientVars, slotVars, messageVars
  <1>8. ASSUME NEW s \in Servers, Crash(s)
       PROVE  Types'
    BY <1>8, EndpointSetupAssumption DEF Types, Objects, Crash, clientVars, slotVars, messageVars
  <1>9. ASSUME NEW s \in Servers, RegisterAction(s)
       PROVE  Types'
    <2>1. "action" \in MessageTypes /\ s \in Objects
      BY EndpointSetupAssumption DEF Objects
    <2>2. /\ slots' \in [Objects -> [Identifiers -> MessageTypes \union {Nothing}]]
          /\ thread' \in [Objects -> {"waits", "finds", "races", "throws", "handles"}]
      BY <1>9, <2>1, SlotDoes DEF RegisterAction, Types
    <2>3. QED
      BY <1>9, <2>2 DEF Types, RegisterAction, nameVars, clientVars
  <1>10. ASSUME NEW c \in Clients, Open(c)
       PROVE  Types'
    <2>1. mapped' \in [Clients -> Servers \union {Nobody}]
      BY <1>10 DEF Open, Types, clientVars
    <2>2. address' \in [Clients -> Addresses \union {Nobody}] /\ reused' \subseteq Clients
      BY <1>10 DEF Open, Types, clientVars
    <2>3. pc' \in [Objects -> {"new", "removed", "created", "sized", "up", "closing", "joined", "gone",
                                "failed", "crashed", "undefined"}]
      BY <1>10 DEF Open, Types
    <2>4. QED
      BY <1>10, <2>1, <2>2, <2>3 DEF Types, Open, nameVars, slotVars, messageVars
  <1>11. ASSUME NEW c \in Clients, JoinClient(c)
       PROVE  Types'
    BY <1>11 DEF Types, Objects, JoinClient, nameVars, clientVars, slotVars, messageVars
  <1>12. ASSUME NEW c \in Clients, AsyncRegister(c)
       PROVE  Types'
    <2>1. "response" \in MessageTypes /\ c \in Objects
      BY EndpointSetupAssumption DEF Objects
    <2>2. /\ slots' \in [Objects -> [Identifiers -> MessageTypes \union {Nothing}]]
          /\ thread' \in [Objects -> {"waits", "finds", "races", "throws", "handles"}]
      BY <1>12, <2>1, SlotDoes DEF AsyncRegister, Types
    <2>3. QED
      BY <1>12, <2>2 DEF Types, AsyncRegister, nameVars, clientVars, MappedInv
  <1>13. ASSUME NEW c \in Clients, AsyncSend(c)
       PROVE  Types'
    <2>1. /\ DOMAIN box' = Boxes
          /\ \A b \in Boxes : box'[b] # Nothing =>
                box'[b].call \in Clients /\ box'[b].json.id \in Identifiers
      <3>1. DOMAIN box = Boxes /\ DOMAIN box' = Boxes
        BY <1>13, SendDoes DEF BoxInv
      <3>2. PICK way \in {"request", "response"} :
              /\ \A x \in Boxes : x # <<mapped[c], way>> => box'[x] = box[x]
              /\ box'[<<mapped[c], way>>].call = c
              /\ box'[<<mapped[c], way>>].json.id \in Identifiers
        BY <1>13, SendDoes
      <3>3. QED
        BY <3>1, <3>2 DEF Types
    <2>2. QED
      BY <1>13, <2>1 DEF Types, AsyncSend, nameVars, clientVars, slotVars
  <1>14. ASSUME NEW c \in Clients, Answer(c)
       PROVE  Types'
    <2>1. /\ DOMAIN box' = Boxes
          /\ \A b \in Boxes : box'[b] # Nothing =>
                box'[b].call \in Clients /\ box'[b].json.id \in Identifiers
      <3>1. DOMAIN box = Boxes /\ DOMAIN box' = Boxes
        BY <1>14, SendDoes DEF BoxInv
      <3>2. PICK way \in {"request", "response"} :
              /\ \A x \in Boxes : x # <<mapped[c], way>> => box'[x] = box[x]
              /\ box'[<<mapped[c], way>>].call = c
              /\ box'[<<mapped[c], way>>].json.id \in Identifiers
        BY <1>14, SendDoes
      <3>3. QED
        BY <3>1, <3>2 DEF Types
    <2>2. QED
      BY <1>14, <2>1 DEF Types, Answer, nameVars, clientVars, slotVars
  <1>15. ASSUME NEW o \in Objects, BeginDestroy(o)
       PROVE  Types'
    BY <1>15 DEF Types, Objects, BeginDestroy, nameVars, clientVars, slotVars, messageVars
  <1>16. ASSUME NEW o \in Objects, RegisterExceptionHandler(o)
       PROVE  Types'
    BY <1>16 DEF Types, Objects, RegisterExceptionHandler, nameVars, clientVars, messageVars
  <1>17. ASSUME NEW o \in Objects, Construct(o)
       PROVE  Types'
    <2>1. /\ DOMAIN box' = Boxes
          /\ \A b \in Boxes : box'[b] # Nothing =>
                box'[b].call \in Clients /\ box'[b].json.id \in Identifiers
      BY <1>17, ReceiveDoes DEF Types, BoxInv
    <2>2. thread' \in [Objects -> {"waits", "finds", "races", "throws", "handles"}]
      BY <1>17 DEF Types, Construct
    <2>3. /\ call' \in [Clients -> {"none", "registered", "sent", "served", "answered", "done",
                                   "refused", "unheard", "overheard", "raced"}]
          /\ pc' = pc
      BY <1>17 DEF Types, Construct, Dropped
    <2>4. QED
      BY <1>17, <2>1, <2>2, <2>3, ReceiveDoes DEF Types
  <1>18. ASSUME NEW o \in Objects, FindSlot(o)
       PROVE  Types'
    <2>1. /\ DOMAIN box' = Boxes
          /\ \A b \in Boxes : box'[b] # Nothing =>
                box'[b].call \in Clients /\ box'[b].json.id \in Identifiers
      BY <1>18, ReceiveDoes DEF Types, BoxInv
    <2>2. thread' \in [Objects -> {"waits", "finds", "races", "throws", "handles"}]
      <3>1. \/ thread' = [thread EXCEPT ![o] = "waits"]
            \/ thread' = [thread EXCEPT ![o] = "throws"]
            \/ thread' = thread
        BY <1>18 DEF FindSlot, Release
      <3>2. QED
        BY <3>1 DEF Types
    <2>3. call' \in [Clients -> {"none", "registered", "sent", "served", "answered", "done",
                                "refused", "unheard", "overheard", "raced"}]
      BY <1>18 DEF Types, FindSlot, Dropped
    <2>4. pc' \in [Objects -> {"new", "removed", "created", "sized", "up", "closing", "joined",
                               "gone", "failed", "crashed", "undefined"}]
      BY <1>18 DEF Types, FindSlot
    <2>5. QED
      BY <1>18, <2>1, <2>2, <2>3, <2>4, ReceiveDoes DEF Types
  <1>19. ASSUME NEW o \in Objects, Catch(o)
       PROVE  Types'
    <2>1. /\ DOMAIN box' = Boxes
          /\ \A b \in Boxes : box'[b] # Nothing =>
                box'[b].call \in Clients /\ box'[b].json.id \in Identifiers
      BY <1>19, ReceiveDoes DEF Types, BoxInv
    <2>2. /\ thread' \in [Objects -> {"waits", "finds", "races", "throws", "handles"}]
          /\ call' \in [Clients -> {"none", "registered", "sent", "served", "answered", "done",
                                   "refused", "unheard", "overheard", "raced"}]
          /\ pc' \in [Objects -> {"new", "removed", "created", "sized", "up", "closing", "joined", "gone",
                                  "failed", "crashed", "undefined"}]
      BY <1>19 DEF Types, Catch, Release
    <2>3. QED
      BY <1>19, <2>1, <2>2, ReceiveDoes DEF Types
  <1>20. ASSUME NEW o \in Objects, HandlerReturns(o)
       PROVE  Types'
    <2>1. /\ DOMAIN box' = Boxes
          /\ \A b \in Boxes : box'[b] # Nothing =>
                box'[b].call \in Clients /\ box'[b].json.id \in Identifiers
      BY <1>20, ReceiveDoes DEF Types, BoxInv
    <2>2. /\ thread' \in [Objects -> {"waits", "finds", "races", "throws", "handles"}]
          /\ call' \in [Clients -> {"none", "registered", "sent", "served", "answered", "done",
                                   "refused", "unheard", "overheard", "raced"}]
          /\ pc' \in [Objects -> {"new", "removed", "created", "sized", "up", "closing", "joined", "gone",
                                  "failed", "crashed", "undefined"}]
      BY <1>20 DEF Types, HandlerReturns, Release
    <2>3. QED
      BY <1>20, <2>1, <2>2, ReceiveDoes DEF Types
  <1>21. CASE UNCHANGED vars
    BY <1>21 DEF Types, Objects, vars
  <1>22. QED
    BY <1>1, <1>2, <1>3, <1>4, <1>5, <1>6, <1>7, <1>8, <1>9, <1>10, <1>11, <1>12, <1>13, <1>14,
       <1>15, <1>16, <1>17, <1>18, <1>19, <1>20, <1>21
    DEF Next, ServerStep, ClientStep, Receive

LEMMA SlotsStep ==
    ASSUME Types, RegistryInv, MappedInv, BoxInv, ThreadInv, FreshInv, SlotsGetTheirType,
          [Next]_vars
    PROVE  SlotsGetTheirType'
  <1>1. ASSUME NEW p \in {"server", "client"}, RegisterMessageType(p)
       PROVE  SlotsGetTheirType'
    <2>1. /\ \A q \in {"server", "client"} : q # p => reg'[q] = reg[q]
          /\ slots' = slots
      BY <1>1, RegisterKeeps DEF RegisterMessageType
    <2>2. \A o \in Objects : Program(o) = p => \A id \in Identifiers : slots[o][id] = Nothing
      BY <1>1 DEF RegisterMessageType, FreshInv
    <2>3. \A o \in Objects : Program(o) \in {"server", "client"}
      BY DEF Program
    <2>4. QED
      BY <2>1, <2>2, <2>3 DEF SlotsGetTheirType
  <1>2. ASSUME NEW s \in Servers, RemoveOldName(s)
       PROVE  SlotsGetTheirType'
    BY <1>2 DEF SlotsGetTheirType, RemoveOldName, clientVars, slotVars, messageVars, Turn
  <1>3. ASSUME NEW s \in Servers, CreateSegment(s)
       PROVE  SlotsGetTheirType'
    BY <1>3 DEF SlotsGetTheirType, CreateSegment, clientVars, slotVars, messageVars
  <1>4. ASSUME NEW s \in Servers, Truncate(s)
       PROVE  SlotsGetTheirType'
    BY <1>4 DEF SlotsGetTheirType, Truncate, clientVars, slotVars, messageVars
  <1>5. ASSUME NEW s \in Servers, ConstructShared(s)
       PROVE  SlotsGetTheirType'
    BY <1>5 DEF SlotsGetTheirType, ConstructShared, clientVars, slotVars, messageVars
  <1>6. ASSUME NEW s \in Servers, JoinServer(s)
       PROVE  SlotsGetTheirType'
    BY <1>6 DEF SlotsGetTheirType, JoinServer, clientVars, slotVars, messageVars
  <1>7. ASSUME NEW s \in Servers, RemoveName(s)
       PROVE  SlotsGetTheirType'
    BY <1>7 DEF SlotsGetTheirType, RemoveName, clientVars, slotVars, messageVars
  <1>8. ASSUME NEW s \in Servers, Crash(s)
       PROVE  SlotsGetTheirType'
    BY <1>8 DEF SlotsGetTheirType, Crash, clientVars, slotVars, messageVars
  <1>9. ASSUME NEW s \in Servers, RegisterAction(s)
       PROVE  SlotsGetTheirType'
    <2>1. "action" \in MessageTypes /\ s \in Objects
      BY EndpointSetupAssumption DEF Objects
    <2> DEFINE id0 == typeIdentifier(reg[Program(s)], "action")
    <2>2. id0 \in Identifiers /\ reg[Program(s)].m_ctors[id0] = "action" /\ reg' = reg
      BY <1>9, <2>1, IdentifierTyped DEF RegisterAction, Program
    <2>3. slots' = slots \/
          /\ \A x \in Objects : x # s => slots'[x] = slots[x]
          /\ \A id \in Identifiers : slots'[s][id] = IF id = id0 THEN "action" ELSE slots[s][id]
      BY <1>9, <2>1, SlotDoes DEF RegisterAction
    <2> HIDE DEF id0
    <2>4. QED
      BY <2>1, <2>2, <2>3 DEF SlotsGetTheirType
  <1>10. ASSUME NEW c \in Clients, Open(c)
       PROVE  SlotsGetTheirType'
    BY <1>10 DEF SlotsGetTheirType, Open, Turn, nameVars, slotVars, messageVars, clientVars
  <1>11. ASSUME NEW c \in Clients, JoinClient(c)
       PROVE  SlotsGetTheirType'
    BY <1>11 DEF SlotsGetTheirType, JoinClient, nameVars, clientVars, slotVars, messageVars
  <1>12. ASSUME NEW c \in Clients, AsyncRegister(c)
       PROVE  SlotsGetTheirType'
    <2>1. "response" \in MessageTypes /\ c \in Objects
      BY EndpointSetupAssumption DEF Objects
    <2> DEFINE id0 == typeIdentifier(reg[Program(c)], "response")
    <2>2. id0 \in Identifiers /\ reg[Program(c)].m_ctors[id0] = "response" /\ reg' = reg
      BY <1>12, <2>1, IdentifierTyped DEF AsyncRegister, Program
    <2>3. slots' = slots \/
          /\ \A x \in Objects : x # c => slots'[x] = slots[x]
          /\ \A id \in Identifiers : slots'[c][id] = IF id = id0 THEN "response" ELSE slots[c][id]
      BY <1>12, <2>1, SlotDoes DEF AsyncRegister
    <2> HIDE DEF id0
    <2>4. QED
      BY <2>1, <2>2, <2>3 DEF SlotsGetTheirType
  <1>13. ASSUME NEW c \in Clients, AsyncSend(c)
       PROVE  SlotsGetTheirType'
    BY <1>13 DEF SlotsGetTheirType, AsyncSend, Put, nameVars, clientVars, slotVars
  <1>14. ASSUME NEW c \in Clients, Answer(c)
       PROVE  SlotsGetTheirType'
    BY <1>14 DEF SlotsGetTheirType, Answer, Put, nameVars, clientVars, slotVars
  <1>15. ASSUME NEW o \in Objects, BeginDestroy(o)
       PROVE  SlotsGetTheirType'
    BY <1>15 DEF SlotsGetTheirType, BeginDestroy, nameVars, clientVars, slotVars, messageVars
  <1>16. ASSUME NEW o \in Objects, RegisterExceptionHandler(o)
       PROVE  SlotsGetTheirType'
    BY <1>16 DEF SlotsGetTheirType, RegisterExceptionHandler, nameVars, clientVars, messageVars
  <1>17. ASSUME NEW o \in Objects, Construct(o)
       PROVE  SlotsGetTheirType'
    BY <1>17, ReceiveDoes DEF SlotsGetTheirType
  <1>18. ASSUME NEW o \in Objects, FindSlot(o)
       PROVE  SlotsGetTheirType'
    BY <1>18, ReceiveDoes DEF SlotsGetTheirType
  <1>19. ASSUME NEW o \in Objects, Catch(o)
       PROVE  SlotsGetTheirType'
    BY <1>19, ReceiveDoes DEF SlotsGetTheirType
  <1>20. ASSUME NEW o \in Objects, HandlerReturns(o)
       PROVE  SlotsGetTheirType'
    BY <1>20, ReceiveDoes DEF SlotsGetTheirType
  <1>21. CASE UNCHANGED vars
    BY <1>21 DEF SlotsGetTheirType, vars
  <1>22. QED
    BY <1>1, <1>2, <1>3, <1>4, <1>5, <1>6, <1>7, <1>8, <1>9, <1>10, <1>11, <1>12, <1>13, <1>14,
       <1>15, <1>16, <1>17, <1>18, <1>19, <1>20, <1>21
    DEF Next, ServerStep, ClientStep, Receive

LEMMA MappedStep ==
    ASSUME Types, RegistryInv, MappedInv, BoxInv, ThreadInv, [Next]_vars
    PROVE  MappedInv'
  <1>1. ASSUME NEW p \in {"server", "client"}, RegisterMessageType(p)
       PROVE  MappedInv'
    BY <1>1, EndpointSetupAssumption
    DEF MappedInv, Types, Objects, RegisterMessageType, nameVars, clientVars, messageVars
  <1>2. ASSUME NEW s \in Servers, RemoveOldName(s)
       PROVE  MappedInv'
    BY <1>2, EndpointSetupAssumption
    DEF MappedInv, Types, Objects, RemoveOldName, clientVars, slotVars, messageVars, Turn
  <1>3. ASSUME NEW s \in Servers, CreateSegment(s)
       PROVE  MappedInv'
    BY <1>3, EndpointSetupAssumption
    DEF MappedInv, Types, Objects, CreateSegment, clientVars, slotVars, messageVars
  <1>4. ASSUME NEW s \in Servers, Truncate(s)
       PROVE  MappedInv'
    BY <1>4, EndpointSetupAssumption
    DEF MappedInv, Types, Objects, Truncate, clientVars, slotVars, messageVars
  <1>5. ASSUME NEW s \in Servers, ConstructShared(s)
       PROVE  MappedInv'
    BY <1>5, EndpointSetupAssumption
    DEF MappedInv, Types, Objects, ConstructShared, clientVars, slotVars, messageVars
  <1>6. ASSUME NEW s \in Servers, JoinServer(s)
       PROVE  MappedInv'
    BY <1>6, EndpointSetupAssumption
    DEF MappedInv, Types, Objects, JoinServer, clientVars, slotVars, messageVars
  <1>7. ASSUME NEW s \in Servers, RemoveName(s)
       PROVE  MappedInv'
    BY <1>7, EndpointSetupAssumption
    DEF MappedInv, Types, Objects, RemoveName, clientVars, slotVars, messageVars
  <1>8. ASSUME NEW s \in Servers, Crash(s)
       PROVE  MappedInv'
    BY <1>8, EndpointSetupAssumption
    DEF MappedInv, Types, Objects, Crash, clientVars, slotVars, messageVars
  <1>9. ASSUME NEW s \in Servers, RegisterAction(s)
       PROVE  MappedInv'
    BY <1>9, EndpointSetupAssumption
    DEF MappedInv, Types, Objects, RegisterAction, registerSlot, nameVars, clientVars
  <1>10. ASSUME NEW c \in Clients, Open(c)
       PROVE  MappedInv'
    <2>1. /\ thread' = thread /\ call' = call
          /\ pc' = [pc EXCEPT ![c] = pc'[c]] /\ pc[c] = "new"
          /\ pc'[c] \in {"up", "failed", "undefined"}
      BY <1>10 DEF Open, Turn, messageVars, Types, Objects
    <2>2. \A x \in Clients : x # c => mapped'[x] = mapped[x] /\ address'[x] = address[x]
      BY <1>10 DEF Open, clientVars, Types
    <2>3. pc'[c] # "failed" => mapped'[c] \in Servers /\ address'[c] \in Addresses
      BY <1>10 DEF Open, Types, Objects
    <2>4. QED
      BY <2>1, <2>2, <2>3 DEF MappedInv, Types, Objects
  <1>11. ASSUME NEW c \in Clients, JoinClient(c)
       PROVE  MappedInv'
    BY <1>11, EndpointSetupAssumption
    DEF MappedInv, Types, Objects, JoinClient, nameVars, clientVars, slotVars, messageVars
  <1>12. ASSUME NEW c \in Clients, AsyncRegister(c)
       PROVE  MappedInv'
    <2>1. pc' = pc /\ mapped' = mapped /\ address' = address /\ pc[c] = "up"
      BY <1>12 DEF AsyncRegister, clientVars
    <2>2. \A x \in Clients : x # c => thread'[x] = thread[x] /\ call'[x] = call[x]
      BY <1>12 DEF AsyncRegister, registerSlot, Types, Objects
    <2>3. QED
      BY <2>1, <2>2 DEF MappedInv
  <1>13. ASSUME NEW c \in Clients, AsyncSend(c)
       PROVE  MappedInv'
    BY <1>13, EndpointSetupAssumption
    DEF MappedInv, Types, Objects, AsyncSend, Put, nameVars, clientVars, slotVars
  <1>14. ASSUME NEW c \in Clients, Answer(c)
       PROVE  MappedInv'
    BY <1>14, EndpointSetupAssumption
    DEF MappedInv, Types, Objects, Answer, Put, nameVars, clientVars, slotVars
  <1>15. ASSUME NEW o \in Objects, BeginDestroy(o)
       PROVE  MappedInv'
    BY <1>15, EndpointSetupAssumption
    DEF MappedInv, Types, Objects, BeginDestroy, nameVars, clientVars, slotVars, messageVars
  <1>16. ASSUME NEW o \in Objects, RegisterExceptionHandler(o)
       PROVE  MappedInv'
    BY <1>16, EndpointSetupAssumption
    DEF MappedInv, Types, Objects, RegisterExceptionHandler, nameVars, clientVars, messageVars
  <1>17. ASSUME NEW o \in Objects, Construct(o)
       PROVE  MappedInv'
    BY <1>17, ReceiveDoes, MessageThere DEF MappedInv, Objects
  <1>18. ASSUME NEW o \in Objects, FindSlot(o)
       PROVE  MappedInv'
    BY <1>18, ReceiveDoes, MessageThere DEF MappedInv, Objects
  <1>19. ASSUME NEW o \in Objects, Catch(o)
       PROVE  MappedInv'
    BY <1>19, ReceiveDoes, MessageThere DEF MappedInv, Objects
  <1>20. ASSUME NEW o \in Objects, HandlerReturns(o)
       PROVE  MappedInv'
    BY <1>20, ReceiveDoes, MessageThere DEF MappedInv, Objects
  <1>21. CASE UNCHANGED vars
    BY <1>21, EndpointSetupAssumption DEF MappedInv, Types, Objects, vars
  <1>22. QED
    BY <1>1, <1>2, <1>3, <1>4, <1>5, <1>6, <1>7, <1>8, <1>9, <1>10, <1>11, <1>12, <1>13, <1>14,
       <1>15, <1>16, <1>17, <1>18, <1>19, <1>20, <1>21
    DEF Next, ServerStep, ClientStep, Receive

LEMMA BoxStep ==
    ASSUME Types, RegistryInv, MappedInv, BoxInv, ThreadInv, FreshInv, [Next]_vars
    PROVE  BoxInv'
  <1>1. ASSUME NEW p \in {"server", "client"}, RegisterMessageType(p)
       PROVE  BoxInv'
    BY <1>1, EndpointSetupAssumption
    DEF BoxInv, RegisterMessageType, nameVars, clientVars, messageVars
  <1>2. ASSUME NEW s \in Servers, RemoveOldName(s)
       PROVE  BoxInv'
    BY <1>2, EndpointSetupAssumption
    DEF BoxInv, RemoveOldName, clientVars, slotVars, messageVars, Turn
  <1>3. ASSUME NEW s \in Servers, CreateSegment(s)
       PROVE  BoxInv'
    BY <1>3, EndpointSetupAssumption DEF BoxInv, CreateSegment, clientVars, slotVars, messageVars
  <1>4. ASSUME NEW s \in Servers, Truncate(s)
       PROVE  BoxInv'
    BY <1>4, EndpointSetupAssumption DEF BoxInv, Truncate, clientVars, slotVars, messageVars
  <1>5. ASSUME NEW s \in Servers, ConstructShared(s)
       PROVE  BoxInv'
    BY <1>5, EndpointSetupAssumption
    DEF BoxInv, ConstructShared, clientVars, slotVars, messageVars
  <1>6. ASSUME NEW s \in Servers, JoinServer(s)
       PROVE  BoxInv'
    BY <1>6, EndpointSetupAssumption DEF BoxInv, JoinServer, clientVars, slotVars, messageVars
  <1>7. ASSUME NEW s \in Servers, RemoveName(s)
       PROVE  BoxInv'
    BY <1>7, EndpointSetupAssumption DEF BoxInv, RemoveName, clientVars, slotVars, messageVars
  <1>8. ASSUME NEW s \in Servers, Crash(s)
       PROVE  BoxInv'
    BY <1>8, EndpointSetupAssumption DEF BoxInv, Crash, clientVars, slotVars, messageVars
  <1>9. ASSUME NEW s \in Servers, RegisterAction(s)
       PROVE  BoxInv'
    BY <1>9, EndpointSetupAssumption
    DEF BoxInv, RegisterAction, registerSlot, nameVars, clientVars
  <1>10. ASSUME NEW c \in Clients, Open(c)
       PROVE  BoxInv'
    <2>1. box' = box /\ call' = call /\ call[c] = "none"
      BY <1>10 DEF Open, messageVars, Turn, FreshInv, Objects
    <2>2. \A x \in Clients : x # c => mapped'[x] = mapped[x]
      BY <1>10 DEF Open, clientVars, Types
    <2>3. \A b \in Boxes : box[b] # Nothing => box[b].call \in Clients
      BY DEF Types, BoxInv
    <2>4. QED
      BY <2>1, <2>2, <2>3 DEF BoxInv, Boxes
  <1>11. ASSUME NEW c \in Clients, JoinClient(c)
       PROVE  BoxInv'
    BY <1>11, EndpointSetupAssumption
    DEF BoxInv, JoinClient, nameVars, clientVars, slotVars, messageVars
  <1>12. ASSUME NEW c \in Clients, AsyncRegister(c)
       PROVE  BoxInv'
    <2>1. mapped' = mapped /\ box' = box /\ \A x \in Clients : call[x] # "none" =>
          call'[x] # "none"
      BY <1>12 DEF AsyncRegister, clientVars, Types
    <2>2. \A b \in Boxes : box[b] # Nothing => box[b].call \in Clients
      BY DEF Types, BoxInv
    <2>3. QED
      BY <2>1, <2>2 DEF BoxInv, Boxes
  <1>13. ASSUME NEW c \in Clients, AsyncSend(c)
       PROVE  BoxInv'
    <2>1. PICK way \in {"request", "response"} :
            /\ \A x \in Boxes : x # <<mapped[c], way>> => box'[x] = box[x]
            /\ box'[<<mapped[c], way>>].call = c
      BY <1>13, SendDoes
    <2>2. DOMAIN box' = Boxes /\ mapped[c] \in Servers
      BY <1>13, SendDoes
    <2>3. mapped' = mapped /\ \A x \in Clients : call[x] # "none" => call'[x] # "none"
      BY <1>13 DEF AsyncSend, clientVars, Types
    <2>4. call'[c] # "none"
      BY <1>13 DEF AsyncSend, Types
    <2>5. ASSUME NEW s \in Servers, NEW w \in {"request", "response"}, box'[<<s, w>>] # Nothing
          PROVE  mapped'[box'[<<s, w>>].call] = s /\ call'[box'[<<s, w>>].call] # "none"
      <3>1. CASE <<s, w>> = <<mapped[c], way>>
        BY <2>1, <2>3, <2>4, <3>1
      <3>2. CASE <<s, w>> # <<mapped[c], way>>
        <4>1. <<s, w>> \in Boxes
          BY DEF Boxes
        <4>2. box'[<<s, w>>] = box[<<s, w>>] /\ box[<<s, w>>].call \in Clients
          BY <2>1, <2>5, <3>2, <4>1 DEF Types, BoxInv
        <4>3. mapped[box[<<s, w>>].call] = s /\ call[box[<<s, w>>].call] # "none"
          BY <2>5, <4>2 DEF BoxInv
        <4>4. QED
          BY <2>3, <4>2, <4>3
      <3>3. QED
        BY <3>1, <3>2
    <2>6. QED
      BY <2>2, <2>5 DEF BoxInv
  <1>14. ASSUME NEW c \in Clients, Answer(c)
       PROVE  BoxInv'
    <2>1. PICK way \in {"request", "response"} :
            /\ \A x \in Boxes : x # <<mapped[c], way>> => box'[x] = box[x]
            /\ box'[<<mapped[c], way>>].call = c
      BY <1>14, SendDoes
    <2>2. DOMAIN box' = Boxes /\ mapped[c] \in Servers
      BY <1>14, SendDoes
    <2>3. mapped' = mapped /\ \A x \in Clients : call[x] # "none" => call'[x] # "none"
      BY <1>14 DEF Answer, clientVars, Types
    <2>4. call'[c] # "none"
      BY <1>14 DEF Answer, Types
    <2>5. ASSUME NEW s \in Servers, NEW w \in {"request", "response"}, box'[<<s, w>>] # Nothing
          PROVE  mapped'[box'[<<s, w>>].call] = s /\ call'[box'[<<s, w>>].call] # "none"
      <3>1. CASE <<s, w>> = <<mapped[c], way>>
        BY <2>1, <2>3, <2>4, <3>1
      <3>2. CASE <<s, w>> # <<mapped[c], way>>
        <4>1. <<s, w>> \in Boxes
          BY DEF Boxes
        <4>2. box'[<<s, w>>] = box[<<s, w>>] /\ box[<<s, w>>].call \in Clients
          BY <2>1, <2>5, <3>2, <4>1 DEF Types, BoxInv
        <4>3. mapped[box[<<s, w>>].call] = s /\ call[box[<<s, w>>].call] # "none"
          BY <2>5, <4>2 DEF BoxInv
        <4>4. QED
          BY <2>3, <4>2, <4>3
      <3>3. QED
        BY <3>1, <3>2
    <2>6. QED
      BY <2>2, <2>5 DEF BoxInv
  <1>15. ASSUME NEW o \in Objects, BeginDestroy(o)
       PROVE  BoxInv'
    BY <1>15, EndpointSetupAssumption
    DEF BoxInv, BeginDestroy, nameVars, clientVars, slotVars, messageVars
  <1>16. ASSUME NEW o \in Objects, RegisterExceptionHandler(o)
       PROVE  BoxInv'
    BY <1>16, EndpointSetupAssumption
    DEF BoxInv, RegisterExceptionHandler, nameVars, clientVars, messageVars
  <1>17. ASSUME NEW o \in Objects, Construct(o)
       PROVE  BoxInv'
    <2>1. \A b \in Boxes : box'[b] # Nothing => box'[b] = box[b]
      BY <1>17, ReceiveDoes
    <2>2. DOMAIN box' = Boxes /\ mapped' = mapped /\ \A x \in Clients : call[x] # "none" =>
          call'[x] # "none"
      BY <1>17, ReceiveDoes
    <2>3. \A b \in Boxes : box[b] # Nothing => box[b].call \in Clients
      BY DEF Types, BoxInv
    <2>4. QED
      BY <2>1, <2>2, <2>3 DEF BoxInv, Boxes
  <1>18. ASSUME NEW o \in Objects, FindSlot(o)
       PROVE  BoxInv'
    <2>1. \A b \in Boxes : box'[b] # Nothing => box'[b] = box[b]
      BY <1>18, ReceiveDoes
    <2>2. DOMAIN box' = Boxes /\ mapped' = mapped /\ \A x \in Clients : call[x] # "none" =>
          call'[x] # "none"
      BY <1>18, ReceiveDoes
    <2>3. \A b \in Boxes : box[b] # Nothing => box[b].call \in Clients
      BY DEF Types, BoxInv
    <2>4. QED
      BY <2>1, <2>2, <2>3 DEF BoxInv, Boxes
  <1>19. ASSUME NEW o \in Objects, Catch(o)
       PROVE  BoxInv'
    <2>1. \A b \in Boxes : box'[b] # Nothing => box'[b] = box[b]
      BY <1>19, ReceiveDoes
    <2>2. DOMAIN box' = Boxes /\ mapped' = mapped /\ \A x \in Clients : call[x] # "none" =>
          call'[x] # "none"
      BY <1>19, ReceiveDoes
    <2>3. \A b \in Boxes : box[b] # Nothing => box[b].call \in Clients
      BY DEF Types, BoxInv
    <2>4. QED
      BY <2>1, <2>2, <2>3 DEF BoxInv, Boxes
  <1>20. ASSUME NEW o \in Objects, HandlerReturns(o)
       PROVE  BoxInv'
    <2>1. \A b \in Boxes : box'[b] # Nothing => box'[b] = box[b]
      BY <1>20, ReceiveDoes
    <2>2. DOMAIN box' = Boxes /\ mapped' = mapped /\ \A x \in Clients : call[x] # "none" =>
          call'[x] # "none"
      BY <1>20, ReceiveDoes
    <2>3. \A b \in Boxes : box[b] # Nothing => box[b].call \in Clients
      BY DEF Types, BoxInv
    <2>4. QED
      BY <2>1, <2>2, <2>3 DEF BoxInv, Boxes
  <1>21. CASE UNCHANGED vars
    BY <1>21, EndpointSetupAssumption DEF BoxInv, vars
  <1>22. QED
    BY <1>1, <1>2, <1>3, <1>4, <1>5, <1>6, <1>7, <1>8, <1>9, <1>10, <1>11, <1>12, <1>13, <1>14,
       <1>15, <1>16, <1>17, <1>18, <1>19, <1>20, <1>21
    DEF Next, ServerStep, ClientStep, Receive

LEMMA ThreadStep ==
    ASSUME Types, RegistryInv, MappedInv, BoxInv, ThreadInv, FreshInv, [Next]_vars
    PROVE  ThreadInv'
  <1>1. ASSUME NEW p \in {"server", "client"}, RegisterMessageType(p)
       PROVE  ThreadInv'
    BY <1>1 DEF ThreadInv, Inbox, RegisterMessageType, nameVars, clientVars, messageVars
  <1>2. ASSUME NEW s \in Servers, RemoveOldName(s)
       PROVE  ThreadInv'
    BY <1>2 DEF ThreadInv, Inbox, RemoveOldName, clientVars, slotVars, messageVars, Turn
  <1>3. ASSUME NEW s \in Servers, CreateSegment(s)
       PROVE  ThreadInv'
    BY <1>3 DEF ThreadInv, Inbox, CreateSegment, clientVars, slotVars, messageVars
  <1>4. ASSUME NEW s \in Servers, Truncate(s)
       PROVE  ThreadInv'
    BY <1>4 DEF ThreadInv, Inbox, Truncate, clientVars, slotVars, messageVars
  <1>5. ASSUME NEW s \in Servers, ConstructShared(s)
       PROVE  ThreadInv'
    BY <1>5 DEF ThreadInv, Inbox, ConstructShared, clientVars, slotVars, messageVars
  <1>6. ASSUME NEW s \in Servers, JoinServer(s)
       PROVE  ThreadInv'
    BY <1>6 DEF ThreadInv, Inbox, JoinServer, clientVars, slotVars, messageVars
  <1>7. ASSUME NEW s \in Servers, RemoveName(s)
       PROVE  ThreadInv'
    BY <1>7 DEF ThreadInv, Inbox, RemoveName, clientVars, slotVars, messageVars
  <1>8. ASSUME NEW s \in Servers, Crash(s)
       PROVE  ThreadInv'
    BY <1>8 DEF ThreadInv, Inbox, Crash, clientVars, slotVars, messageVars
  <1>9. ASSUME NEW s \in Servers, RegisterAction(s)
       PROVE  ThreadInv'
    <2>1. box' = box /\ \A x \in Objects : Inbox(x)' = Inbox(x)
      BY <1>9 DEF RegisterAction, Inbox, clientVars
    <2>2. \A x \in Objects : thread'[x] = "waits" <=> thread[x] = "waits"
      BY <1>9 DEF RegisterAction, registerSlot, Types, Objects
    <2>3. QED
      BY <2>1, <2>2 DEF ThreadInv
  <1>10. ASSUME NEW c \in Clients, Open(c)
       PROVE  ThreadInv'
    <2>1. box' = box /\ thread' = thread /\ thread[c] = "waits"
      BY <1>10 DEF Open, messageVars, Turn, FreshInv, Objects
    <2>2. \A x \in Objects : x # c => Inbox(x)' = Inbox(x)
      BY <1>10 DEF Open, clientVars, Types, Inbox, Objects
    <2>3. QED
      BY <2>1, <2>2 DEF ThreadInv
  <1>11. ASSUME NEW c \in Clients, JoinClient(c)
       PROVE  ThreadInv'
    BY <1>11 DEF ThreadInv, Inbox, JoinClient, nameVars, clientVars, slotVars, messageVars
  <1>12. ASSUME NEW c \in Clients, AsyncRegister(c)
       PROVE  ThreadInv'
    <2>1. box' = box /\ \A x \in Objects : Inbox(x)' = Inbox(x)
      BY <1>12 DEF AsyncRegister, Inbox, clientVars
    <2>2. \A x \in Objects : thread'[x] = "waits" <=> thread[x] = "waits"
      BY <1>12 DEF AsyncRegister, registerSlot, Types, Objects
    <2>3. QED
      BY <2>1, <2>2 DEF ThreadInv
  <1>13. ASSUME NEW c \in Clients, AsyncSend(c)
       PROVE  ThreadInv'
    <2>1. /\ thread' = thread /\ \A x \in Objects : Inbox(x)' = Inbox(x)
      BY <1>13 DEF AsyncSend, Inbox, clientVars
    <2>2. \A b \in Boxes : box[b] # Nothing => box'[b] # Nothing
      BY <1>13, SendDoes
    <2>3. \A x \in Objects : thread[x] # "waits" => Inbox(x) \in Boxes
      BY DEF Inbox, Boxes, Objects, MappedInv
    <2>4. QED
      BY <2>1, <2>2, <2>3 DEF ThreadInv
  <1>14. ASSUME NEW c \in Clients, Answer(c)
       PROVE  ThreadInv'
    <2>1. /\ thread' = thread /\ \A x \in Objects : Inbox(x)' = Inbox(x)
      BY <1>14 DEF Answer, Inbox, clientVars
    <2>2. \A b \in Boxes : box[b] # Nothing => box'[b] # Nothing
      BY <1>14, SendDoes
    <2>3. \A x \in Objects : thread[x] # "waits" => Inbox(x) \in Boxes
      BY DEF Inbox, Boxes, Objects, MappedInv
    <2>4. QED
      BY <2>1, <2>2, <2>3 DEF ThreadInv
  <1>15. ASSUME NEW o \in Objects, BeginDestroy(o)
       PROVE  ThreadInv'
    BY <1>15 DEF ThreadInv, Inbox, BeginDestroy, nameVars, clientVars, slotVars, messageVars
  <1>16. ASSUME NEW o \in Objects, RegisterExceptionHandler(o)
       PROVE  ThreadInv'
    BY <1>16 DEF ThreadInv, Inbox, RegisterExceptionHandler, nameVars, clientVars, messageVars
  <1>17. ASSUME NEW o \in Objects, Construct(o)
       PROVE  ThreadInv'
    <2>1. /\ \A x \in Objects : Inbox(x)' = Inbox(x)
          /\ \A x \in Objects : x # o => thread'[x] = thread[x]
          /\ \A x \in Objects : x # o /\ Inbox(x) = Inbox(o) => thread[x] = "waits"
          /\ box[Inbox(o)] # Nothing
          /\ box' = box \/ thread'[o] = "waits"
      BY <1>17, ReceiveDoes, MessageThere DEF Inbox, Construct, Free
    <2>2. \A x \in Objects : thread[x] # "waits" /\ x # o => box'[Inbox(x)] # Nothing
      <3> SUFFICES ASSUME NEW x \in Objects, thread[x] # "waits", x # o
                   PROVE  box'[Inbox(x)] # Nothing
        OBVIOUS
      <3>1. Inbox(x) # Inbox(o) /\ box[Inbox(x)] # Nothing
        BY <2>1 DEF ThreadInv
      <3>2. x \in Servers \/ (x \in Clients /\ mapped[x] \in Servers)
        BY DEF Objects, MappedInv
      <3>3. Inbox(x) \in Boxes
        BY <3>2 DEF Inbox, Boxes
      <3>4. QED
        BY <1>17, <3>1, <3>3, ReceiveDoes
    <2>3. QED
      BY <2>1, <2>2 DEF ThreadInv
  <1>18. ASSUME NEW o \in Objects, FindSlot(o)
       PROVE  ThreadInv'
    <2>1. /\ \A x \in Objects : Inbox(x)' = Inbox(x)
          /\ \A x \in Objects : x # o => thread'[x] = thread[x]
          /\ \A x \in Objects : x # o /\ Inbox(x) = Inbox(o) => thread[x] = "waits"
          /\ box[Inbox(o)] # Nothing
          /\ box' = box \/ thread'[o] = "waits"
      BY <1>18, ReceiveDoes, MessageThere DEF Inbox, FindSlot, ThreadInv
    <2>2. \A x \in Objects : thread[x] # "waits" /\ x # o => box'[Inbox(x)] # Nothing
      <3> SUFFICES ASSUME NEW x \in Objects, thread[x] # "waits", x # o
                   PROVE  box'[Inbox(x)] # Nothing
        OBVIOUS
      <3>1. Inbox(x) # Inbox(o) /\ box[Inbox(x)] # Nothing
        BY <2>1 DEF ThreadInv
      <3>2. x \in Servers \/ (x \in Clients /\ mapped[x] \in Servers)
        BY DEF Objects, MappedInv
      <3>3. Inbox(x) \in Boxes
        BY <3>2 DEF Inbox, Boxes
      <3>4. QED
        BY <1>18, <3>1, <3>3, ReceiveDoes
    <2>3. QED
      BY <2>1, <2>2 DEF ThreadInv
  <1>19. ASSUME NEW o \in Objects, Catch(o)
       PROVE  ThreadInv'
    <2>1. /\ \A x \in Objects : Inbox(x)' = Inbox(x)
          /\ \A x \in Objects : x # o => thread'[x] = thread[x]
          /\ \A x \in Objects : x # o /\ Inbox(x) = Inbox(o) => thread[x] = "waits"
          /\ box[Inbox(o)] # Nothing
          /\ box' = box \/ thread'[o] = "waits"
      BY <1>19, ReceiveDoes, MessageThere DEF Inbox, Catch, ThreadInv
    <2>2. \A x \in Objects : thread[x] # "waits" /\ x # o => box'[Inbox(x)] # Nothing
      <3> SUFFICES ASSUME NEW x \in Objects, thread[x] # "waits", x # o
                   PROVE  box'[Inbox(x)] # Nothing
        OBVIOUS
      <3>1. Inbox(x) # Inbox(o) /\ box[Inbox(x)] # Nothing
        BY <2>1 DEF ThreadInv
      <3>2. x \in Servers \/ (x \in Clients /\ mapped[x] \in Servers)
        BY DEF Objects, MappedInv
      <3>3. Inbox(x) \in Boxes
        BY <3>2 DEF Inbox, Boxes
      <3>4. QED
        BY <1>19, <3>1, <3>3, ReceiveDoes
    <2>3. QED
      BY <2>1, <2>2 DEF ThreadInv
  <1>20. ASSUME NEW o \in Objects, HandlerReturns(o)
       PROVE  ThreadInv'
    <2>1. /\ \A x \in Objects : Inbox(x)' = Inbox(x)
          /\ \A x \in Objects : x # o => thread'[x] = thread[x]
          /\ \A x \in Objects : x # o /\ Inbox(x) = Inbox(o) => thread[x] = "waits"
          /\ box[Inbox(o)] # Nothing
          /\ box' = box \/ thread'[o] = "waits"
      BY <1>20, ReceiveDoes, MessageThere DEF Inbox, HandlerReturns, ThreadInv
    <2>2. \A x \in Objects : thread[x] # "waits" /\ x # o => box'[Inbox(x)] # Nothing
      <3> SUFFICES ASSUME NEW x \in Objects, thread[x] # "waits", x # o
                   PROVE  box'[Inbox(x)] # Nothing
        OBVIOUS
      <3>1. Inbox(x) # Inbox(o) /\ box[Inbox(x)] # Nothing
        BY <2>1 DEF ThreadInv
      <3>2. x \in Servers \/ (x \in Clients /\ mapped[x] \in Servers)
        BY DEF Objects, MappedInv
      <3>3. Inbox(x) \in Boxes
        BY <3>2 DEF Inbox, Boxes
      <3>4. QED
        BY <1>20, <3>1, <3>3, ReceiveDoes
    <2>3. QED
      BY <2>1, <2>2 DEF ThreadInv
  <1>21. CASE UNCHANGED vars
    BY <1>21 DEF ThreadInv, Inbox, vars
  <1>22. QED
    BY <1>1, <1>2, <1>3, <1>4, <1>5, <1>6, <1>7, <1>8, <1>9, <1>10, <1>11, <1>12, <1>13, <1>14,
       <1>15, <1>16, <1>17, <1>18, <1>19, <1>20, <1>21
    DEF Next, ServerStep, ClientStep, Receive

LEMMA AddressStep ==
    ASSUME Types, RegistryInv, MappedInv, BoxInv, ThreadInv, FreshInv, AddressInv, [Next]_vars
    PROVE  AddressInv'
  <1>1. ASSUME NEW p \in {"server", "client"}, RegisterMessageType(p)
       PROVE  AddressInv'
    BY <1>1, EndpointSetupAssumption
    DEF AddressInv, Live, Types, Objects, RegisterMessageType, nameVars, clientVars, messageVars
  <1>2. ASSUME NEW s \in Servers, RemoveOldName(s)
       PROVE  AddressInv'
    BY <1>2, EndpointSetupAssumption
    DEF AddressInv, Live, Types, Objects, RemoveOldName, clientVars, slotVars, messageVars, Turn
  <1>3. ASSUME NEW s \in Servers, CreateSegment(s)
       PROVE  AddressInv'
    BY <1>3, EndpointSetupAssumption
    DEF AddressInv, Live, Types, Objects, CreateSegment, clientVars, slotVars, messageVars
  <1>4. ASSUME NEW s \in Servers, Truncate(s)
       PROVE  AddressInv'
    BY <1>4, EndpointSetupAssumption
    DEF AddressInv, Live, Types, Objects, Truncate, clientVars, slotVars, messageVars
  <1>5. ASSUME NEW s \in Servers, ConstructShared(s)
       PROVE  AddressInv'
    BY <1>5, EndpointSetupAssumption
    DEF AddressInv, Live, Types, Objects, ConstructShared, clientVars, slotVars, messageVars
  <1>6. ASSUME NEW s \in Servers, JoinServer(s)
       PROVE  AddressInv'
    BY <1>6, EndpointSetupAssumption
    DEF AddressInv, Live, Types, Objects, JoinServer, clientVars, slotVars, messageVars
  <1>7. ASSUME NEW s \in Servers, RemoveName(s)
       PROVE  AddressInv'
    BY <1>7, EndpointSetupAssumption
    DEF AddressInv, Live, Types, Objects, RemoveName, clientVars, slotVars, messageVars
  <1>8. ASSUME NEW s \in Servers, Crash(s)
       PROVE  AddressInv'
    BY <1>8, EndpointSetupAssumption
    DEF AddressInv, Live, Types, Objects, Crash, clientVars, slotVars, messageVars
  <1>9. ASSUME NEW s \in Servers, RegisterAction(s)
       PROVE  AddressInv'
    BY <1>9, EndpointSetupAssumption
    DEF AddressInv, Live, Types, Objects, RegisterAction, registerSlot, nameVars, clientVars
  <1>10. ASSUME NEW c \in Clients, Open(c)
       PROVE  AddressInv'
    <2>1. /\ UNCHANGED <<endpoints, call>> /\ call[c] = "none"
          /\ \A x \in Clients : x # c => address'[x] = address[x]
      BY <1>10 DEF Open, Turn, clientVars, slotVars, messageVars, Types, FreshInv, Objects
    <2>2. \A x \in Clients : x \in Live' => x = c \/ x \in Live
      BY <1>10, OpenKeeps DEF Live, Objects
    <2>3. reused \subseteq reused'
      BY <1>10 DEF Open, clientVars
    <2>4. address' = address \/ \A d \in Live : d # c => address'[c] # address[d]
      <3>1. CASE UNCHANGED clientVars
        BY <3>1 DEF clientVars
      <3>2. CASE ~UNCHANGED clientVars
        <4>1. PICK at \in Addresses \ {address[d] : d \in Live} : address' = [address EXCEPT ![c] = at]
          BY <1>10, <3>2 DEF Open
        <4>2. address'[c] = at
          BY <4>1 DEF Types
        <4>3. QED
          BY <4>1, <4>2
      <3>3. QED
        BY <3>1, <3>2
    <2>5. c \in Live' => \A d \in Clients : d # c /\ address'[c] = address[d] => c \in reused'
      BY <1>10, OpenKeeps DEF Open, Live, Types, Objects
    <2>6. QED
      BY <2>1, <2>2, <2>3, <2>4, <2>5 DEF AddressInv, Live
  <1>11. ASSUME NEW c \in Clients, JoinClient(c)
       PROVE  AddressInv'
    BY <1>11, EndpointSetupAssumption
    DEF AddressInv, Live, Types, Objects, JoinClient, nameVars, clientVars, slotVars, messageVars
  <1>12. ASSUME NEW c \in Clients, AsyncRegister(c)
       PROVE  AddressInv'
    <2>1. /\ UNCHANGED <<address, reused, pc>> /\ endpoints' = endpoints \union {address[c]}
          /\ call'[c] # "none" /\ \A d \in Clients : d # c => call'[d] = call[d]
      BY <1>12 DEF AsyncRegister, clientVars, Types
    <2>2. QED
      BY <2>1 DEF AddressInv, Live
  <1>13. ASSUME NEW c \in Clients, AsyncSend(c)
       PROVE  AddressInv'
    BY <1>13, EndpointSetupAssumption
    DEF AddressInv, Live, Types, Objects, AsyncSend, Put, nameVars, clientVars, slotVars
  <1>14. ASSUME NEW c \in Clients, Answer(c)
       PROVE  AddressInv'
    BY <1>14, EndpointSetupAssumption
    DEF AddressInv, Live, Types, Objects, Answer, Put, nameVars, clientVars, slotVars
  <1>15. ASSUME NEW o \in Objects, BeginDestroy(o)
       PROVE  AddressInv'
    BY <1>15, EndpointSetupAssumption
    DEF AddressInv, Live, Types, Objects, BeginDestroy, nameVars, clientVars, slotVars,
        messageVars
  <1>16. ASSUME NEW o \in Objects, RegisterExceptionHandler(o)
       PROVE  AddressInv'
    BY <1>16, EndpointSetupAssumption
    DEF AddressInv, Live, Types, Objects, RegisterExceptionHandler, nameVars, clientVars,
        messageVars
  <1>17. ASSUME NEW o \in Objects, Construct(o)
       PROVE  AddressInv'
    <2>1. /\ UNCHANGED <<address, reused, endpoints>>
          /\ \A d \in Clients : call[d] # "none" => call'[d] # "none"
          /\ Live' \subseteq Live
      BY <1>17, ReceiveDoes DEF Live, Objects
    <2>2. QED
      BY <2>1 DEF AddressInv, Live
  <1>18. ASSUME NEW o \in Objects, FindSlot(o)
       PROVE  AddressInv'
    <2>1. /\ UNCHANGED <<address, reused, endpoints>>
          /\ \A d \in Clients : call[d] # "none" => call'[d] # "none"
          /\ Live' \subseteq Live
      BY <1>18, ReceiveDoes DEF Live, Objects
    <2>2. QED
      BY <2>1 DEF AddressInv, Live
  <1>19. ASSUME NEW o \in Objects, Catch(o)
       PROVE  AddressInv'
    <2>1. /\ UNCHANGED <<address, reused, endpoints>>
          /\ \A d \in Clients : call[d] # "none" => call'[d] # "none"
          /\ Live' \subseteq Live
      BY <1>19, ReceiveDoes DEF Live, Objects
    <2>2. QED
      BY <2>1 DEF AddressInv, Live
  <1>20. ASSUME NEW o \in Objects, HandlerReturns(o)
       PROVE  AddressInv'
    <2>1. /\ UNCHANGED <<address, reused, endpoints>>
          /\ \A d \in Clients : call[d] # "none" => call'[d] # "none"
          /\ Live' \subseteq Live
      BY <1>20, ReceiveDoes DEF Live, Objects
    <2>2. QED
      BY <2>1 DEF AddressInv, Live
  <1>21. CASE UNCHANGED vars
    BY <1>21, EndpointSetupAssumption DEF AddressInv, Live, Types, Objects, vars
  <1>22. QED
    BY <1>1, <1>2, <1>3, <1>4, <1>5, <1>6, <1>7, <1>8, <1>9, <1>10, <1>11, <1>12, <1>13, <1>14,
       <1>15, <1>16, <1>17, <1>18, <1>19, <1>20, <1>21
    DEF Next, ServerStep, ClientStep, Receive

\* While types are as shipped, a program knows each of them under its own identifier, and a
\* receive thread constructs what it gets.
LEMMA ShippedTypes ==
    ASSUME AsShipped, NEW p \in {"server", "client"}, NEW t \in MessageTypes
    PROVE  /\ reg[p] = Shipped /\ typeIdentifier(reg[p], t) = t
           /\ construct(reg[p], serialize(Shipped, t)) = t
  <1>1. reg[p] = Shipped
    BY DEF AsShipped
  <1>2. t # Nothing /\ t \in Identifiers
    BY EndpointSetupAssumption, MessageFactoryAssumption
  <1>3. typeIdentifier(Shipped, t) = t
    BY DEF typeIdentifier, Shipped
  <1>4. Shipped.m_ctors[t] = t
    BY <1>2 DEF Shipped
  <1>5. construct(Shipped, serialize(Shipped, t)) = t
    BY <1>2, <1>3, <1>4 DEF construct, serialize, Consistent
  <1>6. QED
    BY <1>1, <1>3, <1>5

\* Types that are as shipped have been so.
LEMMA ShippedBefore ==
    ASSUME Types, RegistryInv, [Next]_vars, AsShipped'
    PROVE  AsShipped /\ reg' = reg
  <1>1. ASSUME NEW p \in {"server", "client"}, RegisterMessageType(p)
        PROVE  FALSE
    BY <1>1, RegisterKeeps
  <1>2. reg' = reg
    <2>1. ASSUME NEW s \in Servers, ServerStep(s)
          PROVE  reg' = reg
      BY <2>1 DEF ServerStep, RemoveOldName, CreateSegment, Truncate, ConstructShared, JoinServer,
                  RemoveName, Crash, RegisterAction, slotVars
    <2>2. ASSUME NEW c \in Clients, ClientStep(c)
          PROVE  reg' = reg
      BY <2>2 DEF ClientStep, Open, JoinClient, AsyncRegister, AsyncSend, Answer, slotVars
    <2>3. ASSUME NEW o \in Objects, BeginDestroy(o) \/ RegisterExceptionHandler(o) \/ Receive(o)
          PROVE  reg' = reg
      BY <2>3 DEF BeginDestroy, RegisterExceptionHandler, Receive, Construct, FindSlot, Catch,
                  HandlerReturns, slotVars
    <2>4. CASE UNCHANGED vars
      BY <2>4 DEF vars
    <2>5. QED
      BY <1>1, <2>1, <2>2, <2>3, <2>4 DEF Next
  <1>3. QED
    BY <1>2 DEF AsShipped

LEMMA ReadyStep ==
    ASSUME Types, RegistryInv, MappedInv, BoxInv, ThreadInv, FreshInv, AddressInv, ReadyInv,
          [Next]_vars
    PROVE  ReadyInv'
  <1> SUFFICES ASSUME AsShipped' PROVE ReadyBody'
    BY DEF ReadyInv
  <1>0. AsShipped /\ reg' = reg /\ ReadyBody
    BY ShippedBefore DEF ReadyInv
  <1>1. ASSUME NEW p \in {"server", "client"}, RegisterMessageType(p)
       PROVE  ReadyBody'
    BY <1>1, RegisterKeeps
  <1>2. ASSUME NEW s \in Servers, RemoveOldName(s)
       PROVE  ReadyBody'
    BY <1>2, <1>0 DEF ReadyBody, Waiting, RemoveOldName, clientVars, slotVars, messageVars, Turn
  <1>3. ASSUME NEW s \in Servers, CreateSegment(s)
       PROVE  ReadyBody'
    BY <1>3, <1>0 DEF ReadyBody, Waiting, CreateSegment, clientVars, slotVars, messageVars
  <1>4. ASSUME NEW s \in Servers, Truncate(s)
       PROVE  ReadyBody'
    BY <1>4, <1>0 DEF ReadyBody, Waiting, Truncate, clientVars, slotVars, messageVars
  <1>5. ASSUME NEW s \in Servers, ConstructShared(s)
       PROVE  ReadyBody'
    BY <1>5, <1>0 DEF ReadyBody, Waiting, ConstructShared, clientVars, slotVars, messageVars
  <1>6. ASSUME NEW s \in Servers, JoinServer(s)
       PROVE  ReadyBody'
    BY <1>6, <1>0 DEF ReadyBody, Waiting, JoinServer, clientVars, slotVars, messageVars
  <1>7. ASSUME NEW s \in Servers, RemoveName(s)
       PROVE  ReadyBody'
    BY <1>7, <1>0 DEF ReadyBody, Waiting, RemoveName, clientVars, slotVars, messageVars
  <1>8. ASSUME NEW s \in Servers, Crash(s)
       PROVE  ReadyBody'
    BY <1>8, <1>0 DEF ReadyBody, Waiting, Crash, clientVars, slotVars, messageVars
  <1>9. ASSUME NEW s \in Servers, RegisterAction(s)
       PROVE  ReadyBody'
    <2>1. "action" \in MessageTypes /\ "action" \in Identifiers /\ s \in Objects
      BY EndpointSetupAssumption DEF Objects
    <2>2. typeIdentifier(reg[Program(s)], "action") = "action"
      BY <1>0, <2>1, ShippedTypes DEF Program
    <2>3. /\ \A x \in Objects : x # s => slots'[x] = slots[x]
          /\ \A id \in Identifiers : slots'[s][id] = IF id = "action" THEN "action" ELSE slots[s][id]
      BY <1>9, <2>1, <2>2, SlotDoes DEF RegisterAction
    <2>4. "action" # Nothing
      BY <2>1, MessageFactoryAssumption
    <2>5. UNCHANGED <<box, call, mapped, prepared, reused>> /\ pc[s] = "up"
      BY <1>9 DEF RegisterAction, clientVars
    <2>6. \A c \in prepared : mapped[c] \in Servers
      BY <1>0 DEF ReadyBody, MappedInv, Types
    <2>7. \A c \in Clients : c # s /\ c \in Objects
      BY EndpointSetupAssumption DEF Objects
    <2>8. \A x \in Servers : x \in Objects
      BY DEF Objects
    <2>9. \A x \in Servers : Waiting(x, "request", "action")'
          /\ Waiting(x, "response", "response")'
      BY <1>0, <2>5 DEF ReadyBody, Waiting
    <2>10. \A x \in Servers : \A id \in Identifiers : slots'[x][id] # Nothing => id = "action"
      <3> SUFFICES ASSUME NEW x \in Servers, NEW id \in Identifiers, id # "action"
                   PROVE  slots'[x][id] = Nothing
        OBVIOUS
      <3>1. slots[x][id] = Nothing
        BY <1>0 DEF ReadyBody
      <3>2. QED
        BY <2>3, <2>8, <3>1
    <2>11. \A c \in prepared' : call'[c] # "none" /\ slots'[mapped'[c]]["action"] # Nothing
      BY <1>0, <2>1, <2>3, <2>4, <2>5, <2>6, <2>8 DEF ReadyBody
    <2>12. \A c \in Clients : c \notin reused' /\ call'[c] # "none" =>
          slots'[c]["response"] # Nothing
      BY <1>0, <2>3, <2>5, <2>7 DEF ReadyBody
    <2>13. QED
      BY <2>9, <2>10, <2>11, <2>12 DEF ReadyBody
  <1>10. ASSUME NEW c \in Clients, Open(c)
       PROVE  ReadyBody'
    <2>1. /\ UNCHANGED <<box, call, slots, prepared>> /\ call[c] = "none"
          /\ \A x \in Clients : x # c => mapped'[x] = mapped[x]
          /\ reused \subseteq reused'
      BY <1>10 DEF Open, Turn, clientVars, slotVars, messageVars, Types, FreshInv, Objects
    <2>2. prepared \subseteq Clients
      BY DEF Types
    <2>3. QED
      BY <1>0, <2>1, <2>2 DEF ReadyBody, Waiting
  <1>11. ASSUME NEW c \in Clients, JoinClient(c)
       PROVE  ReadyBody'
    BY <1>11, <1>0 DEF ReadyBody, Waiting, JoinClient, nameVars, clientVars, slotVars, messageVars
  <1>12. ASSUME NEW c \in Clients, AsyncRegister(c)
       PROVE  ReadyBody'
    <2>1. "response" \in MessageTypes /\ "response" \in Identifiers /\ c \in Objects
      BY EndpointSetupAssumption DEF Objects
    <2>2. typeIdentifier(reg[Program(c)], "response") = "response"
      BY <1>0, <2>1, ShippedTypes DEF Program
    <2>3. (address[c] \in endpoints /\ slots' = slots) \/
          /\ \A x \in Objects : x # c => slots'[x] = slots[x]
          /\ \A id \in Identifiers : slots'[c][id] = IF id = "response" THEN "response" ELSE slots[c][id]
      BY <1>12, <2>1, <2>2, SlotDoes DEF AsyncRegister
    <2>4. "response" # Nothing
      BY <2>1, MessageFactoryAssumption
    <2>5. /\ UNCHANGED <<box, mapped, prepared, reused>> /\ pc[c] = "up" /\ call[c] = "none"
          /\ \A x \in Clients : x # c => call'[x] = call[x]
          /\ call'[c] # "none"
      BY <1>12 DEF AsyncRegister, clientVars, Types
    <2>6. \A x \in prepared : mapped[x] \in Servers /\ x \in Clients
      BY <1>0 DEF ReadyBody, MappedInv, Types
    <2>7. \A x \in Servers : x # c /\ x \in Objects
      BY EndpointSetupAssumption DEF Objects
    <2>8. address[c] \in endpoints => c \in reused
      BY <2>5 DEF AddressInv, Live
    <2>9. \A x \in Clients : x # c => x \in Objects
      BY DEF Objects
    <2>10. QED
      BY <1>0, <2>1, <2>3, <2>4, <2>5, <2>6, <2>7, <2>8, <2>9 DEF ReadyBody, Waiting
  <1>13. ASSUME NEW c \in Clients, AsyncSend(c)
       PROVE  ReadyBody'
    <2>1. /\ UNCHANGED <<slots, mapped, reused>> /\ mapped[c] \in Servers /\ call[c] # "none"
          /\ \A x \in Clients : x # c => call'[x] = call[x]
          /\ call'[c] # "none" /\ prepared \subseteq Clients
          /\ prepared' = prepared
                \/ (prepared' = prepared \union {c} /\ \E id \in Identifiers : slots[mapped[c]][id] # Nothing)
      <3>1. mapped[c] \in Servers /\ call[c] # "none"
        BY <1>13, SendDoes
      <3>2. QED
        BY <1>13, <3>1 DEF AsyncSend, clientVars, slotVars, Types
    <2>2. \A s \in Servers : Waiting(s, "request", "action")'
          /\ Waiting(s, "response", "response")'
      <3>1. Put(<<mapped[c], "request">>, "action", "client", c)
            /\ <<mapped[c], "request">> \in Boxes
        BY <1>13, <2>1 DEF AsyncSend, Boxes
      <3>2. /\ \A x \in Boxes : x # <<mapped[c], "request">> => box'[x] = box[x]
            /\ box'[<<mapped[c], "request">>].json = serialize(reg["client"], "action")
        BY <3>1, PutDoes, EndpointSetupAssumption DEF BoxInv
      <3>3. reg["client"] = Shipped
        BY <1>0 DEF AsShipped
      <3>4. ASSUME NEW s \in Servers
            PROVE  /\ <<s, "request">> \in Boxes /\ <<s, "response">> \in Boxes
                   /\ <<s, "response">> # <<mapped[c], "request">>
        BY DEF Boxes
      <3>5. QED
        BY <1>0, <3>2, <3>3, <3>4 DEF ReadyBody, Waiting
    <2>3. QED
      BY <1>0, <2>1, <2>2 DEF ReadyBody
  <1>14. ASSUME NEW c \in Clients, Answer(c)
       PROVE  ReadyBody'
    <2>1. /\ UNCHANGED <<slots, mapped, reused, prepared>> /\ mapped[c] \in Servers /\ call[c] # "none"
          /\ \A x \in Clients : x # c => call'[x] = call[x]
          /\ call'[c] # "none" /\ prepared \subseteq Clients
      <3>1. mapped[c] \in Servers /\ call[c] # "none"
        BY <1>14, SendDoes
      <3>2. QED
        BY <1>14, <3>1 DEF Answer, clientVars, slotVars, Types
    <2>2. \A s \in Servers : Waiting(s, "request", "action")'
          /\ Waiting(s, "response", "response")'
      <3>1. Put(<<mapped[c], "response">>, "response", "server", c)
            /\ <<mapped[c], "response">> \in Boxes
        BY <1>14, <2>1 DEF Answer, Boxes
      <3>2. /\ \A x \in Boxes : x # <<mapped[c], "response">> => box'[x] = box[x]
            /\ box'[<<mapped[c], "response">>].json = serialize(reg["server"], "response")
        BY <3>1, PutDoes, EndpointSetupAssumption DEF BoxInv
      <3>3. reg["server"] = Shipped
        BY <1>0 DEF AsShipped
      <3>4. ASSUME NEW s \in Servers
            PROVE  /\ <<s, "request">> \in Boxes /\ <<s, "response">> \in Boxes
                   /\ <<s, "request">> # <<mapped[c], "response">>
        BY DEF Boxes
      <3>5. QED
        BY <1>0, <3>2, <3>3, <3>4 DEF ReadyBody, Waiting
    <2>3. QED
      BY <1>0, <2>1, <2>2 DEF ReadyBody
  <1>15. ASSUME NEW o \in Objects, BeginDestroy(o)
       PROVE  ReadyBody'
    BY <1>15, <1>0
    DEF ReadyBody, Waiting, BeginDestroy, nameVars, clientVars, slotVars, messageVars
  <1>16. ASSUME NEW o \in Objects, RegisterExceptionHandler(o)
       PROVE  ReadyBody'
    BY <1>16, <1>0
    DEF ReadyBody, Waiting, RegisterExceptionHandler, nameVars, clientVars, messageVars
  <1>17. ASSUME NEW o \in Objects, Construct(o)
       PROVE  ReadyBody'
    <2>1. /\ UNCHANGED <<slots, mapped, reused, prepared>>
          /\ \A x \in Clients : call'[x] = "none" <=> call[x] = "none"
      BY <1>17, ReceiveDoes, MessageThere
    <2>2. \A b \in Boxes : box'[b] # Nothing => box'[b] = box[b]
      BY <1>17, ReceiveDoes
    <2>3. \A s \in Servers : <<s, "request">> \in Boxes /\ <<s, "response">> \in Boxes
      BY DEF Boxes
    <2>4. \A s \in Servers : Waiting(s, "request", "action")'
          /\ Waiting(s, "response", "response")'
      BY <1>0, <2>2, <2>3 DEF ReadyBody, Waiting
    <2>5. QED
      BY <1>0, <2>1, <2>4 DEF ReadyBody, Types
  <1>18. ASSUME NEW o \in Objects, FindSlot(o)
       PROVE  ReadyBody'
    <2>1. /\ UNCHANGED <<slots, mapped, reused, prepared>>
          /\ \A x \in Clients : call'[x] = "none" <=> call[x] = "none"
      BY <1>18, ReceiveDoes, MessageThere
    <2>2. \A b \in Boxes : box'[b] # Nothing => box'[b] = box[b]
      BY <1>18, ReceiveDoes
    <2>3. \A s \in Servers : <<s, "request">> \in Boxes /\ <<s, "response">> \in Boxes
      BY DEF Boxes
    <2>4. \A s \in Servers : Waiting(s, "request", "action")'
          /\ Waiting(s, "response", "response")'
      BY <1>0, <2>2, <2>3 DEF ReadyBody, Waiting
    <2>5. QED
      BY <1>0, <2>1, <2>4 DEF ReadyBody, Types
  <1>19. ASSUME NEW o \in Objects, Catch(o)
       PROVE  ReadyBody'
    <2>1. /\ UNCHANGED <<slots, mapped, reused, prepared>>
          /\ \A x \in Clients : call'[x] = "none" <=> call[x] = "none"
      BY <1>19, ReceiveDoes, MessageThere
    <2>2. \A b \in Boxes : box'[b] # Nothing => box'[b] = box[b]
      BY <1>19, ReceiveDoes
    <2>3. \A s \in Servers : <<s, "request">> \in Boxes /\ <<s, "response">> \in Boxes
      BY DEF Boxes
    <2>4. \A s \in Servers : Waiting(s, "request", "action")'
          /\ Waiting(s, "response", "response")'
      BY <1>0, <2>2, <2>3 DEF ReadyBody, Waiting
    <2>5. QED
      BY <1>0, <2>1, <2>4 DEF ReadyBody, Types
  <1>20. ASSUME NEW o \in Objects, HandlerReturns(o)
       PROVE  ReadyBody'
    <2>1. /\ UNCHANGED <<slots, mapped, reused, prepared>>
          /\ \A x \in Clients : call'[x] = "none" <=> call[x] = "none"
      BY <1>20, ReceiveDoes, MessageThere
    <2>2. \A b \in Boxes : box'[b] # Nothing => box'[b] = box[b]
      BY <1>20, ReceiveDoes
    <2>3. \A s \in Servers : <<s, "request">> \in Boxes /\ <<s, "response">> \in Boxes
      BY DEF Boxes
    <2>4. \A s \in Servers : Waiting(s, "request", "action")'
          /\ Waiting(s, "response", "response")'
      BY <1>0, <2>2, <2>3 DEF ReadyBody, Waiting
    <2>5. QED
      BY <1>0, <2>1, <2>4 DEF ReadyBody, Types
  <1>21. CASE UNCHANGED vars
    BY <1>21, <1>0 DEF ReadyBody, Waiting, vars
  <1>22. QED
    BY <1>1, <1>2, <1>3, <1>4, <1>5, <1>6, <1>7, <1>8, <1>9, <1>10, <1>11, <1>12, <1>13, <1>14,
       <1>15, <1>16, <1>17, <1>18, <1>19, <1>20, <1>21
    DEF Next, ServerStep, ClientStep, Receive

\* What a receive thread has under way while types are as shipped.
LEMMA InboxReady ==
    ASSUME Types, MappedInv, BoxInv, ThreadInv, ReadyBody, NEW o \in Objects,
           Construct(o) \/ FindSlot(o)
    PROVE  LET m == box[Inbox(o)]
           IN  IF o \in Servers
               THEN m.json = serialize(Shipped, "action") /\ mapped[m.call] = o
               ELSE m.json = serialize(Shipped, "response") /\ o \in Clients
  <1>1. pc[o] \in {"up", "closing"} /\ Inbox(o) \in Boxes /\ box[Inbox(o)] # Nothing
    BY MessageThere DEF Construct, FindSlot
  <1>2. CASE o \in Servers
    BY <1>1, <1>2 DEF ReadyBody, Waiting, BoxInv, Inbox
  <1>3. CASE o \notin Servers
    BY <1>1, <1>3 DEF ReadyBody, Waiting, Inbox, MappedInv, Objects
  <1>4. QED
    BY <1>2, <1>3

\* SlotsAreReady for one client.
Heard(c) ==
    /\ c \in prepared => call[c] # "refused"
    /\ c \notin reused => call[c] # "unheard"
    /\ call[c] = "overheard" => \E d \in Clients \ {c} : mapped[d] = mapped[c]

LEMMA HeardStep ==
    ASSUME Types, RegistryInv, FreshInv, MappedInv, BoxInv, ThreadInv, ReadyInv, SlotsAreReady,
           [Next]_vars
    PROVE  SlotsAreReady'
  <1> SUFFICES ASSUME AsShipped', NEW k \in Clients
               PROVE  Heard(k)'
    BY DEF SlotsAreReady, Heard
  <1>0. AsShipped /\ reg' = reg /\ ReadyBody /\ Heard(k)
    BY ShippedBefore DEF ReadyInv, SlotsAreReady, Heard
  <1>1. ASSUME NEW p \in {"server", "client"}, RegisterMessageType(p)
       PROVE  Heard(k)'
    BY <1>1, RegisterKeeps
  <1>2. ASSUME NEW s \in Servers, RemoveOldName(s)
       PROVE  Heard(k)'
    BY <1>2, <1>0 DEF Heard, Types, RemoveOldName, clientVars, slotVars, messageVars, Turn
  <1>3. ASSUME NEW s \in Servers, CreateSegment(s)
       PROVE  Heard(k)'
    BY <1>3, <1>0 DEF Heard, Types, CreateSegment, clientVars, slotVars, messageVars
  <1>4. ASSUME NEW s \in Servers, Truncate(s)
       PROVE  Heard(k)'
    BY <1>4, <1>0 DEF Heard, Types, Truncate, clientVars, slotVars, messageVars
  <1>5. ASSUME NEW s \in Servers, ConstructShared(s)
       PROVE  Heard(k)'
    BY <1>5, <1>0 DEF Heard, Types, ConstructShared, clientVars, slotVars, messageVars
  <1>6. ASSUME NEW s \in Servers, JoinServer(s)
       PROVE  Heard(k)'
    BY <1>6, <1>0 DEF Heard, Types, JoinServer, clientVars, slotVars, messageVars
  <1>7. ASSUME NEW s \in Servers, RemoveName(s)
       PROVE  Heard(k)'
    BY <1>7, <1>0 DEF Heard, Types, RemoveName, clientVars, slotVars, messageVars
  <1>8. ASSUME NEW s \in Servers, Crash(s)
       PROVE  Heard(k)'
    BY <1>8, <1>0 DEF Heard, Types, Crash, clientVars, slotVars, messageVars
  <1>9. ASSUME NEW s \in Servers, RegisterAction(s)
       PROVE  Heard(k)'
    BY <1>9, <1>0 DEF Heard, Types, RegisterAction, registerSlot, nameVars, clientVars
  <1>10. ASSUME NEW c \in Clients, Open(c)
       PROVE  Heard(k)'
    <2>1. UNCHANGED <<call, prepared>> /\ mapped[c] = Nobody /\ call[c] = "none"
          /\ \A d \in Clients : d # c => mapped'[d] = mapped[d] /\ (d \in reused' <=> d \in reused)
      BY <1>10 DEF Open, Turn, FreshInv, Types, Objects, messageVars, clientVars
    <2>2. CASE k = c
      BY <2>1, <2>2 DEF Heard
    <2>3. CASE k # c
      <3>1. call[k] # "none" => mapped[k] # Nobody
        BY EndpointSetupAssumption DEF MappedInv, Objects
      <3>2. QED
        BY <1>0, <2>1, <2>3, <3>1 DEF Heard
    <2>4. QED
      BY <2>2, <2>3
  <1>11. ASSUME NEW c \in Clients, JoinClient(c)
       PROVE  Heard(k)'
    BY <1>11, <1>0 DEF Heard, Types, JoinClient, nameVars, clientVars, slotVars, messageVars
  <1>12. ASSUME NEW c \in Clients, AsyncRegister(c)
       PROVE  Heard(k)'
    BY <1>12, <1>0 DEF Heard, Types, AsyncRegister, registerSlot, nameVars, clientVars
  <1>13. ASSUME NEW c \in Clients, AsyncSend(c)
       PROVE  Heard(k)'
    BY <1>13, <1>0 DEF Heard, Types, AsyncSend, Put, nameVars, clientVars, slotVars
  <1>14. ASSUME NEW c \in Clients, Answer(c)
       PROVE  Heard(k)'
    BY <1>14, <1>0 DEF Heard, Types, Answer, Put, nameVars, clientVars, slotVars
  <1>15. ASSUME NEW o \in Objects, BeginDestroy(o)
       PROVE  Heard(k)'
    BY <1>15, <1>0 DEF Heard, Types, BeginDestroy, nameVars, clientVars, slotVars, messageVars
  <1>16. ASSUME NEW o \in Objects, RegisterExceptionHandler(o)
       PROVE  Heard(k)'
    BY <1>16, <1>0 DEF Heard, Types, RegisterExceptionHandler, nameVars, clientVars, messageVars
  <1>17. ASSUME NEW o \in Objects, Construct(o)
       PROVE  Heard(k)'
    <2>1. construct(reg[Program(o)], box[Inbox(o)].json) # Nothing
      <3>1. "action" \in MessageTypes /\ "response" \in MessageTypes
            /\ Program(o) \in {"server", "client"}
        BY EndpointSetupAssumption DEF Program
      <3>2. \E t \in MessageTypes : box[Inbox(o)].json = serialize(Shipped, t)
        BY <1>17, <1>0, <3>1, InboxReady
      <3>3. QED
        BY <1>0, <3>1, <3>2, ShippedTypes, MessageFactoryAssumption
    <2>2. UNCHANGED <<call, mapped, prepared, reused>>
      BY <1>17, <2>1 DEF Construct, clientVars
    <2>3. QED
      BY <1>0, <2>2 DEF Heard
  <1>18. ASSUME NEW o \in Objects, FindSlot(o)
       PROVE  Heard(k)'
    <2> DEFINE m == box[Inbox(o)]
    <2>1. UNCHANGED <<mapped, prepared, reused>> /\ m.call \in Clients /\ call[m.call] # "none"
      BY <1>18, ReceiveDoes, MessageThere
    <2>2. \A t \in MessageTypes : serialize(Shipped, t).id = t
      BY DEF serialize, typeIdentifier, Shipped
    <2>3. "action" \in MessageTypes /\ "response" \in MessageTypes
      BY EndpointSetupAssumption
    <2>4. /\ \A x \in Clients : x # m.call => call'[x] = call[x]
          /\ \/ call' = call
             \/ call'[m.call] \in {"served", "done", "raced"}
             \/ slots[o][m.json.id] = Nothing /\ Dropped(o, m)
      <3>1. DOMAIN call = Clients
        BY DEF Types
      <3>2. CASE call' = call
        BY <3>2
      <3>3. CASE call' # call
        <4>1. \/ call' = [call EXCEPT ![m.call] = IF o \in Servers THEN "served" ELSE "done"]
              \/ call' = [call EXCEPT ![m.call] = "raced"]
              \/ slots[o][m.json.id] = Nothing /\ Dropped(o, m)
          BY <1>18, <3>3 DEF FindSlot
        <4>2. QED
          BY <2>1, <3>1, <4>1 DEF Dropped
      <3>4. QED
        BY <3>2, <3>3
    <2>5. DOMAIN call = Clients
      BY DEF Types
    <2> HIDE DEF m
    <2>6. CASE o \in Servers
      <3>1. m.json.id = "action" /\ mapped[m.call] = o
        BY <1>18, <1>0, <2>2, <2>3, <2>6, InboxReady DEF m
      <3>2. m.call \in prepared => slots[o]["action"] # Nothing
        BY <1>0, <3>1 DEF ReadyBody
      <3>3. Dropped(o, m) => call'[m.call] = "refused"
        BY <2>1, <2>6, <2>5 DEF Dropped
      <3>4. QED
        BY <1>0, <2>1, <2>4, <3>1, <3>2, <3>3 DEF Heard
    <2>7. CASE o \notin Servers
      <3>1. m.json.id = "response" /\ o \in Clients
        BY <1>18, <1>0, <2>2, <2>3, <2>7, InboxReady DEF m
      <3>2. m.call = o /\ o \notin reused => slots[o]["response"] # Nothing
        BY <1>0, <2>1, <3>1 DEF ReadyBody
      <3>3. Dropped(o, m) => call'[m.call] = IF m.call = o THEN "unheard" ELSE "overheard"
        BY <2>1, <2>7, <2>5 DEF Dropped
      <3>4. mapped[m.call] = mapped[o]
        <4>1. Inbox(o) = <<mapped[o], "response">> /\ mapped[o] \in Servers
          BY <1>18, <2>7, ReceiveDoes, InboxTyped
        <4>2. box[Inbox(o)] # Nothing
          BY <1>18, MessageThere
        <4>3. QED
          BY <4>1, <4>2 DEF BoxInv, m
      <3>5. QED
        BY <1>0, <2>1, <2>4, <3>1, <3>2, <3>3, <3>4 DEF Heard
    <2>8. QED
      BY <2>6, <2>7
  <1>19. ASSUME NEW o \in Objects, Catch(o)
       PROVE  Heard(k)'
    BY <1>19, <1>0 DEF Heard, Types, Catch, Release, nameVars, clientVars, slotVars
  <1>20. ASSUME NEW o \in Objects, HandlerReturns(o)
       PROVE  Heard(k)'
    BY <1>20, <1>0 DEF Heard, Types, HandlerReturns, Release, nameVars, clientVars, slotVars
  <1>21. CASE UNCHANGED vars
    BY <1>21, <1>0 DEF Heard, Types, vars
  <1>22. QED
    BY <1>1, <1>2, <1>3, <1>4, <1>5, <1>6, <1>7, <1>8, <1>9, <1>10, <1>11, <1>12, <1>13, <1>14,
       <1>15, <1>16, <1>17, <1>18, <1>19, <1>20, <1>21
    DEF Next, ServerStep, ClientStep, Receive

-----------------------------------------------------------------------------
(* The theorems.                                                            *)

LEMMA Initially == Init => IInv
  <1> SUFFICES ASSUME Init PROVE IInv
    OBVIOUS
  <1>1. Shipped \in Registry
    BY EndpointSetupAssumption DEF Shipped, Registry
  <1>2. Types
    <2>1. reg \in [{"server", "client"} -> Registry]
      BY <1>1 DEF Init
    <2>2. overlapped \in BOOLEAN
      BY Zenon DEF Init
    <2>3. crashes \in 0 .. MaxCrashes
      BY EndpointSetupAssumption DEF Init
    <2>4. QED
      BY <2>1, <2>2, <2>3, EndpointSetupAssumption DEF Init, Types
  <1>3. RegistryInv
    BY EndpointSetupAssumption DEF Init, RegistryInv, Shipped
  <1>4. FreshInv /\ SlotsGetTheirType /\ MappedInv /\ BoxInv /\ ThreadInv
    BY DEF Init, FreshInv, SlotsGetTheirType, MappedInv, BoxInv, ThreadInv, Boxes, Objects
  <1>5. NameInv
    BY EndpointSetupAssumption DEF Init, NameInv, Present, Objects
  <1>6. AddressInv /\ ReadyInv /\ SlotsAreReady
    BY DEF Init, AddressInv, Live, ReadyInv, ReadyBody, Waiting, SlotsAreReady, Objects
  <1>7. QED
    BY <1>2, <1>3, <1>4, <1>5, <1>6 DEF IInv

LEMMA Inductive == IInv /\ [Next]_vars => IInv'
  BY TypeStep, RegistryStep, FreshStep, SlotsStep, NameStep, MappedStep, BoxStep, ThreadStep,
     AddressStep, ReadyStep, HeardStep
  DEF IInv

LEMMA Invariant == Spec => []IInv
  <1>1. QED
    BY Initially, Inductive, PTL DEF Spec

\* Every variable of the endpoints, their segments and the two registries keeps its type.
THEOREM TypeCorrect == Spec => []TypeOK
  <1>1. IInv => TypeOK
    BY DEF IInv, TypeOK, ThreadInv
  <1>2. QED
    BY <1>1, Invariant, PTL

(* Whatever types a program registers again, and under whichever identifiers: the
   constructor that its registry has for the identifier of a slot is that of the
   slot's type, so the cast in the slot that registerSlot made does not throw.  *)
THEOREM SlotsTyped == Spec => []SlotsGetTheirType
  <1>1. IInv => SlotsGetTheirType
    BY DEF IInv
  <1>2. QED
    BY <1>1, Invariant, PTL

(* However servers crash or are destroyed, and whatever they leave behind: if none
   is created while another is there, each one gets the name and has it, with its
   semaphores constructed, while it is up.                                      *)
THEOREM NameFollowsServer == Spec => []NameIsTheServers
  <1>1. IInv => NameIsTheServers
    BY DEF IInv, NameInv, NameIsTheServers
  <1>2. QED
    BY <1>1, Invariant, PTL

(* For any number of clients, servers and addresses: a request sent after the
   action was registered is not refused, and the response of an endpoint at an
   address of its own finds the slot that async registered, unless another client
   of the same segment has taken it.                                            *)
THEOREM SlotsInTime == Spec => []SlotsAreReady
  <1>1. IInv => SlotsAreReady
    BY DEF IInv
  <1>2. QED
    BY <1>1, Invariant, PTL
=============================================================================
