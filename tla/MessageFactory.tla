--------------------------- MODULE MessageFactory ---------------------------
(***************************************************************************)
(* lesf::ipc::MessageFactory (src/src/ipc/message_factory.cpp), the static *)
(* registry that a program keeps of its message types: m_rtti_map gives    *)
(* the identifier of a type, m_ctors the type that is constructed for an   *)
(* identifier.  The JSON of a message is its identifier and the members it *)
(* binds; libconf, which writes and reads it, is not in the repository.    *)
(***************************************************************************)
CONSTANTS
    MessageTypes,  \* the C++ classes
    Identifiers,   \* the strings they are registered under
    Members,       \* for each type the members bound in its M_jsonTemplate
    Nothing        \* no entry in a map, no message

ASSUME MessageFactoryAssumption == Nothing \notin MessageTypes \union Identifiers

Registry == [m_rtti_map : [MessageTypes -> Identifiers \union {Nothing}],
             m_ctors : [Identifiers -> MessageTypes \union {Nothing}]]

\* Mutation: an identifier may be taken over.
AnyIdentifier(reg, id) == TRUE

\* registerMessageType throws if the identifier is in use; a type that has another
\* identifier already is not refused.
MayRegister(reg, id) == reg.m_ctors[id] = Nothing

registerMessageType(reg, type, id) ==
    [m_rtti_map |-> [reg.m_rtti_map EXCEPT ![type] = id],
     m_ctors |-> [reg.m_ctors EXCEPT ![id] = type]]

\* It throws, here it is Nothing, if the type is not registered.
typeIdentifier(reg, type) == reg.m_rtti_map[type]

\* M_push: the payload has the members of the type.
serialize(reg, type) == [id |-> typeIdentifier(reg, type), payload |-> Members[type]]

\* M_pull throws unless the payload has every member that the type binds.
Consistent(type, payload) == Members[type] \subseteq payload

\* The type of the message that is constructed, or Nothing when construct throws.
construct(reg, json) ==
    LET type == reg.m_ctors[json.id]
    IN IF type # Nothing /\ Consistent(type, json.payload) THEN type ELSE Nothing
=============================================================================
