--------------------------- MODULE TransportRead ---------------------------
(***************************************************************************)
(* What a message read from the websocket goes through, from the bytes     *)
(* that libwebsockets hands over to the event that is pushed: websocket_   *)
(* callback, transport_session_websocket_read_callback,                    *)
(* transport_message_unpack and transport_session_receive_message.         *)
(*                                                                         *)
(* The steps are those at which something is allocated or freed, or the    *)
(* path branches; `heap' is what is allocated.                             *)
(***************************************************************************)
EXTENDS TransportMessages, FiniteSets, Functions

CONSTANT Incoming    \* the messages that may come

ASSUME IncomingAssumption ==
    \A msg \in Incoming :
        HasArgument(msg) =>
            \A i \in 1 .. Len(msg.array[3].map) :
                msg.array[3].map[i].val.type = "STR" => msg.array[3].map[i].val.str \in Texts

NONE == "NONE"       \* the name 0, and no event

VARIABLES
    message,    \* what came
    pc,         \* where its reading is
    name, arg,  \* what transport_message_unpack is to set
    at,         \* the entry of the map that is looked at
    copied,     \* for each field the entry whose text was copied, or 0
    heap,       \* the blocks allocated
    pushed,     \* the event pushed
    no_memory   \* history: the argument could not be allocated

vars == <<message, pc, name, arg, at, copied, heap, pushed, no_memory>>

Message == <<"message", "">>
Unpacked == <<"unpacked", "">>
Type == <<"type", "">>
Action == <<"action", "">>
Copy(i) == <<"copy", i>>

(* the blocks of an argument: its struct and its texts *)
Blocks(object) ==
    IF object = NULL THEN {}
    ELSE {<<"object", "">>}
         \cup {<<"text", f>> : f \in {g \in DOMAIN object.value : object.value[g] # NULL}}

Handled == {"SESSION_AUTHENTICATED", "SESSION_CLOSE"}

Steps == {"copy", "unpack", "type", "map", "entry", "create", "free_action", "free_type",
          "destroy", "receive", "release_arg", "release_message", "done"}

(* Only what a map of the type's size has is looked at. *)
Entries == message.array[3].map
MessageType == message.array[1].str

Args == (UNION {ObjectsOf(type) : type \in Types}) \cup {NULL}

AllBlocks ==
    {Message, Unpacked, Type, Action, <<"object", "">>}
    \cup {Copy(i) : i \in 1 .. 3} \cup {<<"text", f>> : f \in FieldNames}

(* message is whatever came. *)
TypeOK ==
    /\ pc \in Steps
    /\ name \in Names \cup {NONE}
    /\ arg \in Args
    /\ at \in 1 .. 4
    /\ copied \in [FieldNames -> 0 .. 3]
    /\ heap \subseteq AllBlocks
    /\ pushed \in {NONE, "AUTHENTICATED_RECEIVED", "CLOSE_RECEIVED"}
    /\ no_memory \in BOOLEAN

Init ==
    /\ message \in Incoming
    /\ pc = "copy"
    /\ name = NONE /\ arg = NULL
    /\ at = 1
    /\ copied = [f \in FieldNames |-> 0]
    /\ heap = {}
    /\ pushed = NONE
    /\ no_memory = FALSE

-----------------------------------------------------------------------------
Go(from, to) == pc = from /\ pc' = to /\ UNCHANGED message

(* transport_message_copy: the session reads a copy of its own *)
CopyMessage ==
    /\ Go("copy", "unpack")
    /\ heap' = heap \cup {Message}
    /\ UNCHANGED <<name, arg, at, copied, pushed, no_memory>>

IsArray ==
    /\ message.type = "ARRAY"
    /\ Len(message.array) = 3
    /\ message.array[1].type = "STR"

Unpack ==
    /\ Go("unpack", IF IsArray THEN "type" ELSE "destroy")
    /\ heap' = heap \cup {Unpacked} \cup (IF IsArray THEN {Type} ELSE {})
    /\ UNCHANGED <<name, arg, at, copied, pushed, no_memory>>

(* the type is none of the known, or the action is no string *)
TypeUnknown_FreesAction ==
    /\ Go("type", "free_action")
    /\ ~IsMessage(message)
    /\ UNCHANGED <<name, arg, at, copied, heap, pushed, no_memory>>

TypeUnknown ==
    /\ Go("type", "free_type")
    /\ ~IsMessage(message)
    /\ UNCHANGED <<name, arg, at, copied, heap, pushed, no_memory>>

(* name stays as it was if the type has no such action; the argument is    *)
(* unpacked all the same.                                                  *)
TypeKnown ==
    /\ Go("type", IF message.array[3].type = "MAP" THEN "map" ELSE "free_action")
    /\ IsMessage(message)
    /\ heap' = heap \cup {Action}
    /\ name' = NameOf(MessageType, message.array[2].str, name)
    /\ UNCHANGED <<arg, at, copied, pushed, no_memory>>

(* transport_message_unpack_<type> *)
UnpackMap ==
    /\ Go("map", IF HasArgument(message) THEN "entry" ELSE "free_action")
    /\ arg' = NULL
    /\ UNCHANGED <<name, at, copied, heap, pushed, no_memory>>

(* one entry; the key and a first copy of the value come and go *)
UnpackEntry_KeepsFirst ==
    /\ Go("entry", IF at = Len(Entries) THEN "create" ELSE "entry")
    /\ at' = at + 1
    /\ IF Entries[at].key \in FieldsOf(MessageType) /\ Entries[at].val.type = "STR"
          /\ copied[Entries[at].key] = 0
       THEN /\ copied' = [copied EXCEPT ![Entries[at].key] = at]
            /\ heap' = heap \cup {Copy(at)}
       ELSE UNCHANGED <<copied, heap>>
    /\ UNCHANGED <<name, arg, pushed, no_memory>>

UnpackEntry ==
    /\ Go("entry", IF at = Len(Entries) THEN "create" ELSE "entry")
    /\ at' = at + 1
    /\ IF Entries[at].key \in FieldsOf(MessageType) /\ Entries[at].val.type = "STR"
       THEN /\ copied' = [copied EXCEPT ![Entries[at].key] = at]
            /\ heap' = heap \cup {Copy(at)}
       ELSE UNCHANGED <<copied, heap>>
    /\ UNCHANGED <<name, arg, pushed, no_memory>>

(* transport_type_<type>_create, or its calloc returns NULL; and the copies*)
(* are freed.                                                              *)
Text(f) == IF copied[f] = 0 THEN NULL ELSE Entries[copied[f]].val.str

Copies == {Copy(copied[f]) : f \in {g \in FieldNames : copied[g] # 0}}

CreateArg_KeepsCopies ==
    /\ Go("create", "free_action")
    /\ \/ /\ arg' = Object(MessageType, [f \in FieldNames |-> Text(f)])
          /\ UNCHANGED no_memory
       \/ /\ arg' = NULL
          /\ no_memory' = TRUE
    /\ heap' = heap \cup Blocks(arg')
    /\ UNCHANGED <<name, at, copied, pushed>>

CreateArg ==
    /\ Go("create", "free_action")
    /\ \/ /\ arg' = Object(MessageType, [f \in FieldNames |-> Text(f)])
          /\ UNCHANGED no_memory
       \/ /\ arg' = NULL
          /\ no_memory' = TRUE
    /\ heap' = (heap \ Copies) \cup Blocks(arg')
    /\ UNCHANGED <<name, at, copied, pushed>>

Free(from, block, to) ==
    /\ Go(from, to)
    /\ heap' = heap \ {block}
    /\ UNCHANGED <<name, arg, at, copied, pushed, no_memory>>

FreeAction == Free("free_action", Action, "free_type")
FreeType == Free("free_type", Type, "destroy")
DestroyUnpacked == Free("destroy", Unpacked, "receive")

(* transport_session_receive_message: the event is pushed, and the machine *)
(* runs, before the argument is released.                                  *)
EventOf(n) ==
    CASE n = "SESSION_AUTHENTICATED" -> "AUTHENTICATED_RECEIVED"
      [] n = "SESSION_CLOSE"         -> "CLOSE_RECEIVED"

ReceiveHandled_AnyName ==
    /\ Go("receive", "release_arg")
    /\ UNCHANGED <<name, arg, at, copied, heap, pushed, no_memory>>

ReceiveHandled ==
    /\ Go("receive", "release_arg")
    /\ name \in Handled
    /\ pushed' = EventOf(name)
    /\ UNCHANGED <<name, arg, at, copied, heap, no_memory>>

ReceiveOther ==
    /\ Go("receive", "release_message")
    /\ name \notin Handled
    /\ UNCHANGED <<name, arg, at, copied, heap, pushed, no_memory>>

(* transport_type_session_release *)
ReleaseArg ==
    /\ Go("release_arg", "release_message")
    /\ heap' = heap \ Blocks(arg)
    /\ UNCHANGED <<name, arg, at, copied, pushed, no_memory>>

ReleaseMessage == Free("release_message", Message, "done")

Next ==
    \/ CopyMessage \/ Unpack \/ TypeUnknown \/ TypeKnown
    \/ UnpackMap \/ UnpackEntry \/ CreateArg
    \/ FreeAction \/ FreeType \/ DestroyUnpacked
    \/ ReceiveHandled \/ ReceiveOther \/ ReleaseArg \/ ReleaseMessage

Spec == Init /\ [][Next]_vars

-----------------------------------------------------------------------------
(* The loop over the map, with its local variables and branches, finds     *)
(* what the message says as a whole: the last text under each key, a name  *)
(* that does not depend on the argument, and no argument at all unless the *)
(* map has the size of the type.                                           *)
UnpackedIn == {"receive", "release_arg", "release_message", "done"}

ResultIsUnpack ==
    pc \in UnpackedIn =>
        /\ name = UnpackName(message, NONE)
        /\ arg = IF no_memory THEN NULL ELSE UnpackArg(message)

(* What one side packs, with texts and nulls in its fields, the other reads*)
(* as it was.                                                              *)
PackedIsRead ==
    pc \in UnpackedIn =>
        \A n \in Names : \A object \in ObjectsOf(Signature[n][1]) :
            message = Pack(n, object) => name = n /\ (no_memory \/ arg = object)

(* The cast of transport_session_receive_message is right: an argument it  *)
(* releases as a session is one, or is NULL.                               *)
ReleasedAsItsType == pc = "release_arg" /\ arg # NULL => arg.isa = "session"

(* A message that is handled leaves nothing allocated, also if its fields  *)
(* are missing, null or foreign, or its argument could not be allocated,   *)
(* provided its map has no key twice.                                      *)
NoKeyTwice ==
    HasArgument(message) =>
        \A i, j \in 1 .. Len(Entries) : Entries[i].key = Entries[j].key => i = j

HandledLeavesNothing == pc = "done" /\ name \in Handled /\ NoKeyTwice => heap = {}

(* On each way out of the nested conditions, whatever the message, what is *)
(* freed is allocated: nothing is freed twice, or without having been made.*)
FreesWhatItHolds ==
    /\ pc = "create" => Copies \subseteq heap
    /\ pc = "free_action" => Action \in heap
    /\ pc = "free_type" => Type \in heap
    /\ pc = "destroy" => Unpacked \in heap
    /\ pc = "release_arg" => Blocks(arg) \subseteq heap
    /\ pc = "release_message" => Message \in heap

(* "the transport_type_t arg must be released by the handler", and then    *)
(* "release message" (universal_transport_session.c:708, :709): when the   *)
(* callback returns, nothing is left of any message.  It is not so.        *)
NothingLeftAllocated == pc = "done" => heap = {}
=============================================================================
