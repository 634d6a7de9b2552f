------------------------- MODULE TransportMessages -------------------------
(***************************************************************************)
(* The messages of lib/universal_transport_messages.c and the objects of   *)
(* lib/universal_transport_types.c that are their arguments.  The code of  *)
(* each type is generated from one template, and so is modelled once, over *)
(* the table of the types' fields.                                         *)
(*                                                                         *)
(* A message is the msgpack object its bytes stand for.  A text is a value *)
(* of its own, not a string of characters.                                 *)
(***************************************************************************)
EXTENDS Naturals, Sequences

CONSTANTS
    Texts,    \* what a field may hold
    NULL

ASSUME TextsAssumption == NULL \notin Texts

Types == {"error", "session", "example"}

(* the structs, and the order in which their fields are packed *)
Fields ==
    [error   |-> <<"level", "description">>,
     session |-> <<"user_id", "device_token", "shared_secret">>,
     example |-> <<"text">>]

FieldsOf(type) == {Fields[type][i] : i \in 1 .. Len(Fields[type])}

FieldNames == UNION {FieldsOf(type) : type \in Types}

(* The type and the action that identify a message *)
Signature ==
    [ERROR_THROW           |-> <<"error", "throw">>,
     SESSION_AUTHENTICATE  |-> <<"session", "authenticate">>,
     SESSION_AUTHENTICATED |-> <<"session", "authenticated">>,
     SESSION_CLOSE         |-> <<"session", "close">>,
     EXAMPLE_PING          |-> <<"example", "ping">>,
     EXAMPLE_ECHO          |-> <<"example", "echo">>]

Names == DOMAIN Signature

(* transport_type_<type>_create copies the texts it is given.  A field     *)
(* that a type has not is not looked at.  An operator <A>_<Fault> is <A>   *)
(* with a fault in it, and serves only to show that a property notices.    *)
Object_AllFields(type, value) == [isa |-> type, value |-> value]

Object(type, value) ==
    [isa |-> type, value |-> [f \in FieldsOf(type) |-> value[f]]]

ObjectsOf(type) ==
    [isa : {type}, value : [FieldsOf(type) -> Texts \cup {NULL}]]

-----------------------------------------------------------------------------
(* msgpack *)
Nil == [type |-> "NIL"]
Str(s) == [type |-> "STR", str |-> s]
Map(kvs) == [type |-> "MAP", map |-> kvs]
Array(objs) == [type |-> "ARRAY", array |-> objs]

(* what msgpack_unpack_next returns 0 for *)
Undecodable == [type |-> "NONE"]

(* transport_message_pack *)
PackValue(text) == IF text # NULL THEN Str(text) ELSE Nil

PackObject_SkipsNull(object) ==
    LET given == SelectSeq(Fields[object.isa], LAMBDA f : object.value[f] # NULL)
    IN  Map([i \in 1 .. Len(given) |-> [key |-> given[i], val |-> Str(object.value[given[i]])]])

PackObject(object) ==
    Map([i \in 1 .. Len(Fields[object.isa]) |->
            [key |-> Fields[object.isa][i],
             val |-> PackValue(object.value[Fields[object.isa][i]])]])

Pack(name, object) ==
    Array(<<Str(Signature[name][1]), Str(Signature[name][2]), PackObject(object)>>)

-----------------------------------------------------------------------------
(* transport_message_unpack, as a function of the message: what name and   *)
(* arg are in the end, if they were none and NULL before.                  *)
NameOf(type, action, none) ==
    IF \E n \in Names : Signature[n] = <<type, action>>
    THEN CHOOSE n \in Names : Signature[n] = <<type, action>>
    ELSE none

IsMessage(msg) ==
    /\ msg.type = "ARRAY"
    /\ Len(msg.array) = 3
    /\ msg.array[1].type = "STR"
    /\ msg.array[1].str \in Types
    /\ msg.array[2].type = "STR"

UnpackName(msg, none) ==
    IF IsMessage(msg) THEN NameOf(msg.array[1].str, msg.array[2].str, none) ELSE none

(* A field has the last text that comes under its key, if any does. *)
Given(kvs, f) == {i \in 1 .. Len(kvs) : kvs[i].key = f /\ kvs[i].val.type = "STR"}

UnpackField(kvs, f) ==
    IF Given(kvs, f) = {} THEN NULL
    ELSE kvs[CHOOSE i \in Given(kvs, f) : \A j \in Given(kvs, f) : j <= i].val.str

(* The argument is what its map says if that has as many entries as the    *)
(* type has fields, whichever they are.                                    *)
HasArgument(msg) ==
    /\ IsMessage(msg)
    /\ msg.array[3].type = "MAP"
    /\ Len(msg.array[3].map) = Len(Fields[msg.array[1].str])

UnpackArg(msg) ==
    IF HasArgument(msg)
    THEN Object(msg.array[1].str,
                [f \in FieldNames |-> UnpackField(msg.array[3].map, f)])
    ELSE NULL
=============================================================================
