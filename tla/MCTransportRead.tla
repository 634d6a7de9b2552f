-------------------------- MODULE MCTransportRead --------------------------
(* The messages that TransportRead is checked with: every type and action, *)
(* and one more of each; a third element that is no map, and maps of every *)
(* size up to the type's (and one more for the smallest), with the type's  *)
(* keys and another one, in any order and repeated.                        *)
EXTENDS TransportRead

CONSTANTS a, b

MCTexts == {a, b}

EntriesFor(type) ==
    [key : FieldsOf(type) \cup {"other"}, val : {Str(a), Str(b), Nil}]

MapsFor(type) ==
    {Map(kvs) : kvs \in UNION {[1 .. n -> EntriesFor(type)] : n \in 0 .. Len(Fields[type])}}

ActionsOf(type) == {Signature[n][2] : n \in {m \in Names : Signature[m][1] = type}}

MessagesOf(type) ==
    {Array(<<Str(type), Str(action), third>>) :
        action \in ActionsOf(type) \cup {"other"}, third \in MapsFor(type) \cup {Nil}}

OtherMessages ==
    {Undecodable, Nil, Array(<<Str("session"), Str("close")>>),
     Array(<<Nil, Str("close"), Nil>>), Array(<<Str("session"), Nil, Nil>>),
     Array(<<Str("other"), Str("close"), Map(<<>>)>>)}
    \cup {Array(<<Str("example"), Str("ping"), Map(<<e, d>>)>>) :
              e \in EntriesFor("example"), d \in EntriesFor("example")}

MCIncoming == OtherMessages \cup UNION {MessagesOf(type) : type \in Types}
=============================================================================
