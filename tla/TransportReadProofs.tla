------------------------ MODULE TransportReadProofs ------------------------
(* That unpack inverts pack, and that the reading of a message does what   *)
(* unpack says, for every set of texts and of incoming messages.           *)
EXTENDS TransportRead, TLAPS

-----------------------------------------------------------------------------
(* The tables.                                                             *)
LEMMA NamesAre ==
    Names = {"ERROR_THROW", "SESSION_AUTHENTICATE", "SESSION_AUTHENTICATED",
             "SESSION_CLOSE", "EXAMPLE_PING", "EXAMPLE_ECHO"}
BY DEF Names, Signature

LEMMA SignatureIs ==
    ASSUME NEW n \in Names
    PROVE  /\ Signature[n] = <<Signature[n][1], Signature[n][2]>>
           /\ Signature[n][1] \in Types
           /\ \A m \in Names : Signature[m] = Signature[n] => m = n
BY NamesAre DEF Signature, Types

LEMMA FieldsAre ==
    ASSUME NEW type \in Types
    PROVE  /\ Len(Fields[type]) \in 1 .. 3
           /\ \A i, j \in 1 .. Len(Fields[type]) : Fields[type][i] = Fields[type][j] => i = j
           /\ FieldsOf(type) \subseteq FieldNames
BY DEF Types, Fields, FieldsOf, FieldNames

(* A signature names its message. *)
LEMMA NameOfSignature ==
    ASSUME NEW n \in Names, NEW none
    PROVE  NameOf(Signature[n][1], Signature[n][2], none) = n
<1>1. \A m \in Names : Signature[m] = <<Signature[n][1], Signature[n][2]>> <=> m = n
  BY SignatureIs
<1> QED
  BY <1>1 DEF NameOf

-----------------------------------------------------------------------------
(* Every field comes out of the map that PackObject makes as it went in:   *)
(* under its key there is one entry, or a nil.                             *)
LEMMA FieldInvertsPack ==
    ASSUME NEW type \in Types, NEW object \in ObjectsOf(type), NEW f \in FieldsOf(type)
    PROVE  UnpackField(PackObject(object).map, f) = object.value[f]
<1> DEFINE kvs == PackObject(object).map
<1>1. object.isa = type /\ object.value[f] \in Texts \cup {NULL}
  BY DEF ObjectsOf
<1>2. /\ kvs = [i \in 1 .. Len(Fields[type]) |->
                  [key |-> Fields[type][i], val |-> PackValue(object.value[Fields[type][i]])]]
      /\ Len(Fields[type]) \in Nat
  BY <1>1, FieldsAre DEF PackObject, Map
<1>3. Len(kvs) = Len(Fields[type])
  BY <1>2
<1>4. PICK k \in 1 .. Len(Fields[type]) : Fields[type][k] = f
  BY DEF FieldsOf
<1>5. kvs[k].val = PackValue(object.value[f])
  BY <1>2, <1>4
<1>6. \A i \in 1 .. Len(kvs) : kvs[i].key = f <=> i = k
  BY <1>2, <1>3, <1>4, FieldsAre
<1> HIDE DEF kvs
<1>7. CASE object.value[f] = NULL
  <2>1. kvs[k].val.type = "NIL"
    BY <1>5, <1>7 DEF PackValue, Nil
  <2>2. Given(kvs, f) = {}
    BY <1>6, <2>1 DEF Given
  <2> QED
    BY <1>7, <2>2 DEF UnpackField, kvs
<1>8. CASE object.value[f] # NULL
  <2>1. kvs[k].val.type = "STR" /\ kvs[k].val.str = object.value[f]
    BY <1>5, <1>8 DEF PackValue, Str
  <2>2. Given(kvs, f) = {k}
    BY <1>3, <1>6, <2>1 DEF Given
  <2>3. (CHOOSE i \in Given(kvs, f) : \A j \in Given(kvs, f) : j <= i) = k
    BY <2>2
  <2> QED
    BY <2>1, <2>2, <2>3 DEF UnpackField, kvs
<1> QED
  BY <1>7, <1>8

(* What is packed has the shape of a message with an argument.             *)
LEMMA PackIsMessage ==
    ASSUME NEW n \in Names, NEW object \in ObjectsOf(Signature[n][1])
    PROVE  LET msg == Pack(n, object) IN
           /\ IsMessage(msg) /\ HasArgument(msg)
           /\ msg.array[1].str = Signature[n][1]
           /\ msg.array[2].str = Signature[n][2]
           /\ msg.array[3] = PackObject(object)
<1> DEFINE msg == Pack(n, object)
           type == Signature[n][1]
<1>1. type \in Types /\ object.isa = type
  BY SignatureIs DEF ObjectsOf
<1>2. /\ msg.type = "ARRAY"
      /\ msg.array = <<Str(Signature[n][1]), Str(Signature[n][2]), PackObject(object)>>
  BY DEF Pack, Array
<1>3. /\ Len(msg.array) = 3
      /\ msg.array[1] = Str(Signature[n][1])
      /\ msg.array[2] = Str(Signature[n][2])
      /\ msg.array[3] = PackObject(object)
  BY <1>2
<1>4. IsMessage(msg) /\ msg.array[1].str = type /\ msg.array[2].str = Signature[n][2]
  BY <1>1, <1>2, <1>3 DEF IsMessage, Str
<1>5. PackObject(object).type = "MAP" /\ Len(PackObject(object).map) = Len(Fields[type])
  BY <1>1, FieldsAre DEF PackObject, Map
<1> QED
  BY <1>3, <1>4, <1>5 DEF HasArgument

(* Whatever message is packed with whatever texts and nulls in its object, *)
(* transport_message_unpack gives back the name and the object.            *)
THEOREM UnpackInvertsPack ==
    ASSUME NEW n \in Names, NEW object \in ObjectsOf(Signature[n][1])
    PROVE  /\ UnpackName(Pack(n, object), NONE) = n
           /\ UnpackArg(Pack(n, object)) = object
<1> DEFINE msg == Pack(n, object)
           type == Signature[n][1]
<1>1. /\ IsMessage(msg) /\ HasArgument(msg)
      /\ msg.array[1].str = type
      /\ msg.array[2].str = Signature[n][2]
      /\ msg.array[3] = PackObject(object)
  BY PackIsMessage
<1>2. type \in Types
  BY SignatureIs
<1> HIDE DEF msg, type
<1>3. UnpackName(msg, NONE) = n
  BY <1>1, NameOfSignature DEF UnpackName, type
<1>4. UnpackArg(msg) = object
  <2>1. UnpackArg(msg) =
          [isa |-> type,
           value |-> [f \in FieldsOf(type) |->
                        [g \in FieldNames |-> UnpackField(PackObject(object).map, g)][f]]]
    BY <1>1 DEF UnpackArg, Object
  <2>2. \A f \in FieldsOf(type) :
          [g \in FieldNames |-> UnpackField(PackObject(object).map, g)][f] = object.value[f]
    BY <1>2, FieldInvertsPack, FieldsAre DEF type
  <2>3. object = [isa |-> type, value |-> [f \in FieldsOf(type) |-> object.value[f]]]
    BY DEF ObjectsOf, type
  <2> QED
    BY <2>1, <2>2, <2>3
<1> QED
  BY <1>3, <1>4 DEF msg

-----------------------------------------------------------------------------
(* The inductive invariant: what has been found at each step of the way.   *)
Start == {"copy", "unpack", "type"}
Loop == {"entry", "create"}
Found == {"free_action", "free_type", "destroy"} \cup UnpackedIn

NameInv ==
    /\ pc \in Start => name = NONE
    /\ pc \notin Start => name = UnpackName(message, NONE)
    /\ pc = "release_arg" => name \in Handled

ArgInv ==
    /\ pc \notin Found => arg = NULL /\ no_memory = FALSE
    /\ pc \in Found => arg = IF no_memory THEN NULL ELSE UnpackArg(message)
    /\ pc = "map" => IsMessage(message) /\ message.array[3].type = "MAP"
    /\ pc \in Loop => HasArgument(message)

(* the entries before at that give a text to f *)
Seen(f) == {i \in Given(Entries, f) : i < at}

LastSeen(f) ==
    \/ Seen(f) = {} /\ copied[f] = 0
    \/ copied[f] \in Seen(f) /\ \A j \in Seen(f) : j <= copied[f]

LoopInv ==
    /\ pc \notin Loop \cup Found => at = 1 /\ copied = [f \in FieldNames |-> 0]
    /\ pc = "entry" => at \in 1 .. Len(Entries)
    /\ pc = "create" => at = Len(Entries) + 1
    /\ pc \in Loop =>
          /\ copied \in [FieldNames -> Nat]
          /\ \A f \in FieldsOf(MessageType) : LastSeen(f)
          /\ \A f \in FieldNames \ FieldsOf(MessageType) : copied[f] = 0

ReadInv == pc \in Steps /\ NameInv /\ ArgInv /\ LoopInv

(* The texts that a later one under the same key replaces *)
Overwritten ==
    {i \in 1 .. Len(Entries) :
        \E f \in FieldsOf(MessageType) :
            i \in Given(Entries, f) /\ \E j \in Given(Entries, f) : j > i}

(* What is allocated *)
Here(block, steps) == IF pc \in steps THEN {block} ELSE {}

CopiesHere ==
    IF pc \in Loop
    THEN {Copy(i) : i \in UNION {Seen(f) : f \in FieldsOf(MessageType)}}
    ELSE IF pc \in Found /\ HasArgument(message) THEN {Copy(i) : i \in Overwritten} ELSE {}

BlocksHere ==
    IF pc \in {"release_message", "done"} /\ name \in Handled THEN {} ELSE Blocks(arg)

HeapInv ==
    heap = Here(Message, Steps \ {"copy", "done"})
           \cup Here(Unpacked, {"type", "map", "destroy", "free_action", "free_type"} \cup Loop)
           \cup Here(Type, {"type", "map", "free_action", "free_type"} \cup Loop)
           \cup Here(Action, {"map", "free_action"} \cup Loop)
           \cup CopiesHere \cup BlocksHere

-----------------------------------------------------------------------------
LEMMA InitInv == Init => ReadInv
BY DEF Init, ReadInv, NameInv, ArgInv, LoopInv, Steps, Start, Loop, Found, UnpackedIn

LEMMA EntriesAre ==
    ASSUME HasArgument(message)
    PROVE  Len(Entries) \in 1 .. 3 /\ MessageType \in Types
<1>1. MessageType \in Types
  BY DEF HasArgument, IsMessage, MessageType
<1> QED
  BY <1>1, FieldsAre DEF HasArgument, MessageType, Entries

(* One entry of the map: of the texts seen so far, the last is copied.     *)
LEMMA EntryStep ==
    ASSUME ReadInv, UnpackEntry
    PROVE  ReadInv'
<1> USE DEF Go
<1>1. /\ pc = "entry" /\ message' = message
      /\ HasArgument(message)
      /\ at \in 1 .. Len(Entries) /\ at' = at + 1
      /\ name' = name /\ arg' = arg /\ no_memory' = no_memory
      /\ pc' = IF at = Len(Entries) THEN "create" ELSE "entry"
  BY DEF UnpackEntry, ReadInv, ArgInv, LoopInv, Loop
<1>2. Len(Entries) \in Nat
  BY <1>1, EntriesAre
<1>3. /\ copied \in [FieldNames -> Nat]
      /\ \A f \in FieldsOf(MessageType) : LastSeen(f)
      /\ \A f \in FieldNames \ FieldsOf(MessageType) : copied[f] = 0
      /\ FieldsOf(MessageType) \subseteq FieldNames
  BY <1>1, FieldsAre DEF ReadInv, LoopInv, Loop, HasArgument, MessageType, Entries, IsMessage
<1>4. NameInv' /\ ArgInv' /\ pc' \in Steps
  BY <1>1 DEF ReadInv, NameInv, ArgInv, Steps, Start, Loop, Found, UnpackedIn
<1>5. /\ copied' \in [FieldNames -> Nat]
      /\ \A f \in FieldNames \ FieldsOf(MessageType) : copied'[f] = 0
  BY <1>1, <1>2, <1>3 DEF UnpackEntry
<1>6. ASSUME NEW f \in FieldsOf(MessageType)
      PROVE  LastSeen(f)'
  <2>1. Seen(f)' = Seen(f) \cup {i \in Given(Entries, f) : i = at}
    BY <1>1, <1>2 DEF Seen, Given, Entries
  <2>2. CASE Entries[at].val.type = "STR" /\ Entries[at].key = f
    <3>1. at \in Seen(f)' /\ \A j \in Seen(f)' : j <= at
      BY <1>1, <1>2, <2>1, <2>2 DEF Seen, Given
    <3>2. copied'[f] = at
      BY <1>3, <2>2 DEF UnpackEntry
    <3> QED
      BY <3>1, <3>2 DEF LastSeen
  <2>3. CASE ~(Entries[at].val.type = "STR" /\ Entries[at].key = f)
    <3>1. Seen(f)' = Seen(f)
      BY <2>1, <2>3 DEF Given
    <3>2. copied'[f] = copied[f]
      BY <1>3, <2>3 DEF UnpackEntry
    <3> QED
      BY <1>3, <3>1, <3>2 DEF LastSeen
  <2> QED
    BY <2>2, <2>3
<1>7. LoopInv'
  <2>1. pc' \in Loop
    BY <1>1 DEF Loop
  <2>2. /\ pc' = "entry" => at' \in 1 .. Len(Entries)
        /\ pc' = "create" => at' = Len(Entries) + 1
    BY <1>1, <1>2
  <2> QED
    BY <1>1, <1>5, <1>6, <2>1, <2>2 DEF LoopInv, Loop, Found, UnpackedIn, MessageType, Entries
<1> QED
  BY <1>4, <1>7 DEF ReadInv

(* The argument that is created is what unpack says of the message.        *)
LEMMA CreateStep ==
    ASSUME ReadInv, CreateArg
    PROVE  ReadInv'
<1>1. /\ pc = "create" /\ message' = message /\ pc' = "free_action"
      /\ HasArgument(message)
      /\ at = Len(Entries) + 1
      /\ name' = name /\ no_memory = FALSE
  BY DEF CreateArg, Go, ReadInv, ArgInv, LoopInv, Loop, Found, UnpackedIn
<1>2. MessageType \in Types
  BY <1>1, EntriesAre
<1>3. Len(Entries) \in Nat
  BY <1>1, EntriesAre
<1>4. ASSUME NEW f \in FieldsOf(MessageType)
      PROVE  Text(f) = UnpackField(Entries, f)
  <2>1. Seen(f) = Given(Entries, f) /\ Given(Entries, f) \subseteq Nat \ {0}
    BY <1>1, <1>3 DEF Seen, Given
  <2>2. LastSeen(f) /\ copied[f] \in Nat
    BY <1>1, <1>2, FieldsAre DEF ReadInv, LoopInv, Loop
  <2>3. CASE Given(Entries, f) = {}
    BY <2>1, <2>2, <2>3 DEF LastSeen, Text, UnpackField
  <2>4. CASE Given(Entries, f) # {}
    <3>1. copied[f] \in Given(Entries, f) /\ \A j \in Given(Entries, f) : j <= copied[f]
      BY <2>1, <2>2, <2>4 DEF LastSeen
    <3>2. (CHOOSE i \in Given(Entries, f) : \A j \in Given(Entries, f) : j <= i) = copied[f]
      BY <2>1, <3>1
    <3> QED
      BY <2>1, <2>4, <3>1, <3>2 DEF Text, UnpackField
  <2> QED
    BY <2>3, <2>4
<1>5. Object(MessageType, [f \in FieldNames |-> Text(f)]) = UnpackArg(message)
  <2> DEFINE t == [f \in FieldNames |-> Text(f)]
             u == [f \in FieldNames |-> UnpackField(Entries, f)]
  <2>1. \A f \in FieldsOf(MessageType) : t[f] = u[f]
    BY <1>2, <1>4, FieldsAre
  <2> HIDE DEF t, u
  <2>2. Object(MessageType, t) = Object(MessageType, u)
    BY <2>1 DEF Object
  <2> QED
    BY <1>1, <2>2 DEF UnpackArg, t, u, MessageType, Entries
<1>6. arg' = IF no_memory' THEN NULL ELSE UnpackArg(message)
  BY <1>1, <1>5 DEF CreateArg
<1>7. NameInv' /\ ArgInv' /\ LoopInv'
  BY <1>1, <1>6 DEF ReadInv, NameInv, ArgInv, LoopInv, Start, Loop, Found, UnpackedIn
<1> QED
  BY <1>1, <1>7 DEF ReadInv, Steps

LEMMA NextInv ==
    ASSUME ReadInv, [Next]_vars
    PROVE  ReadInv'
<1> USE DEF ReadInv, NameInv, ArgInv, LoopInv, Steps, Start, Loop, Found, UnpackedIn, Go
<1>1. CASE CopyMessage
  BY <1>1 DEF CopyMessage
<1>2. CASE Unpack
  BY <1>2 DEF Unpack, IsArray, UnpackName, UnpackArg, HasArgument, MessageType, Entries, IsMessage
<1>3. CASE TypeUnknown
  BY <1>3 DEF TypeUnknown, UnpackName, UnpackArg, HasArgument, MessageType, Entries
<1>4. CASE TypeKnown
  BY <1>4 DEF TypeKnown, UnpackName, UnpackArg, HasArgument, MessageType, Entries
<1>5. CASE UnpackMap
  <2>1. HasArgument(message) => Len(Entries) \in 1 .. 3 /\ MessageType \in Types
    BY EntriesAre
  <2>2. copied = [f \in FieldNames |-> 0] /\ at = 1
    BY <1>5 DEF UnpackMap
  <2>3. HasArgument(message) =>
           \A f \in FieldsOf(MessageType) : Seen(f) = {} /\ copied[f] = 0
    BY <2>1, <2>2, FieldsAre DEF Seen, Given
  <2>4. LoopInv'
    BY <1>5, <2>1, <2>2, <2>3 DEF UnpackMap, LastSeen, Seen, MessageType, Entries
  <2> QED
    BY <1>5, <2>4 DEF UnpackMap, UnpackName, UnpackArg
<1>6. CASE UnpackEntry
  BY <1>6, EntryStep
<1>7. CASE CreateArg
  BY <1>7, CreateStep
<1>8. CASE FreeAction \/ FreeType \/ DestroyUnpacked \/ ReleaseMessage
  BY <1>8 DEF FreeAction, FreeType, DestroyUnpacked, ReleaseMessage, Free
<1>9. CASE ReceiveHandled
  BY <1>9 DEF ReceiveHandled
<1>10. CASE ReceiveOther
  BY <1>10 DEF ReceiveOther
<1>11. CASE ReleaseArg
  BY <1>11 DEF ReleaseArg
<1>12. CASE UNCHANGED vars
  BY <1>12 DEF vars, LastSeen, Seen, MessageType, Entries
<1> QED
  BY <1>1, <1>2, <1>3, <1>4, <1>5, <1>6, <1>7, <1>8, <1>9, <1>10, <1>11, <1>12 DEF Next

(* The invariant holds for every set of texts and whatever comes.          *)
THEOREM ReadSound == Spec => []ReadInv
<1> QED
  BY InitInv, NextInv, PTL DEF Spec

(* The loop, with its local variables, finds what unpack says of the whole *)
(* message.                                                                *)
THEOREM ReadsAsUnpack == Spec => []ResultIsUnpack
<1>1. ReadInv => ResultIsUnpack
  BY DEF ReadInv, NameInv, ArgInv, ResultIsUnpack, Found, UnpackedIn, Start
<1> QED
  BY <1>1, ReadSound, PTL

(* What was packed is read as it was.                                      *)
THEOREM ReadsWhatWasPacked == Spec => []PackedIsRead
<1>1. ResultIsUnpack => PackedIsRead
  BY UnpackInvertsPack DEF ResultIsUnpack, PackedIsRead
<1> QED
  BY <1>1, ReadsAsUnpack, PTL

(* The argument that is cast to a session is one, or is NULL.              *)
THEOREM ReleasesAsItsType == Spec => []ReleasedAsItsType
<1>1. ReadInv => ReleasedAsItsType
  <2> SUFFICES ASSUME ReadInv, pc = "release_arg", arg # NULL
               PROVE  arg.isa = "session"
    BY DEF ReleasedAsItsType
  <2>1. name \in Handled /\ name = UnpackName(message, NONE) /\ arg = UnpackArg(message)
    BY DEF ReadInv, NameInv, ArgInv, Start, Found, UnpackedIn
  <2>2. HasArgument(message) /\ arg.isa = MessageType
    BY <2>1 DEF UnpackArg, Object, MessageType
  <2>3. name = NameOf(MessageType, message.array[2].str, NONE) /\ name # NONE
    BY <2>1, <2>2 DEF UnpackName, HasArgument, MessageType, Entries, Handled, NONE
  <2>4. Signature[name] = <<MessageType, message.array[2].str>>
    BY <2>3 DEF NameOf
  <2> QED
    BY <2>1, <2>2, <2>4 DEF Handled, Signature
<1> QED
  BY <1>1, ReadSound, PTL

-----------------------------------------------------------------------------
(* What is allocated.  Blocks of different kinds are different.            *)
Kinds == {Message, Unpacked, Type, Action}

LEMMA Apart ==
    /\ Message \notin {Unpacked, Type, Action} /\ Unpacked \notin {Type, Action} /\ Type # Action
    /\ \A i : Copy(i) \notin Kinds
    /\ \A i, j : Copy(i) = Copy(j) => i = j
    /\ \A object : Blocks(object) \cap Kinds = {} /\ \A i : Copy(i) \notin Blocks(object)
<1>1. \A object : \A b \in Blocks(object) : b = <<"object", "">> \/ \E f : b = <<"text", f>>
  BY DEF Blocks
<1>2. Message # Unpacked /\ Message # Type /\ Message # Action
  BY DEF Message, Unpacked, Type, Action
<1>3. Unpacked # Type /\ Unpacked # Action /\ Type # Action
  BY DEF Unpacked, Type, Action
<1>4. \A i : Copy(i) \notin Kinds
  BY DEF Copy, Kinds, Message, Unpacked, Type, Action
<1>5. \A i, j : Copy(i) = Copy(j) => i = j
  BY DEF Copy
<1>6. <<"object", "">> \notin Kinds /\ \A f : <<"text", f>> \notin Kinds
  BY DEF Kinds, Message, Unpacked, Type, Action
<1>7. \A i : Copy(i) # <<"object", "">> /\ \A f : Copy(i) # <<"text", f>>
  BY DEF Copy
<1>8. ASSUME NEW object
      PROVE  Blocks(object) \cap Kinds = {} /\ \A i : Copy(i) \notin Blocks(object)
  BY <1>1, <1>6, <1>7
<1> QED
  BY <1>2, <1>3, <1>4, <1>5, <1>8

LEMMA NoBlocks == Blocks(NULL) = {}
BY DEF Blocks

LEMMA InitHeap == Init => HeapInv
BY NoBlocks DEF Init, HeapInv, Here, CopiesHere, BlocksHere, Loop, Found, UnpackedIn

(* The copies of the texts that another has not replaced are freed with    *)
(* the creation of the argument.                                           *)
LEMMA CopiesFreed ==
    ASSUME ReadInv, pc = "create"
    PROVE  CopiesHere \ Copies = {Copy(i) : i \in Overwritten}
<1>1. /\ HasArgument(message) /\ at = Len(Entries) + 1
      /\ copied \in [FieldNames -> Nat]
      /\ \A f \in FieldsOf(MessageType) : LastSeen(f)
      /\ \A f \in FieldNames \ FieldsOf(MessageType) : copied[f] = 0
  BY DEF ReadInv, ArgInv, LoopInv, Loop
<1>2. Len(Entries) \in Nat /\ FieldsOf(MessageType) \subseteq FieldNames
  BY <1>1, EntriesAre, FieldsAre
<1>3. \A f : Seen(f) = Given(Entries, f) /\ Given(Entries, f) \subseteq 1 .. Len(Entries)
  BY <1>1, <1>2 DEF Seen, Given
<1>4. \A f, g : \A i \in Given(Entries, f) \cap Given(Entries, g) : f = g
  BY DEF Given
<1> DEFINE given == UNION {Seen(f) : f \in FieldsOf(MessageType)}
           kept == {copied[f] : f \in {g \in FieldNames : copied[g] # 0}}
<1>5. given \ kept = Overwritten
  <2>1. ASSUME NEW f \in FieldsOf(MessageType), NEW i \in Given(Entries, f)
        PROVE  i \in kept <=> \A j \in Given(Entries, f) : j <= i
    <3>1. copied[f] \in Given(Entries, f) /\ \A j \in Given(Entries, f) : j <= copied[f]
      BY <1>1, <1>3, <2>1 DEF LastSeen
    <3>2. ASSUME NEW g \in FieldNames, copied[g] = i
          PROVE  g = f
      <4>1. i # 0
        BY <1>2, <1>3
      <4>2. g \in FieldsOf(MessageType) /\ i \in Given(Entries, g)
        BY <1>1, <1>3, <3>2, <4>1 DEF LastSeen
      <4> QED
        BY <1>4, <4>2
    <3>3. i \in kept <=> i = copied[f]
      BY <1>2, <1>3, <3>1, <3>2
    <3>4. i \in Nat /\ copied[f] \in Nat
      BY <1>2, <1>3, <3>1
    <3> QED
      BY <3>1, <3>3, <3>4
  <2>2. given = {i \in 1 .. Len(Entries) : \E f \in FieldsOf(MessageType) : i \in Given(Entries, f)}
    BY <1>3
  <2>3. \A i, j \in 1 .. Len(Entries) : j > i <=> ~(j <= i)
    BY <1>2
  <2> HIDE DEF given, kept
  <2> QED
    BY <1>3, <2>1, <2>2, <2>3 DEF Overwritten
<1>6. CopiesHere = {Copy(i) : i \in given}
  BY DEF CopiesHere, Loop
<1>7. Copies = {Copy(i) : i \in kept}
  BY DEF Copies
<1> HIDE DEF given, kept
<1> QED
  BY <1>5, <1>6, <1>7, Apart

LEMMA NextHeap ==
    ASSUME ReadInv, HeapInv, [Next]_vars
    PROVE  HeapInv'
<1> USE DEF Go
<1>1. CASE CopyMessage
  <2>1. CopiesHere = {} /\ CopiesHere' = {} /\ BlocksHere = {} /\ BlocksHere' = {}
    BY <1>1, NoBlocks DEF CopyMessage, ReadInv, ArgInv, CopiesHere, BlocksHere, Loop, Found, UnpackedIn
  <2> QED
    BY <1>1, <2>1 DEF CopyMessage, HeapInv, Here, Loop, Steps
<1>2. CASE Unpack
  <2>1. CopiesHere = {} /\ CopiesHere' = {} /\ BlocksHere = {} /\ BlocksHere' = {}
    BY <1>2, NoBlocks DEF Unpack, IsArray, HasArgument, IsMessage, ReadInv, ArgInv,
         CopiesHere, BlocksHere, Loop, Found, UnpackedIn
  <2> QED
    BY <1>2, <2>1 DEF Unpack, HeapInv, Here, Loop, Steps
<1>3. CASE TypeUnknown
  <2>1. CopiesHere = {} /\ CopiesHere' = {} /\ BlocksHere = {} /\ BlocksHere' = {}
    BY <1>3, NoBlocks DEF TypeUnknown, HasArgument, ReadInv, ArgInv,
         CopiesHere, BlocksHere, Loop, Found, UnpackedIn
  <2> QED
    BY <1>3, <2>1 DEF TypeUnknown, HeapInv, Here, Loop, Steps
<1>4. CASE TypeKnown
  <2>1. CopiesHere = {} /\ CopiesHere' = {} /\ BlocksHere = {} /\ BlocksHere' = {}
    BY <1>4, NoBlocks DEF TypeKnown, HasArgument, ReadInv, ArgInv,
         CopiesHere, BlocksHere, Loop, Found, UnpackedIn
  <2> QED
    BY <1>4, <2>1 DEF TypeKnown, HeapInv, Here, Loop, Steps
<1>5. CASE UnpackMap
  <2>1. at = 1 /\ arg = NULL
    BY <1>5 DEF UnpackMap, ReadInv, ArgInv, LoopInv, Loop, Found, UnpackedIn
  <2>2. HasArgument(message) => \A f : Seen(f)' = {}
    BY <1>5, <2>1, EntriesAre DEF UnpackMap, Seen, Given, Entries
  <2>3. CopiesHere = {} /\ CopiesHere' = {} /\ BlocksHere = {} /\ BlocksHere' = {}
    BY <1>5, <2>1, <2>2, NoBlocks DEF UnpackMap, CopiesHere, BlocksHere, Loop, Found, UnpackedIn
  <2> QED
    BY <1>5, <2>3 DEF UnpackMap, HeapInv, Here, Loop, Steps
<1>6. CASE UnpackEntry
  <2>1. /\ pc = "entry" /\ pc' \in Loop /\ message' = message /\ at' = at + 1 /\ arg' = arg
        /\ HasArgument(message) /\ at \in 1 .. Len(Entries) /\ Len(Entries) \in Nat
    BY <1>6, EntriesAre DEF UnpackEntry, ReadInv, ArgInv, LoopInv, Loop
  <2>2. \A f : Seen(f)' = Seen(f) \cup {i \in Given(Entries, f) : i = at}
    BY <2>1 DEF Seen, Given, Entries
  <2> DEFINE new == Entries[at].key \in FieldsOf(MessageType) /\ Entries[at].val.type = "STR"
  <2>3. new <=> \E f \in FieldsOf(MessageType) : at \in Given(Entries, f)
    BY <2>1 DEF Given
  <2>4. UNION {Seen(f)' : f \in FieldsOf(MessageType)'}
          = (UNION {Seen(f) : f \in FieldsOf(MessageType)}) \cup (IF new THEN {at} ELSE {})
    <3>1. MessageType' = MessageType
      BY <2>1 DEF MessageType
    <3>2. ASSUME NEW i
          PROVE  (\E f \in FieldsOf(MessageType) : i \in Seen(f)')
                   <=> (\E f \in FieldsOf(MessageType) : i \in Seen(f)) \/ (new /\ i = at)
      <4> HIDE DEF new
      <4> QED
        BY <2>2, <2>3
    <3> DEFINE A == UNION {Seen(f) : f \in FieldsOf(MessageType)}
               B == UNION {Seen(f)' : f \in FieldsOf(MessageType)}
    <3>3. \A i : i \in A <=> \E f \in FieldsOf(MessageType) : i \in Seen(f)
      OBVIOUS
    <3>4. \A i : i \in B <=> \E f \in FieldsOf(MessageType) : i \in Seen(f)'
      OBVIOUS
    <3> HIDE DEF new, A, B
    <3>5. B = A \cup (IF new THEN {at} ELSE {})
      BY <3>2, <3>3, <3>4
    <3> QED
      BY <3>1, <3>5 DEF A, B
  <2>5. CopiesHere' = CopiesHere \cup (IF new THEN {Copy(at)} ELSE {})
    <3> HIDE DEF new
    <3> DEFINE A == UNION {Seen(f) : f \in FieldsOf(MessageType)}
               B == UNION {Seen(f)' : f \in FieldsOf(MessageType)'}
    <3>1. CopiesHere = {Copy(i) : i \in A} /\ CopiesHere' = {Copy(i) : i \in B}
      BY <2>1 DEF CopiesHere, Loop
    <3> HIDE DEF A, B
    <3>2. B = A \cup (IF new THEN {at} ELSE {})
      BY <2>4 DEF A, B
    <3> QED
      BY <3>1, <3>2
  <2>6. BlocksHere' = BlocksHere
    BY <1>6, <2>1 DEF BlocksHere, Loop
  <2>7. heap' = heap \cup (IF new THEN {Copy(at)} ELSE {})
    BY <1>6 DEF UnpackEntry
  <2> HIDE DEF new
  <2> QED
    BY <2>1, <2>5, <2>6, <2>7 DEF HeapInv, Here, Loop, Steps
<1>7. CASE CreateArg
  <2>1. /\ pc = "create" /\ pc' = "free_action" /\ message' = message
        /\ HasArgument(message) /\ arg = NULL
    BY <1>7 DEF CreateArg, ReadInv, ArgInv, Loop, Found, UnpackedIn
  <2>2. CopiesHere' = CopiesHere \ Copies
    BY <2>1, CopiesFreed DEF CopiesHere, Loop, Found, Overwritten, Entries, MessageType
  <2>3. BlocksHere = {} /\ BlocksHere' = Blocks(arg')
    BY <2>1, NoBlocks DEF BlocksHere
  <2>4. heap' = (heap \ Copies) \cup Blocks(arg')
    BY <1>7 DEF CreateArg
  <2>5. Copies \cap Kinds = {}
    BY Apart DEF Copies
  <2> QED
    BY <2>1, <2>2, <2>3, <2>4, <2>5 DEF HeapInv, Here, Loop, Steps, Kinds
<1>8. CASE FreeAction \/ FreeType \/ DestroyUnpacked \/ ReleaseMessage
  <2>1. CopiesHere' = CopiesHere /\ BlocksHere' = BlocksHere
    BY <1>8 DEF FreeAction, FreeType, DestroyUnpacked, ReleaseMessage, Free,
         CopiesHere, BlocksHere, Loop, Found, UnpackedIn, Overwritten, Entries, MessageType
  <2>2. CopiesHere \cap Kinds = {} /\ BlocksHere \cap Kinds = {}
    BY Apart DEF CopiesHere, BlocksHere
  <2>3. CASE FreeAction
    BY <2>1, <2>2, <2>3, Apart DEF FreeAction, Free, HeapInv, Here, Loop, Steps, Kinds
  <2>4. CASE FreeType
    BY <2>1, <2>2, <2>4, Apart DEF FreeType, Free, HeapInv, Here, Loop, Steps, Kinds
  <2>5. CASE DestroyUnpacked
    BY <2>1, <2>2, <2>5, Apart DEF DestroyUnpacked, Free, HeapInv, Here, Loop, Steps, Kinds
  <2>6. CASE ReleaseMessage
    BY <2>1, <2>2, <2>6, Apart DEF ReleaseMessage, Free, HeapInv, Here, Loop, Steps, Kinds
  <2> QED
    BY <1>8, <2>3, <2>4, <2>5, <2>6
<1>9. CASE ReceiveHandled \/ ReceiveOther
  <2>1. CopiesHere' = CopiesHere /\ BlocksHere' = BlocksHere
    BY <1>9 DEF ReceiveHandled, ReceiveOther, CopiesHere, BlocksHere, Loop, Found, UnpackedIn,
         Overwritten, Entries, MessageType
  <2> QED
    BY <1>9, <2>1 DEF ReceiveHandled, ReceiveOther, HeapInv, Here, Loop, Steps
<1>10. CASE ReleaseArg
  <2>1. name \in Handled
    BY <1>10 DEF ReleaseArg, ReadInv, NameInv
  <2>2. CopiesHere' = CopiesHere /\ BlocksHere = Blocks(arg) /\ BlocksHere' = {}
    BY <1>10, <2>1 DEF ReleaseArg, CopiesHere, BlocksHere, Loop, Found, UnpackedIn,
         Overwritten, Entries, MessageType
  <2>3. Blocks(arg) \cap Kinds = {} /\ Blocks(arg) \cap CopiesHere = {}
    BY Apart DEF CopiesHere
  <2> QED
    BY <1>10, <2>2, <2>3 DEF ReleaseArg, HeapInv, Here, Loop, Steps, Kinds
<1>11. CASE UNCHANGED vars
  <2>1. CopiesHere' = CopiesHere /\ BlocksHere' = BlocksHere
    BY <1>11 DEF vars, CopiesHere, BlocksHere, Overwritten, Seen, Entries, MessageType
  <2> QED
    BY <1>11, <2>1 DEF vars, HeapInv, Here
<1> QED
  BY <1>1, <1>2, <1>3, <1>4, <1>5, <1>6, <1>7, <1>8, <1>9, <1>10, <1>11 DEF Next

LEMMA HeapSound == Spec => [](ReadInv /\ HeapInv)
BY InitInv, NextInv, InitHeap, NextHeap, PTL DEF Spec

(* A message that is handled, with no key twice, leaves nothing allocated. *)
THEOREM LeavesNothing == Spec => []HandledLeavesNothing
<1>1. ReadInv /\ HeapInv => HandledLeavesNothing
  <2> SUFFICES ASSUME ReadInv, HeapInv, pc = "done", name \in Handled, NoKeyTwice
               PROVE  heap = {}
    BY DEF HandledLeavesNothing
  <2>1. heap = CopiesHere
    BY DEF HeapInv, Here, BlocksHere, Loop, Steps
  <2>2. HasArgument(message) => Overwritten = {}
    <3> SUFFICES ASSUME HasArgument(message), NEW i \in Overwritten
                 PROVE  FALSE
      OBVIOUS
    <3>1. PICK f \in FieldsOf(MessageType) :
             i \in Given(Entries, f) /\ \E j \in Given(Entries, f) : j > i
      BY DEF Overwritten
    <3>2. PICK j \in Given(Entries, f) : j > i
      BY <3>1
    <3>3. i \in 1 .. Len(Entries) /\ j \in 1 .. Len(Entries) /\ Len(Entries) \in Nat
      BY <3>1, <3>2, EntriesAre DEF Given
    <3>4. Entries[i].key = f /\ Entries[j].key = f
      BY <3>1, <3>2 DEF Given
    <3> QED
      BY <3>2, <3>3, <3>4 DEF NoKeyTwice
  <2> QED
    BY <2>1, <2>2 DEF CopiesHere, Loop
<1> QED
  BY <1>1, HeapSound, PTL

(* Nothing is freed that is not allocated, whatever came.                  *)
THEOREM FreesOnce == Spec => []FreesWhatItHolds
<1>1. ReadInv /\ HeapInv => FreesWhatItHolds
  <2> SUFFICES ASSUME ReadInv, HeapInv
               PROVE  FreesWhatItHolds
    OBVIOUS
  <2>1. ASSUME pc = "create"
        PROVE  Copies \subseteq heap
    <3>1. ASSUME NEW f \in FieldNames, copied[f] # 0
          PROVE  Copy(copied[f]) \in CopiesHere
      <4>1. f \in FieldsOf(MessageType) /\ copied[f] \in Seen(f)
        BY <2>1, <3>1 DEF ReadInv, LoopInv, Loop, LastSeen
      <4> QED
        BY <2>1, <4>1 DEF CopiesHere, Loop
    <3>2. CopiesHere \subseteq heap
      BY DEF HeapInv
    <3> QED
      BY <3>1, <3>2 DEF Copies
  <2>2. pc = "release_arg" => Blocks(arg) \subseteq heap
    BY DEF HeapInv, BlocksHere
  <2>3. /\ pc = "free_action" => Action \in heap
        /\ pc = "free_type" => Type \in heap
        /\ pc = "destroy" => Unpacked \in heap
        /\ pc = "release_message" => Message \in heap
    BY DEF HeapInv, Here, Steps
  <2> QED
    BY <2>1, <2>2, <2>3 DEF FreesWhatItHolds
<1> QED
  BY <1>1, HeapSound, PTL

-----------------------------------------------------------------------------
(* Type correctness, with the message one of those that may come.          *)
TypeInv == TypeOK /\ message \in Incoming

LEMMA AllBlocksAre ==
    {Message, Unpacked, Type, Action} \cup {Copy(i) : i \in 1 .. 3} \subseteq AllBlocks
BY DEF AllBlocks

LEMMA InitType == Init => TypeInv
<1>1. Init => copied \in [FieldNames -> 0 .. 3]
  BY DEF Init
<1>2. Init => arg \in Args
  BY DEF Init, Args
<1>3. Init => heap \subseteq AllBlocks
  BY DEF Init
<1>4. Init => /\ message \in Incoming /\ pc \in Steps /\ name \in Names \cup {NONE}
              /\ pushed \in {NONE, "AUTHENTICATED_RECEIVED", "CLOSE_RECEIVED"}
  BY DEF Init, Steps
<1>5. Init => at \in 1 .. 4
  BY DEF Init
<1>6. Init => no_memory \in BOOLEAN
  BY DEF Init
<1> QED
  BY <1>1, <1>2, <1>3, <1>4, <1>5, <1>6 DEF TypeInv, TypeOK

LEMMA CreateType ==
    ASSUME TypeInv, ReadInv, CreateArg
    PROVE  TypeInv'
<1>1. /\ message' = message /\ pc' = "free_action"
      /\ HasArgument(message) /\ at = Len(Entries) + 1
      /\ \A f \in FieldsOf(MessageType) : LastSeen(f)
  BY DEF CreateArg, Go, ReadInv, ArgInv, LoopInv, Loop
<1>2. MessageType \in Types /\ FieldsOf(MessageType) \subseteq FieldNames
  BY <1>1, EntriesAre, FieldsAre
<1>3. ASSUME NEW f \in FieldsOf(MessageType)
      PROVE  Text(f) \in Texts \cup {NULL}
  <2>1. copied[f] = 0 \/ copied[f] \in Given(Entries, f)
    BY <1>1 DEF LastSeen, Seen
  <2>2. copied[f] \in Given(Entries, f) => Entries[copied[f]].val.str \in Texts
    BY <1>1, IncomingAssumption DEF Given, Entries, TypeInv
  <2> QED
    BY <2>1, <2>2 DEF Text
<1>4. arg' \in ObjectsOf(MessageType) \cup {NULL} /\ no_memory' \in BOOLEAN
  <2> DEFINE t == [f \in FieldNames |-> Text(f)]
  <2>1. \A f \in FieldsOf(MessageType) : t[f] \in Texts \cup {NULL}
    BY <1>2, <1>3
  <2>2. arg' = Object(MessageType, t) \/ arg' = NULL
    BY DEF CreateArg
  <2>3. no_memory' \in BOOLEAN
    BY DEF CreateArg, TypeInv, TypeOK
  <2> HIDE DEF t
  <2> QED
    BY <2>1, <2>2, <2>3 DEF Object, ObjectsOf
<1>5. Blocks(arg') \subseteq AllBlocks
  <2>1. arg' = NULL \/ DOMAIN arg'.value = FieldsOf(MessageType)
    BY <1>4 DEF ObjectsOf
  <2> QED
    BY <1>2, <2>1 DEF Blocks, AllBlocks
<1>6. heap' \subseteq heap \cup Blocks(arg')
  BY DEF CreateArg
<1>7. UNCHANGED <<name, at, copied, pushed>>
  BY DEF CreateArg
<1>8. arg' \in Args
  BY <1>2, <1>4 DEF Args
<1> QED
  BY <1>1, <1>4, <1>5, <1>6, <1>7, <1>8 DEF TypeInv, TypeOK, Steps

LEMMA NextType ==
    ASSUME TypeInv, ReadInv, [Next]_vars
    PROVE  TypeInv'
<1> USE DEF Go, TypeInv, TypeOK, Steps
<1>1. CASE CopyMessage
  BY <1>1, AllBlocksAre DEF CopyMessage
<1>2. CASE Unpack
  BY <1>2, AllBlocksAre DEF Unpack
<1>3. CASE TypeUnknown
  BY <1>3 DEF TypeUnknown
<1>4. CASE TypeKnown
  <2>1. name' \in Names \cup {name}
    BY <1>4 DEF TypeKnown, NameOf
  <2> QED
    BY <1>4, <2>1, AllBlocksAre DEF TypeKnown
<1>5. CASE UnpackMap
  BY <1>5 DEF UnpackMap, Args
<1>6. CASE UnpackEntry
  <2>1. at \in 1 .. 3
    BY <1>6, EntriesAre DEF UnpackEntry, ReadInv, ArgInv, LoopInv, Loop
  <2>2. copied' \in [FieldNames -> 0 .. 3]
    BY <1>6, <2>1 DEF UnpackEntry
  <2>3. heap' \subseteq heap \cup {Copy(at)}
    BY <1>6 DEF UnpackEntry
  <2>4. pc' \in Steps /\ at' = at + 1 /\ UNCHANGED <<message, name, arg, pushed, no_memory>>
    BY <1>6 DEF UnpackEntry
  <2> QED
    BY <2>1, <2>2, <2>3, <2>4, AllBlocksAre
<1>7. CASE CreateArg
  BY <1>7, CreateType
<1>8. CASE FreeAction \/ FreeType \/ DestroyUnpacked \/ ReleaseMessage
  BY <1>8 DEF FreeAction, FreeType, DestroyUnpacked, ReleaseMessage, Free
<1>9. CASE ReceiveHandled
  BY <1>9 DEF ReceiveHandled, EventOf, Handled
<1>10. CASE ReceiveOther
  BY <1>10 DEF ReceiveOther
<1>11. CASE ReleaseArg
  BY <1>11 DEF ReleaseArg
<1>12. CASE UNCHANGED vars
  BY <1>12 DEF vars
<1> QED
  BY <1>1, <1>2, <1>3, <1>4, <1>5, <1>6, <1>7, <1>8, <1>9, <1>10, <1>11, <1>12 DEF Next

(* Every variable keeps its type.                                          *)
THEOREM ReadTypeCorrect == Spec => []TypeOK
<1>1. Spec => [](TypeInv /\ ReadInv)
  BY InitType, NextType, InitInv, NextInv, PTL DEF Spec
<1> QED
  BY <1>1, PTL DEF TypeInv
=============================================================================
