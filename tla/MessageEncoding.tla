--------------------------- MODULE MessageEncoding ---------------------------
(***************************************************************************)
(* What becomes of a message that is encoded by one process and decoded by *)
(* another (utils/encoding.py): serialization to dictionaries or to packed *)
(* sequences, then msgpack or msgspec.  A packed sequence is a string of   *)
(* bytes, or of characters where json yields text; here a byte is a digit  *)
(* of a small Base, so that short payloads have every kind of length.      *)
(***************************************************************************)
EXTENDS Integers, Sequences, SequencesExt, FiniteSets

CONSTANTS
  Objects,   \* the messages, see Leaf and Node
  Sizes      \* of the JSON of a leaf

ASSUME EncodingAssumption == Sizes \subseteq Nat \ {0}

VARIABLES
  config,   \* serialization, encoding, and whether json is orjson; never changes
  object,   \* the message; never changes
  stage,    \* "object", "message", "back"
  coded,    \* what is on the wire
  decoded   \* what the receiver gets

encodingVars == <<config, object, stage, coded, decoded>>

\* A leaf is a Pydantic model or plain data.  A node, a list, tuple or mapping, holds a
\* model at some depth: without any it is plain data.
Leaf(shape, size) == [shape |-> shape, size |-> size, keys |-> <<>>, items |-> <<>>]
Node(shape, keys, items) == [shape |-> shape, size |-> 0, keys |-> keys, items |-> items]
IsModel(o) == o.shape = "model"
HoldsModel(o) == \E i \in DOMAIN o.items : IsModel(o.items[i])

Failed == Leaf("error", 0)

-----------------------------------------------------------------------------
(* Serializer.to_dict and from_dict *)

Marker == "*PYD*"

RECURSIVE ToDict(_)
ToDict(o) ==
  IF IsModel(o) THEN Node("mapping", <<Marker, "dat">>, <<Leaf("plain", 1), Leaf("plain", o.size)>>)
  ELSE [o EXCEPT !.shape = IF @ = "tuple" THEN "list" ELSE @,
                 !.items = [i \in DOMAIN @ |-> ToDict(@[i])]]

\* Mutant: lists are not looked into.
RECURSIVE FromDictFlat(_)
FromDictFlat(o) ==
  IF Marker \in ToSet(o.keys) THEN Leaf("model", o.items[2].size)
  ELSE IF o.shape = "mapping" THEN [o EXCEPT !.items = [i \in DOMAIN @ |-> FromDictFlat(@[i])]] ELSE o
RECURSIVE FromDict(_)
FromDict(o) ==
  IF Marker \in ToSet(o.keys) THEN Leaf("model", o.items[2].size)
  ELSE [o EXCEPT !.items = [i \in DOMAIN @ |-> FromDict(@[i])]]

-----------------------------------------------------------------------------
(* Packed sequences *)

Base == 8
Bar == 3
Comma == 0
Letter == 1
TypeByte == [model |-> 4, plain |-> 5, list |-> 6, mapping |-> 7]

\* A string of bytes or of text, or what an exception leaves.
Packed(text, data) == [ok |-> TRUE, text |-> text, data |-> data]
Refused == [ok |-> FALSE, text |-> FALSE, data |-> <<>>]
NoPack == [ok |-> TRUE, text |-> FALSE, data |-> <<>>, none |-> TRUE]

\* to_bytes with as few bytes as possible; decimal digits are no bytes of their own.
\* Mutant: always one.
DigitsOne(n) == <<n>>
Digits(n) ==
  LET digits[k \in 0 .. n] == IF k < Base THEN <<k>> ELSE Append(digits[k \div Base], k % Base)
  IN digits[n]
Number(digits) == FoldLeft(LAMBDA sum, d : sum * Base + d, 0, digits)
LengthField(text, n) == IF text THEN <<Base + n>> ELSE Digits(n)

\* The key "a,b" is written as it is, and a number as its text.
KeyBytes == [text |-> <<Letter>>, comma |-> <<Letter, Comma, Letter>>, number |-> <<Letter + 1>>]

\* JSON may contain the delimiter.
Json(size) == [i \in 1 .. size |-> IF i % 2 = 0 THEN Bar ELSE Letter]

\* to_sequence_pydantic: name, module and JSON, always bytes; to_sequence_python: json
\* of orjson or of the standard library, which cannot do models.
Payload(o) ==
  IF IsModel(o) THEN Packed(FALSE, <<Letter, Bar, Letter, Bar>> \o Json(o.size))
  ELSE IF o.items # <<>> THEN Refused ELSE Packed(~config.orjson, Json(o.size))

\* pack_next_sequence
Header(type, piece) == <<TypeByte[type], Bar>> \o LengthField(piece.text, Len(piece.data)) \o <<Bar>>
PackNext(type, piece, current) ==
  IF ~piece.ok \/ ~current.ok \/ (current # NoPack /\ current.text # piece.text) THEN Refused
  ELSE Packed(piece.text, (IF current = NoPack THEN <<>> ELSE current.data) \o Header(type, piece) \o piece.data)

ItemType(o) == IF IsModel(o) THEN "model" ELSE "plain"
PackItems(items, start) ==
  FoldLeft(LAMBDA current, o : PackNext(ItemType(o), Payload(o), current), start, items)
KeysOf(o) == FlattenSeq([i \in DOMAIN o.keys |->
               (IF i = 1 THEN <<>> ELSE <<Comma>>) \o KeyBytes[o.keys[i]]]) \o <<Bar>>

RootType(o) ==
  IF o.shape \in {"list", "tuple"} /\ HoldsModel(o) THEN "list"
  ELSE IF o.shape = "mapping" /\ HoldsModel(o) THEN "mapping" ELSE ItemType(o)
RootPayload(o) ==
  IF RootType(o) = "list" THEN PackItems(o.items, NoPack)
  ELSE IF RootType(o) = "mapping" THEN PackItems(o.items, Packed(FALSE, KeysOf(o)))
  ELSE Payload(o)
ToSequence(o) == PackNext(RootType(o), RootPayload(o), NoPack)

\* unpack_next_sequence: the type, the payload and what is left after it.
Known(byte) == \E type \in DOMAIN TypeByte : TypeByte[type] = byte
NoPiece == [ok |-> FALSE, type |-> 0, payload |-> <<>>, rest |-> <<>>]
\* Mutant: it looks for the end of the length where the first field ends.
LengthEndsEarly(data) == {i \in 2 .. Len(data) : data[i] = Bar}
LengthEnds(data) == {i \in 3 .. Len(data) : data[i] = Bar}
Unpack(data, text) ==
  IF Len(data) < 3 \/ data[2] # Bar \/ ~Known(data[1]) \/ LengthEnds(data) = {} THEN NoPiece
  ELSE LET bar == CHOOSE i \in LengthEnds(data) : \A j \in LengthEnds(data) : i <= j
           field == SubSeq(data, 3, bar - 1)
           length == IF text THEN field[1] - Base ELSE Number(field)
           last == IF bar + length <= Len(data) THEN bar + length ELSE Len(data)
       IN [ok |-> TRUE, type |-> data[1], payload |-> SubSeq(data, bar + 1, last),
           rest |-> SubSeq(data, last + 1, Len(data))]

\* from_sequence_pydantic and from_sequence_python: a payload that is no JSON raises.
Restore(piece) ==
  LET fits == {o \in {Leaf(shape, size) : shape \in {"model", "plain"}, size \in Sizes} :
                 TypeByte[o.shape] = piece.type /\ Payload(o).data = piece.payload}
  IN IF piece.ok /\ fits # {} THEN CHOOSE o \in fits : TRUE ELSE Failed

\* The loop over the pieces of a collection.
Pieces(data, text) ==
  LET step(s, i) ==
        IF s.rest = <<>> \/ s.failed THEN s
        ELSE LET piece == Unpack(s.rest, text) IN
             [rest |-> piece.rest, items |-> Append(s.items, Restore(piece)), failed |-> Restore(piece) = Failed]
      end == FoldLeft(step, [rest |-> data, items |-> <<>>, failed |-> FALSE], [i \in 1 .. Len(data) |-> i])
  IN IF end.failed THEN <<Failed>> ELSE end.items

\* The keys between the commas; one that was a number is a text now.
KeysIn(bytes) ==
  LET step(keys, b) == IF b = Comma THEN Append(keys, <<>>)
                       ELSE [keys EXCEPT ![Len(keys)] = Append(@, b)]
      name(key) == IF key = KeyBytes.number THEN "digits" ELSE IF key = KeyBytes.text THEN "text" ELSE "other"
      parts == FoldLeft(step, <<<<>>>>, bytes)
  IN [i \in DOMAIN parts |-> name(parts[i])]

FromSequence(packed) ==
  LET root == Unpack(packed.data, packed.text)
      bar == CHOOSE i \in DOMAIN root.payload :
               root.payload[i] = Bar /\ \A j \in 1 .. i - 1 : root.payload[j] # Bar
      keys == KeysIn(SubSeq(root.payload, 1, bar - 1))
      items == Pieces(IF root.type = TypeByte.list THEN root.payload
                      ELSE SubSeq(root.payload, bar + 1, Len(root.payload)), packed.text)
  IN IF ~root.ok \/ root.rest # <<>> THEN Failed
     ELSE IF root.type \in {TypeByte.model, TypeByte.plain} THEN Restore(root)
     ELSE IF root.type = TypeByte.list
          THEN IF items = <<Failed>> THEN Failed ELSE Node("list", <<>>, items)
     ELSE IF Bar \notin ToSet(root.payload) THEN Failed
     ELSE IF items = <<Failed>> \/ Len(keys) < Len(items) THEN Failed
     ELSE Node("mapping", SubSeq(keys, 1, Len(items)), items)

-----------------------------------------------------------------------------
(* MessageEncoding.encode and decode *)

RECURSIVE Listed(_)
Listed(o) == [o EXCEPT !.shape = IF @ = "tuple" THEN "list" ELSE @,
                       !.items = [i \in DOMAIN @ |-> Listed(@[i])]]
RECURSIVE Deep(_)
Deep(o) == IsModel(o) \/ \E i \in DOMAIN o.items : Deep(o.items[i])

\* Encoder: msgpack and msgspec know lists, but no models and, for msgpack's decoder,
\* no keys other than text.
Transcoded(o) ==
  IF config.encoding = "none" THEN o
  ELSE IF Deep(o) \/ (config.encoding = "msgpack" /\ "number" \in ToSet(o.keys)) THEN Failed
  ELSE Listed(o)

EncodingInit ==
  /\ config \in [serialization : {"none", "dict", "sequence"}, encoding : {"none", "msgpack", "msgspec"},
                 orjson : BOOLEAN]
  /\ object \in Objects /\ stage = "object" /\ coded = Failed /\ decoded = Failed

Encodes ==
  /\ stage = "object" /\ stage' = "message"
  /\ coded' = IF config.serialization = "none" THEN Transcoded(object)
              ELSE IF config.serialization = "dict" THEN Transcoded(ToDict(object))
              ELSE ToSequence(object)
  /\ UNCHANGED <<config, object, decoded>>

Decodes ==
  /\ stage = "message" /\ stage' = "back"
  /\ decoded' = IF config.serialization = "none" \/ coded = Failed THEN coded
                ELSE IF config.serialization = "dict" THEN FromDict(coded)
                ELSE IF coded.ok THEN FromSequence(coded) ELSE Failed
  /\ UNCHANGED <<config, object, coded>>

EncodingNext == Encodes \/ Decodes
EncodingSpec == EncodingInit /\ [][EncodingNext]_encodingVars

-----------------------------------------------------------------------------
(* Properties *)

\* A byte is a byte, also one of a length.
EncodingTypeOK ==
  /\ stage \in {"object", "message", "back"}
  /\ stage # "object" /\ config.serialization = "sequence" /\ coded.ok /\ ~coded.text =>
       ToSet(coded.data) \subseteq 0 .. Base - 1

\* What is decoded is what was encoded, with lists for tuples; but a packed mapping is
\* right only when its keys are texts without a comma, and that is not checked.
Plainly == config.serialization = "none" /\ config.encoding = "none"
DecodedIsTheObject ==
  stage = "back" /\ decoded # Failed =>
    \/ decoded = IF Plainly THEN object ELSE Listed(object)
    \/ config.serialization = "sequence" /\ object.shape = "mapping" /\ ToSet(object.keys) # {"text"}

\* A length whose big-endian bytes contain the delimiter: unpack_next_sequence takes
\* the first delimiter it finds for the end of the length.
PieceLengths ==
  {Len(RootPayload(object).data)} \cup {Len(Payload(object.items[i]).data) : i \in DOMAIN object.items}
BarInLength == \E n \in PieceLengths : Bar \in ToSet(Digits(n))

\* The messages that cannot be sent, and no others: with sequences, those with such a
\* length, with models below the first level, or with models and text from the standard
\* json side by side; models without a serialization; numbers as keys with msgpack.
NotSendable ==
  \/ config.serialization = "none" /\ config.encoding # "none" /\ Deep(object)
  \/ config.serialization # "sequence" /\ config.encoding = "msgpack" /\ "number" \in ToSet(object.keys)
  \/ /\ config.serialization = "sequence"
     /\ \/ BarInLength
        \/ \E i \in DOMAIN object.items : object.items[i].items # <<>>
        \/ ~config.orjson /\ (object.shape = "mapping" \/ HoldsModel(object))
             /\ \E i \in DOMAIN object.items : ~IsModel(object.items[i])
RefusedForAReason == stage = "back" /\ decoded = Failed => NotSendable

\* What is decoded is the object that was encoded, and what is refused could not have been
\* sent by that combination of serialization and encoding.
EncodingIsFaithful == EncodingTypeOK /\ DecodedIsTheObject /\ RefusedForAReason
=============================================================================
