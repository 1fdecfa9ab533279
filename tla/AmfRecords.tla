----------------------------- MODULE AmfRecords -----------------------------
(***************************************************************************)
(* AMF0, the encoding of RTMP's commands: Amf0Record::encode writes a      *)
(* value into a buffer, the constructor Amf0Record( buffer ) takes one out *)
(* of it, with the fields of objects and arrays inside.                    *)
(*                                                                         *)
(* The markers are those of the code; a number and a length have one byte  *)
(* each, the count of an array two, half of those of the other's length.   *)
(* The constructor calls itself for the value of a field; here the open    *)
(* containers are a stack.                                                 *)
(***************************************************************************)
EXTENDS Integers, Sequences, FiniteSets

CONSTANTS
    Messages        \* bound: what is sent, sequences of values

VARIABLES
    message,        \* what was sent
    buffer,         \* what is left to decode
    open,           \* the containers that are being read, the innermost last
    records,        \* what was decoded
    outcome         \* "decodes", "thrown", or "beyond": bytes behind the buffer are read

amfVars == << message, buffer, open, records, outcome >>

NUMBER == 0
BOOLEAN_ == 1
STRING_ == 2
OBJECT == 3
NULL == 5
UNDEFINED == 6
ARRAY == 8
OBJECT_END == 9

Containers == {OBJECT, ARRAY}

\* A value: its marker, and a byte, a string of bytes or a sequence of fields.
Value(type, value) == [mType |-> type, mValue |-> value]
Field(name, record) == [name |-> name, record |-> record]

Prefixed(s) == << Len(s) >> \o s

RECURSIVE encode(_), FieldsFrom(_, _)

\* Amf0Object::encode and Amf0Array::encode, but for what comes before the fields.
FieldsFrom(fields, i) ==
    IF i > Len(fields) THEN << 0, OBJECT_END >>
    ELSE Prefixed(fields[i].name) \o encode(fields[i].record) \o FieldsFrom(fields, i + 1)

encode(v) ==
    << v.mType >> \o
    CASE v.mType \in {NUMBER, BOOLEAN_} -> << v.mValue >>
      [] v.mType = STRING_ -> Prefixed(v.mValue)
      [] v.mType = OBJECT -> FieldsFrom(v.mValue, 1)
      [] v.mType = ARRAY -> << 0, 0 >> \o FieldsFrom(v.mValue, 1)
      [] OTHER -> << >>

-----------------------------------------------------------------------------
(* Amf0Record( buffer ) *)

RECURSIVE EncodeAll(_)
EncodeAll(values) == IF values = << >> THEN << >> ELSE encode(Head(values)) \o EncodeAll(Tail(values))

AmfInit ==
    /\ message \in Messages
    /\ buffer = EncodeAll(message)
    /\ open = << >> /\ records = << >> /\ outcome = "decodes"

Decodes == outcome = "decodes" /\ (buffer # << >> \/ open # << >>)

From(i) == SubSeq(buffer, i, Len(buffer))

\* A value is the next one of the innermost container under the name that was read, or of the
\* message.
Complete(containers, record) ==
    IF containers = << >> THEN records' = Append(records, record) /\ open' = << >>
    ELSE LET n == Len(containers)
         IN  /\ open' = [containers EXCEPT ![n].fields = Append(@, Field(containers[n].name, record))]
             /\ UNCHANGED records

ReadsBeyond == outcome' = "beyond" /\ UNCHANGED << buffer, open, records >>

\* The value at position i, of a field if there are open containers.
ReadValue(i, containers) ==
    IF i > Len(buffer) THEN ReadsBeyond
    ELSE CASE buffer[i] \in {NUMBER, BOOLEAN_} ->
                IF i + 1 > Len(buffer) THEN ReadsBeyond
                ELSE Complete(containers, Value(buffer[i], buffer[i + 1])) /\ buffer' = From(i + 2) /\ UNCHANGED outcome
           [] buffer[i] = STRING_ ->
                IF i + 1 > Len(buffer) \/ i + 1 + buffer[i + 1] > Len(buffer) THEN ReadsBeyond
                ELSE /\ Complete(containers, Value(STRING_, SubSeq(buffer, i + 2, i + 1 + buffer[i + 1])))
                     /\ buffer' = From(i + 2 + buffer[i + 1])
                     /\ UNCHANGED outcome
           [] buffer[i] \in Containers ->
                /\ open' = Append(containers, [mType |-> buffer[i], fields |-> << >>, name |-> << >>])
                /\ buffer' = From(i + 1)
                /\ UNCHANGED << records, outcome >>
           [] buffer[i] \in {NULL, UNDEFINED} ->
                Complete(containers, Value(buffer[i], 0)) /\ buffer' = From(i + 1) /\ UNCHANGED outcome
           [] OTHER -> outcome' = "thrown" /\ UNCHANGED << buffer, open, records >>

\* request.payload() is decoded to its end.
DecodeRecord == Decodes /\ open = << >> /\ ReadValue(1, << >>) /\ UNCHANGED message

inner == open[Len(open)]
outer == SubSeq(open, 1, Len(open) - 1)

\* Mutant: the end is looked for before the length.
AtEndEarly == buffer[1] = OBJECT_END

\* The byte behind the length ends a container, whatever the length is.
AtEnd == Len(buffer) > 1 /\ buffer[2] = OBJECT_END

\* Or the buffer ends.
CloseContainer ==
    /\ Decodes /\ open # << >>
    /\ buffer = << >> \/ AtEnd
    /\ Complete(outer, Value(inner.mType, inner.fields))
    /\ buffer' = From(3)
    /\ UNCHANGED << message, outcome >>

\* The count of an array is not read: it is taken for a field.
DecodeField ==
    /\ Decodes /\ open # << >> /\ buffer # << >> /\ ~AtEnd
    /\ LET length == buffer[1]
       IN  IF length + 1 > Len(buffer) THEN ReadsBeyond
           ELSE ReadValue(length + 2, [open EXCEPT ![Len(open)].name = SubSeq(buffer, 2, length + 1)])
    /\ UNCHANGED message

AmfNext == DecodeRecord \/ CloseContainer \/ DecodeField

AmfSpec == AmfInit /\ [][AmfNext]_amfVars

-----------------------------------------------------------------------------
(* Properties *)

RECURSIVE Readable(_)

\* Values without arrays, whose fields' names do not begin with the end marker.
Readable(v) ==
    /\ v.mType # ARRAY
    /\ v.mType = OBJECT =>
         \A i \in DOMAIN v.mValue :
             Readable(v.mValue[i].record) /\ (v.mValue[i].name # << >> => v.mValue[i].name[1] # OBJECT_END)

\* A message comes out of the buffer as it was put in, nested and empty objects, empty strings
\* and bytes that look like markers included, and no step of decoding it throws or leaves the
\* buffer (Amf0Record::encode and Amf0Record( buffer )).
MessageDecoded ==
    (\A i \in DOMAIN message : Readable(message[i]))
        => /\ outcome = "decodes"
           /\ records = SubSeq(message, 1, Len(records))
           /\ buffer = << >> /\ open = << >> => records = message
=============================================================================
