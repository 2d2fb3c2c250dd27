-------------------------------- MODULE Amf0 ---------------------------------
(***************************************************************************)
(* AMF0, src/src/rtmp/amf0.rs: the values a command message consists of,   *)
(* how they are written and what is read back.                             *)
(*                                                                         *)
(* A payload is a sequence of fields, each a pair: a type marker with what *)
(* is fixed in size after it, or the key of a property, which is a length  *)
(* and that many bytes.  A string is the number of its bytes, a number or  *)
(* a date opaque.  A field where another kind is expected, which as bytes  *)
(* would be read as something else, is taken to be unreadable.             *)
(***************************************************************************)
EXTENDS Integers, Sequences, SequencesExt

CONSTANTS
  U16, \* how many lengths two bytes have, 2^16
  MAX_DEPTH

\* Values: <<"number", x>>, <<"boolean", b>>, <<"string", length>>, <<"date", x>>,
\* <<"null", 0>>, <<"undefined", 0>>, <<"object", properties>>, <<"ecma", properties>>,
\* <<"strict", values>>; a property is <<key, value>>.

End == <<"object end", 0>>
Key(length) == <<"key", length>>

(***************************************************************************)
(* read_all                                                                *)
(***************************************************************************)

\* What is read ends before field `at`; or something is wrong there, which is
\* that the payload has ended if there is no such field.
Got(value, at) == [ok |-> TRUE, value |-> value, at |-> at]
Failed(at) == [ok |-> FALSE, at |-> at]

As(is, read) == IF read.ok THEN Got(<<is, read.value>>, read.at) ELSE read
Before(value, rest) == IF rest.ok THEN Got(<<value>> \o rest.value, rest.at) ELSE rest

RECURSIVE ValueAt(_, _, _), PropertiesAt(_, _, _), ValuesAt(_, _, _, _), ValuesFrom(_, _)

\* Reader::properties: up to an empty key and the marker that confirms it.
PropertiesAt(fields, i, depth) ==
  IF i > Len(fields) THEN Failed(i)
  ELSE IF fields[i][1] # "key" THEN Failed(i)
  ELSE IF fields[i] = Key(0)
  THEN IF i < Len(fields) /\ fields[i + 1] = End THEN Got(<< >>, i + 2) ELSE Failed(i + 1)
  ELSE LET first == ValueAt(fields, i + 1, depth)
       IN IF first.ok THEN Before(<<fields[i][2], first.value>>, PropertiesAt(fields, first.at, depth))
          ELSE first

\* Mutant: the count of an associative array says where it ends.
EcmaCounted(fields, i, depth) ==
  LET inner == PropertiesAt(fields, i, depth)
  IN IF inner.ok /\ Len(inner.value) > fields[i - 1][2]
     THEN Got(SubSeq(inner.value, 1, fields[i - 1][2]), inner.at) ELSE inner

\* The count of an associative array is read past: its terminator ends it.
EcmaAt(fields, i, depth) == PropertiesAt(fields, i, depth)

\* The members of a dense array, as many as it says.
ValuesAt(fields, i, count, depth) ==
  IF count = 0 THEN Got(<< >>, i)
  ELSE LET first == ValueAt(fields, i, depth)
       IN IF first.ok THEN Before(first.value, ValuesAt(fields, first.at, count - 1, depth)) ELSE first

\* Reader::value and nested: the value that begins at field i, so deep, if it
\* is of a type that is read.
ValueAt(fields, i, depth) ==
  IF i > Len(fields) THEN Failed(i)
  ELSE LET marker == fields[i][1]  of == fields[i][2]
       IN CASE marker \in {"number", "date", "null", "undefined", "string"} -> Got(fields[i], i + 1)
            [] marker = "long string" -> Got(<<"string", of>>, i + 1)
            [] marker = "boolean" -> Got(<<"boolean", of # 0>>, i + 1)
            [] marker = "object" /\ depth < MAX_DEPTH -> As("object", PropertiesAt(fields, i + 1, depth + 1))
            [] marker = "ecma" /\ depth < MAX_DEPTH -> As("ecma", EcmaAt(fields, i + 1, depth + 1))
            [] marker = "strict" /\ depth < MAX_DEPTH -> As("strict", ValuesAt(fields, i + 1, of, depth + 1))
            [] OTHER -> Failed(i)

ValuesFrom(fields, i) ==
  IF i > Len(fields) THEN Got(<< >>, i)
  ELSE LET first == ValueAt(fields, i, 0)
       IN IF first.ok THEN Before(first.value, ValuesFrom(fields, first.at)) ELSE first

\* Every value of a payload; only its end says how many there are.
read_all(fields) == ValuesFrom(fields, 1)

(***************************************************************************)
(* write_all                                                               *)
(***************************************************************************)

RECURSIVE write(_)

WriteAll(values) == FlattenSeq([i \in DOMAIN values |-> write(values[i])])

\* A key of no bytes would read back as the end: Writable refuses it.
put_properties(properties) ==
  FlattenSeq([i \in DOMAIN properties |-> <<Key(properties[i][1])>> \o write(properties[i][2])])
    \o <<Key(0), End>>

put_string(length) == IF length < U16 THEN <<"string", length>> ELSE <<"long string", length>>

write(value) ==
  LET is == value[1]  of == value[2]
  IN CASE is = "string" -> <<put_string(of)>>
       [] is = "boolean" -> <<<<"boolean", IF of THEN 1 ELSE 0>>>>
       [] is \in {"object", "ecma"} ->
            <<<<is, IF is = "ecma" THEN Len(of) ELSE 0>>>> \o put_properties(of)
       [] is = "strict" -> <<<<"strict", Len(of)>>>> \o WriteAll(of)
       [] OTHER -> <<value>>

\* No key of it is of no bytes, or too long for two that count it.
RECURSIVE Writable(_)
Writable(value) ==
  LET of == value[2]
  IN CASE value[1] \in {"object", "ecma"} ->
            \A i \in DOMAIN of : of[i][1] \in 1..(U16 - 1) /\ Writable(of[i][2])
       [] value[1] = "strict" -> \A i \in DOMAIN of : Writable(of[i])
       [] OTHER -> TRUE
=============================================================================
