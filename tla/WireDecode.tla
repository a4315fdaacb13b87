----------------------------- MODULE WireDecode -----------------------------
(***************************************************************************)
(* A peer sends byte strings to the generated decoders: known fields in    *)
(* any order and number, entries of unknown fields, malformed entries, and *)
(* all of it cut off at any byte.  What the fields mean is defined here    *)
(* independently of the decoder, as the effect of one write after another. *)
(***************************************************************************)
EXTENDS MeshMessages

CONSTANTS
    Strings,      \* contents of string fields
    Ints,         \* texts of sdk.Int fields
    Numbers,      \* values of uint32 fields
    MaxEntries    \* bound: entries of one byte string

ASSUME ContentAssumption ==
    /\ \A s \in Strings : s \in Seq(Byte)
    /\ \A s \in Ints : s \in Seq(48..57)
    /\ Numbers \subseteq 0..(Int32Size - 1)
    /\ MaxEntries \in Nat

VARIABLES
    type,         \* the message type the peer sends
    bytes,        \* what it sent so far
    ends,         \* where the entries of bytes end, and 0
    garbled,      \* whether one of them is malformed
    expected      \* what the fields among them say

vars == <<type, bytes, ends, garbled, expected>>

-----------------------------------------------------------------------------
(* The reference: a write is a field number and a value; the value of an   *)
(* embedded message is one write into it or none.                          *)

WritesOf(reader, Inner(_)) ==
    UNION {{[num |-> i, val |-> v] : v \in
              CASE reader[i].kind = "string" -> Strings
                [] reader[i].kind = "int" -> Ints
                [] reader[i].kind = "uint32" -> Numbers
                [] OTHER -> {<<>>} \cup {<<w>> : w \in Inner(reader[i].of)}} :
           i \in DOMAIN reader}

Writes0(reader) == WritesOf(reader, LAMBDA of : {})
Writes1(reader) == WritesOf(reader, Writes0)
Writes(reader) == WritesOf(reader, Writes1)

ApplyTo(reader, m, w, Inner(_, _, _)) ==
    LET f == reader[w.num]
        old == m[w.num]
        Merge(into) == IF w.val = <<>> THEN into ELSE Inner(f.of, into, w.val[1])
    IN  [m EXCEPT ![w.num] =
           CASE f.kind = "message"  -> Merge(old)
             [] f.kind = "repeated" -> Append(old, Merge(Zero(f.of)))
             [] f.kind = "int"      -> IF w.val = <<>> THEN old ELSE w.val
             [] OTHER -> w.val]

Apply0(reader, m, w) == ApplyTo(reader, m, w, LAMBDA of, e, v : e)
Apply1(reader, m, w) == ApplyTo(reader, m, w, Apply0)
Apply(reader, m, w) == ApplyTo(reader, m, w, Apply1)

Tag(num, wire) == encodeVarint[num * 8 + wire]

BytesOf(reader, w, Inner(_, _)) ==
    LET f == reader[w.num]
        content == IF f.kind \notin {"message", "repeated"} THEN w.val
                   ELSE IF w.val = <<>> THEN <<>> ELSE Inner(f.of, w.val[1])
    IN  Tag(w.num, f.wire) \o
        (IF f.kind = "uint32" THEN encodeVarint[w.val]
         ELSE encodeVarint[Len(content)] \o content)

WriteBytes0(reader, w) == BytesOf(reader, w, LAMBDA of, v : <<>>)
WriteBytes1(reader, w) == BytesOf(reader, w, WriteBytes0)
WriteBytes(reader, w) == BytesOf(reader, w, WriteBytes1)

-----------------------------------------------------------------------------
\* Entries of field 4, which no message has, in every wire type; the content
\* of a group looks like known fields.
Unknowns ==
    {Tag(4, 0) \o <<Base, Base, 0>>,
     Tag(4, 1) \o [i \in 1..8 |-> 10],
     Tag(4, 2) \o <<2, 10, 1>>,
     Tag(4, 3) \o <<10, 1, 16>> \o Tag(5, 3) \o Tag(5, 4) \o Tag(4, 4),
     Tag(4, 5) \o <<12, 12, 12, 12>>}

\* Lengths that are negative or overflow the index, varints that do not end,
\* a group end without a group, illegal tags and wire types, an open group.
Malformed ==
    {Tag(1, 2) \o encodeVarint[MaxInt],
     Tag(1, 2) \o encodeVarint[WordSize - 1],
     Tag(4, 2) \o encodeVarint[MaxInt],
     Tag(4, 3) \o Tag(5, 2) \o encodeVarint[MaxInt],
     [i \in 1..(WordBits \div VarintBits + 2) |-> 2 * Base - 1],
     Tag(4, 4), Tag(0, 2), Tag(1, 5), Tag(4, 6), Tag(4, 3)}

Init ==
    /\ type \in MessageTypes
    /\ bytes = <<>>
    /\ ends = <<0>>
    /\ garbled = FALSE
    /\ expected = Zero(type.unmarshal)

\* One more entry.  The length of a slice is an int.
Send(entry) ==
    /\ Len(ends) <= MaxEntries
    /\ Len(bytes \o entry) <= MaxInt
    /\ bytes' = bytes \o entry
    /\ ends' = Append(ends, Len(bytes'))
    /\ UNCHANGED type

SendField(w) ==
    /\ Send(WriteBytes(type.unmarshal, w))
    /\ expected' = Apply(type.unmarshal, expected, w)
    /\ UNCHANGED garbled

SendUnknown(entry) == Send(entry) /\ UNCHANGED <<garbled, expected>>

SendMalformed(entry) == Send(entry) /\ garbled' = TRUE /\ UNCHANGED expected

\* The message is complete; the next one may be of any type.
Finish ==
    /\ bytes # <<>>
    /\ type' \in MessageTypes
    /\ bytes' = <<>>
    /\ ends' = <<0>>
    /\ garbled' = FALSE
    /\ expected' = Zero(type'.unmarshal)

Next ==
    \/ \E w \in Writes(type.unmarshal) : SendField(w)
    \/ \E entry \in Unknowns : SendUnknown(entry)
    \/ \E entry \in Malformed : SendMalformed(entry)
    \/ Finish

Spec == Init /\ [][Next]_vars

-----------------------------------------------------------------------------
\* A message with every nil number written out.
NilIsZeroOf(reader, m, Inner(_, _)) ==
    [i \in DOMAIN reader |->
       CASE reader[i].kind = "int"      -> IntMarshal(m[i])
         [] reader[i].kind = "message"  -> Inner(reader[i].of, m[i])
         [] reader[i].kind = "repeated" ->
              [k \in DOMAIN m[i] |-> Inner(reader[i].of, m[i][k])]
         [] OTHER -> m[i]]

NilIsZero0(reader, m) == NilIsZeroOf(reader, m, LAMBDA of, e : e)
NilIsZero1(reader, m) == NilIsZeroOf(reader, m, NilIsZero0)
NilIsZero(reader, m) == NilIsZeroOf(reader, m, NilIsZero1)

Prefix(k) == SubSeq(bytes, 1, k)

\* Unmarshal computes what the fields say: of a repeated scalar the last one
\* counts, zero included, embedded messages are merged, elements appended, and
\* entries of unknown fields, groups too, change nothing.
DecodeIsLastWrite ==
    ~garbled => Unmarshal(type, bytes) = Ok(expected, Len(bytes))

\* Whatever bytes arrive, cut off wherever, Unmarshal ends with a message or
\* an error and never reads outside its input (the checks on negative lengths
\* and overflowing indexes in every Unmarshal and skip function); and one that
\* is cut off inside an entry is refused, so that no decoder takes half a field
\* for a whole one.
TruncationDetected ==
    \A k \in 0..Len(bytes) :
        LET err == Unmarshal(type, Prefix(k)).err
        IN  /\ err \notin {"panic", "more"}
            /\ ~garbled /\ err = "ok" => \E n \in DOMAIN ends : ends[n] = k

\* What Unmarshal makes of the encoding of a message m: m without its nil numbers.
ReadsBack(m, again) ==
    again.err = "ok" /\ again.val = NilIsZero(type.unmarshal, m)

EncodesExactly(m, encoded) ==
    encoded.err = "ok" /\ ReadsBack(m, Unmarshal(type, encoded.val))

\* Every message a decoder accepts is encoded without loss, if its encoding
\* fits into a slice: Size is exactly the space MarshalToSizedBuffer fills, and
\* Unmarshal reads the message back, a number that was never set as zero.
RoundTrip ==
    LET decoded == Unmarshal(type, bytes)
    IN  decoded.err = "ok" /\ Size(type.size, decoded.val) <= MaxInt =>
            EncodesExactly(decoded.val, Marshal(type, decoded.val))
=============================================================================
