------------------------------ MODULE WireCodec ------------------------------
(***************************************************************************)
(* The protobuf wire format as the generated code of x/meshsecurity/types  *)
(* (the .pb.go files) writes and reads it.                                 *)
(*                                                                         *)
(* Every message of the generated code has three functions of its own that *)
(* repeat one pattern: MarshalToSizedBuffer, Size and Unmarshal.  The      *)
(* pattern is an operator here, and what is special to a message a table   *)
(* (MeshMessages.tla): a writer table has the tag byte and the kind of     *)
(* every field, a size table its kind, a reader table the wire type and    *)
(* the kind by field number.  The three are independent in the code and    *)
(* stay so here.                                                           *)
(*                                                                         *)
(* A message is the sequence of its field values by field number, a string *)
(* the sequence of its bytes.  Indexes count from 0, as in the code.       *)
(* Messages are nested two deep at most, so each of the three functions    *)
(* has one operator per depth: F0 for messages without embedded ones, F1   *)
(* for messages that embed such, and the function itself.                  *)
(***************************************************************************)
EXTENDS Integers, Sequences, SequencesExt

CONSTANTS
    VarintBits,   \* payload bits of a byte: 7
    WordBits,     \* width of uint64 and int: 64
    Int32Bits     \* width of int32 and uint32: 32

Pow2[n \in Nat] == IF n = 0 THEN 1 ELSE 2 * Pow2[n - 1]

\* All tags of the generated code are single bytes, up to field 3.
ASSUME WidthAssumption ==
    /\ VarintBits \in Nat /\ 3 * 8 + 7 < Pow2[VarintBits]
    /\ WordBits \in Nat /\ 2 * VarintBits < WordBits
    /\ Int32Bits \in Nat /\ VarintBits < Int32Bits /\ Int32Bits < WordBits

Base == Pow2[VarintBits]       \* 0x80: the continuation bit
Byte == 0..(2 * Base - 1)
WordSize == Pow2[WordBits]
Int32Size == Pow2[Int32Bits]
MaxInt == Pow2[WordBits - 1] - 1

\* Conversion of an integer to a signed word with the given number of values.
Signed(x, size) ==
    LET w == x % size IN IF 2 * w >= size THEN w - size ELSE w

-----------------------------------------------------------------------------
(* Writing                                                                 *)

\* The number of bits of x.
Len64(x) == CHOOSE n \in 0..WordBits : x < Pow2[n] /\ \A k \in 0..(n - 1) : x >= Pow2[k]

M_sov(x) == Len64(x % WordSize) \div VarintBits + 1

\* Bytes of a varint, from the bit length of the word; zero has one.
sov(x) == LET w    == x % WordSize
              bits == IF w = 0 THEN 1 ELSE Len64(w)
          IN  (bits + VarintBits - 1) \div VarintBits

encodeVarint[v \in Nat] ==
    IF v >= Base THEN <<(v % Base) + Base>> \o encodeVarint[v \div Base] ELSE <<v>>

\* sdk.Int, which is a decimal text on the wire (external).  A new one is nil,
\* the empty sequence here, and is written as "0".
IntMarshal(v) == IF v = <<>> THEN <<48>> ELSE v

\* The embedded messages in a field: one of a "message" (not nullable), one per
\* element of a "repeated".
Embedded(f, v) ==
    CASE f.kind = "message" -> <<v>> [] f.kind = "repeated" -> v [] OTHER -> <<>>

Delimited(tag, bytes) == <<tag>> \o encodeVarint[Len(bytes)] \o bytes

\* One field, given the bytes of its embedded messages.  A "string" and a
\* "uint32" are left out at their zero value; an "int" (sdk.Int) and every
\* embedded message are always written.
FieldBytes(f, v, embedded) ==
    CASE f.kind = "string" -> IF v = <<>> THEN <<>> ELSE Delimited(f.tag, v)
      [] f.kind = "uint32" -> IF v = 0 THEN <<>> ELSE <<f.tag>> \o encodeVarint[v]
      [] f.kind = "int"    -> Delimited(f.tag, IntMarshal(v))
      [] OTHER -> FlattenSeq([k \in DOMAIN embedded |-> Delimited(f.tag, embedded[k])])

MarshalFields(writer, m, Inner(_, _)) ==
    FlattenSeq([i \in DOMAIN writer |->
       LET inner == Embedded(writer[i], m[i])
       IN  FieldBytes(writer[i], m[i],
                      [k \in DOMAIN inner |-> Inner(writer[i].of, inner[k])])])

Marshal0(writer, m) == MarshalFields(writer, m, LAMBDA of, e : <<>>)
Marshal1(writer, m) == MarshalFields(writer, m, Marshal0)
MarshalToSizedBuffer(writer, m) == MarshalFields(writer, m, Marshal1)

Total(sizes) == MapThenSumSet(LAMBDA k : sizes[k], DOMAIN sizes)

DelimitedSize(l) == 1 + l + sov(l)

\* The size of one field, given the sizes of its embedded messages.
FieldSize(f, v, embedded) ==
    CASE f.kind = "string" -> IF v = <<>> THEN 0 ELSE DelimitedSize(Len(v))
      [] f.kind = "uint32" -> IF v = 0 THEN 0 ELSE 1 + sov(v)
      [] f.kind = "int"    -> DelimitedSize(Len(IntMarshal(v)))
      [] OTHER -> Total([k \in DOMAIN embedded |-> DelimitedSize(embedded[k])])

SizeFields(sizer, m, Inner(_, _)) ==
    Total([i \in DOMAIN sizer |->
       LET inner == Embedded(sizer[i], m[i])
       IN  FieldSize(sizer[i], m[i],
                     [k \in DOMAIN inner |-> Inner(sizer[i].of, inner[k])])])

Size0(sizer, m) == SizeFields(sizer, m, LAMBDA of, e : 0)
Size1(sizer, m) == SizeFields(sizer, m, Size0)
Size(sizer, m) == SizeFields(sizer, m, Size1)

-----------------------------------------------------------------------------
(* Reading.  Every step returns an error, or "ok" and where it stopped; in *)
(* a loop, "more" if it goes on.                                           *)

Fail(err) == [err |-> err, val |-> 0, next |-> 0]
Ok(val, next) == [err |-> "ok", val |-> val, next |-> next]
More(val, next) == [err |-> "more", val |-> val, next |-> next]

\* Where a run of n steps has come to its end.
Ended(run, n) == run[CHOOSE k \in 0..n : run[k].err # "more"]

\* A loop that ends within n iterations, when Step does not return "more".
Loop(Step(_), start, n) ==
    LET run[k \in Nat] ==
          IF k = 0 THEN start
          ELSE LET st == run[k - 1] IN IF st.err = "more" THEN Step(st) ELSE st
    IN  Ended(run, n)

\* Marshal allocates Size bytes and fills them from the end.  A size too small
\* is an index out of range, one too large returns the unfilled start.
Marshal(type, m) ==
    LET size  == Size(type.size, m)
        bytes == MarshalToSizedBuffer(type.marshal, m)
        free  == [i \in 1..(size - Len(bytes)) |-> 0]
    IN  IF Len(bytes) > size THEN Fail("panic")
        ELSE Ok(SubSeq(free \o bytes, 1, Len(bytes)), size)

\* One byte of a varint that starts at index i, into a word of the given size.
VarintByte(b, i, size, st) ==
    LET shift == (st.next - i) * VarintBits
        byte  == b[st.next + 1]
        val   == (st.val + (byte % Base) * Pow2[shift]) % size
    IN  IF shift >= WordBits THEN Fail("overflow")
        ELSE IF st.next >= Len(b) THEN Fail("eof")
        ELSE IF st.next < 0 THEN Fail("panic")
        ELSE IF byte < Base THEN Ok(val, st.next + 1)
        ELSE More(val, st.next + 1)

Varint(b, i, size) ==
    Loop(LAMBDA st : VarintByte(b, i, size, st), More(0, i),
         WordBits \div VarintBits + 2)

M_BlockEnd(i, n, l) ==
    LET post == Signed(i + n, WordSize)
    IN  IF n < 0 THEN Fail("length")
        ELSE IF post > l THEN Fail("eof")
        ELSE Ok(0, post)

\* Where a block of n bytes at index i ends.  The sum may overflow.
BlockEnd(i, n, l) ==
    LET post == Signed(i + n, WordSize)
    IN  IF n < 0 \/ post < 0 THEN Fail("length")
        ELSE IF post > l THEN Fail("eof")
        ELSE Ok(0, post)

\* A length-delimited block at index i: val is its content, a slice that must
\* lie in b.
Block(b, i) ==
    LET len == Varint(b, i, WordSize)
        end == BlockEnd(len.next, Signed(len.val, WordSize), Len(b))
    IN  IF len.err # "ok" THEN len
        ELSE IF end.err # "ok" THEN end
        ELSE IF end.next \notin len.next..Len(b) THEN Fail("panic")
        ELSE Ok(SubSeq(b, len.next + 1, end.next), end.next)

\* What one entry of wire type wt takes in skip, from index i behind its tag.
SkipEntry(b, i, wt) ==
    LET len == Varint(b, i, WordSize)
        n   == Signed(len.val, WordSize)
    IN  CASE wt = 0 -> len
          [] wt = 1 -> Ok(0, Signed(i + 8, WordSize))
          [] wt = 2 -> IF len.err # "ok" THEN len
                       ELSE IF n < 0 THEN Fail("length")
                       ELSE Ok(0, Signed(len.next + n, WordSize))
          [] wt \in {3, 4} -> Ok(0, i)
          [] wt = 5 -> Ok(0, Signed(i + 4, WordSize))
          [] OTHER  -> Fail("wiretype")

\* One iteration of skip; the value of the loop is the number of open groups.
SkipStep(b, st) ==
    LET tag   == Varint(b, st.next, WordSize)
        wt    == tag.val % 8
        entry == SkipEntry(b, tag.next, wt)
        open  == st.val + (IF wt = 3 THEN 1 ELSE IF wt = 4 THEN -1 ELSE 0)
    IN  IF st.next >= Len(b) THEN Fail("eof")
        ELSE IF tag.err # "ok" THEN tag
        ELSE IF wt = 4 /\ st.val = 0 THEN Fail("endgroup")
        ELSE IF entry.err # "ok" THEN entry
        ELSE IF entry.next < 0 THEN Fail("length")
        ELSE IF open = 0 THEN Ok(0, entry.next)
        ELSE More(open, entry.next)

skip(b) == Loop(LAMBDA st : SkipStep(b, st), More(0, 0), Len(b) + 1)

\* A new message of a reader table: all fields zero.
Zero(reader) == [i \in DOMAIN reader |-> reader[i].zero]

\* sdk.Int reads a text (external); an empty one leaves the number as it is.
IntUnmarshal(old, text) ==
    IF text = <<>> THEN Ok(old, 0)
    ELSE IF \A i \in 1..Len(text) : text[i] \in 48..57 THEN Ok(text, 0)
    ELSE Fail("int")

M_StoreUint32(old, val) == IF val = 0 THEN old ELSE val

\* A uint32 field is reset before it is read.
StoreUint32(old, val) == val

\* Behind an unknown field at index i, given what skip says of the rest of the l
\* bytes.
UnknownField(i, skippy, l) ==
    LET end == Signed(i + skippy.next, WordSize)
    IN  IF skippy.err # "ok" THEN skippy
        ELSE IF skippy.next < 0 \/ end < 0 THEN Fail("length")
        ELSE IF end > l THEN Fail("eof")
        ELSE Ok([num |-> 0, data |-> <<>>], end)

\* A known field, given what its decoder says of the data.
KnownField(num, data) ==
    IF data.err # "ok" THEN data
    ELSE Ok([num |-> num, data |-> data.val], data.next)

\* The entry at index i, given its tag.
ReadField(reader, b, i, tag) ==
    LET fieldNum == Signed(tag.val \div 8, Int32Size)
        wireType == tag.val % 8
    IN  IF tag.err # "ok" THEN tag
        ELSE IF wireType = 4 THEN Fail("endgroup")
        ELSE IF fieldNum <= 0 THEN Fail("tag")
        ELSE IF fieldNum > Len(reader)
        THEN UnknownField(i, skip(SubSeq(b, i + 1, Len(b))), Len(b))
        ELSE IF wireType # reader[fieldNum].wire THEN Fail("wiretype")
        ELSE KnownField(fieldNum, IF reader[fieldNum].kind = "uint32"
                                  THEN Varint(b, tag.next, Int32Size)
                                  ELSE Block(b, tag.next))

\* The entry at index i: the number and the data of a known field, or 0 for an
\* unknown one that was skipped.
ReadEntry(reader, b, i) == ReadField(reader, b, i, Varint(b, i, WordSize))

\* The message an embedded decoder reads into: the one there, or a new element.
Target(f, old) == IF f.kind = "repeated" THEN Zero(f.of) ELSE old

\* The new value of a field: data overwrites, an embedded message, decoded by
\* the call inner, is merged or appended.
Store(f, old, data, inner) ==
    CASE f.kind = "string"  -> Ok(data, 0)
      [] f.kind = "uint32"  -> Ok(StoreUint32(old, data), 0)
      [] f.kind = "int"     -> IntUnmarshal(old, data)
      [] f.kind = "message" -> inner
      [] OTHER -> IF inner.err # "ok" THEN inner ELSE Ok(Append(old, inner.val), 0)

\* What an entry does to the message st.val, given the new value of its field.
SetField(st, entry, new) ==
    IF entry.err # "ok" THEN entry
    ELSE IF entry.val.num = 0 THEN More(st.val, entry.next)
    ELSE IF new.err # "ok" THEN new
    ELSE More([st.val EXCEPT ![entry.val.num] = new.val], entry.next)

StoreEntry(reader, st, entry, Inner(_, _, _)) ==
    LET num == entry.val.num
        f   == reader[num]
        old == st.val[num]
    IN  SetField(st, entry,
                 Store(f, old, entry.val.data,
                       Inner(f.of, entry.val.data, Target(f, old))))

\* One iteration of Unmarshal; the value of the loop is the message.
UnmarshalStep(reader, b, st, Inner(_, _, _)) ==
    IF st.next >= Len(b)
    THEN IF st.next > Len(b) THEN Fail("eof") ELSE Ok(st.val, st.next)
    ELSE StoreEntry(reader, st, ReadEntry(reader, b, st.next), Inner)

UnmarshalInto(reader, b, m, Inner(_, _, _)) ==
    Loop(LAMBDA st : UnmarshalStep(reader, b, st, Inner), More(m, 0), Len(b) + 1)

Unmarshal0(reader, b, m) ==
    UnmarshalInto(reader, b, m, LAMBDA of, data, old : Fail("depth"))
Unmarshal1(reader, b, m) == UnmarshalInto(reader, b, m, Unmarshal0)

Unmarshal(type, b) ==
    UnmarshalInto(type.unmarshal, b, Zero(type.unmarshal), Unmarshal1)
=============================================================================
