------------------------------ MODULE WireParts ------------------------------
(***************************************************************************)
(* What the generated code writes a message of, and how it reads it back:  *)
(* varints, words of a fixed size and delimited bytes, with the checks of  *)
(* the indices into the bytes, and one round of the loop over its fields.  *)
(*                                                                         *)
(* Numbers are scaled down, in proportion: a byte has DataBits bits of a   *)
(* varint and a continuation bit (7 and 1 in the code), a word has         *)
(* WordBits (64), an int32 IntBits (32).  As in the code, a varint of a    *)
(* full word spills one bit into its last byte, a word is a whole number   *)
(* of bytes, and an int32 is half a word.                                  *)
(***************************************************************************)
EXTENDS ProtoMessages

CONSTANTS DataBits, WordBits, IntBits

ASSUME WidthAssumption ==
  /\ DataBits \in Nat \ {0} /\ WordBits \in Nat /\ IntBits \in Nat
  /\ WordBits % DataBits = 1 /\ WordBits % (DataBits + 1) = 0
  /\ WordBits = 2 * IntBits

-----------------------------------------------------------------------------
(* Numbers *)

Word == 2 ^ WordBits
Cont == 2 ^ DataBits                       \* the continuation bit (0x80)
FixedBytes == WordBits \div (DataBits + 1) \* bytes of a word (8)
MaxGroups == WordBits \div DataBits + 1    \* bytes of its longest varint (10)

Signed(v, bits) ==
  LET u == v % 2 ^ bits IN IF u >= 2 ^ (bits - 1) THEN u - 2 ^ bits ELSE u

\* Arithmetic on the code's indices and lengths wraps around.
Index(v) == Signed(v, WordBits)

\* The digits of a number, the lowest one first, and the number of such digits.
Digit(v, k, bits) == (v \div 2 ^ (bits * k)) % 2 ^ bits

FromDigits(d, bits) ==
  LET sum[k \in 0 .. Len(d)] ==
        IF k = 0 THEN 0 ELSE sum[k - 1] + d[k] * 2 ^ (bits * (k - 1))
  IN sum[Len(d)]

-----------------------------------------------------------------------------
(* Writing *)

BitLen(v) == CHOOSE n \in 0 .. WordBits : v < 2 ^ n /\ (n = 0 \/ v >= 2 ^ (n - 1))

Sov_Short(v) ==   \* Bug: rounded down
  IF v < Cont THEN 1 ELSE BitLen(v) \div DataBits

\* The length of a varint: (Len64(x|1) + 6) / 7.
Sov(v) == (BitLen(IF v = 0 THEN 1 ELSE v) + DataBits - 1) \div DataBits

\* encodeVarint goes back Sov bytes and writes while there are bits left.
EncodeVarint(v) ==
  [k \in 1 .. Sov(v) |->
     Digit(v, k - 1, DataBits) + (IF v \div 2 ^ (DataBits * k) > 0 THEN Cont ELSE 0)]

EncodeFixed(v) == [k \in 1 .. FixedBytes |-> Digit(v, k - 1, DataBits + 1)]

WireType(t) ==
  IF t.kind \in {"bool", "int32", "uint32", "int64", "uint64"} THEN 0
  ELSE IF t.kind = "fixed64" THEN 1
  ELSE 2

Tag(n, t) == EncodeVarint(8 * n + WireType(t))

\* A signed number is written as the word it is extended to.
Extended(t, v) == IF t.kind = "bool" THEN (IF v THEN 1 ELSE 0) ELSE v % Word

Delimited(s) == EncodeVarint(Len(s)) \o s

\* A field that is a number or one byte slice, and what follows its tag.
IsValue(t) == WireType(t) # 2 \/ t.kind = "bytes"

Payload(t, v) ==
  CASE WireType(t) = 0 -> EncodeVarint(Extended(t, v))
    [] WireType(t) = 1 -> EncodeFixed(v % Word)
    [] WireType(t) = 2 -> Delimited(v)

-----------------------------------------------------------------------------
(* Reading: indices count from 0, next is the index after what was read *)

Fail(err) == [err |-> err]

Good(val, next) == [err |-> "none", val |-> val, next |-> next]

\* The loop over the bytes of a varint ends at the first byte without a
\* continuation bit, after a full word, or at the end of the bytes.  Bits beyond
\* the word are dropped.
Varint(b, i) ==
  LET ends == {k \in 1 .. MaxGroups : i + k <= Len(b) /\ b[i + k] < Cont}
      last == CHOOSE k \in ends : \A j \in ends : k <= j
  IN IF ends # {}
     THEN Good(FromDigits([k \in 1 .. last |-> b[i + k] % Cont], DataBits) % Word, i + last)
     ELSE IF i + MaxGroups <= Len(b) THEN Fail("overflow")
     ELSE Fail("eof")

Fixed(b, i) ==
  IF Index(i + FixedBytes) > Len(b) THEN Fail("eof")
  ELSE Good(FromDigits([k \in 1 .. FixedBytes |-> b[i + k]], DataBits + 1), i + FixedBytes)

Slice(b, from, to) ==
  IF 0 <= from /\ from <= to /\ to <= Len(b) THEN Good(SubSeq(b, from + 1, to), to)
  ELSE Fail("panic")

\* The checks between a length and the slice it stands for.
LengthError_Positive(length, post, l) ==   \* Bug: the sum is not checked
  IF length < 0 THEN "length" ELSE IF post > l THEN "eof" ELSE "none"

LengthError(length, post, l) ==
  IF length < 0 \/ post < 0 THEN "length" ELSE IF post > l THEN "eof" ELSE "none"

PostIndex_Clip(next, length, l) ==   \* Bug: what is missing is done without
  IF Index(next + length) > l THEN l ELSE Index(next + length)

PostIndex(next, length, l) == Index(next + length)

\* The bytes after v, the varint with their length.
Counted(b, v) ==
  LET length == Index(v.val)
      post   == PostIndex(v.next, length, Len(b))
      err    == LengthError(length, post, Len(b))
  IN IF v.err # "none" THEN v
     ELSE IF err # "none" THEN Fail(err)
     ELSE Slice(b, v.next, post)

\* The bytes of a field of wire type 2, after its tag.
Body(b, i) == Counted(b, Varint(b, i))

\* What a tag says of what follows it, which begins with v if that is a varint: its
\* wire type, and the index after it, which may have wrapped around.
Following(tag, v) ==
  LET wt    == tag.val % 8
      after == CASE wt = 0 -> v.next
                 [] wt = 1 -> Index(tag.next + FixedBytes)
                 [] wt = 2 -> Index(v.next + Index(v.val))
                 [] wt = 5 -> Index(tag.next + FixedBytes \div 2)
                 [] OTHER  -> tag.next
  IN IF tag.err # "none" THEN tag
     ELSE IF wt > 5 THEN Fail("type")
     ELSE IF wt \in {0, 2} /\ v.err # "none" THEN v
     ELSE IF wt = 2 /\ Index(v.val) < 0 THEN Fail("length")
     ELSE Good(wt, after)

\* One tag of an unknown field and what follows it.
SkipOne(s, j) ==
  LET tag == Varint(s, j) IN Following(tag, Varint(s, tag.next))

\* The loop of skip goes from one such part to the next until all groups are
\* closed; every part takes a byte at least.
SkipOver(at, one) ==
  LET depth == CASE one.val = 3 -> at.depth + 1 [] one.val = 4 -> at.depth - 1 [] OTHER -> at.depth
  IN IF at.err # "going" THEN at
     ELSE IF one.err # "none" THEN one
     ELSE IF depth < 0 THEN Fail("group")
     ELSE IF one.next < 0 THEN Fail("length")
     ELSE IF depth = 0 THEN Good(0, one.next)
     ELSE [err |-> "going", next |-> one.next, depth |-> depth]

SkipNext(s, at) == SkipOver(at, SkipOne(s, at.next))

Skip(s) ==
  LET at[k \in 0 .. Len(s)] ==
        IF k = 0 THEN [err |-> "going", next |-> 0, depth |-> 0] ELSE SkipNext(s, at[k - 1])
  IN IF at[Len(s)].err = "going" THEN Fail("eof") ELSE at[Len(s)]

\* The checks after an unknown field that begins at i and was skipped as s.
Skipped(b, i, s) ==
  LET next == Index(i + s.next)
  IN IF s.err # "none" THEN s
     ELSE IF s.next < 0 \/ next < 0 THEN Fail("length")
     ELSE IF next > Len(b) THEN Fail("eof")
     ELSE Good(0, next)

Unknown_Blind(b, i) ==   \* Bug: a field of another version ends the message
  Fail("tag")

\* An unknown field is skipped, its tag included.
Unknown(b, i) == Skipped(b, i, Skip(SubSeq(b, i + 1, Len(b))))

Number(t, v) ==
  CASE t.kind = "bool" -> v # 0
    [] t.kind \in {"int32", "ints"} -> Signed(v, IntBits)
    [] t.kind = "uint32" -> v % 2 ^ IntBits
    [] t.kind \in {"int64", "fixed64"} -> Signed(v, WordBits)
    [] OTHER -> v

\* What was read, unless that was an error, becomes another value.
Map(read, F(_)) ==
  IF read.err # "none" THEN read ELSE Good(F(read.val), read.next)

\* The value of such a field.
ReadValue(t, b, i) ==
  LET read == CASE WireType(t) = 0 -> Varint(b, i)
                [] WireType(t) = 1 -> Fixed(b, i)
                [] WireType(t) = 2 -> Body(b, i)
  IN Map(read, LAMBDA v : Number(t, v))

-----------------------------------------------------------------------------
(* A round of Unmarshal's loop *)

\* Packed numbers are read up to the end of their field, the last one even beyond;
\* each takes a byte at least.
PackedNext(t, b, post, at) ==
  LET v == Varint(b, at.next)
  IN IF at.err # "none" \/ at.next >= post THEN at
     ELSE IF v.err # "none" THEN v
     ELSE Good(Append(at.val, Number(t, v.val)), v.next)

Packed(t, b, i, post, sofar) ==
  LET at[k \in 0 .. post - i] ==
        IF k = 0 THEN Good(sofar, i) ELSE PackedNext(t, b, post, at[k - 1])
  IN at[post - i]

Existing_New(K, old) == Zero(K)   \* Bug: the message is begun anew

\* A message met again is read into the one there is.
Existing(K, old) == IF old = <<>> THEN Zero(K) ELSE old[1]

\* What the message in a field is read into.
Begun(t, old) == IF t.kind = "ptr" THEN Existing(t.of, old) ELSE Zero(t.of)

\* A field of wire type 2 that is not one byte slice: in place of or after what
\* there was.  If it holds a message, sub is what came of reading that.
Within(t, old, b, body, sub) ==
  LET message == IF sub.err # "none" THEN sub ELSE Good(sub.val, body.next)
  IN IF body.err # "none" THEN body
     ELSE CASE t.kind = "strings" -> Map(body, LAMBDA x : Append(old, x))
            [] t.kind = "ints"    -> Packed(t, b, body.next - Len(body.val), body.next, old)
            [] t.kind = "rep"     -> Map(message, LAMBDA x : Append(old, x))
            [] t.kind \in {"ptr", "one"} -> Map(message, LAMBDA x : <<x>>)

ReadDelimited(t, old, b, i, sub) == Within(t, old, b, Body(b, i), sub)

\* A case of Unmarshal's switch.
ReadField(t, old, wt, b, i, sub) ==
  IF t.kind = "ints" /\ wt = 0
  THEN Map(Varint(b, i), LAMBDA v : Append(old, Number(t, v)))
  ELSE IF wt # WireType(t) THEN Fail("type")
  ELSE IF IsValue(t) THEN ReadValue(t, b, i)
  ELSE ReadDelimited(t, old, b, i, sub)

\* A member of a oneof takes the place of the one there was.
SetField(K, m, n, v) ==
  [(IF Schema[K][n].kind = "one" THEN Zero(K) ELSE m) EXCEPT ![n] = v]

FieldNumber(b, i) == Signed(Varint(b, i).val \div 8, IntBits)

\* The message of type K, with m read so far, after a field with this tag.
Taken(K, m, tag, n, field) ==
  IF tag.err # "none" THEN tag
  ELSE IF tag.val % 8 = 4 \/ n <= 0 THEN Fail("tag")
  ELSE IF field.err # "none" THEN field
  ELSE Good(IF n \in DOMAIN Schema[K] THEN SetField(K, m, n, field.val) ELSE m, field.next)

\* That field begins at i.
Round(K, m, b, i, sub) ==
  LET tag   == Varint(b, i)
      n     == FieldNumber(b, i)
      field == IF n \in DOMAIN Schema[K]
               THEN ReadField(Schema[K][n], m[n], tag.val % 8, b, tag.next, sub)
               ELSE Unknown(b, i)
  IN Taken(K, m, tag, n, field)
=============================================================================
