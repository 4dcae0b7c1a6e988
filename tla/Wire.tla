-------------------------------- MODULE Wire --------------------------------
(***************************************************************************)
(* How the generated code writes a message (Size, Marshal) and reads it    *)
(* back (Unmarshal, skip), for all messages of ProtoMessages, in the       *)
(* scaled-down numbers of WireParts.  Tags have room for every field of    *)
(* the messages, in two bytes where the code needs one.                    *)
(*                                                                         *)
(* A behaviour takes one message from its value to bytes, may change the   *)
(* bytes on the way, and reads them.                                       *)
(***************************************************************************)
EXTENDS HeaderConversion, WireParts

VARIABLES
  pc,      \* what there is: "value", "bytes", "sent" bytes or "message"
  kind,    \* the message's type
  value,   \* its value
  edit,    \* what happens to the bytes
  other,   \* the message joined to it, or the light block it was made of, if any
  wire,    \* the bytes
  result   \* what Unmarshal gave

vars == <<pc, kind, value, edit, other, wire, result>>

-----------------------------------------------------------------------------
(* Writing *)

\* Written out here, since they run over every byte.
RECURSIVE Sum(_)
Sum(s) == IF s = <<>> THEN 0 ELSE Head(s) + Sum(Tail(s))
RECURSIVE Concat(_)
Concat(s) == IF s = <<>> THEN <<>> ELSE Head(s) \o Concat(Tail(s))

\* MarshalToSizedBuffer fills the buffer from its end, the last field first: the
\* fields come out in order.  A field at its default leaves nothing, a pointer is
\* written unless it is nil.
RECURSIVE MarshalFields(_, _)
MarshalFields(K, m) ==
  LET Field(n) ==
        LET t == Schema[K][n]
            v == m[n]
            Items(Encode(_)) ==
              Concat([k \in DOMAIN v |-> Tag(n, t) \o Delimited(Encode(v[k]))])
            Message(x) == MarshalFields(t.of, x)
            Self(x) == x
        IN IF v = Default(t) THEN <<>>
           ELSE CASE IsValue(t) -> Tag(n, t) \o Payload(t, v)
                  [] t.kind = "strings" -> Items(Self)
                  [] t.kind = "ints" ->
                       Tag(n, t) \o Delimited(Concat(
                         [k \in DOMAIN v |-> EncodeVarint(v[k] % Word)]))
                  [] OTHER -> Items(Message)
  IN Concat([n \in DOMAIN Schema[K] |-> Field(n)])

\* Size is computed apart from it.
RECURSIVE Size(_, _)
Size(K, m) ==
  LET Field(n) ==
        LET t == Schema[K][n]
            v == m[n]
            Delim(l) == Len(Tag(n, t)) + l + Sov(l)
            Items(Length(_)) == Sum([k \in DOMAIN v |-> Delim(Length(v[k]))])
            Message(x) == Size(t.of, x)
        IN IF v = Default(t) THEN 0
           ELSE CASE t.kind = "bool" -> Len(Tag(n, t)) + 1
                  [] WireType(t) = 0 -> Len(Tag(n, t)) + Sov(Extended(t, v))
                  [] WireType(t) = 1 -> Len(Tag(n, t)) + FixedBytes
                  [] t.kind = "bytes" -> Delim(Len(v))
                  [] t.kind = "strings" -> Items(Len)
                  [] t.kind = "ints" -> Delim(Sum([k \in DOMAIN v |-> Sov(v[k] % Word)]))
                  [] OTHER -> Items(Message)
  IN Sum([n \in DOMAIN Schema[K] |-> Field(n)])

\* The buffer has Size bytes; what Marshal returns is as many of its first bytes
\* as were written at its end.  A buffer too short is indexed below 0.
Marshal(K, m) ==
  LET out  == MarshalFields(K, m)
      room == Size(K, m) - Len(out)
  IN IF room < 0 THEN Fail("panic")
     ELSE [err |-> "none",
           bytes |-> SubSeq([k \in 1 .. room |-> 0] \o out, 1, Len(out))]

-----------------------------------------------------------------------------
(* Reading *)

\* The loop over the fields, at index i with what was read so far in m; the bytes of
\* a message within are read by its own Unmarshal.
RECURSIVE Unmarshal(_, _, _, _)
Unmarshal(K, m, b, i) ==
  LET t     == Schema[K][FieldNumber(b, i)]
      sub   == Unmarshal(t.of, Begun(t, m[FieldNumber(b, i)]),
                         Body(b, Varint(b, i).next).val, 0)
      round == Round(K, m, b, i, sub)
  IN IF i >= Len(b) THEN IF i > Len(b) THEN Fail("eof") ELSE Good(m, i)
     ELSE IF round.err # "none" THEN round
     ELSE Unmarshal(K, round.val, b, round.next)

-----------------------------------------------------------------------------
(* Messages and changes to try *)

RECURSIVE Rich(_)

\* A message with something in every field (in one, if it is a oneof).
Full(K) ==
  [n \in DOMAIN Schema[K] |->
     IF Schema[K][n].kind = "one" /\ n > 1 THEN <<>> ELSE Rich(Schema[K][n])]

Rich(t) ==
  CASE t.kind = "bool" -> TRUE
    [] t.kind \in {"int32", "int64", "fixed64"} -> -2
    [] t.kind \in {"uint32", "uint64"} -> 2 * Cont
    [] t.kind = "bytes" -> <<Cont + 1, 2>>
    [] t.kind = "strings" -> << <<3>>, <<>> >>
    [] t.kind = "ints" -> <<-1, 0, Cont>>
    [] t.kind \in {"ptr", "one"} -> <<Full(t.of)>>
    [] t.kind = "rep" -> <<Full(t.of), Zero(t.of)>>

\* What a field is tried with: its default, something, and the numbers at the
\* bounds of its type.
Samples(t) ==
  {Default(t), Rich(t)} \union
  CASE t.kind = "int32" -> {2 ^ (IntBits - 1) - 1, - 2 ^ (IntBits - 1)}
    [] t.kind \in {"int64", "fixed64"} -> {Word \div 2 - 1, - (Word \div 2)}
    [] t.kind = "uint32" -> {1, 2 ^ IntBits - 1}
    [] t.kind = "uint64" -> {1, Word - 1}
    [] t.kind = "bytes" -> {[k \in 1 .. Cont |-> 0]}
    [] t.kind = "rep" -> {<<Zero(t.of)>>}
    [] t.kind \in {"ptr", "one"} -> {<<Zero(t.of)>>}
    [] OTHER -> {}

\* Messages that differ from a given one in one field.
Around(K, base) ==
  UNION {{SetField(K, base, n, v) : v \in Samples(Schema[K][n])} : n \in DOMAIN Schema[K]}

\* A tag with any wire type, and the payloads of well-formed fields of each.
RawTag(n, wt) == EncodeVarint(8 * n + wt)
WellFormed(n) ==
  {RawTag(n, 0) \o EncodeVarint(v) : v \in {0, Word - 1}} \union
  {RawTag(n, 1) \o EncodeFixed(1), RawTag(n, 5) \o [k \in 1 .. FixedBytes \div 2 |-> 9]} \union
  {RawTag(n, 2) \o Delimited(s) : s \in {<<>>, <<15, 15, 15>>}} \union
  {RawTag(n, 3) \o RawTag(n, 4),
   RawTag(n, 3) \o RawTag(1, 2) \o Delimited(<<7>>) \o RawTag(2, 3) \o RawTag(2, 4)
     \o RawTag(n, 4)}

\* Payloads at the limits: nothing, a varint too long or too large, lengths that
\* are negative, that wrap around the index, or reach just beyond the end.
Hard ==
  {<<>>, <<0>>, <<1>>, <<Cont>>, EncodeVarint(Word - 1), EncodeVarint(Word \div 2),
   EncodeVarint(Word \div 2 - 1), [k \in 1 .. MaxGroups + 1 |-> Cont],
   [k \in 1 .. MaxGroups |-> 2 * Cont - 1], <<1, 2 * Cont - 1>>}

-----------------------------------------------------------------------------
\* Every message is written, and the nearly empty ones are cut, joined or given
\* unknown fields in all ways; a full one is also cut, given unknown fields, or
\* changed by somebody else.
Init ==
  /\ pc = "value"
  /\ kind \in Messages
  /\ \/ /\ edit = "none"
        /\ value \in Around(kind, Zero(kind)) \union Around(kind, Full(kind))
        /\ other = <<>>
     \/ /\ edit \in {"unknown", "cut"}
        /\ value \in Around(kind, Zero(kind)) \union {Full(kind)}
        /\ other = <<>>
     \/ /\ edit = "join"
        /\ LET light == Around(kind, Zero(kind))
           IN value \in light /\ \E m \in light : other = <<m>>
     \/ /\ edit = "header" /\ kind = "TmHeader"
        /\ \E b \in SampleBlocks : value = NewTmHeader(b) /\ other = <<b>>
     \/ /\ edit = "hard" /\ value = Zero(kind) /\ other = <<>>
     \/ /\ edit = "corrupt" /\ value = Full(kind) /\ other = <<>>
  /\ wire = <<>> /\ result = Fail("none yet")

Write ==
  /\ pc = "value"
  /\ LET out == Marshal(kind, value)
     IN IF out.err = "none"
        THEN /\ pc' = "bytes" /\ wire' = out.bytes /\ UNCHANGED result
        ELSE /\ pc' = "message" /\ result' = out /\ UNCHANGED wire
  /\ UNCHANGED <<kind, value, edit, other>>

\* On their way the bytes become others.
Change(how, others) ==
  /\ pc = "bytes" /\ edit = how
  /\ pc' = "sent"
  /\ wire' \in others
  /\ UNCHANGED <<kind, value, edit, other, result>>

Keep == \E how \in {"none", "header"} : Change(how, {wire})

\* They end early.
Cut == Change("cut", {SubSeq(wire, 1, l) : l \in 0 .. Len(wire) - 1})

\* Another version of the protocol has more fields.
AddUnknown ==
  LET fields == UNION {WellFormed(n) : n \in {Len(Schema[kind]) + 1, 2 ^ (IntBits - 1) - 1}}
  IN Change("unknown", {f \o wire : f \in fields} \union {wire \o f : f \in fields})

\* Another message follows.
Join == Change("join", {wire \o Marshal(kind, other[1]).bytes})

\* They are someone else's.
AddHard ==
  Change("hard", {wire \o RawTag(n, wt) \o p :
                    n \in 0 .. Len(Schema[kind]) + 1, wt \in 0 .. 7, p \in Hard})

Corrupt ==
  Change("corrupt", {[wire EXCEPT ![k] = x] :
                       k \in DOMAIN wire, x \in {0, 1, Cont - 1, Cont, 2 * Cont - 1}})

Read ==
  /\ pc = "sent"
  /\ pc' = "message"
  /\ result' = Unmarshal(kind, Zero(kind), wire, 0)
  /\ UNCHANGED <<kind, value, edit, other, wire>>

Next == Write \/ Keep \/ Cut \/ AddUnknown \/ Join \/ AddHard \/ Corrupt \/ Read

Spec == Init /\ [][Next]_vars

-----------------------------------------------------------------------------
(* Properties *)

Accepted == pc = "message" /\ result.err = "none"

\* Neither writing nor reading ever indexes outside its bytes, whatever the
\* bytes: lengths that are negative, huge or a lie end in an error.
NeverPanics == result.err # "panic"

\* What is written is as long as Size says, and reads back as what it was: also
\* at the bounds of every type, and with unknown fields before or after it.
ReadsBack ==
  /\ pc = "bytes" => Len(wire) = Size(kind, value)
  /\ pc = "message" /\ edit \in {"none", "unknown"} =>
       Accepted /\ result.val = value

\* A message that ends early is an error unless it ends between two fields, and
\* then it is the message of the fields there are: it is written as just these
\* bytes.
CutIsNoticed ==
  Accepted /\ edit = "cut" => Marshal(kind, result.val).bytes = wire

\* What two messages written one after the other mean: the fields of the second,
\* or those of the first where it has none; repeated fields are joined, messages
\* within are merged.
RECURSIVE Merge(_, _, _)
Merge(K, a, b) ==
  [n \in DOMAIN Schema[K] |->
     LET t == Schema[K][n]
     IN CASE t.kind \in {"strings", "ints", "rep"} -> a[n] \o b[n]
          [] t.kind = "ptr" /\ a[n] # <<>> /\ b[n] # <<>> -> <<Merge(t.of, a[n][1], b[n][1])>>
          [] t.kind = "one" /\ b # Zero(K) -> b[n]
          [] OTHER -> IF b[n] = Default(t) THEN a[n] ELSE b[n]]

\* Reading the bytes of two messages gives the one merged into the other.
JoinMerges ==
  pc = "message" /\ edit = "join" => Accepted /\ result.val = Merge(kind, value, other[1])

\* The header the contract reads is the one the light client has verified, with
\* the same commit and the validators of the same two sets in the same order: so
\* it has the same hashes.  It trusts the same height, of the same revision, or
\* nothing.
HeaderSurvives ==
  pc = "message" /\ edit = "header" => Accepted /\ FromTmHeader(result.val) = Verified(other[1])
=============================================================================
