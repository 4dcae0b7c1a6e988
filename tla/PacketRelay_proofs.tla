-------------------------- MODULE PacketRelay_proofs --------------------------
(***************************************************************************)
(* Proofs about PacketRelay for any relayers and any number of packets and *)
(* faults: type correctness, that whatever is on its way carries a proof   *)
(* that holds, and why Cosmos may refuse a batch and Harmony revert a      *)
(* message.                                                                *)
(***************************************************************************)
EXTENDS PacketRelay, FiniteSetTheorems, FunctionTheorems, SequenceTheorems, TLAPS

-----------------------------------------------------------------------------
(* The inductive invariant *)

Reading == Nat \union {Never}

Posted == [kind : Kinds \union {"update"}, pkt : Packets \union {NoPacket}, proof : Nat]

\* Types without the bounds on versions, which follow from Counted.
Typed ==
  /\ ver \in [Chains -> Nat] /\ headed \in [Chains -> Nat]
  /\ sent \in [Packets -> Reading] /\ received \in [Packets -> Reading]
  /\ acked \in [Packets -> Reading]
  /\ knows \in [Chains -> SUBSET Nat]
  /\ queue \in [Relayers -> Seq(Posted)]
  /\ pc \in [Relayers -> {"idle", "sync", "collect", "toSrc", "toDst"}]
  /\ kind \in [Relayers -> Kinds]
  /\ query \in [Relayers -> [Chains -> Reading]]
  /\ header \in [Relayers -> [Chains -> Reading]]
  /\ proof \in [Relayers -> [Chains -> Reading]]
  /\ batch \in [Relayers -> [Chains -> Seq(Packets)]]
  /\ rival \in [Relayers -> BOOLEAN]
  /\ faults \in 0 .. MaxFaults

\* Nothing is done or proved in a version that does not exist yet, nor done before
\* what comes before it.
InTime ==
  /\ \A c \in Chains : headed[c] <= ver[c]
  /\ \A p \in Packets :
       /\ sent[p] <= ver[Src(p)] /\ received[p] <= ver[Dst(p)] /\ acked[p] <= ver[Src(p)]
       /\ received[p] # Never => sent[p] # Never
       /\ acked[p] # Never => received[p] # Never

\* A client knows versions that a header proves.
KnowsHeaders == \A d \in Chains : \A v \in knows[d] : v <= headed[Other(d)]

\* Every version of a chain but the first did something to a packet.
Counted ==
  \A c \in Chains : \A v \in 1 .. ver[c] : \E p \in Packets :
    \/ Src(p) = c /\ (sent[p] = v \/ acked[p] = v)
    \/ Dst(p) = c /\ received[p] = v

\* The chain that a message about a packet goes to.
Target(k, p) == IF k = "relay" THEN Dst(p) ELSE Src(p)

\* What a command has read, from when to when.
Reads(r) ==
  \A c \in Chains :
    /\ proof[r][c] = header[r][c]
    /\ header[r][c] <= headed[c] /\ query[r][c] <= ver[c]
    /\ (pc[r] = "sync" /\ c = PathSrc) \/ pc[r] = "collect" =>
         query[r][c] # Never /\ header[r][c] # Never
    /\ pc[r] \in {"toSrc", "toDst"} => header[r][c] # Never
    /\ pc[r] = "idle" => header[r][c] = Never
    /\ pc[r] \notin {"sync", "collect"} => query[r][c] = Never

ReadInv == \A r \in Relayers : Reads(r)

\* What a command still has to send.
Holds(r) ==
  \A d \in Chains :
    /\ pc[r] \notin {"toSrc", "toDst"} => batch[r][d] = <<>>
    /\ pc[r] = "toSrc" /\ d = PathSrc => batch[r][d] # <<>>
    /\ pc[r] = "toDst" => (batch[r][d] = <<>> <=> d = PathSrc)
    /\ \A i \in DOMAIN batch[r][d] : Target(kind[r], batch[r][d][i]) = d

BatchInv == \A r \in Relayers : Holds(r)

\* Transactions in the pool of Harmony: each message is behind its update, unless
\* the client knows that version or a newer one or there was a fault.
Behind(r, i) ==
  LET m == queue[r][i] IN
  \/ \E v \in knows["harmony"] : v >= m.proof
  \/ \E j \in 1 .. i - 1 : queue[r][j].kind = "update" /\ queue[r][j].proof = m.proof
  \/ faults > 0

Pooled(r) ==
  \A i \in DOMAIN queue[r] :
    LET m == queue[r][i] IN
    /\ m.proof <= headed["cosmos"]
    /\ m.kind # "update" =>
         m.pkt \in Packets /\ Target(m.kind, m.pkt) = "harmony" /\ Behind(r, i)

QueueInv == \A r \in Relayers : Pooled(r)

\* As long as no other relayer has changed Cosmos, what a command has read of it is
\* the newest there is to know.
Newest(r) ==
  (header[r]["harmony"] # Never /\ (pc[r] \in {"toSrc", "toDst"} => batch[r]["cosmos"] # <<>>))
    => \A v \in knows["cosmos"] : v <= header[r]["harmony"]

Unrivalled(r) ==
  /\ Newest(r)
  /\ query[r]["cosmos"] # Never =>
       \A p \in Packets :
         /\ Dst(p) = "cosmos" => received[p] <= query[r]["cosmos"]
         /\ Src(p) = "cosmos" => acked[p] <= query[r]["cosmos"]
  /\ \A i \in DOMAIN batch[r]["cosmos"] : ~ Done(kind[r], batch[r]["cosmos"][i])

RivalInv == \A r \in Relayers : ~ rival[r] => Unrivalled(r)

IInv ==
  /\ Typed /\ InTime /\ KnowsHeaders /\ Counted
  /\ ReadInv /\ BatchInv /\ QueueInv /\ RivalInv /\ MessagesProvable

-----------------------------------------------------------------------------
(* Lemmas about natural numbers, packets and sorted sequences *)

\* Induction on the natural numbers in the form of a least counterexample.
LEMMA Least ==
  ASSUME NEW T \in SUBSET Nat, T # {}
  PROVE  \E n \in T : \A m \in T : n <= m
<1>. DEFINE R == OpToRel(<, Nat)
<1>1. IsWellFoundedOn(R, Nat)
  BY NatLessThanWellFounded
<1>2. \A n, m \in Nat : n < m => <<n, m>> \in R
  BY DEF OpToRel
<1>. HIDE DEF R
<1>3. PICK n \in T : \A m \in T : ~ (<<m, n>> \in R)
  BY <1>1, WFMin
<1>4. \A m \in T : n \in Nat /\ m \in Nat /\ ~ (m < n)
  BY <1>2, <1>3
<1>. QED
  BY <1>4

LEMMA Packet ==
  ASSUME NEW p \in Packets
  PROVE  /\ Src(p) \in Chains /\ Dst(p) \in Chains /\ Dst(p) # Src(p)
         /\ p = <<Src(p), p[2]>> /\ p[2] \in 1 .. FromHarmony + FromCosmos
BY RelayAssumption DEF Packets, Src, Dst, Other, Chains

LEMMA Chain ==
  /\ "harmony" \in Chains /\ "cosmos" \in Chains
  /\ PathSrc \in Chains /\ Other(PathSrc) \in Chains /\ Other(PathSrc) # PathSrc
  /\ \A c \in Chains : Other(c) \in Chains /\ Other(c) # c /\ Other(Other(c)) = c
  /\ \A c, d \in Chains : d # c => d = Other(c)
BY RelayAssumption DEF Chains, Other

\* There are finitely many packets.
LEMMA PacketsFinite ==
  IsFiniteSet(Packets) /\ Cardinality(Packets) = FromHarmony + FromCosmos
<1>. DEFINE H == {"harmony"} \X (1 .. FromHarmony)
            C == {"cosmos"} \X (1 .. FromCosmos)
<1>0. FromHarmony \in Nat /\ FromCosmos \in Nat
  BY RelayAssumption
<1>1. IsFiniteSet(H) /\ Cardinality(H) = FromHarmony
  <2>1. IsFiniteSet(1 .. FromHarmony) /\ Cardinality(1 .. FromHarmony) = FromHarmony
    BY <1>0, FS_Interval
  <2>2. IsFiniteSet({"harmony"}) /\ Cardinality({"harmony"}) = 1
    BY FS_Singleton
  <2>. QED
    BY <1>0, <2>1, <2>2, FS_Product
<1>2. IsFiniteSet(C) /\ Cardinality(C) = FromCosmos
  <2>1. IsFiniteSet(1 .. FromCosmos) /\ Cardinality(1 .. FromCosmos) = FromCosmos
    BY <1>0, FS_Interval
  <2>2. IsFiniteSet({"cosmos"}) /\ Cardinality({"cosmos"}) = 1
    BY FS_Singleton
  <2>. QED
    BY <1>0, <2>1, <2>2, FS_Product
<1>3. H \cap C = {} /\ Packets = H \union C
  BY DEF Packets
<1>. HIDE DEF H, C
<1>4. Cardinality({}) = 0
  BY FS_EmptySet
<1>. QED
  BY <1>0, <1>1, <1>2, <1>3, <1>4, FS_Union

\* A version that comes of one event each is bounded by twice the packets.
LEMMA EventsBoundVersions ==
  ASSUME NEW v \in Nat, NEW c,
         NEW s \in [Packets -> Reading], NEW t \in [Packets -> Reading],
         \A n \in 1 .. v : \E p \in Packets : s[p] = n \/ t[p] = n
  PROVE  v <= 2 * (FromHarmony + FromCosmos)
<1>. DEFINE E == Packets \X {1, 2}
            At(e) == IF e[2] = 1 THEN s[e[1]] ELSE t[e[1]]
            f == [n \in 1 .. v |-> CHOOSE e \in E : At(e) = n]
<1>1. \A n \in 1 .. v : \E e \in E : At(e) = n
  <2>. TAKE n \in 1 .. v
  <2>1. PICK p \in Packets : s[p] = n \/ t[p] = n
    OBVIOUS
  <2>2. <<p, 1>> \in E /\ <<p, 2>> \in E /\ At(<<p, 1>>) = s[p] /\ At(<<p, 2>>) = t[p]
    OBVIOUS
  <2>. HIDE DEF E, At
  <2>. QED
    BY <2>1, <2>2
<1>. HIDE DEF E, At
<1>2. f \in [1 .. v -> E] /\ \A n \in 1 .. v : At(f[n]) = n
  BY <1>1
<1>3. \A m, n \in 1 .. v : f[m] = f[n] => m = n
  BY <1>2
<1>4. f \in Injection(1 .. v, E)
  BY <1>2, <1>3, Fun_IsInj
<1>5. IsFiniteSet({1, 2}) /\ Cardinality({1, 2}) = 2
  <2>1. ASSUME NEW a, NEW b, a # b
        PROVE  IsFiniteSet({a, b}) /\ Cardinality({a, b}) = 2
    <3>1. IsFiniteSet({a}) /\ Cardinality({a}) = 1 /\ b \notin {a}
      BY <2>1, FS_Singleton
    <3>2. IsFiniteSet({a} \union {b}) /\ Cardinality({a} \union {b}) = 1 + 1
      BY <3>1, FS_AddElement
    <3>3. {a} \union {b} = {a, b}
      OBVIOUS
    <3>. QED
      BY <3>2, <3>3
  <2>2. 1 # 2
    OBVIOUS
  <2>. QED
    BY <2>1, <2>2
<1>6. IsFiniteSet(E) /\ Cardinality(E) = (FromHarmony + FromCosmos) * 2
  BY <1>5, PacketsFinite, FS_Product DEF E
<1>7. Cardinality(1 .. v) = v
  BY FS_Interval
<1>. QED
  BY <1>4, <1>6, <1>7, FS_Injection, RelayAssumption

\* A set of packets of one chain has one with the highest sequence.
LEMMA HighestSequence ==
  ASSUME NEW S \in SUBSET Packets, S # {}
  PROVE  \E p \in S : \A q \in S : q[2] <= p[2]
<1>. DEFINE N == FromHarmony + FromCosmos
            T == {n \in Nat : \E p \in S : p[2] = N - n}
<1>1. N \in Nat /\ \A p \in S : p[2] \in 1 .. N
  BY Packet, RelayAssumption
<1>. HIDE DEF N
<1>2. \A p \in S : N - p[2] \in T
  BY <1>1
<1>3. PICK n \in T : \A m \in T : n <= m
  BY <1>2, Least
<1>4. n \in Nat /\ \E p \in S : p[2] = N - n
  BY <1>3
<1>5. PICK p \in S : p[2] = N - n
  BY <1>4
<1>6. \A q \in S : n <= N - q[2]
  BY <1>2, <1>3
<1>. HIDE DEF T
<1>7. \A q \in S : q[2] <= p[2]
  <2>. TAKE q \in S
  <2>1. q[2] \in Int /\ n \in Int /\ N \in Int
    BY <1>1, <1>4
  <2>. QED
    BY <1>5, <1>6, <2>1
<1>. QED
  BY <1>7

Sorted(s, n) == \A i, j \in 1 .. n : i < j => s[i][2] < s[j][2]

\* Packets of one chain can be sorted by their sequence.
LEMMA SortedExists ==
  ASSUME NEW c, NEW S \in SUBSET {p \in Packets : Src(p) = c}
  PROVE  \E s \in [1 .. Cardinality(S) -> S] : Sorted(s, Cardinality(S))
<1>. DEFINE P == {p \in Packets : Src(p) = c}
            Sorts(n, U) == \E s \in [1 .. n -> U] : Sorted(s, n)
            Bad == {n \in Nat : \E U \in SUBSET P : Cardinality(U) = n /\ ~ Sorts(n, U)}
<1>1. \A U \in SUBSET P : IsFiniteSet(U) /\ Cardinality(U) \in Nat
  BY PacketsFinite, FS_Subset, FS_CardinalityType
<1>. SUFFICES Bad = {}
  BY <1>1
<1>. SUFFICES ASSUME Bad # {} PROVE FALSE
  OBVIOUS
<1>2. PICK n \in Bad : \A m \in Bad : n <= m
  BY Least
<1>3. PICK U \in SUBSET P : Cardinality(U) = n /\ ~ Sorts(n, U)
  BY <1>2
<1>4. n # 0
  <2>1. SUFFICES ASSUME n = 0 PROVE FALSE
    OBVIOUS
  <2>2. U = {}
    BY <1>1, <1>3, <2>1, FS_EmptySet
  <2>3. [i \in 1 .. n |-> i] \in [1 .. n -> U] /\ Sorted([i \in 1 .. n |-> i], n)
    BY <2>1 DEF Sorted
  <2>. QED
    BY <1>3, <2>3
<1>5. U # {}
  BY <1>3, <1>4, FS_EmptySet
<1>6. PICK p \in U : \A q \in U : q[2] <= p[2]
  <2>1. U \in SUBSET Packets
    OBVIOUS
  <2>. QED
    BY <1>5, <2>1, HighestSequence
<1>7. \A q \in U \ {p} : q[2] < p[2]
  <2>. TAKE q \in U \ {p}
  <2>1. q = <<c, q[2]>> /\ p = <<c, p[2]>> /\ q[2] \in Int /\ p[2] \in Int
    BY Packet
  <2>2. q[2] # p[2]
    BY <2>1
  <2>. QED
    BY <1>6, <2>1, <2>2
<1>8. Cardinality(U \ {p}) = n - 1 /\ n - 1 \in Nat
  BY <1>1, <1>3, <1>4, FS_RemoveElement
<1>9. n - 1 \notin Bad
  BY <1>2, <1>8
<1>10. PICK s \in [1 .. n - 1 -> U \ {p}] : Sorted(s, n - 1)
  BY <1>8, <1>9
<1>. DEFINE t == [i \in 1 .. n |-> IF i = n THEN p ELSE s[i]]
<1>11. t \in [1 .. n -> U]
  BY <1>8, <1>10
<1>12. Sorted(t, n)
  <2>. SUFFICES ASSUME NEW i \in 1 .. n, NEW j \in 1 .. n, i < j
                PROVE  t[i][2] < t[j][2]
    BY DEF Sorted
  <2>0. i \in 1 .. n - 1 /\ i # n
    BY <1>8
  <2>1. CASE j = n
    <3>1. s[i] \in U \ {p}
      BY <1>10, <2>0
    <3>. QED
      BY <1>7, <2>0, <2>1, <3>1
  <2>2. CASE j # n
    <3>1. j \in 1 .. n - 1
      BY <1>8, <2>2
    <3>. QED
      BY <1>10, <2>0, <2>2, <3>1 DEF Sorted
  <2>. QED
    BY <2>1, <2>2
<1>. QED
  BY <1>3, <1>11, <1>12

\* Sorting yields a sequence of the same packets, which is empty only if they are none.
LEMMA BySequenceProperties ==
  ASSUME NEW c, NEW S \in SUBSET {p \in Packets : Src(p) = c}
  PROVE  /\ BySequence(S) \in Seq(Packets)
         /\ \A i \in DOMAIN BySequence(S) : BySequence(S)[i] \in S
         /\ BySequence(S) = <<>> <=> S = {}
<1>. DEFINE n == Cardinality(S)
            s == BySequence(S)
<1>1. IsFiniteSet(S) /\ n \in Nat
  BY PacketsFinite, FS_Subset, FS_CardinalityType
<1>2. \E t \in [1 .. n -> S] : \A i, j \in DOMAIN t : i < j => t[i][2] < t[j][2]
  BY SortedExists DEF Sorted
<1>3. s \in [1 .. n -> S]
  BY <1>2 DEF BySequence
<1>. HIDE DEF s, n
<1>4. s \in [1 .. n -> Packets]
  BY <1>3
<1>5. s \in Seq(Packets)
  BY <1>1, <1>4, SeqDef
<1>6. DOMAIN s = 1 .. n
  BY <1>3
<1>7. n = 0 <=> S = {}
  BY <1>1, FS_EmptySet DEF n
<1>8. s = <<>> <=> n = 0
  BY <1>1, <1>5, <1>6, EmptySeq, LenProperties
<1>. QED
  BY <1>3, <1>5, <1>6, <1>7, <1>8 DEF s

-----------------------------------------------------------------------------
(* What every step keeps *)

\* The invariant implies the bounds of the type invariant.
LEMMA Bounded ==
  ASSUME IInv
  PROVE  TypeOK
<1>1. \A c \in Chains : ver[c] \in Versions
  <2>. TAKE c \in Chains
  <2>. DEFINE s == [p \in Packets |-> IF Src(p) = c THEN sent[p] ELSE Never]
              t == [p \in Packets |-> IF Src(p) = c THEN acked[p] ELSE received[p]]
  <2>1. s \in [Packets -> Reading] /\ t \in [Packets -> Reading] /\ ver[c] \in Nat
    BY DEF IInv, Typed, Reading
  <2>2. \A n \in 1 .. ver[c] : \E p \in Packets : s[p] = n \/ t[p] = n
    <3>. TAKE n \in 1 .. ver[c]
    <3>1. PICK p \in Packets : \/ Src(p) = c /\ (sent[p] = n \/ acked[p] = n)
                               \/ Dst(p) = c /\ received[p] = n
      BY DEF IInv, Counted
    <3>2. s[p] = n \/ t[p] = n
      BY <3>1, Packet
    <3>. QED
      BY <3>2
  <2>. HIDE DEF s, t
  <2>3. ver[c] <= 2 * (FromHarmony + FromCosmos)
    BY <2>1, <2>2, EventsBoundVersions
  <2>. QED
    BY <2>1, <2>3, RelayAssumption DEF Versions
<1>2. \A c \in Chains : \A v \in Nat : v <= ver[c] => v \in Versions
  BY <1>1, RelayAssumption DEF Versions
<1>3. \A c \in Chains : \A v \in Nat : v <= headed[c] => v \in Versions
  BY <1>2 DEF IInv, Typed, InTime
<1>4. \A c \in Chains : \A v \in Reading : v <= ver[c] => v \in Versions \union {Never}
  BY <1>2 DEF Reading
<1>5. headed \in [Chains -> Versions]
  BY <1>3 DEF IInv, Typed
<1>6. {sent, received, acked} \subseteq [Packets -> Versions \union {Never}]
  BY <1>4, Packet DEF IInv, Typed, InTime
<1>7. knows \in [Chains -> SUBSET Versions]
  BY <1>3, Chain DEF IInv, Typed, KnowsHeaders
<1>8. queue \in [Relayers -> Seq(Message)]
  <2>. SUFFICES ASSUME NEW r \in Relayers PROVE queue[r] \in Seq(Message)
    BY DEF IInv, Typed
  <2>1. queue[r] \in Seq(Posted)
    BY DEF IInv, Typed
  <2>2. /\ Len(queue[r]) \in Nat /\ DOMAIN queue[r] = 1 .. Len(queue[r])
        /\ queue[r] \in [1 .. Len(queue[r]) -> Posted]
    BY <2>1, LenProperties
  <2>3. \A i \in DOMAIN queue[r] : queue[r][i] \in Posted /\ queue[r][i].proof \in Versions
    BY <1>3, <2>2, Chain DEF IInv, QueueInv, Pooled, Posted
  <2>4. queue[r] \in [1 .. Len(queue[r]) -> Message]
    BY <2>2, <2>3 DEF Posted, Message
  <2>. QED
    BY <2>2, <2>4, SeqDef
<1>9. /\ query \in [Relayers -> [Chains -> Versions \union {Never}]]
      /\ header \in [Relayers -> [Chains -> Versions \union {Never}]]
      /\ proof \in [Relayers -> [Chains -> Versions \union {Never}]]
  <2>1. \A r \in Relayers : \A c \in Chains :
          /\ query[r][c] \in Versions \union {Never}
          /\ header[r][c] \in Versions \union {Never} /\ proof[r][c] = header[r][c]
    <3>. TAKE r \in Relayers
    <3>. TAKE c \in Chains
    <3>1. query[r][c] \in Reading /\ query[r][c] <= ver[c]
      BY DEF IInv, Typed, ReadInv, Reads
    <3>2. header[r][c] \in Reading /\ header[r][c] <= headed[c] /\ proof[r][c] = header[r][c]
      BY DEF IInv, Typed, ReadInv, Reads
    <3>. QED
      BY <1>3, <1>4, <3>1, <3>2 DEF Reading
  <2>. QED
    BY <2>1 DEF IInv, Typed
<1>. QED
  BY <1>1, <1>5, <1>6, <1>7, <1>8, <1>9 DEF IInv, Typed, TypeOK

\* The chains only go on: versions grow, and what is done stays done.
Later ==
  /\ \A c \in Chains : ver[c] <= ver'[c] /\ headed[c] <= headed'[c]
  /\ \A p \in Packets :
       /\ sent[p] # Never => sent'[p] = sent[p]
       /\ received[p] # Never => received'[p] = received[p]
       /\ acked'[p] # acked[p] => acked[p] = Never /\ acked'[p] > ver[Src(p)]

\* What is provable at a version that exists stays so.
LEMMA ProvableStays ==
  ASSUME Typed, Typed', Later, NEW p \in Packets, NEW k \in Kinds,
         NEW v \in Reading, v <= ver[Other(Target(k, p))], Provable(k, p, v)
  PROVE  Provable(k, p, v)'
<1>0. Other(Dst(p)) = Src(p) /\ Src(p) \in Chains
  BY Packet, Chain DEF Dst
<1>t. /\ ver[Src(p)] \in Int /\ v \in Int
      /\ sent[p] \in Int /\ received[p] \in Int /\ acked[p] \in Int
      /\ sent'[p] \in Int /\ received'[p] \in Int /\ acked'[p] \in Int
  BY <1>0 DEF Typed, Reading, Never
<1>1. CASE k = "relay"
  <2>1. sent[p] # Never /\ sent[p] <= v /\ ~ By(acked[p], v) /\ v <= ver[Src(p)]
    BY <1>0, <1>1 DEF Provable, Stored, HasCommitment, By, Target
  <2>2. sent'[p] = sent[p]
    BY <2>1 DEF Later
  <2>3. ~ By(acked'[p], v)
    BY <1>t, <2>1 DEF Later, By
  <2>. QED
    BY <1>1, <2>1, <2>2, <2>3 DEF Provable, Stored, HasCommitment, By
<1>2. CASE k # "relay"
  <2>1. received[p] # Never /\ received[p] <= v
    BY <1>2 DEF Provable, Stored, HasReceipt, By
  <2>. QED
    BY <1>2, <2>1 DEF Provable, Stored, HasReceipt, By, Later
<1>. QED
  BY <1>1, <1>2

BatchProvable(r) ==
  \A d \in Chains : \A i \in DOMAIN batch[r][d] :
    /\ Provable(kind[r], batch[r][d][i], proof[r][Other(d)])
    /\ proof[r][Other(d)] = header[r][Other(d)]

QueueProvable(r) ==
  \A i \in DOMAIN queue[r] :
    queue[r][i].kind # "update" =>
      Provable(queue[r][i].kind, queue[r][i].pkt, queue[r][i].proof)

LEMMA ProvableParts ==
  MessagesProvable <=> \A r \in Relayers : BatchProvable(r) /\ QueueProvable(r)
BY DEF MessagesProvable, BatchProvable, QueueProvable

\* The elements of the sequences.
LEMMA Elements ==
  ASSUME Typed, NEW r \in Relayers
  PROVE  /\ Len(queue[r]) \in Nat /\ DOMAIN queue[r] = 1 .. Len(queue[r])
         /\ queue[r] \in Seq(Posted)
         /\ \A i \in DOMAIN queue[r] : queue[r][i] \in Posted
         /\ \A d \in Chains : \A i \in DOMAIN batch[r][d] : batch[r][d][i] \in Packets
<1>1. queue[r] \in Seq(Posted) /\ \A d \in Chains : batch[r][d] \in Seq(Packets)
  BY DEF Typed
<1>2. \A d \in Chains : \A i \in DOMAIN batch[r][d] : batch[r][d][i] \in Packets
  BY <1>1, LenProperties
<1>. QED
  BY <1>1, <1>2, LenProperties

\* What relayer r has read and holds.
CommandOf(r) == <<pc[r], kind[r], query[r], header[r], proof[r], batch[r]>>

\* What a command holds for a chain stays provable.
LEMMA HeldWaits ==
  ASSUME IInv, Typed', Later, NEW r \in Relayers, NEW d \in Chains, batch'[r][d] = batch[r][d],
         kind'[r] = kind[r], header'[r] = header[r], proof'[r] = proof[r],
         NEW i \in DOMAIN batch[r][d]
  PROVE  /\ Provable(kind[r], batch[r][d][i], proof[r][Other(d)])'
         /\ proof'[r][Other(d)] = header'[r][Other(d)]
         /\ Target(kind'[r], batch'[r][d][i]) = d
<1>1. batch[r][d][i] \in Packets /\ kind[r] \in Kinds /\ Other(d) \in Chains
  BY Elements, Chain DEF IInv, Typed
<1>2. Target(kind[r], batch[r][d][i]) = d
  BY DEF IInv, BatchInv, Holds
<1>3. /\ Provable(kind[r], batch[r][d][i], proof[r][Other(d)])
      /\ proof[r][Other(d)] = header[r][Other(d)]
  BY ProvableParts DEF IInv, BatchProvable
<1>4. proof[r][Other(d)] \in Reading /\ proof[r][Other(d)] <= ver[Other(d)]
  <2>1. /\ proof[r][Other(d)] \in Reading
        /\ proof[r][Other(d)] <= headed[Other(d)] /\ headed[Other(d)] <= ver[Other(d)]
    BY <1>1, <1>3 DEF IInv, Typed, ReadInv, Reads, InTime
  <2>. QED
    BY <1>1, <2>1 DEF IInv, Typed, Reading, Never
<1>. DEFINE k == kind[r]
            p == batch[r][d][i]
            v == proof[r][Other(d)]
<1>5. k' = k /\ p' = p /\ v' = v
  OBVIOUS
<1>. HIDE DEF k, p, v
<1>6. Provable(k, p, v) /\ p \in Packets /\ k \in Kinds /\ v \in Reading
      /\ v <= ver[Other(Target(k, p))]
  BY <1>1, <1>2, <1>3, <1>4 DEF k, p, v
<1>7. Provable(k, p, v)'
  BY <1>5, <1>6, ProvableStays DEF IInv, Provable, Stored, HasCommitment, HasReceipt, By
<1>. QED
  BY <1>2, <1>3, <1>7 DEF Target, k, p, v

\* A command that does nothing keeps what is known of it while the chains go on.
LEMMA CommandWaits ==
  ASSUME IInv, Typed', Later, NEW r \in Relayers, UNCHANGED CommandOf(r)
  PROVE  Reads(r)' /\ Holds(r)' /\ BatchProvable(r)'
<1>0. /\ pc'[r] = pc[r] /\ kind'[r] = kind[r] /\ query'[r] = query[r]
      /\ header'[r] = header[r] /\ proof'[r] = proof[r] /\ batch'[r] = batch[r]
  BY DEF CommandOf
<1>1. Reads(r)'
  <2>1. \A c \in Chains : /\ ver[c] \in Int /\ ver'[c] \in Int /\ ver[c] <= ver'[c]
                          /\ headed[c] \in Int /\ headed'[c] \in Int /\ headed[c] <= headed'[c]
    BY DEF IInv, Typed, Later
  <2>2. \A c \in Chains : header[r][c] \in Int /\ query[r][c] \in Int
    BY DEF IInv, Typed, Reading, Never
  <2>3. Reads(r)
    BY DEF IInv, ReadInv
  <2>. QED
    BY <1>0, <2>1, <2>2, <2>3 DEF Reads
<1>2. Holds(r)'
  BY <1>0 DEF IInv, BatchInv, Holds, Target
<1>3. BatchProvable(r)'
  BY <1>0, HeldWaits DEF BatchProvable
<1>. QED
  BY <1>1, <1>2, <1>3

\* An idle command has read nothing and holds nothing.
LEMMA Idle ==
  ASSUME NEW r \in Relayers, pc'[r] = "idle", Reads(r)', Holds(r)'
  PROVE  Unrivalled(r)' /\ BatchProvable(r)'
<1>1. \A c \in Chains : header'[r][c] = Never /\ query'[r][c] = Never /\ batch'[r][c] = <<>>
  BY DEF Reads, Holds
<1>2. DOMAIN <<>> = {}
  OBVIOUS
<1>. QED
  BY <1>1, <1>2, Chain DEF Unrivalled, Newest, BatchProvable

\* A command that is over.
LEMMA Ended ==
  ASSUME Typed', NEW r \in Relayers, pc'[r] = "idle", batch'[r] = [c \in Chains |-> <<>>],
         query'[r] = Unread, header'[r] = Unread, proof'[r] = Unread
  PROVE  Reads(r)' /\ Holds(r)' /\ Unrivalled(r)' /\ BatchProvable(r)'
<1>1. \A c \in Chains : /\ header'[r][c] = Never /\ query'[r][c] = Never /\ proof'[r][c] = Never
                        /\ batch'[r][c] = <<>> /\ Never <= ver'[c] /\ Never <= headed'[c]
  BY DEF Unread, Typed, Never
<1>2. DOMAIN <<>> = {}
  OBVIOUS
<1>3. Reads(r)'
  BY <1>1 DEF Reads
<1>4. Holds(r)'
  BY <1>1, <1>2 DEF Holds
<1>. QED
  BY <1>3, <1>4, Idle

\* A transaction that waits in the pool stays as good as it is.
LEMMA MessageWaits ==
  ASSUME IInv, Typed', Later, NEW r \in Relayers, NEW i \in DOMAIN queue[r],
         NEW m, m = queue[r][i]
  PROVE  /\ m.proof <= headed'["cosmos"]
         /\ m.kind # "update" => Provable(m.kind, m.pkt, m.proof)'
<1>1. m \in Posted /\ m.proof <= headed["cosmos"] /\ m.proof \in Nat
  BY Elements DEF IInv, QueueInv, Pooled, Posted
<1>2. /\ headed["cosmos"] \in Nat /\ headed'["cosmos"] \in Nat /\ ver["cosmos"] \in Nat
      /\ headed["cosmos"] <= headed'["cosmos"] /\ headed["cosmos"] <= ver["cosmos"]
  BY Chain DEF IInv, Typed, Later, InTime
<1>3. ASSUME m.kind # "update" PROVE Provable(m.kind, m.pkt, m.proof)'
  <2>1. /\ m.pkt \in Packets /\ m.kind \in Kinds /\ Target(m.kind, m.pkt) = "harmony"
    BY <1>1, <1>3 DEF IInv, QueueInv, Pooled, Posted
  <2>2. Provable(m.kind, m.pkt, m.proof)
    BY <1>3, ProvableParts DEF IInv, QueueProvable
  <2>3. m.proof \in Reading /\ m.proof <= ver[Other(Target(m.kind, m.pkt))]
    BY <1>1, <1>2, <2>1 DEF Reading, Other
  <2>. DEFINE k == m.kind
              p == m.pkt
              v == m.proof
  <2>4. k \in Kinds /\ p \in Packets /\ v \in Reading /\ Provable(k, p, v)
        /\ v <= ver[Other(Target(k, p))]
    BY <2>1, <2>2, <2>3
  <2>. HIDE DEF k, p, v
  <2>5. Provable(k, p, v)'
    BY <2>4, ProvableStays DEF IInv
  <2>. QED
    BY <2>5 DEF k, p, v
<1>. QED
  BY <1>1, <1>2, <1>3

\* A queue that waits.
LEMMA QueueWaits ==
  ASSUME IInv, Typed', Later, knows["harmony"] \subseteq knows'["harmony"],
         faults <= faults', NEW r \in Relayers, queue'[r] = queue[r]
  PROVE  Pooled(r)' /\ QueueProvable(r)'
<1>0. faults \in Int /\ faults' \in Int
  BY RelayAssumption DEF IInv, Typed
<1>1. Pooled(r)'
  <2>. SUFFICES ASSUME NEW i \in DOMAIN queue[r]
                PROVE  LET m == queue[r][i] IN
                       /\ m.proof <= headed'["cosmos"]
                       /\ m.kind # "update" =>
                            /\ m.pkt \in Packets /\ Target(m.kind, m.pkt) = "harmony"
                            /\ Behind(r, i)'
    BY DEF Pooled, Target
  <2>1. queue[r][i].proof <= headed'["cosmos"]
    BY MessageWaits
  <2>2. Behind(r, i) => Behind(r, i)'
    BY <1>0 DEF Behind
  <2>. QED
    BY <2>1, <2>2 DEF IInv, QueueInv, Pooled
<1>2. QueueProvable(r)'
  <2>. SUFFICES ASSUME NEW i \in DOMAIN queue[r], queue[r][i].kind # "update"
                PROVE  Provable(queue[r][i].kind, queue[r][i].pkt, queue[r][i].proof)'
    BY DEF QueueProvable
  <2>. DEFINE m == queue[r][i]
  <2>1. m = queue[r][i] /\ m' = m /\ m.kind # "update"
    OBVIOUS
  <2>. HIDE DEF m
  <2>2. Provable(m.kind, m.pkt, m.proof)'
    BY <2>1, MessageWaits
  <2>. QED
    BY <2>2 DEF m
<1>. QED
  BY <1>1, <1>2

\* A reading of Cosmos is not out of date when nothing of it has changed.
LEMMA RivalWaits ==
  ASSUME Typed, BatchInv, NEW r \in Relayers, Unrivalled(r), UNCHANGED CommandOf(r),
         knows'["cosmos"] = knows["cosmos"],
         \A p \in Packets : /\ Dst(p) = "cosmos" => received'[p] = received[p]
                            /\ Src(p) = "cosmos" => acked'[p] = acked[p]
  PROVE  Unrivalled(r)'
<1>0. /\ pc'[r] = pc[r] /\ kind'[r] = kind[r] /\ query'[r] = query[r]
      /\ header'[r] = header[r] /\ batch'[r] = batch[r]
  BY DEF CommandOf
<1>1. \A i \in DOMAIN batch[r]["cosmos"] :
        Done(kind[r], batch[r]["cosmos"][i])' <=> Done(kind[r], batch[r]["cosmos"][i])
  <2>. TAKE i \in DOMAIN batch[r]["cosmos"]
  <2>1. batch[r]["cosmos"][i] \in Packets /\ Target(kind[r], batch[r]["cosmos"][i]) = "cosmos"
    BY Elements, Chain DEF BatchInv, Holds
  <2>. QED
    BY <1>0, <2>1 DEF Done, Target
<1>2. Newest(r)'
  BY <1>0 DEF Unrivalled, Newest
<1>. QED
  BY <1>0, <1>1, <1>2 DEF Unrivalled

\* The chains as they are.
LEMMA ChainsWait ==
  ASSUME IInv, UNCHANGED chainVars
  PROVE  Later /\ InTime' /\ KnowsHeaders' /\ Counted'
<1>1. Later
  BY DEF IInv, Typed, Later, chainVars
<1>. QED
  BY <1>1 DEF IInv, InTime, KnowsHeaders, Counted, chainVars

\* The parts of the invariant.
LEMMA Assembled ==
  ASSUME Typed', InTime', KnowsHeaders', Counted',
         \A r \in Relayers : /\ Reads(r)' /\ Holds(r)' /\ BatchProvable(r)'
                             /\ Pooled(r)' /\ QueueProvable(r)'
                             /\ ~ rival'[r] => Unrivalled(r)'
  PROVE  IInv'
<1>1. MessagesProvable'
  BY DEF MessagesProvable, BatchProvable, QueueProvable
<1>. QED
  BY <1>1 DEF IInv, ReadInv, BatchInv, QueueInv, RivalInv

\* A step of the chains alone, not of Cosmos' client or of what Cosmos has received.
LEMMA ChainsGoOn ==
  ASSUME IInv, Typed', Later, InTime', KnowsHeaders', Counted',
         UNCHANGED <<queue, commandVars, faults, knows>>,
         \A p \in Packets : /\ Dst(p) = "cosmos" => received'[p] = received[p]
                            /\ Src(p) = "cosmos" => acked'[p] = acked[p]
  PROVE  IInv'
<1>0. faults <= faults'
  BY RelayAssumption DEF IInv, Typed
<1>1. ASSUME NEW r \in Relayers
      PROVE  /\ Reads(r)' /\ Holds(r)' /\ BatchProvable(r)' /\ Pooled(r)' /\ QueueProvable(r)'
             /\ ~ rival'[r] => Unrivalled(r)'
  <2>0. UNCHANGED CommandOf(r) /\ rival'[r] = rival[r] /\ queue'[r] = queue[r]
    BY DEF CommandOf, commandVars
  <2>1. Reads(r)' /\ Holds(r)' /\ BatchProvable(r)'
    BY <2>0, CommandWaits
  <2>2. Pooled(r)' /\ QueueProvable(r)'
    BY <1>0, <2>0, QueueWaits
  <2>3. ~ rival'[r] => Unrivalled(r)'
    BY <2>0, RivalWaits DEF IInv, RivalInv
  <2>. QED
    BY <2>1, <2>2, <2>3
<1>. QED
  BY <1>1, Assembled

-----------------------------------------------------------------------------
(* The chains *)

\* A chain has one version more.
LEMMA VersionAdded ==
  ASSUME IInv, NEW c \in Chains, NewVersion(c)
  PROVE  /\ ver' \in [Chains -> Nat] /\ headed' \in [Chains -> Nat]
         /\ ver'[c] = ver[c] + 1 /\ \A d \in Chains : d # c => ver'[d] = ver[d]
         /\ \A d \in Chains : /\ ver[d] <= ver'[d] /\ headed[d] <= headed'[d]
                              /\ headed'[d] <= ver'[d]
<1>1. /\ ver \in [Chains -> Nat] /\ headed \in [Chains -> Nat]
      /\ ver[c] \in Nat /\ ver[c] + 1 \in Nat
      /\ \A d \in Chains : headed[d] <= ver[d] /\ headed[d] \in Nat /\ ver[d] \in Nat
  BY DEF IInv, Typed, InTime
<1>2. ver' = [ver EXCEPT ![c] = ver[c] + 1]
  BY DEF NewVersion
<1>3. headed' = headed \/ headed' = [headed EXCEPT ![c] = ver[c]]
  BY DEF NewVersion
<1>4. ver' \in [Chains -> Nat] /\ headed' \in [Chains -> Nat]
  BY <1>1, <1>2, <1>3
<1>5. ver'[c] = ver[c] + 1 /\ \A d \in Chains : d # c => ver'[d] = ver[d]
  BY <1>1, <1>2
<1>6. \A d \in Chains : headed'[d] = headed[d] \/ (d = c /\ headed'[d] = ver[d])
  BY <1>1, <1>3
<1>. QED
  BY <1>1, <1>4, <1>5, <1>6

\* The events of a version of a chain.
ChangedIn(p, c, v) ==
  \/ Src(p) = c /\ (sent[p] = v \/ acked[p] = v)
  \/ Dst(p) = c /\ received[p] = v

\* The new version did something.
LEMMA CountedOn ==
  ASSUME IInv, Later, NEW c \in Chains, NewVersion(c), NEW p \in Packets,
         ChangedIn(p, c, ver[c])'
  PROVE  Counted'
<1>. SUFFICES ASSUME NEW d \in Chains, NEW v \in 1 .. ver'[d]
              PROVE  \E q \in Packets : ChangedIn(q, d, v)'
  BY DEF Counted, ChangedIn
<1>0. ver[c] \in Nat /\ ver[d] \in Nat /\ ver'[d] \in Nat
  BY VersionAdded DEF IInv, Typed
<1>1. CASE v \in 1 .. ver[d]
  <2>0. Counted
    BY DEF IInv
  <2>1. PICK q \in Packets : ChangedIn(q, d, v)
    BY <1>1, <2>0 DEF Counted, ChangedIn
  <2>2. v # Never
    BY <1>1 DEF Never
  <2>3. /\ sent[q] = v => sent'[q] = v
        /\ received[q] = v => received'[q] = v
        /\ acked[q] = v => acked'[q] = v
    BY <2>2 DEF Later
  <2>. QED
    BY <2>1, <2>3 DEF ChangedIn
<1>2. CASE v \notin 1 .. ver[d]
  <2>1. d = c /\ v = ver'[c]
    BY <1>0, <1>2, VersionAdded
  <2>. QED
    BY <2>1 DEF ChangedIn
<1>. QED
  BY <1>1, <1>2

\* Clients know what has a header.
LEMMA KnownStays ==
  ASSUME IInv, Typed', Later, UNCHANGED knows
  PROVE  KnowsHeaders'
<1>1. \A d \in Chains : headed[d] \in Int /\ headed'[d] \in Int /\ headed[d] <= headed'[d]
  BY DEF IInv, Typed, Later
<1>2. \A d \in Chains : \A v \in knows[d] : v \in Int /\ Other(d) \in Chains
  BY Chain DEF IInv, Typed
<1>. QED
  BY <1>1, <1>2 DEF IInv, KnowsHeaders

LEMMA SendPacketKeeps ==
  ASSUME IInv, NEW p \in Packets, SendPacket(p)
  PROVE  IInv'
<1>. DEFINE c == Src(p)
<1>0. c \in Chains /\ sent[p] = Never /\ received[p] = Never /\ acked[p] = Never
  BY Packet DEF IInv, InTime, SendPacket
<1>1. /\ NewVersion(c) /\ sent' = [sent EXCEPT ![p] = ver[c] + 1]
      /\ UNCHANGED <<received, acked, knows, queue, commandVars, faults>>
  BY DEF SendPacket
<1>2. /\ ver' \in [Chains -> Nat] /\ headed' \in [Chains -> Nat] /\ ver'[c] = ver[c] + 1
      /\ \A d \in Chains : /\ ver[d] <= ver'[d] /\ headed[d] <= headed'[d]
                           /\ headed'[d] <= ver'[d] /\ ver[d] \in Nat /\ ver'[d] \in Nat
  BY <1>0, <1>1, VersionAdded DEF IInv, Typed
<1>3. /\ sent'[p] = ver'[c] /\ \A q \in Packets : q # p => sent'[q] = sent[q]
      /\ sent' \in [Packets -> Reading]
  <2>1. ver[c] + 1 \in Reading /\ sent \in [Packets -> Reading]
    BY <1>0 DEF IInv, Typed, Reading
  <2>. QED
    BY <1>1, <1>2, <2>1
<1>. HIDE DEF c
<1>4. Typed'
  BY <1>1, <1>2, <1>3 DEF IInv, Typed, commandVars
<1>5. Later
  BY <1>0, <1>1, <1>2, <1>3 DEF Later
<1>6. InTime'
  <2>1. ASSUME NEW q \in Packets
        PROVE  /\ sent'[q] <= ver'[Src(q)] /\ received[q] <= ver'[Dst(q)]
               /\ acked[q] <= ver'[Src(q)]
    <3>1. /\ sent[q] <= ver[Src(q)] /\ received[q] <= ver[Dst(q)] /\ acked[q] <= ver[Src(q)]
          /\ Src(q) \in Chains /\ Dst(q) \in Chains
          /\ sent[q] \in Int /\ received[q] \in Int /\ acked[q] \in Int
      BY Packet DEF IInv, InTime, Typed, Reading, Never
    <3>2. sent'[q] = sent[q] \/ sent'[q] = ver'[Src(q)]
      BY <1>3 DEF c
    <3>. QED
      BY <1>2, <3>1, <3>2
  <2>2. \A q \in Packets : sent'[q] = sent[q] \/ sent'[q] # Never
    BY <1>0, <1>2, <1>3 DEF Never
  <2>. QED
    BY <1>1, <1>2, <2>1, <2>2 DEF IInv, InTime
<1>7. Counted'
  <2>1. ChangedIn(p, c, ver[c])'
    BY <1>1, <1>2, <1>3 DEF ChangedIn, c
  <2>. QED
    BY <1>0, <1>1, <1>5, <2>1, CountedOn
<1>. QED
  BY <1>1, <1>4, <1>5, <1>6, <1>7, KnownStays, ChainsGoOn

LEMMA NewHeaderKeeps ==
  ASSUME IInv, NEW c \in Chains, NewHeader(c)
  PROVE  IInv'
<1>1. PICK v \in headed[c] + 1 .. ver[c] : headed' = [headed EXCEPT ![c] = v]
  BY DEF NewHeader
<1>2. UNCHANGED <<ver, sent, received, acked, knows, queue, commandVars, faults>>
  BY DEF NewHeader
<1>3. headed[c] \in Nat /\ ver[c] \in Nat /\ headed \in [Chains -> Nat] /\ v \in Nat
  BY <1>1 DEF IInv, Typed
<1>4. headed' \in [Chains -> Nat]
  BY <1>1, <1>3
<1>5. \A d \in Chains : /\ headed[d] <= headed'[d] /\ headed'[d] <= ver[d]
                        /\ headed[d] \in Nat /\ ver[d] \in Nat
  BY <1>1, <1>3 DEF IInv, Typed, InTime
<1>6. Typed'
  BY <1>2, <1>4 DEF IInv, Typed, commandVars
<1>7. Later
  BY <1>2, <1>5 DEF Later
<1>8. InTime' /\ Counted'
  BY <1>2, <1>5 DEF IInv, InTime, Counted
<1>. QED
  BY <1>2, <1>6, <1>7, <1>8, KnownStays, ChainsGoOn

\* What a batch of messages does to the chain it is executed on.
Ready(k, p) ==
  /\ ~ Done(k, p)
  /\ k = "relay" => sent[p] # Never
  /\ k = "acks" => received[p] # Never

LEMMA Applied ==
  ASSUME IInv, NEW d \in Chains, NEW k \in Kinds, NEW S \in SUBSET Packets, S # {},
         \A p \in S : Target(k, p) = d /\ Ready(k, p),
         Apply(d, k, S), UNCHANGED sent
  PROVE  /\ ver' \in [Chains -> Nat] /\ headed' \in [Chains -> Nat]
         /\ received' \in [Packets -> Reading] /\ acked' \in [Packets -> Reading]
         /\ Later /\ InTime' /\ Counted'
<1>1. NewVersion(d)
  BY DEF Apply
<1>2. /\ ver' \in [Chains -> Nat] /\ headed' \in [Chains -> Nat] /\ ver'[d] = ver[d] + 1
      /\ \A c \in Chains : /\ ver[c] <= ver'[c] /\ headed[c] <= headed'[c]
                           /\ headed'[c] <= ver'[c] /\ ver[c] \in Nat /\ ver'[c] \in Nat
  BY <1>1, VersionAdded DEF IInv, Typed
<1>3. ver[d] + 1 \in Reading /\ ver[d] + 1 # Never
  BY <1>2 DEF Reading, Never
<1>4. ASSUME NEW p \in Packets
      PROVE  /\ sent[p] \in Int /\ received[p] \in Int /\ acked[p] \in Int
             /\ Src(p) \in Chains /\ Dst(p) \in Chains
             /\ sent[p] <= ver[Src(p)] /\ received[p] <= ver[Dst(p)] /\ acked[p] <= ver[Src(p)]
             /\ received[p] # Never => sent[p] # Never
             /\ acked[p] # Never => received[p] # Never
  BY Packet DEF IInv, InTime, Typed, Reading, Never
<1>5. CASE k = "relay"
  <2>1. /\ received' = [p \in Packets |-> IF p \in S THEN ver[d] + 1 ELSE received[p]]
        /\ acked' = acked
    BY <1>5 DEF Apply
  <2>2. \A p \in S : Dst(p) = d /\ received[p] = Never /\ sent[p] # Never
    BY <1>5 DEF Target, Ready, Done
  <2>3. received' \in [Packets -> Reading] /\ acked' \in [Packets -> Reading]
    <3>1. received \in [Packets -> Reading] /\ acked \in [Packets -> Reading]
      BY DEF IInv, Typed
    <3>. QED
      BY <1>3, <2>1, <3>1
  <2>4. Later
    BY <1>2, <2>1, <2>2 DEF Later
  <2>5. InTime'
    <3>. SUFFICES ASSUME NEW p \in Packets
                  PROVE  /\ sent[p] <= ver'[Src(p)] /\ received'[p] <= ver'[Dst(p)]
                         /\ acked[p] <= ver'[Src(p)]
                         /\ received'[p] # Never => sent[p] # Never
                         /\ acked[p] # Never => received'[p] # Never
      BY <1>2, <2>1 DEF InTime
    <3>1. CASE p \in S
      <4>1. received'[p] = ver[d] + 1 /\ Dst(p) = d /\ acked[p] = Never /\ sent[p] # Never
        BY <1>4, <2>1, <2>2, <3>1
      <4>. QED
        BY <1>2, <1>4, <4>1
    <3>2. CASE p \notin S
      BY <1>2, <1>4, <2>1, <3>2
    <3>. QED
      BY <3>1, <3>2
  <2>6. PICK p \in S : TRUE
    OBVIOUS
  <2>7. ChangedIn(p, d, ver[d])'
    BY <1>2, <2>1, <2>2, <2>6 DEF ChangedIn
  <2>. QED
    BY <1>1, <1>2, <2>3, <2>4, <2>5, <2>6, <2>7, CountedOn
<1>6. CASE k # "relay"
  <2>1. /\ acked' = [p \in Packets |-> IF p \in S THEN ver[d] + 1 ELSE acked[p]]
        /\ received' = received
    BY <1>6 DEF Apply
  <2>2. \A p \in S : Src(p) = d /\ acked[p] = Never /\ received[p] # Never
    BY <1>6 DEF Target, Ready, Done, Kinds
  <2>3. received' \in [Packets -> Reading] /\ acked' \in [Packets -> Reading]
    <3>1. received \in [Packets -> Reading] /\ acked \in [Packets -> Reading]
      BY DEF IInv, Typed
    <3>. QED
      BY <1>3, <2>1, <3>1
  <2>4. Later
    <3>1. \A p \in S : acked'[p] > ver[Src(p)]
      BY <1>2, <2>1, <2>2
    <3>. QED
      BY <1>2, <2>1, <2>2, <3>1 DEF Later
  <2>5. InTime'
    <3>. SUFFICES ASSUME NEW p \in Packets
                  PROVE  /\ sent[p] <= ver'[Src(p)] /\ received[p] <= ver'[Dst(p)]
                         /\ acked'[p] <= ver'[Src(p)]
                         /\ received[p] # Never => sent[p] # Never
                         /\ acked'[p] # Never => received[p] # Never
      BY <1>2, <2>1 DEF InTime
    <3>1. CASE p \in S
      <4>1. acked'[p] = ver[d] + 1 /\ Src(p) = d /\ received[p] # Never
        BY <1>4, <2>1, <2>2, <3>1
      <4>. QED
        BY <1>2, <1>4, <4>1
    <3>2. CASE p \notin S
      BY <1>2, <1>4, <2>1, <3>2
    <3>. QED
      BY <3>1, <3>2
  <2>6. PICK p \in S : TRUE
    OBVIOUS
  <2>7. ChangedIn(p, d, ver[d])'
    BY <1>2, <2>1, <2>2, <2>6 DEF ChangedIn
  <2>. QED
    BY <1>1, <1>2, <2>3, <2>4, <2>5, <2>6, <2>7, CountedOn
<1>. QED
  BY <1>5, <1>6

\* A message that is provable and not done has its predecessor.
LEMMA ProvableReady ==
  ASSUME NEW k \in Kinds, NEW p, NEW v, Provable(k, p, v), ~ Done(k, p)
  PROVE  Ready(k, p)
BY DEF Kinds, Provable, Stored, HasCommitment, HasReceipt, By, Ready

-----------------------------------------------------------------------------
(* The pool of Harmony *)

\* The elements of the queue without its head.
LEMMA Rest ==
  ASSUME Typed, NEW r \in Relayers, queue[r] # <<>>
  PROVE  /\ Head(queue[r]) = queue[r][1] /\ 1 \in DOMAIN queue[r]
         /\ Tail(queue[r]) \in Seq(Posted)
         /\ \A i \in DOMAIN Tail(queue[r]) :
              i \in Nat /\ i > 0 /\ i + 1 \in DOMAIN queue[r] /\ Tail(queue[r])[i] = queue[r][i + 1]
<1>1. queue[r] \in Seq(Posted) /\ Len(queue[r]) \in Nat /\ DOMAIN queue[r] = 1 .. Len(queue[r])
  BY Elements
<1>2. Len(queue[r]) # 0
  BY <1>1, EmptySeq
<1>3. /\ Head(queue[r]) = queue[r][1]
      /\ Tail(queue[r]) \in Seq(Posted) /\ Len(Tail(queue[r])) = Len(queue[r]) - 1
      /\ \A i \in 1 .. Len(Tail(queue[r])) : Tail(queue[r])[i] = queue[r][i + 1]
  BY <1>1, HeadTailProperties
<1>4. DOMAIN Tail(queue[r]) = 1 .. Len(queue[r]) - 1
  BY <1>3, LenProperties
<1>. QED
  BY <1>1, <1>2, <1>3, <1>4

\* A transaction that is as it should be, but for its place.
Fine(m) ==
  /\ m.proof <= headed["cosmos"]
  /\ m.kind # "update" =>
       /\ m.pkt \in Packets /\ Target(m.kind, m.pkt) = "harmony"
       /\ Provable(m.kind, m.pkt, m.proof)

LEMMA FineWaits ==
  ASSUME IInv, Typed', Later, NEW r \in Relayers, NEW i \in DOMAIN queue[r],
         NEW m, m = queue[r][i]
  PROVE  m \in Posted /\ Fine(m)'
<1>1. m.proof <= headed'["cosmos"] /\ (m.kind # "update" => Provable(m.kind, m.pkt, m.proof)')
  BY MessageWaits
<1>2. m \in Posted
  BY Elements DEF IInv
<1>. QED
  BY <1>1, <1>2 DEF Fine, IInv, QueueInv, Pooled, Target

\* A queue is made of its transactions.
LEMMA PoolOf ==
  ASSUME Typed', NEW r \in Relayers,
         \A i \in DOMAIN queue'[r] : \A m \in Posted :
           m = queue'[r][i] => Fine(m)' /\ (m.kind # "update" => Behind(r, i)')
  PROVE  Pooled(r)' /\ QueueProvable(r)'
<1>1. queue'[r] \in Seq(Posted)
  BY DEF Typed
<1>2. \A i \in DOMAIN queue'[r] : queue'[r][i] \in Posted
  BY <1>1, LenProperties
<1>. QED
  BY <1>2 DEF Pooled, QueueProvable, Fine, Target, Provable, Stored, HasCommitment, HasReceipt, By

\* What waits behind the head of the queue is as good without it.
LEMMA PoolShrinks ==
  ASSUME IInv, Typed', Later, knows["harmony"] \subseteq knows'["harmony"], faults' = faults,
         NEW r \in Relayers, queue[r] # <<>>, queue'[r] = Tail(queue[r]),
         queue[r][1].kind = "update" => \E v \in knows'["harmony"] : v >= queue[r][1].proof
  PROVE  Pooled(r)' /\ QueueProvable(r)'
<1>. SUFFICES ASSUME NEW i \in DOMAIN queue'[r], NEW m \in Posted, m = queue'[r][i]
              PROVE  Fine(m)' /\ (m.kind # "update" => Behind(r, i)')
  BY PoolOf
<1>1. /\ i \in Nat /\ i > 0 /\ i + 1 \in DOMAIN queue[r] /\ m = queue[r][i + 1]
      /\ \A j \in DOMAIN queue'[r] : queue'[r][j] = queue[r][j + 1]
      /\ \A j \in 1 .. i - 1 : j \in DOMAIN queue'[r]
  <2>1. \A j \in 1 .. i - 1 : j \in DOMAIN queue'[r]
    BY Elements, HeadTailProperties, LenProperties DEF IInv
  <2>. QED
    BY <2>1, Rest DEF IInv
<1>2. Fine(m)'
  BY <1>1, FineWaits
<1>3. ASSUME m.kind # "update" PROVE Behind(r, i)'
  <2>1. Behind(r, i + 1)
    BY <1>1, <1>3 DEF IInv, QueueInv, Pooled
  <2>2. CASE \E v \in knows["harmony"] : v >= m.proof
    BY <1>1, <2>2 DEF Behind
  <2>3. CASE faults > 0
    BY <2>3 DEF Behind
  <2>4. ASSUME NEW j \in 1 .. i, queue[r][j].kind = "update", queue[r][j].proof = m.proof
        PROVE  Behind(r, i)'
    <3>1. CASE j = 1
      BY <2>4, <3>1 DEF Behind
    <3>2. CASE j # 1
      <4>1. j - 1 \in 1 .. i - 1 /\ (j - 1) + 1 = j
        BY <1>1, <3>2
      <4>2. queue'[r][j - 1] = queue[r][j]
        BY <1>1, <4>1
      <4>. QED
        BY <1>1, <2>4, <4>1, <4>2 DEF Behind
    <3>. QED
      BY <3>1, <3>2
  <2>. QED
    BY <1>1, <2>1, <2>2, <2>3, <2>4 DEF Behind
<1>. QED
  BY <1>2, <1>3

LEMMA ExecuteKeeps ==
  ASSUME IInv, NEW r \in Relayers, Execute(r)
  PROVE  IInv'
<1>. DEFINE m == queue[r][1]
<1>1. /\ queue[r] # <<>> /\ queue' = [queue EXCEPT ![r] = Tail(queue[r])]
      /\ UNCHANGED <<sent, commandVars, faults>> /\ Head(queue[r]) = m
  BY Rest DEF Execute, IInv
<1>2. /\ m \in Posted /\ Fine(m)
  <2>1. 1 \in DOMAIN queue[r] /\ m \in Posted
    BY <1>1, Rest, Elements DEF IInv
  <2>2. m.kind # "update" => Provable(m.kind, m.pkt, m.proof)
    BY <2>1, ProvableParts DEF IInv, QueueProvable
  <2>. QED
    BY <2>1, <2>2 DEF IInv, QueueInv, Pooled, Fine
<1>. HIDE DEF m
<1>3. /\ queue' \in [Relayers -> Seq(Posted)] /\ queue'[r] = Tail(queue[r])
      /\ \A s \in Relayers : s # r => queue'[s] = queue[s]
  BY <1>1, Rest DEF IInv, Typed
<1>4. SUFFICES /\ Typed' /\ Later /\ InTime' /\ KnowsHeaders' /\ Counted'
               /\ knows["harmony"] \subseteq knows'["harmony"] /\ knows'["cosmos"] = knows["cosmos"]
               /\ \A p \in Packets : /\ Dst(p) = "cosmos" => received'[p] = received[p]
                                     /\ Src(p) = "cosmos" => acked'[p] = acked[p]
               /\ m.kind = "update" => \E v \in knows'["harmony"] : v >= m.proof
  <2>0. faults <= faults' /\ faults' = faults
    BY <1>1, RelayAssumption DEF IInv, Typed
  <2>1. ASSUME NEW s \in Relayers
        PROVE  /\ Reads(s)' /\ Holds(s)' /\ BatchProvable(s)' /\ Pooled(s)' /\ QueueProvable(s)'
               /\ ~ rival'[s] => Unrivalled(s)'
    <3>0. UNCHANGED CommandOf(s) /\ rival'[s] = rival[s]
      BY <1>1 DEF CommandOf, commandVars
    <3>1. Reads(s)' /\ Holds(s)' /\ BatchProvable(s)'
      BY <1>4, <3>0, CommandWaits
    <3>2. Pooled(s)' /\ QueueProvable(s)'
      <4>1. CASE s = r
        BY <1>1, <1>3, <1>4, <2>0, <4>1, PoolShrinks DEF m
      <4>2. CASE s # r
        BY <1>3, <1>4, <2>0, <4>2, QueueWaits
      <4>. QED
        BY <4>1, <4>2
    <3>3. ~ rival'[s] => Unrivalled(s)'
      BY <1>4, <3>0, RivalWaits DEF IInv, RivalInv
    <3>. QED
      BY <3>1, <3>2, <3>3
  <2>. QED
    BY <1>4, <2>1, Assembled
<1>5. CASE m.kind = "update"
  <2>1. /\ knows' = IF TakesUpdate("harmony", m.proof)
                    THEN [knows EXCEPT !["harmony"] = knows["harmony"] \union {m.proof}] ELSE knows
        /\ UNCHANGED <<ver, headed, received, acked>>
    BY <1>1, <1>5 DEF Execute
  <2>2. m.proof \in Nat /\ m.proof <= headed["cosmos"] /\ knows \in [Chains -> SUBSET Nat]
    BY <1>2 DEF Posted, Fine, IInv, Typed
  <2>3. /\ knows' \in [Chains -> SUBSET Nat] /\ knows'["cosmos"] = knows["cosmos"]
        /\ knows["harmony"] \subseteq knows'["harmony"]
        /\ knows'["harmony"] \subseteq knows["harmony"] \union {m.proof}
    BY <2>1, <2>2, Chain
  <2>4. \E v \in knows'["harmony"] : v >= m.proof
    <3>0. knows["harmony"] \subseteq Nat /\ knows'["harmony"] \subseteq Nat
      BY <2>2, <2>3, Chain
    <3>1. CASE TakesUpdate("harmony", m.proof)
      <4>1. m.proof \in knows'["harmony"] /\ m.proof >= m.proof
        BY <2>1, <2>2, <3>1, Chain
      <4>. QED
        BY <4>1
    <3>2. CASE ~ TakesUpdate("harmony", m.proof)
      BY <2>2, <2>3, <3>0, <3>2 DEF TakesUpdate
    <3>. QED
      BY <3>1, <3>2
  <2>5. Typed'
    BY <1>1, <1>3, <2>1, <2>3 DEF IInv, Typed, commandVars
  <2>6. Later
    BY <1>1, <2>1 DEF IInv, Typed, Later
  <2>7. InTime' /\ Counted'
    BY <1>1, <2>1 DEF IInv, InTime, Counted
  <2>8. KnowsHeaders'
    <3>1. \A v \in knows["harmony"] \union {m.proof} : v <= headed["cosmos"]
      BY <2>2, Chain DEF IInv, KnowsHeaders, Other
    <3>2. \A v \in knows["cosmos"] : v <= headed["harmony"]
      BY Chain DEF IInv, KnowsHeaders, Other
    <3>. QED
      BY <2>1, <2>3, <3>1, <3>2 DEF KnowsHeaders, Chains, Other
  <2>. QED
    BY <1>4, <2>1, <2>3, <2>4, <2>5, <2>6, <2>7, <2>8
<1>6. CASE m.kind # "update"
  <2>1. /\ m.kind \in Kinds /\ m.pkt \in Packets /\ Target(m.kind, m.pkt) = "harmony"
        /\ UNCHANGED knows
    BY <1>1, <1>2, <1>6 DEF Execute, Posted, Fine
  <2>2. CASE m.proof \in knows["harmony"] /\ TakesPacket("harmony", m.kind, m.pkt, m.proof)
    <3>1. Apply("harmony", m.kind, {m.pkt})
      BY <1>1, <1>6, <2>2 DEF Execute
    <3>2. Ready(m.kind, m.pkt)
      BY <2>1, <2>2, ProvableReady DEF TakesPacket
    <3>3. /\ ver' \in [Chains -> Nat] /\ headed' \in [Chains -> Nat]
          /\ received' \in [Packets -> Reading] /\ acked' \in [Packets -> Reading]
          /\ Later /\ InTime' /\ Counted'
      <4>1. {m.pkt} \in SUBSET Packets /\ {m.pkt} # {} /\ UNCHANGED sent
            /\ \A p \in {m.pkt} : Target(m.kind, p) = "harmony" /\ Ready(m.kind, p)
        BY <1>1, <2>1, <3>2
      <4>. DEFINE k == m.kind
                  S == {m.pkt}
      <4>. HIDE DEF k, S
      <4>2. k \in Kinds /\ S \in SUBSET Packets /\ S # {} /\ Apply("harmony", k, S)
            /\ \A p \in S : Target(k, p) = "harmony" /\ Ready(k, p)
        BY <2>1, <3>1, <4>1 DEF k, S
      <4>3. ASSUME NEW d \in Chains, d = "harmony"
            PROVE  /\ ver' \in [Chains -> Nat] /\ headed' \in [Chains -> Nat]
                   /\ received' \in [Packets -> Reading] /\ acked' \in [Packets -> Reading]
                   /\ Later /\ InTime' /\ Counted'
        BY <4>1, <4>2, <4>3, Applied
      <4>. QED
        BY <4>3, Chain
    <3>4. Typed'
      BY <1>1, <1>3, <2>1, <3>3 DEF IInv, Typed, commandVars
    <3>5. \A p \in Packets : /\ Dst(p) = "cosmos" => received'[p] = received[p]
                             /\ Src(p) = "cosmos" => acked'[p] = acked[p]
      BY <2>1, <3>1 DEF Apply, Target
    <3>. QED
      BY <1>4, <1>6, <2>1, <3>3, <3>4, <3>5, KnownStays
  <2>3. CASE ~ (m.proof \in knows["harmony"] /\ TakesPacket("harmony", m.kind, m.pkt, m.proof))
    <3>1. UNCHANGED chainVars
      BY <1>1, <1>6, <2>1, <2>3 DEF Execute, chainVars
    <3>2. Typed'
      BY <1>1, <1>3, <3>1 DEF IInv, Typed, commandVars, chainVars
    <3>. QED
      BY <1>4, <1>6, <3>1, <3>2, ChainsWait DEF chainVars
  <2>. QED
    BY <2>2, <2>3
<1>. QED
  BY <1>5, <1>6

LEMMA LoseKeeps ==
  ASSUME IInv, NEW r \in Relayers, Lose(r)
  PROVE  IInv'
<1>1. /\ faults < MaxFaults /\ queue' = [queue EXCEPT ![r] = <<>>] /\ faults' = faults + 1
      /\ UNCHANGED chainVars /\ UNCHANGED commandVars
  BY DEF Lose
<1>2. faults \in Nat /\ faults' \in 0 .. MaxFaults /\ faults <= faults'
  BY <1>1, RelayAssumption DEF IInv, Typed
<1>3. /\ queue' \in [Relayers -> Seq(Posted)] /\ queue'[r] = <<>>
      /\ \A s \in Relayers : s # r => queue'[s] = queue[s]
  BY <1>1, EmptySeq DEF IInv, Typed
<1>4. Typed'
  BY <1>1, <1>2, <1>3 DEF IInv, Typed, chainVars, commandVars
<1>5. Later /\ InTime' /\ KnowsHeaders' /\ Counted'
  BY <1>1, ChainsWait
<1>6. ASSUME NEW s \in Relayers
      PROVE  /\ Reads(s)' /\ Holds(s)' /\ BatchProvable(s)' /\ Pooled(s)' /\ QueueProvable(s)'
             /\ ~ rival'[s] => Unrivalled(s)'
  <2>0. UNCHANGED CommandOf(s) /\ rival'[s] = rival[s]
    BY <1>1 DEF CommandOf, commandVars
  <2>1. Reads(s)' /\ Holds(s)' /\ BatchProvable(s)'
    BY <1>4, <1>5, <2>0, CommandWaits
  <2>2. Pooled(s)' /\ QueueProvable(s)'
    <3>1. CASE s = r
      <4>1. DOMAIN queue'[r] = {}
        BY <1>3
      <4>. QED
        BY <1>4, <3>1, <4>1, PoolOf
    <3>2. CASE s # r
      BY <1>1, <1>2, <1>3, <1>4, <1>5, <3>2, QueueWaits DEF chainVars
    <3>. QED
      BY <3>1, <3>2
  <2>3. ~ rival'[s] => Unrivalled(s)'
    BY <1>1, <2>0, RivalWaits DEF IInv, RivalInv, chainVars
  <2>. QED
    BY <2>1, <2>2, <2>3
<1>. QED
  BY <1>4, <1>5, <1>6, Assembled

-----------------------------------------------------------------------------
(* Commands *)

\* A step of relayer r that changes nothing but what it has read and holds.
LEMMA CommandGoesOn ==
  ASSUME IInv, Typed', UNCHANGED chainVars, UNCHANGED queue, faults <= faults',
         NEW r \in Relayers,
         \A s \in Relayers \ {r} : UNCHANGED CommandOf(s) /\ rival'[s] = rival[s],
         Reads(r)', Holds(r)', BatchProvable(r)', ~ rival'[r] => Unrivalled(r)'
  PROVE  IInv'
<1>1. Later /\ InTime' /\ KnowsHeaders' /\ Counted'
  BY ChainsWait
<1>2. ASSUME NEW s \in Relayers
      PROVE  /\ Reads(s)' /\ Holds(s)' /\ BatchProvable(s)' /\ Pooled(s)' /\ QueueProvable(s)'
             /\ ~ rival'[s] => Unrivalled(s)'
  <2>1. Pooled(s)' /\ QueueProvable(s)'
    BY <1>1, QueueWaits DEF chainVars
  <2>2. CASE s # r
    BY <1>1, <2>1, <2>2, CommandWaits, RivalWaits DEF IInv, RivalInv, chainVars
  <2>. QED
    BY <2>1, <2>2
<1>. QED
  BY <1>1, <1>2, Assembled

\* The readings of one of the chains.
LEMMA Updated ==
  ASSUME IInv, NEW r \in Relayers, NEW c \in Chains, UpdateLightWithHeader(r, c)
  PROVE  /\ header' \in [Relayers -> [Chains -> Reading]]
         /\ query' \in [Relayers -> [Chains -> Reading]]
         /\ proof' \in [Relayers -> [Chains -> Reading]]
         /\ header'[r][c] = headed[c] /\ proof'[r][c] = headed[c]
         /\ query'[r][c] \in {ver[c], headed[c]}
         /\ \A d \in Chains : d # c => /\ header'[r][d] = header[r][d]
                                       /\ query'[r][d] = query[r][d]
                                       /\ proof'[r][d] = proof[r][d]
         /\ \A s \in Relayers : s # r => /\ header'[s] = header[s] /\ query'[s] = query[s]
                                         /\ proof'[s] = proof[s]
         /\ c = "cosmos" => query'[r][c] = ver[c]
<1>1. /\ header' = [header EXCEPT ![r] = [header[r] EXCEPT ![c] = headed[c]]]
      /\ query' = [query EXCEPT ![r] = [query[r] EXCEPT ![c] = QueryableVersion(c)]]
      /\ proof' = [proof EXCEPT ![r] = [proof[r] EXCEPT ![c] = headed[c]]]
  BY DEF UpdateLightWithHeader, ProvableVersion
<1>2. /\ headed[c] \in Reading /\ QueryableVersion(c) \in Reading
      /\ QueryableVersion(c) \in {ver[c], headed[c]}
      /\ c = "cosmos" => QueryableVersion(c) = ver[c]
  BY DEF IInv, Typed, Reading, QueryableVersion
<1>. HIDE DEF QueryableVersion
<1>3. /\ header \in [Relayers -> [Chains -> Reading]]
      /\ query \in [Relayers -> [Chains -> Reading]]
      /\ proof \in [Relayers -> [Chains -> Reading]]
  BY DEF IInv, Typed
<1>4. /\ [header[r] EXCEPT ![c] = headed[c]] \in [Chains -> Reading]
      /\ [query[r] EXCEPT ![c] = QueryableVersion(c)] \in [Chains -> Reading]
      /\ [proof[r] EXCEPT ![c] = headed[c]] \in [Chains -> Reading]
  BY <1>2, <1>3
<1>5. /\ header'[r] = [header[r] EXCEPT ![c] = headed[c]]
      /\ query'[r] = [query[r] EXCEPT ![c] = QueryableVersion(c)]
      /\ proof'[r] = [proof[r] EXCEPT ![c] = headed[c]]
      /\ \A s \in Relayers : s # r => /\ header'[s] = header[s] /\ query'[s] = query[s]
                                      /\ proof'[s] = proof[s]
  BY <1>1, <1>3
<1>6. /\ header[r] \in [Chains -> Reading] /\ query[r] \in [Chains -> Reading]
      /\ proof[r] \in [Chains -> Reading]
  BY <1>3
<1>7. /\ header' \in [Relayers -> [Chains -> Reading]]
      /\ query' \in [Relayers -> [Chains -> Reading]]
      /\ proof' \in [Relayers -> [Chains -> Reading]]
  BY <1>1, <1>3, <1>4
<1>. QED
  BY <1>2, <1>5, <1>6, <1>7

\* A reading of a chain that is up to date is not behind its packets, nor the client.
LEMMA ReadNow ==
  ASSUME IInv
  PROVE  /\ \A v \in knows["cosmos"] : v <= headed["harmony"]
         /\ \A p \in Packets : /\ Dst(p) = "cosmos" => received[p] <= ver["cosmos"]
                               /\ Src(p) = "cosmos" => acked[p] <= ver["cosmos"]
BY Chain DEF IInv, KnowsHeaders, InTime, Other

LEMMA BeginKeeps ==
  ASSUME IInv, NEW r \in Relayers, Begin(r)
  PROVE  IInv'
<1>1. /\ pc[r] = "idle" /\ UpdateLightWithHeader(r, PathSrc) /\ pc' = [pc EXCEPT ![r] = "sync"]
      /\ UNCHANGED <<chainVars, queue, kind, batch, rival, faults>>
  BY DEF Begin, UpdateLightWithHeader
<1>2. pc' \in [Relayers -> {"idle", "sync", "collect", "toSrc", "toDst"}]
      /\ pc'[r] = "sync" /\ \A s \in Relayers : s # r => pc'[s] = pc[s]
  BY <1>1 DEF IInv, Typed
<1>3. /\ header' \in [Relayers -> [Chains -> Reading]]
      /\ query' \in [Relayers -> [Chains -> Reading]]
      /\ proof' \in [Relayers -> [Chains -> Reading]]
      /\ header'[r][PathSrc] = headed[PathSrc] /\ proof'[r][PathSrc] = headed[PathSrc]
      /\ query'[r][PathSrc] \in {ver[PathSrc], headed[PathSrc]}
      /\ \A d \in Chains : d # PathSrc => /\ header'[r][d] = header[r][d]
                                          /\ query'[r][d] = query[r][d]
                                          /\ proof'[r][d] = proof[r][d]
      /\ \A s \in Relayers : s # r => /\ header'[s] = header[s] /\ query'[s] = query[s]
                                      /\ proof'[s] = proof[s]
      /\ PathSrc = "cosmos" => query'[r][PathSrc] = ver[PathSrc]
  BY <1>1, Chain, Updated
<1>4. Typed'
  BY <1>1, <1>2, <1>3 DEF IInv, Typed, chainVars
<1>5. Reads(r) /\ Holds(r)
  BY DEF IInv, ReadInv, BatchInv
<1>6. \A d \in Chains : /\ headed'[d] = headed[d] /\ ver'[d] = ver[d]
                        /\ headed[d] \in Nat /\ ver[d] \in Nat /\ headed[d] <= ver[d]
                        /\ Never <= headed[d] /\ Never <= ver[d]
                        /\ headed[d] # Never /\ ver[d] # Never
  BY <1>1 DEF IInv, Typed, InTime, chainVars, Never
<1>7. \A d \in Chains : d # PathSrc => /\ header'[r][d] = Never /\ query'[r][d] = Never
                                       /\ proof'[r][d] = Never
  BY <1>1, <1>3, <1>5 DEF Reads
<1>8. Reads(r)'
  BY <1>2, <1>3, <1>6, <1>7 DEF Reads
<1>9. \A d \in Chains : batch'[r][d] = <<>> /\ DOMAIN batch'[r][d] = {}
  BY <1>1, <1>5 DEF Holds
<1>10. Holds(r)'
  BY <1>2, <1>9 DEF Holds
<1>11. BatchProvable(r)'
  BY <1>9 DEF BatchProvable
<1>12. Unrivalled(r)'
  <2>1. Newest(r)'
    BY <1>1, <1>3, <1>7, Chain, ReadNow DEF Newest, chainVars
  <2>2. query'[r]["cosmos"] # Never => query'[r]["cosmos"] = ver["cosmos"]
    BY <1>3, <1>7, Chain
  <2>3. /\ \A p \in Packets : /\ Dst(p) = "cosmos" => received'[p] <= ver["cosmos"]
                              /\ Src(p) = "cosmos" => acked'[p] <= ver["cosmos"]
    BY <1>1, ReadNow DEF chainVars
  <2>. QED
    BY <1>9, <2>1, <2>2, <2>3, Chain DEF Unrivalled
<1>13. /\ \A s \in Relayers \ {r} : UNCHANGED CommandOf(s) /\ rival'[s] = rival[s]
       /\ faults <= faults' /\ UNCHANGED chainVars /\ UNCHANGED queue
  BY <1>1, <1>2, <1>3, RelayAssumption DEF CommandOf, IInv, Typed
<1>. QED
  BY <1>4, <1>8, <1>10, <1>11, <1>12, <1>13, CommandGoesOn

LEMMA SyncKeeps ==
  ASSUME IInv, NEW r \in Relayers, Sync(r)
  PROVE  IInv'
<1>. DEFINE c == Other(PathSrc)
<1>0. c \in Chains /\ \A d \in Chains : d # c => d = PathSrc
  BY Chain
<1>. HIDE DEF c
<1>1. /\ pc[r] = "sync" /\ UpdateLightWithHeader(r, c) /\ pc' = [pc EXCEPT ![r] = "collect"]
      /\ UNCHANGED <<chainVars, queue, kind, batch, rival, faults>>
  BY DEF Sync, UpdateLightWithHeader, c
<1>2. pc' \in [Relayers -> {"idle", "sync", "collect", "toSrc", "toDst"}]
      /\ pc'[r] = "collect" /\ \A s \in Relayers : s # r => pc'[s] = pc[s]
  BY <1>1 DEF IInv, Typed
<1>3. /\ header' \in [Relayers -> [Chains -> Reading]]
      /\ query' \in [Relayers -> [Chains -> Reading]]
      /\ proof' \in [Relayers -> [Chains -> Reading]]
      /\ header'[r][c] = headed[c] /\ proof'[r][c] = headed[c]
      /\ query'[r][c] \in {ver[c], headed[c]}
      /\ \A d \in Chains : d # c => /\ header'[r][d] = header[r][d]
                                    /\ query'[r][d] = query[r][d]
                                    /\ proof'[r][d] = proof[r][d]
      /\ \A s \in Relayers : s # r => /\ header'[s] = header[s] /\ query'[s] = query[s]
                                      /\ proof'[s] = proof[s]
      /\ c = "cosmos" => query'[r][c] = ver[c]
  BY <1>0, <1>1, Updated
<1>4. Typed'
  BY <1>1, <1>2, <1>3 DEF IInv, Typed, chainVars
<1>5. Reads(r) /\ Holds(r)
  BY DEF IInv, ReadInv, BatchInv
<1>6. \A d \in Chains : /\ headed'[d] = headed[d] /\ ver'[d] = ver[d]
                        /\ headed[d] \in Nat /\ ver[d] \in Nat /\ headed[d] <= ver[d]
                        /\ headed[d] # Never /\ ver[d] # Never
  BY <1>1 DEF IInv, Typed, InTime, chainVars, Never
<1>7. \A d \in Chains : d # c =>
        /\ header'[r][d] # Never /\ query'[r][d] # Never /\ proof'[r][d] = header'[r][d]
        /\ header'[r][d] <= headed[d] /\ query'[r][d] <= ver[d]
  BY <1>0, <1>1, <1>3, <1>5 DEF Reads
<1>8. Reads(r)'
  BY <1>2, <1>3, <1>6, <1>7 DEF Reads
<1>9. \A d \in Chains : batch'[r][d] = <<>> /\ batch[r][d] = <<>> /\ DOMAIN batch'[r][d] = {}
  BY <1>1, <1>5 DEF Holds
<1>10. Holds(r)'
  BY <1>2, <1>9 DEF Holds
<1>11. BatchProvable(r)'
  BY <1>9 DEF BatchProvable
<1>12. ASSUME ~ rival'[r] PROVE Unrivalled(r)'
  <2>0. Unrivalled(r)
    BY <1>1, <1>12 DEF IInv, RivalInv
  <2>1. Newest(r)'
    <3>1. CASE c = "harmony"
      BY <1>1, <1>3, <3>1, ReadNow DEF Newest, chainVars
    <3>2. CASE c # "harmony"
      <4>1. header'[r]["harmony"] = header[r]["harmony"] /\ knows' = knows
        BY <1>1, <1>3, <3>2, Chain DEF chainVars
      <4>. QED
        BY <1>1, <1>2, <2>0, <4>1 DEF Unrivalled, Newest
    <3>. QED
      BY <3>1, <3>2
  <2>2. \A p \in Packets : /\ Dst(p) = "cosmos" => received'[p] <= query'[r]["cosmos"]
                           /\ Src(p) = "cosmos" => acked'[p] <= query'[r]["cosmos"]
    <3>1. CASE c = "cosmos"
      BY <1>1, <1>3, <3>1, ReadNow DEF chainVars
    <3>2. CASE c # "cosmos"
      <4>1. query'[r]["cosmos"] = query[r]["cosmos"] /\ query'[r]["cosmos"] # Never
        BY <1>3, <1>7, <3>2, Chain
      <4>. QED
        BY <1>1, <2>0, <4>1 DEF Unrivalled, chainVars
    <3>. QED
      BY <3>1, <3>2
  <2>. QED
    BY <1>9, <2>1, <2>2, Chain DEF Unrivalled
<1>13. /\ \A s \in Relayers \ {r} : UNCHANGED CommandOf(s) /\ rival'[s] = rival[s]
       /\ faults <= faults' /\ UNCHANGED chainVars /\ UNCHANGED queue
  BY <1>1, <1>2, <1>3, RelayAssumption DEF CommandOf, IInv, Typed
<1>. QED
  BY <1>4, <1>8, <1>10, <1>11, <1>12, <1>13, CommandGoesOn

\* The end of a command.
LEMMA OverDone ==
  ASSUME IInv, NEW r \in Relayers, Over(r)
  PROVE  /\ pc' \in [Relayers -> {"idle", "sync", "collect", "toSrc", "toDst"}]
         /\ kind' \in [Relayers -> Kinds]
         /\ header' \in [Relayers -> [Chains -> Reading]]
         /\ query' \in [Relayers -> [Chains -> Reading]]
         /\ proof' \in [Relayers -> [Chains -> Reading]]
         /\ pc'[r] = "idle" /\ query'[r] = Unread /\ header'[r] = Unread /\ proof'[r] = Unread
         /\ \A s \in Relayers \ {r} :
              /\ pc'[s] = pc[s] /\ kind'[s] = kind[s] /\ query'[s] = query[s]
              /\ header'[s] = header[s] /\ proof'[s] = proof[s]
<1>1. Unread \in [Chains -> Reading]
  BY DEF Unread, Reading
<1>2. kind[r] \in Kinds /\ "relay" \in Kinds /\ "acks" \in Kinds
  BY DEF IInv, Typed, Kinds
<1>3. /\ pc' \in [Relayers -> {"idle", "sync", "collect", "toSrc", "toDst"}]
      /\ pc'[r] = "idle" /\ \A s \in Relayers \ {r} : pc'[s] = pc[s]
  BY DEF IInv, Typed, Over
<1>4. kind' \in [Relayers -> Kinds] /\ \A s \in Relayers \ {r} : kind'[s] = kind[s]
  BY <1>2 DEF IInv, Typed, Over
<1>5. /\ header' \in [Relayers -> [Chains -> Reading]]
      /\ query' \in [Relayers -> [Chains -> Reading]]
      /\ proof' \in [Relayers -> [Chains -> Reading]]
      /\ query'[r] = Unread /\ header'[r] = Unread /\ proof'[r] = Unread
      /\ \A s \in Relayers \ {r} : /\ query'[s] = query[s] /\ header'[s] = header[s]
                                   /\ proof'[s] = proof[s]
  BY <1>1 DEF IInv, Typed, Over
<1>. QED
  BY <1>3, <1>4, <1>5

\* A command that ends, whatever it had in hand.
LEMMA EndKeeps ==
  ASSUME IInv, NEW r \in Relayers, Over(r), rival' = [rival EXCEPT ![r] = FALSE],
         batch' = [batch EXCEPT ![r] = [c \in Chains |-> <<>>]],
         UNCHANGED <<chainVars, queue>>, faults' \in 0 .. MaxFaults, faults <= faults'
  PROVE  IInv'
<1>1. /\ batch' \in [Relayers -> [Chains -> Seq(Packets)]]
      /\ batch'[r] = [c \in Chains |-> <<>>]
      /\ \A s \in Relayers \ {r} : batch'[s] = batch[s]
  <2>0. batch \in [Relayers -> [Chains -> Seq(Packets)]]
    BY DEF IInv, Typed
  <2>1. [c \in Chains |-> <<>>] \in [Chains -> Seq(Packets)]
    BY EmptySeq
  <2>. QED
    BY <2>0, <2>1
<1>2. Typed'
  <2>1. rival' \in [Relayers -> BOOLEAN]
    BY DEF IInv, Typed
  <2>. QED
    BY <1>1, <2>1, OverDone DEF IInv, Typed, chainVars
<1>3. Reads(r)' /\ Holds(r)' /\ Unrivalled(r)' /\ BatchProvable(r)'
  BY <1>1, <1>2, OverDone, Ended
<1>4. \A s \in Relayers \ {r} : UNCHANGED CommandOf(s) /\ rival'[s] = rival[s]
  BY <1>1, OverDone DEF CommandOf, IInv, Typed
<1>. QED
  BY <1>2, <1>3, <1>4, CommandGoesOn

LEMMA FailKeeps ==
  ASSUME IInv, NEW r \in Relayers, Fail(r)
  PROVE  IInv'
<1>1. faults' \in 0 .. MaxFaults /\ faults <= faults'
  BY RelayAssumption DEF Fail, IInv, Typed
<1>. QED
  BY <1>1, EndKeeps DEF Fail

\* What a command has to relay from a chain.
LEMMA UnrelayedPackets ==
  ASSUME IInv, NEW r \in Relayers, NEW c \in Chains
  PROVE  /\ Unrelayed(r, c) \in SUBSET Packets
         /\ \A p \in Unrelayed(r, c) : Target(kind[r], p) = Other(c)
         /\ \E o : \A p \in Unrelayed(r, c) : Src(p) = o
<1>0. \A p \in Packets : Other(Src(p)) = Dst(p) /\ Other(Dst(p)) = Src(p)
  BY Packet, Chain DEF Dst
<1>1. c = "harmony" \/ c = "cosmos"
  BY DEF Chains
<1>2. CASE kind[r] = "relay"
  <2>1. \A p \in Unrelayed(r, c) : p \in Packets /\ Src(p) = c
    BY <1>1, <1>2 DEF Unrelayed, QueryUnrecievedPackets, GetAllPackets, QueryPacketCommitments
  <2>. QED
    BY <1>0, <1>2, <2>1 DEF Target
<1>3. CASE kind[r] # "relay"
  <2>1. \A p \in Unrelayed(r, c) : p \in Packets /\ Dst(p) = c
    BY <1>1, <1>3 DEF Unrelayed, QueryUnrecievedAcknowledgements, GetAllAcknowledgements,
                      QueryPacketAcknowledgementCommitments
  <2>. QED
    BY <1>0, <1>3, <2>1 DEF Target
<1>. QED
  BY <1>2, <1>3

\* What a command finds to relay to Cosmos was not done there when it looked.
LEMMA UnrelayedNotDone ==
  ASSUME IInv, NEW r \in Relayers, Unrivalled(r), query[r]["cosmos"] # Never,
         NEW p \in Unrelayed(r, "harmony")
  PROVE  ~ Done(kind[r], p)
<1>1. p \in Packets /\ Target(kind[r], p) = "cosmos"
  BY UnrelayedPackets, Chain DEF Other
<1>2. CASE kind[r] = "relay"
  <2>1. ~ HasReceipt(p, query[r]["cosmos"])
    BY <1>2 DEF Unrelayed, QueryUnrecievedPackets, Other
  <2>2. received[p] <= query[r]["cosmos"]
    BY <1>1, <1>2 DEF Unrivalled, Target
  <2>. QED
    BY <1>2, <2>1, <2>2 DEF HasReceipt, By, Done
<1>3. CASE kind[r] # "relay"
  <2>1. HasCommitment(p, query[r]["cosmos"])
    BY <1>3 DEF Unrelayed, QueryUnrecievedAcknowledgements, Other
  <2>2. acked[p] <= query[r]["cosmos"]
    BY <1>1, <1>3 DEF Unrivalled, Target
  <2>. QED
    BY <1>3, <2>1, <2>2 DEF HasCommitment, By, Done
<1>. QED
  BY <1>2, <1>3

LEMMA CollectKeeps ==
  ASSUME IInv, NEW r \in Relayers, Collect(r)
  PROVE  IInv'
<1>. DEFINE todo == [d \in Chains |-> Unrelayed(r, Other(d))]
            b == [d \in Chains |-> BySequence(todo[d])]
<1>0. /\ pc[r] = "collect" /\ UNCHANGED <<chainVars, queue, faults>>
      /\ faults' \in 0 .. MaxFaults /\ faults <= faults'
  BY RelayAssumption DEF Collect, IInv, Typed
<1>1. CASE AllFound(r) /\ \E d \in Chains : todo[d] # {}
  <2>1. /\ batch' = [batch EXCEPT ![r] = b]
        /\ pc' = [pc EXCEPT ![r] = IF todo[PathSrc] # {} THEN "toSrc" ELSE "toDst"]
        /\ query' = [query EXCEPT ![r] = Unread]
        /\ UNCHANGED <<kind, header, proof, rival>>
    BY <1>1 DEF Collect
  <2>2. \A d \in Chains :
          /\ todo[d] \in SUBSET Packets /\ todo[d] = Unrelayed(r, Other(d))
          /\ \A p \in todo[d] : Target(kind[r], p) = d
          /\ b[d] \in Seq(Packets) /\ (b[d] = <<>> <=> todo[d] = {})
          /\ \A i \in DOMAIN b[d] : b[d][i] \in todo[d]
    <3>. TAKE d \in Chains
    <3>1. todo[d] = Unrelayed(r, Other(d)) /\ Other(d) \in Chains /\ Other(Other(d)) = d
      BY Chain
    <3>. DEFINE S == todo[d]
    <3>2. S \in SUBSET Packets /\ \A p \in S : Target(kind[r], p) = d
      BY <3>1, UnrelayedPackets
    <3>3. PICK o : \A p \in S : Src(p) = o
      BY <3>1, UnrelayedPackets
    <3>. HIDE DEF S
    <3>4. S \in SUBSET {p \in Packets : Src(p) = o}
      BY <3>2, <3>3
    <3>5. /\ BySequence(S) \in Seq(Packets) /\ (BySequence(S) = <<>> <=> S = {})
          /\ \A i \in DOMAIN BySequence(S) : BySequence(S)[i] \in S
      BY <3>4, BySequenceProperties
    <3>6. b[d] = BySequence(S) /\ S = todo[d]
      BY DEF S
    <3>. HIDE DEF b, todo
    <3>. QED
      BY <3>1, <3>2, <3>5, <3>6
  <2>3. AllFound(r) /\ \E d \in Chains : todo[d] # {}
    BY <1>1
  <2>. HIDE DEF todo, b
  <2>4. /\ batch'[r] = b /\ b \in [Chains -> Seq(Packets)]
        /\ batch' \in [Relayers -> [Chains -> Seq(Packets)]]
        /\ \A s \in Relayers \ {r} : batch'[s] = batch[s]
    <3>1. b \in [Chains -> Seq(Packets)]
      BY <2>2 DEF b
    <3>. QED
      BY <2>1, <3>1 DEF IInv, Typed
  <2>5. /\ pc' \in [Relayers -> {"idle", "sync", "collect", "toSrc", "toDst"}]
        /\ pc'[r] = (IF todo[PathSrc] # {} THEN "toSrc" ELSE "toDst")
        /\ \A s \in Relayers \ {r} : pc'[s] = pc[s]
    BY <2>1 DEF IInv, Typed
  <2>6. /\ query' \in [Relayers -> [Chains -> Reading]] /\ query'[r] = Unread
        /\ \A s \in Relayers \ {r} : query'[s] = query[s]
    <3>1. Unread \in [Chains -> Reading]
      BY DEF Unread, Reading
    <3>. QED
      BY <2>1, <3>1 DEF IInv, Typed
  <2>7. Typed'
    BY <1>0, <2>1, <2>4, <2>5, <2>6 DEF IInv, Typed, chainVars
  <2>8. Reads(r)'
    <3>1. Reads(r) /\ \A c \in Chains : /\ query'[r][c] = Never /\ Never <= ver[c]
                                        /\ ver'[c] = ver[c] /\ headed'[c] = headed[c]
      BY <1>0, <2>6 DEF IInv, ReadInv, Typed, Unread, Never, chainVars
    <3>. QED
      BY <1>0, <2>1, <2>5, <3>1 DEF Reads
  <2>9. Holds(r)'
    <3>1. \A d \in Chains : \A i \in DOMAIN batch'[r][d] : Target(kind'[r], batch'[r][d][i]) = d
      BY <2>1, <2>2, <2>4 DEF Target
    <3>2. \A d \in Chains : batch'[r][d] = <<>> <=> todo[d] = {}
      BY <2>2, <2>4
    <3>3. todo[PathSrc] = {} => \A d \in Chains : todo[d] = {} <=> d = PathSrc
      BY <2>3, Chain
    <3>. QED
      BY <2>5, <3>1, <3>2, <3>3, Chain DEF Holds, Target
  <2>10. BatchProvable(r)'
    <3>. SUFFICES ASSUME NEW d \in Chains, NEW i \in DOMAIN b[d]
                  PROVE  /\ Provable(kind[r], b[d][i], proof[r][Other(d)])
                         /\ proof[r][Other(d)] = header[r][Other(d)]
      BY <1>0, <2>1, <2>4
         DEF BatchProvable, Provable, Stored, HasCommitment, HasReceipt, By, chainVars
    <3>1. Other(d) \in Chains /\ b[d][i] \in Unrelayed(r, Other(d))
      BY <2>2, Chain
    <3>2. Provable(kind[r], b[d][i], proof[r][Other(d)])
      BY <2>3, <3>1 DEF AllFound, ValueFound, Provable
    <3>. QED
      BY <3>1, <3>2 DEF IInv, ReadInv, Reads
  <2>11. ASSUME ~ rival'[r] PROVE Unrivalled(r)'
    <3>1. Unrivalled(r) /\ query[r]["cosmos"] # Never
      BY <1>0, <2>1, <2>11, Chain DEF IInv, RivalInv, ReadInv, Reads
    <3>2. Newest(r)'
      BY <1>0, <2>1, <3>1 DEF Unrivalled, Newest, chainVars
    <3>3. \A i \in DOMAIN batch'[r]["cosmos"] : ~ Done(kind[r], batch'[r]["cosmos"][i])
      BY <2>2, <2>4, <3>1, UnrelayedNotDone, Chain DEF Other
    <3>4. query'[r]["cosmos"] = Never
      BY <2>6, Chain DEF Unread
    <3>. QED
      BY <1>0, <2>1, <3>2, <3>3, <3>4 DEF Unrivalled, Done, chainVars
  <2>12. \A s \in Relayers \ {r} : UNCHANGED CommandOf(s) /\ rival'[s] = rival[s]
    BY <2>1, <2>4, <2>5, <2>6 DEF CommandOf
  <2>. QED
    BY <1>0, <2>7, <2>8, <2>9, <2>10, <2>11, <2>12, CommandGoesOn
<1>2. CASE ~ (AllFound(r) /\ \E d \in Chains : todo[d] # {})
  <2>1. Over(r) /\ rival' = [rival EXCEPT ![r] = FALSE] /\ UNCHANGED batch
    BY <1>2 DEF Collect
  <2>2. batch' = [batch EXCEPT ![r] = [c \in Chains |-> <<>>]]
    <3>1. batch[r] \in [Chains -> Seq(Packets)] /\ Holds(r)
          /\ batch \in [Relayers -> [Chains -> Seq(Packets)]]
      BY DEF IInv, BatchInv, Typed
    <3>2. batch[r] = [c \in Chains |-> <<>>]
      BY <1>0, <3>1 DEF Holds
    <3>. QED
      BY <2>1, <3>1, <3>2
  <2>. QED
    BY <1>0, <2>1, <2>2, EndKeeps
<1>. QED
  BY <1>1, <1>2

\* The messages to d have been sent: the command is over, or goes on to the other chain.
GoesOn(r, d) ==
  /\ d = PathSrc /\ pc[r] = "toSrc" /\ pc'[r] = "toDst"
  /\ kind'[r] = kind[r] /\ query'[r] = query[r]
  /\ header'[r] = header[r] /\ proof'[r] = proof[r]
  /\ batch'[r][d] = <<>>
  /\ batch'[r][Other(d)] = batch[r][Other(d)] /\ batch[r][Other(d)] # <<>>

LEMMA SentDone ==
  ASSUME IInv, NEW r \in Relayers, NEW d \in Chains, Submitting(r, d), Sent(r, d)
  PROVE  /\ pc' \in [Relayers -> {"idle", "sync", "collect", "toSrc", "toDst"}]
         /\ kind' \in [Relayers -> Kinds]
         /\ header' \in [Relayers -> [Chains -> Reading]]
         /\ query' \in [Relayers -> [Chains -> Reading]]
         /\ proof' \in [Relayers -> [Chains -> Reading]]
         /\ batch' \in [Relayers -> [Chains -> Seq(Packets)]]
         /\ \A s \in Relayers \ {r} : UNCHANGED CommandOf(s)
         /\ \/ GoesOn(r, d)
            \/ /\ pc'[r] = "idle" /\ batch'[r] = [c \in Chains |-> <<>>]
               /\ query'[r] = Unread /\ header'[r] = Unread /\ proof'[r] = Unread
<1>. DEFINE e == [batch[r] EXCEPT ![d] = <<>>]
<1>1. /\ batch \in [Relayers -> [Chains -> Seq(Packets)]] /\ batch[r] \in [Chains -> Seq(Packets)]
      /\ e \in [Chains -> Seq(Packets)] /\ e[d] = <<>> /\ e[Other(d)] = batch[r][Other(d)]
  BY EmptySeq, Chain DEF IInv, Typed
<1>2. batch' = [batch EXCEPT ![r] = e]
  BY DEF Sent
<1>3. e = [c \in Chains |-> e[c]]
  BY <1>1
<1>. HIDE DEF e
<1>4. /\ batch' \in [Relayers -> [Chains -> Seq(Packets)]] /\ batch'[r] = e
      /\ \A s \in Relayers \ {r} : batch'[s] = batch[s]
  BY <1>1, <1>2
<1>5. CASE d = PathSrc /\ batch[r][Other(d)] # <<>>
  <2>1. pc' = [pc EXCEPT ![r] = "toDst"] /\ UNCHANGED <<kind, query, header, proof>>
    BY <1>5 DEF Sent
  <2>2. /\ pc' \in [Relayers -> {"idle", "sync", "collect", "toSrc", "toDst"}]
        /\ pc'[r] = "toDst" /\ \A s \in Relayers \ {r} : pc'[s] = pc[s]
    BY <2>1 DEF IInv, Typed
  <2>3. GoesOn(r, d)
    BY <1>1, <1>4, <1>5, <2>1, <2>2 DEF GoesOn, Submitting
  <2>. QED
    BY <1>4, <2>1, <2>2, <2>3 DEF CommandOf, IInv, Typed
<1>6. CASE ~ (d = PathSrc /\ batch[r][Other(d)] # <<>>)
  <2>1. Over(r)
    BY <1>6 DEF Sent
  <2>2. e[Other(d)] = <<>>
    <3>1. CASE d = PathSrc
      BY <1>1, <1>6, <3>1
    <3>2. CASE d # PathSrc
      <4>1. pc[r] = "toDst" /\ PathSrc = Other(d)
        BY <3>2, Chain DEF Submitting
      <4>. QED
        BY <1>1, <4>1, Chain DEF IInv, BatchInv, Holds
    <3>. QED
      BY <3>1, <3>2
  <2>3. e = [c \in Chains |-> <<>>]
    <3>1. \A c \in Chains : e[c] = <<>>
      BY <1>1, <2>2, Chain
    <3>. QED
      BY <1>3, <3>1
  <2>. QED
    BY <1>4, <2>1, <2>3, OverDone DEF CommandOf
<1>. QED
  BY <1>5, <1>6

LEMMA SentKeeps ==
  ASSUME IInv, Typed', Later, NEW r \in Relayers, NEW d \in Chains,
         Submitting(r, d), Sent(r, d)
  PROVE  Reads(r)' /\ Holds(r)' /\ BatchProvable(r)'
<1>1. CASE GoesOn(r, d)
  <2>0. Chains = {d, Other(d)} /\ Other(d) # d /\ DOMAIN <<>> = {}
    BY DEF Chains, Other
  <2>1. Reads(r)'
    <3>1. \A c \in Chains : /\ ver[c] \in Int /\ ver'[c] \in Int /\ ver[c] <= ver'[c]
                            /\ headed[c] \in Int /\ headed'[c] \in Int /\ headed[c] <= headed'[c]
      BY DEF IInv, Typed, Later
    <3>2. \A c \in Chains : header[r][c] \in Int /\ query[r][c] \in Int
      BY DEF IInv, Typed, Reading, Never
    <3>3. Reads(r)
      BY DEF IInv, ReadInv
    <3>. QED
      BY <1>1, <3>1, <3>2, <3>3 DEF Reads, GoesOn
  <2>2. \A c \in Chains : \A i \in DOMAIN batch'[r][c] :
          /\ c = Other(d) /\ i \in DOMAIN batch[r][c]
          /\ batch'[r][c] = batch[r][c]
    BY <1>1, <2>0 DEF GoesOn
  <2>3. \A c \in Chains : \A i \in DOMAIN batch'[r][c] :
          /\ Provable(kind[r], batch[r][c][i], proof[r][Other(c)])'
          /\ proof'[r][Other(c)] = header'[r][Other(c)]
          /\ Target(kind'[r], batch'[r][c][i]) = c
    BY <1>1, <2>2, HeldWaits DEF GoesOn
  <2>4. Holds(r)'
    BY <1>1, <2>0, <2>3 DEF Holds, GoesOn, Target
  <2>. QED
    BY <2>1, <2>3, <2>4 DEF BatchProvable
<1>2. CASE ~ GoesOn(r, d)
  BY <1>2, SentDone, Ended
<1>. QED
  BY <1>1, <1>2

\* Who submits has something to submit, with a header that is known.
LEMMA SubmitsSomething ==
  ASSUME IInv, NEW r \in Relayers, NEW d \in Chains, Submitting(r, d)
  PROVE  /\ batch[r][d] \in Seq(Packets) /\ batch[r][d] # <<>>
         /\ Len(batch[r][d]) \in Nat \ {0} /\ DOMAIN batch[r][d] = 1 .. Len(batch[r][d])
         /\ \A c \in Chains : /\ header[r][c] \in Nat /\ header[r][c] <= headed[c]
                              /\ proof[r][c] = header[r][c] /\ query[r][c] = Never
<1>1. pc[r] \in {"toSrc", "toDst"} /\ (pc[r] = "toSrc" <=> d = PathSrc)
  BY DEF Submitting
<1>2. batch[r][d] \in Seq(Packets) /\ Holds(r) /\ Reads(r)
  BY DEF IInv, Typed, BatchInv, ReadInv
<1>3. batch[r][d] # <<>>
  BY <1>1, <1>2 DEF Holds
<1>4. Len(batch[r][d]) \in Nat \ {0} /\ DOMAIN batch[r][d] = 1 .. Len(batch[r][d])
  BY <1>2, <1>3, EmptySeq, LenProperties
<1>5. \A c \in Chains : /\ header[r][c] \in Reading /\ header[r][c] # Never
                        /\ header[r][c] <= headed[c]
                        /\ proof[r][c] = header[r][c] /\ query[r][c] = Never
  BY <1>1, <1>2 DEF Reads, IInv, Typed
<1>. QED
  BY <1>2, <1>3, <1>4, <1>5 DEF Reading

\* A batch that Cosmos takes.
LEMMA BatchApplied ==
  ASSUME IInv, NEW r \in Relayers, Submitting(r, "cosmos"), TakesBatch(r),
         NEW S, S = ToSet(batch[r]["cosmos"])
  PROVE  /\ S \in SUBSET Packets /\ S # {}
         /\ \A p \in S : /\ Target(kind[r], p) = "cosmos" /\ Ready(kind[r], p)
                         /\ TakesPacket("cosmos", kind[r], p, proof[r]["harmony"])
<1>1. S = {batch[r]["cosmos"][i] : i \in DOMAIN batch[r]["cosmos"]}
  BY DEF ToSet
<1>2. \A i \in DOMAIN batch[r]["cosmos"] :
        /\ batch[r]["cosmos"][i] \in Packets
        /\ Target(kind[r], batch[r]["cosmos"][i]) = "cosmos"
        /\ TakesPacket("cosmos", kind[r], batch[r]["cosmos"][i], proof[r]["harmony"])
  BY Elements, Chain DEF TakesBatch, IInv, BatchInv, Holds
<1>3. 1 \in DOMAIN batch[r]["cosmos"]
  BY SubmitsSomething, Chain
<1>4. kind[r] \in Kinds
  BY DEF IInv, Typed
<1>5. \A p \in S : /\ p \in Packets /\ Target(kind[r], p) = "cosmos"
                   /\ TakesPacket("cosmos", kind[r], p, proof[r]["harmony"])
  BY <1>1, <1>2
<1>6. \A p \in S : Ready(kind[r], p)
  BY <1>4, <1>5, ProvableReady DEF TakesPacket
<1>. QED
  BY <1>1, <1>3, <1>5, <1>6

LEMMA SubmitToCosmosKeeps ==
  ASSUME IInv, NEW r \in Relayers, SubmitToCosmos(r)
  PROVE  IInv'
<1>0. Submitting(r, "cosmos") /\ Sent(r, "cosmos") /\ UNCHANGED <<sent, queue, faults>>
      /\ "cosmos" \in Chains
  BY Chain DEF SubmitToCosmos
<1>1. /\ pc' \in [Relayers -> {"idle", "sync", "collect", "toSrc", "toDst"}]
      /\ kind' \in [Relayers -> Kinds]
      /\ header' \in [Relayers -> [Chains -> Reading]]
      /\ query' \in [Relayers -> [Chains -> Reading]]
      /\ proof' \in [Relayers -> [Chains -> Reading]]
      /\ batch' \in [Relayers -> [Chains -> Seq(Packets)]]
      /\ \A s \in Relayers \ {r} : UNCHANGED CommandOf(s)
      /\ \/ GoesOn(r, "cosmos")
         \/ /\ pc'[r] = "idle" /\ batch'[r] = [c \in Chains |-> <<>>]
            /\ query'[r] = Unread /\ header'[r] = Unread /\ proof'[r] = Unread
  BY <1>0, SentDone
<1>2. Typed' => Unrivalled(r)'
  <2>1. CASE GoesOn(r, "cosmos")
    <3>1. query'[r]["cosmos"] = Never /\ batch'[r]["cosmos"] = <<>> /\ pc'[r] = "toDst"
          /\ DOMAIN <<>> = {}
      BY <1>0, <2>1, SubmitsSomething DEF GoesOn
    <3>. QED
      BY <3>1 DEF Unrivalled, Newest
  <2>. QED
    BY <1>1, <2>1, Ended
<1>3. SUFFICES /\ Typed' /\ Later /\ InTime' /\ KnowsHeaders' /\ Counted'
               /\ knows'["harmony"] = knows["harmony"]
               /\ \/ \A s \in Relayers \ {r} : ~ rival'[s] => pc[s] = "idle"
                  \/ UNCHANGED chainVars /\ \A s \in Relayers \ {r} : rival'[s] = rival[s]
  <2>0. faults <= faults'
    BY <1>0, RelayAssumption DEF IInv, Typed
  <2>1. ASSUME NEW s \in Relayers
        PROVE  /\ Reads(s)' /\ Holds(s)' /\ BatchProvable(s)' /\ Pooled(s)' /\ QueueProvable(s)'
               /\ ~ rival'[s] => Unrivalled(s)'
    <3>1. Pooled(s)' /\ QueueProvable(s)'
      BY <1>0, <1>3, <2>0, QueueWaits
    <3>2. CASE s = r
      BY <1>0, <1>2, <1>3, <3>1, <3>2, SentKeeps
    <3>3. CASE s # r
      <4>1. UNCHANGED CommandOf(s) /\ pc'[s] = pc[s]
        BY <1>1, <3>3 DEF CommandOf
      <4>2. Reads(s)' /\ Holds(s)' /\ BatchProvable(s)'
        BY <1>3, <4>1, CommandWaits
      <4>3. ~ rival'[s] => Unrivalled(s)'
        <5>1. CASE pc[s] = "idle"
          BY <4>1, <4>2, <5>1, Idle
        <5>2. CASE UNCHANGED chainVars /\ rival'[s] = rival[s]
          BY <4>1, <5>2, RivalWaits DEF IInv, RivalInv, chainVars
        <5>. QED
          BY <1>3, <3>3, <5>1, <5>2
      <4>. QED
        BY <3>1, <4>2, <4>3
    <3>. QED
      BY <3>2, <3>3
  <2>. QED
    BY <1>3, <2>1, Assembled
<1>4. CASE TakesBatch(r)
  <2>. DEFINE S == ToSet(batch[r]["cosmos"])
              h == header[r]["harmony"]
  <2>1. /\ Apply("cosmos", kind[r], S)
        /\ knows' = [knows EXCEPT !["cosmos"] = knows["cosmos"] \union {h}]
        /\ rival' = [s \in Relayers |-> s # r /\ pc[s] # "idle"]
    BY <1>4 DEF SubmitToCosmos
  <2>2. S \in SUBSET Packets /\ S # {} /\ kind[r] \in Kinds
        /\ \A p \in S : Target(kind[r], p) = "cosmos" /\ Ready(kind[r], p)
    BY <1>0, <1>4, BatchApplied DEF IInv, Typed
  <2>3. h \in Nat /\ h <= headed["harmony"]
    BY <1>0, SubmitsSomething, Chain
  <2>. HIDE DEF S, h
  <2>4. /\ ver' \in [Chains -> Nat] /\ headed' \in [Chains -> Nat]
        /\ received' \in [Packets -> Reading] /\ acked' \in [Packets -> Reading]
        /\ Later /\ InTime' /\ Counted'
    <3>1. ASSUME NEW d \in Chains, d = "cosmos"
          PROVE  /\ ver' \in [Chains -> Nat] /\ headed' \in [Chains -> Nat]
                 /\ received' \in [Packets -> Reading] /\ acked' \in [Packets -> Reading]
                 /\ Later /\ InTime' /\ Counted'
      BY <1>0, <2>1, <2>2, <3>1, Applied
    <3>. QED
      BY <1>0, <3>1
  <2>5. /\ knows' \in [Chains -> SUBSET Nat] /\ knows'["harmony"] = knows["harmony"]
        /\ knows'["cosmos"] = knows["cosmos"] \union {h}
    BY <2>1, <2>3, Chain DEF IInv, Typed
  <2>6. Typed'
    BY <1>0, <1>1, <2>1, <2>4, <2>5 DEF IInv, Typed
  <2>7. KnowsHeaders'
    <3>1. \A d \in Chains : headed[d] \in Nat /\ headed'[d] \in Nat /\ headed[d] <= headed'[d]
      BY <2>4 DEF IInv, Typed, Later
    <3>2. \A v \in knows'["harmony"] : v <= headed["cosmos"] /\ v \in Nat
      BY <2>5, Chain DEF IInv, KnowsHeaders, Other, Typed
    <3>3. \A v \in knows'["cosmos"] : v <= headed["harmony"] /\ v \in Nat
      BY <2>3, <2>5, Chain DEF IInv, KnowsHeaders, Other, Typed
    <3>4. /\ \A v \in knows'["harmony"] : v <= headed'["cosmos"]
          /\ \A v \in knows'["cosmos"] : v <= headed'["harmony"]
      BY <3>1, <3>2, <3>3, Chain
    <3>. QED
      BY <3>4 DEF KnowsHeaders, Chains, Other
  <2>8. \A s \in Relayers \ {r} : ~ rival'[s] => pc[s] = "idle"
    BY <2>1
  <2>. QED
    BY <1>3, <2>4, <2>5, <2>6, <2>7, <2>8
<1>5. CASE ~ TakesBatch(r)
  <2>1. rival' = [rival EXCEPT ![r] = FALSE] /\ UNCHANGED chainVars
    BY <1>0, <1>5 DEF SubmitToCosmos, chainVars
  <2>2. rival' \in [Relayers -> BOOLEAN] /\ \A s \in Relayers \ {r} : rival'[s] = rival[s]
    BY <2>1 DEF IInv, Typed
  <2>3. Typed'
    BY <1>0, <1>1, <2>1, <2>2 DEF IInv, Typed, chainVars
  <2>. QED
    BY <1>3, <2>1, <2>2, <2>3, ChainsWait DEF chainVars
<1>. QED
  BY <1>4, <1>5

\* A batch for Harmony: the update goes first, and is of the version that is proved.
LEMMA TransactionsFine ==
  ASSUME IInv, NEW r \in Relayers, Submitting(r, "harmony"), NEW txs, txs = Transactions(r)
  PROVE  /\ txs \in Seq(Posted) /\ Len(txs) \in Nat \ {0}
         /\ txs[1].kind = "update" /\ txs[1].proof = header[r]["cosmos"]
         /\ \A i \in 1 .. Len(txs) : /\ txs[i] \in Posted /\ Fine(txs[i])
                                     /\ txs[i].proof = header[r]["cosmos"]
<1>. DEFINE h == header[r]["cosmos"]
            v == proof[r]["cosmos"]
            pkts == batch[r]["harmony"]
            k == kind[r]
            u == [kind |-> "update", pkt |-> NoPacket, proof |-> h]
            n == Len(pkts)
            ms == [i \in DOMAIN pkts |-> [kind |-> k, pkt |-> pkts[i], proof |-> v]]
<1>1. txs = <<u>> \o ms
  BY DEF Transactions
<1>2. /\ pkts \in Seq(Packets) /\ n \in Nat /\ DOMAIN pkts = 1 .. n
      /\ h \in Nat /\ h <= headed["cosmos"] /\ v = h
  BY SubmitsSomething, Chain
<1>3. \A i \in 1 .. n : /\ pkts[i] \in Packets /\ Target(k, pkts[i]) = "harmony"
                        /\ Provable(k, pkts[i], v)
  <2>1. \A i \in 1 .. n : /\ pkts[i] \in Packets /\ Target(k, pkts[i]) = "harmony"
    BY <1>2, Elements, Chain DEF IInv, BatchInv, Holds
  <2>2. \A i \in 1 .. n : Provable(k, pkts[i], v)
    BY <1>2, ProvableParts, Chain DEF IInv, BatchProvable, Other
  <2>. QED
    BY <2>1, <2>2
<1>4. k \in Kinds /\ k # "update"
  BY DEF IInv, Typed, Kinds
<1>. HIDE DEF h, v, pkts, k, n
<1>5. u \in Posted /\ Fine(u) /\ u.kind = "update" /\ u.proof = h
  BY <1>2 DEF Posted, Fine
<1>6. \A i \in 1 .. n : /\ ms[i] = [kind |-> k, pkt |-> pkts[i], proof |-> v]
                        /\ ms[i] \in Posted /\ Fine(ms[i]) /\ ms[i].proof = h
  BY <1>2, <1>3, <1>4 DEF Posted, Fine
<1>7. ms \in [1 .. n -> Posted]
  BY <1>2, <1>6
<1>8. ms \in Seq(Posted) /\ Len(ms) = n
  <2>1. ms \in Seq(Posted)
    BY <1>2, <1>7, SeqDef
  <2>2. DOMAIN ms = 1 .. n /\ DOMAIN ms = 1 .. Len(ms) /\ Len(ms) \in Nat
    BY <1>7, <2>1, LenProperties
  <2>. QED
    BY <1>2, <2>1, <2>2
<1>. HIDE DEF u, ms
<1>9. <<u>> \in Seq(Posted) /\ Len(<<u>>) = 1 /\ <<u>>[1] = u
  BY <1>5
<1>10. /\ txs \in Seq(Posted) /\ Len(txs) = 1 + n
       /\ \A i \in 1 .. 1 + n : txs[i] = IF i <= 1 THEN <<u>>[i] ELSE ms[i - 1]
  BY <1>1, <1>8, <1>9, ConcatProperties
<1>11. txs[1] = u /\ \A i \in 1 .. 1 + n : txs[i] = u \/ (i - 1 \in 1 .. n /\ txs[i] = ms[i - 1])
  BY <1>2, <1>9, <1>10
<1>12. Len(txs) \in Nat \ {0} /\ 1 \in 1 .. 1 + n
  BY <1>2, <1>10
<1>13. \A i \in 1 .. Len(txs) : txs[i] \in Posted /\ Fine(txs[i]) /\ txs[i].proof = h
  <2>. TAKE i \in 1 .. Len(txs)
  <2>1. i \in 1 .. 1 + n
    BY <1>10
  <2>2. CASE txs[i] = u
    BY <1>5, <2>2
  <2>3. CASE txs[i] # u
    BY <1>6, <1>11, <2>1, <2>3
  <2>. QED
    BY <2>2, <2>3
<1>. QED
  BY <1>5, <1>10, <1>11, <1>12, <1>13 DEF h

\* What is put behind the queue: fine transactions after an update that they share.
LEMMA PoolGrows ==
  ASSUME IInv, Typed', Later, knows["harmony"] \subseteq knows'["harmony"], faults <= faults',
         UNCHANGED <<sent, received, acked, headed>>,
         NEW r \in Relayers, NEW txs \in Seq(Posted), queue'[r] = queue[r] \o txs,
         \A i \in 1 .. Len(txs) : /\ Fine(txs[i])
                                  /\ txs[i].proof = txs[1].proof /\ txs[1].kind = "update"
  PROVE  Pooled(r)' /\ QueueProvable(r)'
<1>. SUFFICES ASSUME NEW i \in DOMAIN queue'[r], NEW m \in Posted, m = queue'[r][i]
              PROVE  Fine(m)' /\ (m.kind # "update" => Behind(r, i)')
  BY PoolOf
<1>. DEFINE n == Len(queue[r])
<1>1. /\ queue[r] \in Seq(Posted) /\ n \in Nat /\ DOMAIN queue[r] = 1 .. n
      /\ Len(txs) \in Nat /\ DOMAIN queue'[r] = 1 .. n + Len(txs)
      /\ \A j \in 1 .. n + Len(txs) : queue'[r][j] = IF j <= n THEN queue[r][j] ELSE txs[j - n]
  <2>1. queue[r] \in Seq(Posted) /\ n \in Nat /\ DOMAIN queue[r] = 1 .. n
    BY Elements DEF IInv
  <2>2. Len(txs) \in Nat
    BY LenProperties
  <2>3. /\ queue[r] \o txs \in Seq(Posted) /\ Len(queue[r] \o txs) = n + Len(txs)
        /\ \A j \in 1 .. n + Len(txs) :
             (queue[r] \o txs)[j] = IF j <= n THEN queue[r][j] ELSE txs[j - n]
    BY <2>1, ConcatProperties
  <2>4. DOMAIN (queue[r] \o txs) = 1 .. n + Len(txs)
    BY <2>3, LenProperties
  <2>. QED
    BY <2>1, <2>2, <2>3, <2>4
<1>. HIDE DEF n
<1>2. faults \in Int /\ faults' \in Int
  BY RelayAssumption DEF IInv, Typed
<1>3. CASE i <= n
  <2>1. i \in DOMAIN queue[r] /\ m = queue[r][i]
        /\ \A j \in 1 .. i - 1 : queue'[r][j] = queue[r][j]
    BY <1>1, <1>3
  <2>2. Fine(m)'
    BY <2>1, FineWaits
  <2>3. m.kind # "update" => Behind(r, i)
    BY <2>1 DEF IInv, QueueInv, Pooled
  <2>4. ASSUME Behind(r, i) PROVE Behind(r, i)'
    BY <1>2, <2>1, <2>4 DEF Behind
  <2>. QED
    BY <2>2, <2>3, <2>4
<1>4. CASE ~ (i <= n)
  <2>1. /\ i - n \in 1 .. Len(txs) /\ m = txs[i - n] /\ i \in Nat /\ n + 1 <= i
        /\ queue'[r][n + 1] = txs[1]
    <3>1. i \in 1 .. n + Len(txs) /\ n + 1 \in 1 .. n + Len(txs) /\ ~ (n + 1 <= n)
          /\ (n + 1) - n = 1 /\ i - n \in 1 .. Len(txs) /\ n + 1 <= i
      BY <1>1, <1>4
    <3>2. queue'[r][i] = txs[i - n]
      BY <1>1, <1>4, <3>1
    <3>3. queue'[r][n + 1] = txs[(n + 1) - n]
      BY <1>1, <3>1
    <3>. QED
      BY <1>1, <3>1, <3>2, <3>3
  <2>2. Fine(m) /\ m.proof = txs[1].proof /\ txs[1].kind = "update"
    BY <2>1
  <2>3. Fine(m)'
    BY <2>2 DEF Fine, Provable, Stored, HasCommitment, HasReceipt, By, Target
  <2>4. ASSUME m.kind # "update" PROVE Behind(r, i)'
    <3>1. n + 1 # i
      BY <1>1, <2>1, <2>2, <2>4
    <3>2. n + 1 \in 1 .. i - 1
      BY <1>1, <2>1, <3>1
    <3>. QED
      BY <2>1, <2>2, <3>2 DEF Behind
  <2>. QED
    BY <2>3, <2>4
<1>. QED
  BY <1>3, <1>4

LEMMA SubmitToHarmonyKeeps ==
  ASSUME IInv, NEW r \in Relayers, SubmitToHarmony(r)
  PROVE  IInv'
<1>. DEFINE txs == Transactions(r)
<1>0. /\ Submitting(r, "harmony") /\ Sent(r, "harmony") /\ UNCHANGED chainVars
      /\ rival' = [rival EXCEPT ![r] = rival[r] /\ batch[r]["cosmos"] # <<>>]
      /\ "harmony" \in Chains
  BY Chain DEF SubmitToHarmony
<1>1. /\ pc' \in [Relayers -> {"idle", "sync", "collect", "toSrc", "toDst"}]
      /\ kind' \in [Relayers -> Kinds]
      /\ header' \in [Relayers -> [Chains -> Reading]]
      /\ query' \in [Relayers -> [Chains -> Reading]]
      /\ proof' \in [Relayers -> [Chains -> Reading]]
      /\ batch' \in [Relayers -> [Chains -> Seq(Packets)]]
      /\ \A s \in Relayers \ {r} : UNCHANGED CommandOf(s)
      /\ \/ GoesOn(r, "harmony")
         \/ /\ pc'[r] = "idle" /\ batch'[r] = [c \in Chains |-> <<>>]
            /\ query'[r] = Unread /\ header'[r] = Unread /\ proof'[r] = Unread
  BY <1>0, SentDone
<1>2. /\ txs \in Seq(Posted) /\ Len(txs) \in Nat \ {0}
      /\ txs[1].kind = "update" /\ txs[1].proof = header[r]["cosmos"]
      /\ \A i \in 1 .. Len(txs) : /\ txs[i] \in Posted /\ Fine(txs[i])
                                  /\ txs[i].proof = header[r]["cosmos"]
  BY <1>0, TransactionsFine
<1>3. \/ queue' = [queue EXCEPT ![r] = queue[r] \o txs] /\ UNCHANGED faults
      \/ \E n \in 0 .. Len(txs) - 1 :
           /\ faults < MaxFaults
           /\ queue' = [queue EXCEPT ![r] = queue[r] \o SubSeq(txs, 1, n)]
           /\ faults' = faults + 1
  BY DEF SubmitToHarmony
<1>. HIDE DEF txs
<1>4. faults \in 0 .. MaxFaults /\ faults' \in 0 .. MaxFaults /\ faults <= faults'
  <2>1. faults \in 0 .. MaxFaults /\ MaxFaults \in Nat
    BY RelayAssumption DEF IInv, Typed
  <2>2. UNCHANGED faults \/ (faults < MaxFaults /\ faults' = faults + 1)
    BY <1>3
  <2>. QED
    BY <2>1, <2>2
<1>. DEFINE Adds(new) ==
              /\ queue' = [queue EXCEPT ![r] = queue[r] \o new]
              /\ \A i \in 1 .. Len(new) : /\ Fine(new[i])
                                          /\ new[i].proof = new[1].proof
                                          /\ new[1].kind = "update"
<1>5. \E new \in Seq(Posted) : Adds(new)
  <2>1. ASSUME queue' = [queue EXCEPT ![r] = queue[r] \o txs]
        PROVE  \E new \in Seq(Posted) : Adds(new)
    <3>1. Adds(txs)
      BY <1>2, <2>1
    <3>. QED
      BY <1>2, <3>1
  <2>2. ASSUME NEW n \in 0 .. Len(txs) - 1,
               queue' = [queue EXCEPT ![r] = queue[r] \o SubSeq(txs, 1, n)]
        PROVE  \E new \in Seq(Posted) : Adds(new)
    <3>. DEFINE new == SubSeq(txs, 1, n)
    <3>0. n \in Nat /\ n <= Len(txs) /\ Len(txs) \in Nat
      BY <1>2
    <3>1. \A i \in 1 .. n : i \in 1 .. Len(txs) /\ txs[i] \in Posted
      BY <1>2, <3>0
    <3>2. /\ new \in Seq(Posted) /\ Len(new) = (IF 1 <= n THEN n - 1 + 1 ELSE 0)
          /\ \A i \in 1 .. n - 1 + 1 : new[i] = txs[1 + i - 1]
      BY <3>0, <3>1, SubSeqProperties
    <3>3. queue' = [queue EXCEPT ![r] = queue[r] \o new]
      BY <2>2
    <3>. HIDE DEF new
    <3>4. Len(new) = n /\ \A i \in 1 .. n : new[i] = txs[i]
      BY <3>0, <3>2
    <3>5. ASSUME NEW i \in 1 .. n
          PROVE  Fine(new[i]) /\ new[i].proof = new[1].proof /\ new[1].kind = "update"
      <4>1. 1 \in 1 .. n /\ new[1] = txs[1] /\ new[i] = txs[i] /\ i \in 1 .. Len(txs)
        BY <3>0, <3>1, <3>4
      <4>. QED
        BY <1>2, <4>1
    <3>6. Adds(new)
      BY <3>3, <3>4, <3>5
    <3>. QED
      BY <3>2, <3>6
  <2>. QED
    BY <1>3, <2>1, <2>2
<1>6. PICK new \in Seq(Posted) : Adds(new)
  BY <1>5
<1>7. /\ queue' \in [Relayers -> Seq(Posted)] /\ queue'[r] = queue[r] \o new
      /\ \A s \in Relayers \ {r} : queue'[s] = queue[s]
  <2>1. queue[r] \o new \in Seq(Posted)
    BY ConcatProperties DEF IInv, Typed
  <2>. QED
    BY <1>6, <2>1 DEF IInv, Typed
<1>8. /\ rival' \in [Relayers -> BOOLEAN]
      /\ \A s \in Relayers \ {r} : rival'[s] = rival[s]
      /\ rival[r] /\ batch[r]["cosmos"] # <<>> => rival'[r]
  <2>1. rival \in [Relayers -> BOOLEAN]
    BY DEF IInv, Typed
  <2>2. (rival[r] /\ batch[r]["cosmos"] # <<>>) \in BOOLEAN
    OBVIOUS
  <2>. QED
    BY <1>0, <2>1, <2>2
<1>9. Typed'
  BY <1>0, <1>1, <1>4, <1>7, <1>8 DEF IInv, Typed, chainVars
<1>10. Later /\ InTime' /\ KnowsHeaders' /\ Counted'
  BY <1>0, ChainsWait
<1>11. ASSUME ~ rival'[r] PROVE Unrivalled(r)'
  <2>1. CASE GoesOn(r, "harmony")
    <3>1. batch'[r]["cosmos"] = batch[r]["cosmos"] /\ batch[r]["cosmos"] # <<>>
      BY <2>1 DEF GoesOn, Other
    <3>2. Unrivalled(r)
      <4>1. ~ rival[r]
        BY <1>8, <1>11, <3>1
      <4>. QED
        BY <4>1 DEF IInv, RivalInv
    <3>3. UNCHANGED <<knows, received, acked>>
      BY <1>0 DEF chainVars
    <3>4. Newest(r)'
      BY <2>1, <3>1, <3>2, <3>3 DEF Unrivalled, Newest, GoesOn
    <3>. QED
      BY <2>1, <3>1, <3>2, <3>3, <3>4 DEF Unrivalled, Done, GoesOn
  <2>. QED
    BY <1>1, <1>9, <2>1, Ended
<1>12. ASSUME NEW s \in Relayers
       PROVE  /\ Reads(s)' /\ Holds(s)' /\ BatchProvable(s)' /\ Pooled(s)' /\ QueueProvable(s)'
              /\ ~ rival'[s] => Unrivalled(s)'
  <2>0. /\ knows["harmony"] \subseteq knows'["harmony"] /\ knows'["cosmos"] = knows["cosmos"]
        /\ UNCHANGED <<sent, received, acked, headed>>
    BY <1>0 DEF chainVars
  <2>1. CASE s = r
    <3>1. Reads(r)' /\ Holds(r)' /\ BatchProvable(r)'
      BY <1>0, <1>9, <1>10, SentKeeps
    <3>2. Pooled(r)' /\ QueueProvable(r)'
      BY <1>4, <1>6, <1>7, <1>9, <1>10, <2>0, PoolGrows
    <3>. QED
      BY <1>11, <2>1, <3>1, <3>2
  <2>2. CASE s # r
    <3>1. Reads(s)' /\ Holds(s)' /\ BatchProvable(s)'
      BY <1>1, <1>9, <1>10, <2>2, CommandWaits
    <3>2. Pooled(s)' /\ QueueProvable(s)'
      BY <1>4, <1>7, <1>9, <1>10, <2>0, <2>2, QueueWaits
    <3>3. ~ rival'[s] => Unrivalled(s)'
      BY <1>1, <1>8, <2>0, <2>2, RivalWaits DEF IInv, RivalInv
    <3>. QED
      BY <3>1, <3>2, <3>3
  <2>. QED
    BY <2>1, <2>2
<1>. QED
  BY <1>9, <1>10, <1>12, Assembled

-----------------------------------------------------------------------------
(* The invariant and what it implies *)

LEMMA InitIInv ==
  ASSUME Init
  PROVE  IInv
<1>1. /\ ver = [c \in Chains |-> 0] /\ headed = [c \in Chains |-> 0]
      /\ sent = [p \in Packets |-> Never] /\ received = sent /\ acked = sent
      /\ knows = [c \in Chains |-> {0}] /\ queue = [r \in Relayers |-> <<>>]
      /\ pc = [r \in Relayers |-> "idle"] /\ kind = [r \in Relayers |-> "relay"]
      /\ query = [r \in Relayers |-> Unread] /\ header = query /\ proof = query
      /\ batch = [r \in Relayers |-> [c \in Chains |-> <<>>]]
      /\ rival = [r \in Relayers |-> FALSE] /\ faults = 0
  BY DEF Init
<1>2. Unread \in [Chains -> Reading] /\ \A c \in Chains : Unread[c] = Never
  BY DEF Unread, Reading
<1>3. Typed
  <2>1. /\ queue \in [Relayers -> Seq(Posted)] /\ batch \in [Relayers -> [Chains -> Seq(Packets)]]
    BY <1>1, EmptySeq
  <2>2. /\ query \in [Relayers -> [Chains -> Reading]]
        /\ header \in [Relayers -> [Chains -> Reading]]
        /\ proof \in [Relayers -> [Chains -> Reading]]
    BY <1>1, <1>2
  <2>3. /\ ver \in [Chains -> Nat] /\ headed \in [Chains -> Nat]
        /\ knows \in [Chains -> SUBSET Nat] /\ faults \in 0 .. MaxFaults
    BY <1>1, RelayAssumption
  <2>4. /\ sent \in [Packets -> Reading] /\ received \in [Packets -> Reading]
        /\ acked \in [Packets -> Reading]
    BY <1>1 DEF Reading
  <2>5. /\ pc \in [Relayers -> {"idle", "sync", "collect", "toSrc", "toDst"}]
        /\ kind \in [Relayers -> Kinds] /\ rival \in [Relayers -> BOOLEAN]
    BY <1>1 DEF Kinds
  <2>. QED
    BY <2>1, <2>2, <2>3, <2>4, <2>5 DEF Typed
<1>4. Never <= 0
  BY DEF Never
<1>5. InTime /\ KnowsHeaders
  <2>1. \A p \in Packets : Src(p) \in Chains /\ Dst(p) \in Chains
    BY Packet
  <2>. QED
    BY <1>1, <1>4, <2>1, Chain DEF InTime, KnowsHeaders
<1>6. Counted
  BY <1>1 DEF Counted
<1>7. \A r \in Relayers : \A c \in Chains :
        /\ header[r][c] = Never /\ query[r][c] = Never /\ proof[r][c] = Never
        /\ batch[r][c] = <<>> /\ DOMAIN batch[r][c] = {} /\ pc[r] = "idle"
        /\ queue[r] = <<>> /\ DOMAIN queue[r] = {}
  BY <1>1, <1>2
<1>8. ReadInv /\ BatchInv
  BY <1>1, <1>4, <1>7 DEF ReadInv, Reads, BatchInv, Holds
<1>9. QueueInv /\ RivalInv /\ MessagesProvable
  BY <1>7, Chain DEF QueueInv, Pooled, RivalInv, Unrivalled, Newest, MessagesProvable
<1>. QED
  BY <1>3, <1>5, <1>6, <1>8, <1>9 DEF IInv

LEMMA NextIInv ==
  ASSUME IInv, [Next]_vars
  PROVE  IInv'
<1>1. CASE \E p \in Packets : SendPacket(p)
  BY <1>1, SendPacketKeeps
<1>2. CASE \E c \in Chains : NewHeader(c)
  BY <1>2, NewHeaderKeeps
<1>3. ASSUME NEW r \in Relayers, Execute(r) \/ Lose(r) \/ Forward(r) \/ Fail(r)
      PROVE  IInv'
  BY <1>3, ExecuteKeeps, LoseKeeps, BeginKeeps, SyncKeeps, CollectKeeps,
     SubmitToCosmosKeeps, SubmitToHarmonyKeeps, FailKeeps DEF Forward
<1>4. CASE UNCHANGED vars
  <2>1. /\ UNCHANGED <<ver, headed, sent, received, acked, knows>>
        /\ UNCHANGED <<queue, pc, kind, query, header, proof, batch, rival, faults>>
    BY <1>4 DEF vars, chainVars, commandVars
  <2>2. Typed'
    BY <2>1 DEF IInv, Typed
  <2>3. Later /\ InTime' /\ KnowsHeaders' /\ Counted'
    BY <2>1, ChainsWait DEF chainVars
  <2>. QED
    BY <2>1, <2>2, <2>3, ChainsGoOn DEF commandVars
<1>. QED
  BY <1>1, <1>2, <1>3, <1>4 DEF Next

\* The inductive invariant of relaying holds.
THEOREM Invariance == Spec => []IInv
<1>1. Init => IInv
  BY InitIInv
<1>2. IInv /\ [Next]_vars => IInv'
  BY NextIInv
<1>. QED
  BY <1>1, <1>2, PTL DEF Spec

\* Versions, which only the events of packets make, stay within twice the packets,
\* and every variable of the relay is of its type.
THEOREM TypeCorrect == Spec => []TypeOK
<1>1. IInv => TypeOK
  BY Bounded
<1>. QED
  BY <1>1, Invariance, PTL

\* Whatever a command holds or the pool of Harmony keeps is provable at the version
\* it is proved at, and that is the version of the header that is sent along.
THEOREM ProofsHold == Spec => []MessagesProvable
<1>1. IInv => MessagesProvable
  BY DEF IInv
<1>. QED
  BY <1>1, Invariance, PTL

\* Cosmos takes the batch of a relayer that had no rival.
LEMMA TakenUnlessRival ==
  ASSUME IInv, NEW r \in Relayers, Submitting(r, "cosmos"), ~ rival[r]
  PROVE  TakesBatch(r)
<1>. DEFINE h == header[r]["harmony"]
<1>1. h \in Nat /\ proof[r]["harmony"] = h /\ batch[r]["cosmos"] # <<>>
  BY SubmitsSomething, Chain
<1>2. Unrivalled(r) /\ h # Never
  BY <1>1 DEF IInv, RivalInv, Never
<1>3. TakesUpdate("cosmos", h)
  <2>1. \A v \in knows["cosmos"] : v <= h /\ v \in Nat
    BY <1>1, <1>2, Chain DEF Unrivalled, Newest, IInv, Typed
  <2>. QED
    BY <1>1, <2>1 DEF TakesUpdate
<1>4. ASSUME NEW i \in DOMAIN batch[r]["cosmos"]
      PROVE  TakesPacket("cosmos", kind[r], batch[r]["cosmos"][i], h)
  <2>1. batch[r]["cosmos"][i] \in Packets
    BY Elements, Chain DEF IInv
  <2>2. Provable(kind[r], batch[r]["cosmos"][i], h)
    BY <1>1, ProvableParts, Chain DEF IInv, BatchProvable, Other
  <2>3. ~ Done(kind[r], batch[r]["cosmos"][i])
    BY <1>2 DEF Unrivalled
  <2>4. kind[r] = "acks" => sent[batch[r]["cosmos"][i]] # Never
    BY <2>1, <2>2 DEF Provable, Stored, HasReceipt, By, IInv, InTime
  <2>. QED
    BY <2>2, <2>3, <2>4 DEF TakesPacket
<1>. QED
  BY <1>1, <1>3, <1>4 DEF TakesBatch

\* A relayer that nobody raced is never refused by Cosmos: what it has read at
\* different moments fits together.
THEOREM RefusalNeedsRival == Spec => RefusedOnlyForRival
<1>1. IInv => \A r \in Relayers : SubmitToCosmos(r) /\ ~ TakesBatch(r) => rival[r]
  BY TakenUnlessRival DEF SubmitToCosmos
<1>. QED
  BY <1>1, Invariance, PTL DEF RefusedOnlyForRival

\* A message of the pool is executed unless it is stale.
LEMMA ExecutedUnlessStale ==
  ASSUME IInv, NEW r \in Relayers, Execute(r), queue[r][1].kind # "update",
         ~ Done(queue[r][1].kind, queue[r][1].pkt),
         \A v \in knows["harmony"] : ~ (v > queue[r][1].proof), ~ (faults > 0)
  PROVE  ver' # ver
<1>. DEFINE m == queue[r][1]
<1>1. queue[r] # <<>> /\ Head(queue[r]) = m /\ 1 \in DOMAIN queue[r] /\ m \in Posted
  BY Rest, Elements DEF Execute, IInv
<1>2. m.pkt \in Packets /\ m.kind \in Kinds /\ Behind(r, 1) /\ Provable(m.kind, m.pkt, m.proof)
  BY <1>1, ProvableParts DEF IInv, QueueInv, Pooled, QueueProvable, Posted
<1>3. m.proof \in knows["harmony"]
  <2>1. PICK v \in knows["harmony"] : v >= m.proof
    BY <1>2 DEF Behind
  <2>2. v \in Nat /\ m.proof \in Nat
    BY <1>1, Chain DEF IInv, Typed, Posted
  <2>3. v = m.proof
    BY <2>1, <2>2
  <2>. QED
    BY <2>1, <2>3
<1>4. m.kind = "acks" => sent[m.pkt] # Never
  BY <1>2 DEF Provable, Stored, HasReceipt, By, IInv, InTime
<1>5. TakesPacket("harmony", m.kind, m.pkt, m.proof)
  BY <1>2, <1>4 DEF TakesPacket
<1>6. NewVersion("harmony")
  BY <1>1, <1>3, <1>5 DEF Execute, Apply
<1>7. ver'["harmony"] = ver["harmony"] + 1 /\ ver["harmony"] \in Nat
  BY <1>6, Chain DEF NewVersion, IInv, Typed
<1>. QED
  BY <1>7

\* A message reverts on Harmony only when another relayer was faster, or after a
\* fault, however long it has waited in the pool.
THEOREM RevertNeedsCause == Spec => RevertsOnlyIfStale
<1>1. IInv => \A r \in Relayers :
        Execute(r) /\ Head(queue[r]).kind # "update" /\ UNCHANGED ver
        => LET m == Head(queue[r]) IN
           \/ Done(m.kind, m.pkt)
           \/ \E v \in knows["harmony"] : v > m.proof
           \/ faults > 0
  <2>1. ASSUME IInv, NEW r \in Relayers, Execute(r)
        PROVE  Head(queue[r]) = queue[r][1]
    BY <2>1, Rest DEF Execute, IInv
  <2>. QED
    BY <2>1, ExecutedUnlessStale
<1>. QED
  BY <1>1, Invariance, PTL DEF RevertsOnlyIfStale
=============================================================================
