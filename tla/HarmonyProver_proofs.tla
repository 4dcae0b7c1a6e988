------------------------ MODULE HarmonyProver_proofs -------------------------
(***************************************************************************)
(* Proofs about HarmonyProver for any set of relayers, any shard and any   *)
(* length of the chains: type correctness, that the cross-link scan        *)
(* returns the newest provable header, or none only if there is none, that *)
(* a later query never gets an older one, that a client knows the signers  *)
(* of its height, and that every update a relayer sends can be verified.   *)
(*                                                                         *)
(* None of these is inductive alone.  The inductive invariant adds what    *)
(* the two chains guarantee (ChainInv), what a scan has already excluded   *)
(* (ScanInv, HeldInv), which committee each version of the client knows    *)
(* (ClientInv) and how far back the epoch headers of a header reach        *)
(* (EpochsInv).                                                            *)
(***************************************************************************)
EXTENDS HarmonyProver, SequenceTheorems, TLAPS

HasMax(S) == \E m \in S : \A x \in S : x <= m

\* Epochs, committees and cross links only move forward along the two chains.
EpochsForward ==
  /\ \A n \in 0 .. top :
       beacon[n].state \in {NoState, beacon[n].epoch, beacon[n].epoch + 1}
  /\ \A i, j \in 0 .. top : i < j =>
       /\ beacon[i].epoch <= beacon[j].epoch
       /\ beacon[i].state <= beacon[j].epoch

GenesisLinksNothing == beacon[0].links = {}

LinksForward ==
  /\ \A n \in 0 .. top : /\ beacon[n].links \subseteq 1 .. linked
                         /\ beacon[n].links = {} \/ HasMax(beacon[n].links)
  /\ \A i, j \in 0 .. top : i < j =>
       \A a \in beacon[i].links, b \in beacon[j].links : a < b

ShardForward ==
  /\ \A i, j \in 0 .. shardTop : i <= j => shard[i] <= shard[j]
  /\ \A m \in 0 .. shardTop : shard[m] <= beacon[top].epoch
  /\ \A n \in 0 .. top : \A m \in beacon[n].links : shard[m] <= beacon[n].epoch

TopBounded == top <= MaxBeacon

EpochsBounded == \A n \in 0 .. top : beacon[n].epoch <= n

GenesisElects == beacon[0].epoch = 0 /\ beacon[0].state = 0

ChainInv ==
  /\ EpochsForward /\ GenesisLinksNothing /\ LinksForward /\ ShardForward
  /\ TopBounded /\ EpochsBounded /\ GenesisElects

\* Block m of the path's shard is the target of a header of beacon block n.
AtBlock(n, m) ==
  IF ShardId = 0 THEN m = n
  ELSE m \in beacon[n].links /\ \A x \in beacon[n].links : x <= m

\* No beacon block strictly between lo and hi links the shard.
NoLinkBetween(lo, hi) == \A i \in lo + 1 .. hi - 1 : beacon[i].links = {}

\* The scan is at height, and found nothing above it.
Scanned(r) ==
  height[r] < from[r] /\ from[r] <= top /\ NoLinkBetween(height[r], from[r])

\* The scan began at block 0.
Wrapped(r) == from[r] = 0 /\ height[r] = MaxUint64

ScanOK(r) ==
  /\ pc[r] = "scan" => ShardId > 0 /\ (Scanned(r) \/ Wrapped(r))
  /\ pc[r] = "panicked" => ShardId > 0 /\ Scanned(r) /\ height[r] = 0

ScanInv == \A r \in Relayers : ScanOK(r)

HeldOK(r) ==
  pc[r] \in Holding =>
    /\ header[r].beacon < from[r] /\ from[r] <= top
    /\ AtBlock(header[r].beacon, header[r].target)
    /\ IF ShardId = 0 THEN header[r].beacon = from[r] - 1
       ELSE NoLinkBetween(header[r].beacon, from[r])

HeldInv == \A r \in Relayers : HeldOK(r)

\* What a version of the client knows comes from one beacon block.
KnownFrom(cs, n) ==
  /\ AtBlock(n, cs.height)
  /\ cs.committee \in {beacon[n].epoch, beacon[n].state}

ClientInv ==
  /\ \A v \in 1 .. Len(clients) : \E n \in 0 .. top : KnownFrom(clients[v], n)
  /\ \A v, w \in 1 .. Len(clients) : v <= w => clients[v].height <= clients[w].height

\* The epoch headers E are those of the consecutive epochs from s to b - 1.
EpochChain(E, s, b) ==
  /\ E # <<>> /\ E[Len(E)] = b - 1
  /\ \A j \in 1 .. Len(E) : E[j] = s + j - 1

\* The epoch headers of h lead from epoch e, or an earlier one, to its own.
ReachesBack(h, e) ==
  LET b == beacon[h.beacon].epoch
  IN \/ h.epochs = <<>> /\ b <= e
     \/ \E s \in 0 .. e : EpochChain(h.epochs, s, b)

EpochsOK(r) ==
  /\ pc[r] = "held" => header[r].epochs = <<>>
  /\ pc[r] \in {"ready", "relayed", "readyAcks"} =>
       clients # <<>> /\ ReachesBack(header[r], OwnEpoch(Current.height))

EpochsInv == \A r \in Relayers : EpochsOK(r)

IInv == TypeOK /\ ChainInv /\ ScanInv /\ HeldInv /\ ClientInv /\ EpochsInv

-----------------------------------------------------------------------------
(* Lemmas about the data *)

\* Max returns the greatest element of a set that has one.
LEMMA MaxIsGreatest ==
  ASSUME NEW S \in SUBSET Nat, HasMax(S)
  PROVE  Max(S) \in S /\ \A x \in S : x <= Max(S)
<1>1. PICK m \in S : \A x \in S : x <= m
  BY DEF HasMax
<1>2. \E x \in S : \A y \in S : x >= y
  BY <1>1
<1>. QED
  BY <1>2 DEF Max

\* From epoch k on, the epoch headers E lead to epoch b.
Enters(E, k, b) ==
  \E i \in 1 .. Len(E) :
    /\ E[i] = k /\ E[Len(E)] = b - 1
    /\ \A j \in i .. Len(E) - 1 : E[j + 1] = E[j] + 1

\* A chain of epoch headers can be entered at any of its epochs.
LEMMA EnterEpochChain ==
  ASSUME NEW E \in Seq(Nat), NEW s \in Nat, NEW b \in Nat, NEW k \in Nat,
         EpochChain(E, s, b), s <= k, k < b
  PROVE  Enters(E, k, b)
<1>1. Len(E) \in Nat \ {0}
  BY DEF EpochChain
<1>0. \A j \in 1 .. Len(E) : E[j] = s + j - 1
  BY DEF EpochChain
<1>2. Len(E) \in 1 .. Len(E)
  BY <1>1
<1>3. Len(E) = b - s
  BY <1>0, <1>1, <1>2 DEF EpochChain
<1>. DEFINE i == k - s + 1
<1>4. i \in 1 .. Len(E) /\ E[i] = k
  BY <1>0, <1>1, <1>3
<1>5. ASSUME NEW j \in i .. Len(E) - 1 PROVE E[j + 1] = E[j] + 1
  <2>1. j \in 1 .. Len(E) /\ j + 1 \in 1 .. Len(E)
    BY <1>1, <1>4
  <2>. QED
    BY <1>0, <1>1, <2>1
<1>. QED
  BY <1>4, <1>5 DEF EpochChain, Enters

\* Epoch headers that reach back to an epoch at or before the one whose committee
\* is known lead on to the header's own committee.
LEMMA FollowsFromBack ==
  ASSUME NEW h \in Header, NEW e \in Nat, NEW k \in Nat,
         beacon[h.beacon].epoch \in Nat,
         ReachesBack(h, e), e <= k, k <= beacon[h.beacon].epoch
  PROVE  Follows(h, k)
<1>. DEFINE b == beacon[h.beacon].epoch
<1>1. CASE k = b
  BY <1>1 DEF Follows
<1>2. CASE k < b
  <2>1. h.epochs \in Seq(Nat)
    BY DEF Header
  <2>2. PICK s \in 0 .. e : EpochChain(h.epochs, s, b)
    BY <1>2 DEF ReachesBack
  <2>3. s \in Nat /\ s <= k
    BY <2>2
  <2>4. Enters(h.epochs, k, b)
    BY <1>2, <2>1, <2>2, <2>3, EnterEpochChain
  <2>. QED
    BY <2>4 DEF Follows, Enters
<1>. QED
  BY <1>1, <1>2

\* Only blocks of the shard that exist are cross-linked.
LEMMA LinkedExists ==
  ASSUME TypeOK, ChainInv, NEW n \in 0 .. top, NEW m \in beacon[n].links
  PROVE  m \in 0 .. shardTop
<1>1. beacon[n].links \subseteq 1 .. linked
  BY DEF ChainInv, LinksForward
<1>2. linked \in 0 .. shardTop /\ shardTop \in Nat
  BY DEF TypeOK
<1>. QED
  BY <1>1, <1>2

\* Every version of the client is at a block of the path's shard, and knows a
\* committee at least as recent as that block's epoch.
LEMMA ClientKnowsItsEpoch ==
  ASSUME TypeOK, ChainInv, ClientInv, NEW v \in 1 .. Len(clients)
  PROVE  /\ clients[v] \in Client
         /\ OwnEpoch(clients[v].height) \in Nat
         /\ OwnEpoch(clients[v].height) <= clients[v].committee
<1>1. clients[v] \in Client
  BY DEF TypeOK
<1>2. PICK n \in 0 .. top : KnownFrom(clients[v], n)
  BY DEF ClientInv
<1>3. beacon[n] \in Block
  BY DEF TypeOK
<1>6. beacon[n].epoch <= clients[v].committee
  <2>1. clients[v].committee \in Nat /\ beacon[n].epoch \in Nat
    BY <1>1, <1>3 DEF Client, Block
  <2>2. clients[v].committee \in {beacon[n].epoch, beacon[n].state}
    BY <1>2 DEF KnownFrom
  <2>3. beacon[n].state \in {NoState, beacon[n].epoch, beacon[n].epoch + 1}
    BY DEF ChainInv, EpochsForward
  <2>. QED
    BY <2>1, <2>2, <2>3 DEF NoState
<1>4. CASE ShardId = 0
  BY <1>2, <1>1, <1>3, <1>6, <1>4 DEF KnownFrom, AtBlock, OwnEpoch, Block
<1>5. CASE ShardId # 0
  <2>1. clients[v].height \in beacon[n].links
    BY <1>2, <1>5 DEF KnownFrom, AtBlock
  <2>2. clients[v].height \in 0 .. shardTop
    BY <2>1, LinkedExists
  <2>3. shard[clients[v].height] <= beacon[n].epoch
    BY <2>1 DEF ChainInv, ShardForward
  <2>4. shard[clients[v].height] \in Nat
    BY <2>2 DEF TypeOK
  <2>5. clients[v].committee \in Nat /\ beacon[n].epoch \in Nat
    BY <1>1, <1>3 DEF Client, Block
  <2>. QED
    BY <1>1, <1>6, <1>5, <2>3, <2>4, <2>5 DEF OwnEpoch
<1>. QED
  BY <1>1, <1>4, <1>5

\* The epochs of the client's versions do not decrease.
LEMMA ClientEpochsForward ==
  ASSUME TypeOK, ChainInv, ClientInv, clients # <<>>, NEW v \in 1 .. Len(clients)
  PROVE  /\ Len(clients) \in 1 .. Len(clients)
         /\ OwnEpoch(clients[v].height) <= OwnEpoch(Current.height)
<1>1. Len(clients) \in 1 .. Len(clients)
  BY DEF TypeOK
<1>2. clients[v].height <= Current.height
  BY <1>1 DEF ClientInv, Current
<1>3. PICK n \in 0 .. top : KnownFrom(clients[v], n)
  BY DEF ClientInv
<1>4. PICK m \in 0 .. top : KnownFrom(Current, m)
  BY <1>1 DEF ClientInv, Current
<1>5. clients[v] \in Client /\ Current \in Client
  BY <1>1 DEF TypeOK, Current
<1>6. CASE ShardId = 0
  <2>1. clients[v].height = n /\ Current.height = m
    BY <1>3, <1>4, <1>6 DEF KnownFrom, AtBlock
  <2>. QED
    BY <1>2, <1>6, <2>1 DEF OwnEpoch, ChainInv, EpochsForward, TypeOK, Block
<1>7. CASE ShardId # 0
  <2>0. clients[v].height \in beacon[n].links /\ Current.height \in beacon[m].links
    BY <1>3, <1>4, <1>7 DEF KnownFrom, AtBlock
  <2>1. clients[v].height \in 0 .. shardTop /\ Current.height \in 0 .. shardTop
    BY <2>0, LinkedExists
  <2>. QED
    BY <1>2, <1>7, <2>1 DEF OwnEpoch, ChainInv, ShardForward
<1>. QED
  BY <1>1, <1>6, <1>7

\* A header that is news to the client is of a later beacon block than the one
\* the client's committee comes from, so that committee is not ahead of it.
LEMMA NewsIsNotBehind ==
  ASSUME TypeOK, ChainInv, HeldInv, ClientInv, clients # <<>>,
         NEW r \in Relayers, pc[r] \in Holding,
         header[r].target > Current.height
  PROVE  /\ header[r] \in Header /\ header[r].beacon \in 0 .. top
         /\ beacon[header[r].beacon].epoch \in Nat
         /\ Current.committee <= beacon[header[r].beacon].epoch
<1>. DEFINE h == header[r]
<1>1. h \in Header /\ from[r] \in Nat /\ h.beacon \in 0 .. top /\ AtBlock(h.beacon, h.target)
  BY DEF TypeOK, HeldInv, HeldOK, Header
<1>2. beacon[h.beacon] \in Block
  BY <1>1 DEF TypeOK
<1>3. Len(clients) \in 1 .. Len(clients)
  BY DEF TypeOK
<1>4. PICK n \in 0 .. top : KnownFrom(Current, n)
  BY <1>3 DEF ClientInv, Current
<1>5. Current \in Client /\ beacon[n] \in Block
  BY <1>3 DEF TypeOK, Current
<1>6. n < h.beacon
  <2>1. CASE ShardId = 0
    BY <1>1, <1>4, <1>5, <2>1 DEF KnownFrom, AtBlock
  <2>2. CASE ShardId # 0
    <3>1. Current.height \in beacon[n].links /\ h.target \in beacon[h.beacon].links
      BY <1>1, <1>4, <2>2 DEF KnownFrom, AtBlock
    <3>2. n # h.beacon
      BY <1>1, <1>4, <1>5, <2>2, <3>1 DEF KnownFrom, AtBlock, Header, Client
    <3>3. ~ (h.beacon < n)
      <4>. SUFFICES ASSUME h.beacon < n PROVE FALSE
        OBVIOUS
      <4>1. h.target < Current.height
        BY <1>1, <3>1 DEF ChainInv, LinksForward
      <4>. QED
        BY <4>1, <1>1, <1>5 DEF Header, Client
    <3>. QED
      BY <1>1, <3>2, <3>3
  <2>. QED
    BY <2>1, <2>2
<1>7. beacon[n].epoch <= beacon[h.beacon].epoch /\ beacon[n].state <= beacon[h.beacon].epoch
  BY <1>1, <1>6 DEF ChainInv, EpochsForward
<1>. QED
  BY <1>1, <1>2, <1>4, <1>7 DEF KnownFrom, Block

-----------------------------------------------------------------------------
(* The chains grow *)

\* A step of the Harmony network: the chains are extended, nothing else changes.
Growth ==
  /\ top <= top' /\ shardTop <= shardTop'
  /\ \A n \in 0 .. top : beacon'[n] = beacon[n]
  /\ \A m \in 0 .. shardTop : shard'[m] = shard[m]
  /\ UNCHANGED <<clients, pc, height, from, header, fails>>

\* The own blocks that headers and client versions refer to exist.
LEMMA AtBlockExists ==
  ASSUME TypeOK, ChainInv, NEW n \in 0 .. top, NEW m, AtBlock(n, m)
  PROVE  IF ShardId = 0 THEN m \in 0 .. top ELSE m \in 0 .. shardTop
BY DEF TypeOK, ChainInv, LinksForward, AtBlock

LEMMA InitInv == Init => IInv
<1>. SUFFICES ASSUME Init PROVE IInv
  OBVIOUS
<1>1. TypeOK
  <2>1. beacon \in [0 .. top -> Block]
    BY DEF Init, Block
  <2>2. header \in [Relayers -> Header]
    BY DEF Init, Header, NilHeader
  <2>3. pc \in [Relayers -> PCs]
    BY DEF Init, PCs
  <2>. QED
    BY <2>1, <2>2, <2>3 DEF Init, TypeOK
<1>2. ChainInv
  BY ProverAssumption
     DEF Init, ChainInv, EpochsForward, GenesisLinksNothing, LinksForward, ShardForward, HasMax,
         TopBounded, EpochsBounded, GenesisElects
<1>3. ScanInv /\ HeldInv /\ EpochsInv
  BY DEF Init, ScanInv, ScanOK, HeldInv, HeldOK, EpochsInv, EpochsOK, Holding
<1>4. ClientInv
  BY DEF Init, ClientInv
<1>. QED
  BY <1>1, <1>2, <1>3, <1>4 DEF IInv

LEMMA GrowthKeepsRelayers ==
  ASSUME IInv, TypeOK', Growth
  PROVE  ScanInv' /\ HeldInv' /\ ClientInv' /\ EpochsInv'
<1>. USE DEF IInv
<1>1. ScanInv'
  <2>. SUFFICES ASSUME NEW r \in Relayers PROVE ScanOK(r)'
    BY DEF ScanInv
  <2>1. ScanOK(r)
    BY DEF ScanInv
  <2>2. height[r] \in Nat /\ from[r] \in Nat /\ top \in Nat /\ top' \in Nat
    BY DEF TypeOK
  <2>3. pc'[r] = pc[r] /\ height'[r] = height[r] /\ from'[r] = from[r]
    BY DEF Growth
  <2>4. Scanned(r) => Scanned(r)'
    BY <2>2, <2>3 DEF Growth, Scanned, NoLinkBetween
  <2>5. Wrapped(r) => Wrapped(r)'
    BY <2>3 DEF Wrapped
  <2>. QED
    BY <2>1, <2>3, <2>4, <2>5 DEF ScanOK
<1>2. \A n \in 0 .. top : \A m : AtBlock(n, m) => AtBlock(n, m)'
  BY DEF AtBlock, Growth
<1>3. HeldInv'
  <2>. SUFFICES ASSUME NEW r \in Relayers, pc'[r] \in Holding
                PROVE  /\ header'[r].beacon < from'[r] /\ from'[r] <= top'
                       /\ AtBlock(header[r].beacon, header[r].target)'
                       /\ IF ShardId = 0 THEN header'[r].beacon = from'[r] - 1
                          ELSE NoLinkBetween(header[r].beacon, from[r])'
    BY DEF HeldInv, HeldOK
  <2>1. /\ header[r].beacon < from[r] /\ from[r] <= top
        /\ AtBlock(header[r].beacon, header[r].target)
        /\ IF ShardId = 0 THEN header[r].beacon = from[r] - 1
           ELSE NoLinkBetween(header[r].beacon, from[r])
    BY DEF Growth, HeldInv, HeldOK
  <2>2. header[r].beacon \in Nat /\ from[r] \in Nat /\ top \in Nat /\ top' \in Nat
    BY DEF TypeOK, Header
  <2>3. header'[r] = header[r] /\ from'[r] = from[r] /\ top <= top'
    BY DEF Growth
  <2>4. AtBlock(header[r].beacon, header[r].target)'
    BY <1>2, <2>1, <2>2, <2>3
  <2>5. ShardId # 0 => NoLinkBetween(header[r].beacon, from[r])'
    BY <2>1, <2>2, <2>3 DEF NoLinkBetween, Growth
  <2>. QED
    BY <2>1, <2>2, <2>3, <2>4, <2>5
<1>4. ClientInv'
  <2>1. clients' = clients
    BY DEF Growth
  <2>2. ASSUME NEW v \in 1 .. Len(clients)
        PROVE  \E n \in 0 .. top' : KnownFrom(clients[v], n)'
    <3>1. PICK n \in 0 .. top : KnownFrom(clients[v], n)
      BY DEF ClientInv
    <3>2. n \in 0 .. top'
      BY DEF Growth, TypeOK
    <3>3. KnownFrom(clients[v], n)'
      BY <1>2, <2>1, <3>1 DEF KnownFrom, Growth
    <3>. QED
      BY <3>2, <3>3
  <2>. QED
    BY <2>1, <2>2 DEF ClientInv
<1>5. EpochsInv'
  <2>. SUFFICES ASSUME NEW r \in Relayers
                PROVE  /\ pc'[r] = "held" => header'[r].epochs = <<>>
                       /\ pc'[r] \in {"ready", "relayed", "readyAcks"} =>
                            /\ clients' # <<>>
                            /\ ReachesBack(header[r], OwnEpoch(Current.height))'
    BY DEF EpochsInv, EpochsOK
  <2>1. /\ pc'[r] = pc[r] /\ header'[r] = header[r] /\ clients' = clients
        /\ Current' = Current
    BY DEF Growth, Current
  <2>2. pc[r] = "held" => header[r].epochs = <<>>
    BY DEF EpochsInv, EpochsOK
  <2>3. ASSUME pc[r] \in {"ready", "relayed", "readyAcks"}
        PROVE  clients # <<>> /\ ReachesBack(header[r], OwnEpoch(Current.height))'
    <3>1. clients # <<>> /\ ReachesBack(header[r], OwnEpoch(Current.height))
      BY <2>3 DEF EpochsInv, EpochsOK
    <3>2. Len(clients) \in 1 .. Len(clients)
      BY <3>1 DEF TypeOK
    <3>3. PICK n \in 0 .. top : AtBlock(n, Current.height)
      BY <3>2 DEF ClientInv, KnownFrom, Current
    <3>4. OwnEpoch(Current.height)' = OwnEpoch(Current.height)
      BY <2>1, <3>3, AtBlockExists DEF OwnEpoch, Growth
    <3>5. header[r].beacon \in 0 .. top
      <4>1. pc[r] \in Holding
        BY <2>3 DEF Holding
      <4>2. header[r].beacon < from[r] /\ from[r] <= top
        BY <4>1 DEF HeldInv, HeldOK
      <4>3. header[r] \in Header /\ from[r] \in Nat /\ top \in Nat
        BY DEF TypeOK
      <4>4. header[r].beacon \in Nat
        BY <4>3 DEF Header
      <4>. QED
        BY <4>2, <4>3, <4>4
    <3>6. beacon'[header[r].beacon] = beacon[header[r].beacon]
      BY <3>5 DEF Growth
    <3>. QED
      BY <2>1, <3>1, <3>4, <3>6 DEF ReachesBack
  <2>. QED
    BY <2>1, <2>2, <2>3
<1>. QED
  BY <1>1, <1>3, <1>4, <1>5

LEMMA MineShardKeeps ==
  ASSUME IInv, MineShard
  PROVE  TypeOK' /\ ChainInv' /\ Growth
<1>. USE DEF IInv
<1>1. PICK e \in {shard[shardTop], shard[shardTop] + 1} :
        e <= beacon[top].epoch /\ shard' = Extend(shard, shardTop + 1, e)
  BY DEF MineShard
<1>2. shardTop \in Nat /\ shard \in [0 .. shardTop -> Nat] /\ e \in Nat
  BY <1>1 DEF TypeOK
<1>3. /\ shard' \in [0 .. shardTop + 1 -> Nat]
      /\ \A m \in 0 .. shardTop : shard'[m] = shard[m]
      /\ shard'[shardTop + 1] = e
  BY <1>1, <1>2 DEF Extend
<1>4. /\ shardTop' = shardTop + 1
      /\ UNCHANGED <<top, beacon, linked, clients, pc, height, from, header, fails>>
  BY DEF MineShard
<1>5. TypeOK'
  BY <1>2, <1>3, <1>4 DEF TypeOK
<1>6. Growth
  BY <1>2, <1>3, <1>4 DEF Growth, TypeOK
<1>7. /\ EpochsForward' /\ GenesisLinksNothing' /\ LinksForward'
      /\ TopBounded' /\ EpochsBounded' /\ GenesisElects'
  BY <1>4 DEF ChainInv, EpochsForward, GenesisLinksNothing, LinksForward,
              TopBounded, EpochsBounded, GenesisElects
<1>8. ShardForward'
  <2>1. \A m \in 0 .. shardTop : shard[m] \in Nat /\ shard[m] <= shard[shardTop]
    BY <1>2 DEF ChainInv, ShardForward
  <2>2. shard[shardTop] <= e /\ \A m \in 0 .. shardTop : shard[m] <= e
    BY <1>1, <1>2, <2>1
  <2>3. \A i, j \in 0 .. shardTop + 1 : i <= j => shard'[i] <= shard'[j]
    <3>. SUFFICES ASSUME NEW i \in 0 .. shardTop + 1, NEW j \in 0 .. shardTop + 1, i <= j
                  PROVE  shard'[i] <= shard'[j]
      OBVIOUS
    <3>1. CASE j = shardTop + 1 /\ i = j
      BY <1>2, <1>3, <3>1
    <3>2. CASE j = shardTop + 1 /\ i # j
      BY <1>2, <1>3, <2>2, <3>2
    <3>3. CASE j # shardTop + 1
      BY <1>2, <1>3, <3>3 DEF ChainInv, ShardForward
    <3>. QED
      BY <3>1, <3>2, <3>3
  <2>4. \A m \in 0 .. shardTop + 1 : shard'[m] <= beacon[top].epoch
    <3>. SUFFICES ASSUME NEW m \in 0 .. shardTop + 1
                  PROVE  shard'[m] <= beacon[top].epoch
      OBVIOUS
    <3>1. CASE m = shardTop + 1
      BY <1>1, <1>3, <3>1
    <3>2. CASE m # shardTop + 1
      BY <1>2, <1>3, <3>2 DEF ChainInv, ShardForward
    <3>. QED
      BY <3>1, <3>2
  <2>5. ASSUME NEW n \in 0 .. top, NEW m \in beacon[n].links
        PROVE  shard'[m] <= beacon[n].epoch
    <3>1. m \in 0 .. shardTop
      BY DEF ChainInv, LinksForward, TypeOK
    <3>. QED
      BY <1>3, <3>1 DEF ChainInv, ShardForward
  <2>. QED
    BY <1>4, <2>3, <2>4, <2>5 DEF ShardForward
<1>. QED
  BY <1>5, <1>6, <1>7, <1>8 DEF ChainInv

LEMMA MineBeaconKeeps ==
  ASSUME IInv, MineBeacon
  PROVE  TypeOK' /\ ChainInv' /\ Growth
<1>. USE DEF IInv
<1>. DEFINE e == IF IsEpochLast(beacon[top]) THEN beacon[top].epoch + 1
                 ELSE beacon[top].epoch
<1>0. top \in Nat /\ beacon \in [0 .. top -> Block] /\ linked \in 0 .. shardTop /\ shardTop \in Nat
  BY DEF TypeOK
<1>1. beacon[top] \in Block
  BY <1>0
<1>2. beacon[top].epoch \in Nat /\ beacon[top].root \in Nat /\ e \in Nat
  BY <1>1 DEF Block
<1>3. PICK s \in {NoState, e + 1}, m \in linked .. shardTop, root \in Nat :
        /\ beacon' = Extend(beacon, top + 1,
             [epoch |-> e, state |-> s, links |-> (linked + 1) .. m, root |-> root])
        /\ linked' = m
  BY <1>0, <1>2 DEF MineBeacon
<1>. DEFINE b == [epoch |-> e, state |-> s, links |-> (linked + 1) .. m, root |-> root]
<1>4. b \in Block
  BY <1>0, <1>2, <1>3 DEF Block
<1>. HIDE DEF e
<1>4a. beacon' = Extend(beacon, top + 1, b)
  BY <1>3
<1>5. b.epoch = e /\ b.state = s /\ b.links = (linked + 1) .. m
  OBVIOUS
<1>. HIDE DEF b
<1>6. /\ beacon' \in [0 .. top + 1 -> Block]
      /\ \A n \in 0 .. top : beacon'[n] = beacon[n]
      /\ beacon'[top + 1] = b
  BY <1>0, <1>4, <1>4a DEF Extend
<1>7. /\ top' = top + 1 /\ linked' = m
      /\ UNCHANGED <<shardTop, shard, clients, pc, height, from, header, fails>>
  BY <1>3 DEF MineBeacon
<1>8. TypeOK'
  BY <1>0, <1>3, <1>6, <1>7 DEF TypeOK
<1>9. Growth
  BY <1>0, <1>6, <1>7 DEF Growth
<1>10. \A n \in 0 .. top : /\ beacon[n] \in Block
                           /\ beacon[n].epoch <= e /\ beacon[n].state <= e
  <2>. SUFFICES ASSUME NEW n \in 0 .. top
                PROVE  beacon[n].epoch <= e /\ beacon[n].state <= e
    BY <1>0
  <2>1. beacon[n] \in Block
    BY <1>0
  <2>2. CASE n = top
    BY <1>1, <1>2, <2>2 DEF e, IsEpochLast, ChainInv, EpochsForward, NoState
  <2>3. CASE n < top
    <3>1. beacon[n].epoch <= beacon[top].epoch /\ beacon[n].state <= beacon[top].epoch
      BY <1>0, <2>3 DEF ChainInv, EpochsForward
    <3>2. beacon[top].epoch <= e
      BY <1>2 DEF e
    <3>. QED
      BY <1>2, <2>1, <3>1, <3>2 DEF Block, NoState
  <2>. QED
    BY <1>0, <2>2, <2>3
<1>11. EpochsForward'
  <2>1. ASSUME NEW n \in 0 .. top + 1
        PROVE  beacon'[n].state \in {NoState, beacon'[n].epoch, beacon'[n].epoch + 1}
    BY <1>0, <1>3, <1>5, <1>6 DEF ChainInv, EpochsForward
  <2>2. ASSUME NEW i \in 0 .. top + 1, NEW j \in 0 .. top + 1, i < j
        PROVE  /\ beacon'[i].epoch <= beacon'[j].epoch
               /\ beacon'[i].state <= beacon'[j].epoch
    <3>1. i \in 0 .. top /\ beacon'[i] = beacon[i]
      BY <1>0, <1>6, <2>2
    <3>2. CASE j = top + 1
      BY <1>5, <1>6, <1>10, <3>1, <3>2
    <3>3. CASE j # top + 1
      BY <1>0, <1>6, <2>2, <3>1, <3>3 DEF ChainInv, EpochsForward
    <3>. QED
      BY <3>2, <3>3
  <2>. QED
    BY <1>7, <2>1, <2>2 DEF EpochsForward
<1>12. \A n \in 0 .. top : beacon[n].links \subseteq 1 .. linked
  BY DEF ChainInv, LinksForward
<1>13. b.links = {} \/ HasMax(b.links)
  <2>1. CASE linked = m
    BY <1>0, <1>5, <2>1
  <2>2. CASE linked # m
    <3>1. m \in b.links /\ \A x \in b.links : x <= m
      BY <1>0, <1>3, <1>5, <2>2
    <3>. QED
      BY <3>1 DEF HasMax
  <2>. QED
    BY <2>1, <2>2
<1>14. LinksForward'
  <2>1. ASSUME NEW n \in 0 .. top + 1
        PROVE  /\ beacon'[n].links \subseteq 1 .. m
               /\ beacon'[n].links = {} \/ HasMax(beacon'[n].links)
    <3>1. CASE n = top + 1
      <4>1. b.links \subseteq 1 .. m
        BY <1>0, <1>3, <1>5
      <4>. QED
        BY <1>6, <1>13, <3>1, <4>1
    <3>2. CASE n # top + 1
      <4>1. n \in 0 .. top /\ beacon'[n] = beacon[n]
        BY <1>0, <1>6, <3>2
      <4>2. beacon[n].links \subseteq 1 .. m
        BY <1>0, <1>3, <1>12, <4>1
      <4>3. beacon[n].links = {} \/ HasMax(beacon[n].links)
        BY <4>1 DEF ChainInv, LinksForward
      <4>. QED
        BY <4>1, <4>2, <4>3
    <3>. QED
      BY <3>1, <3>2
  <2>2. ASSUME NEW i \in 0 .. top + 1, NEW j \in 0 .. top + 1, i < j,
               NEW x \in beacon'[i].links, NEW y \in beacon'[j].links
        PROVE  x < y
    <3>1. i \in 0 .. top /\ beacon'[i] = beacon[i]
      BY <1>0, <1>6, <2>2
    <3>2. CASE j = top + 1
      BY <1>0, <1>3, <1>5, <1>6, <1>12, <3>1, <3>2
    <3>3. CASE j # top + 1
      BY <1>0, <1>6, <2>2, <3>1, <3>3 DEF ChainInv, LinksForward
    <3>. QED
      BY <3>2, <3>3
  <2>. QED
    BY <1>7, <2>1, <2>2 DEF LinksForward, HasMax
<1>15. ShardForward'
  <2>1. \A k \in 0 .. shardTop : shard[k] <= e
    <3>1. \A k \in 0 .. shardTop : shard[k] \in Nat /\ shard[k] <= beacon[top].epoch
      BY DEF ChainInv, ShardForward, TypeOK
    <3>2. beacon[top].epoch <= e
      BY <1>2 DEF e
    <3>. QED
      BY <1>2, <3>1, <3>2
  <2>2. ASSUME NEW n \in 0 .. top + 1, NEW k \in beacon'[n].links
        PROVE  shard[k] <= beacon'[n].epoch
    <3>1. CASE n = top + 1
      <4>1. k \in 0 .. shardTop
        BY <1>0, <1>3, <1>5, <1>6, <3>1
      <4>. QED
        BY <1>5, <1>6, <2>1, <3>1, <4>1
    <3>2. CASE n # top + 1
      BY <1>0, <1>6, <3>2 DEF ChainInv, ShardForward
    <3>. QED
      BY <3>1, <3>2
  <2>3. /\ \A i, j \in 0 .. shardTop : i <= j => shard[i] <= shard[j]
        /\ beacon'[top + 1].epoch = e
    BY <1>5, <1>6 DEF ChainInv, ShardForward
  <2>. QED
    BY <1>7, <2>1, <2>2, <2>3 DEF ShardForward
<1>16. GenesisLinksNothing'
  BY <1>0, <1>6 DEF ChainInv, GenesisLinksNothing
<1>17. TopBounded' /\ GenesisElects'
  <2>1. top < MaxBeacon /\ top \in Nat /\ MaxBeacon \in Nat
    BY <1>0, ProverAssumption DEF MineBeacon
  <2>. QED
    BY <1>0, <1>6, <1>7, <2>1 DEF TopBounded, ChainInv, GenesisElects
<1>18. EpochsBounded'
  <2>1. e <= top + 1
    BY <1>0, <1>2 DEF e, ChainInv, EpochsBounded
  <2>2. ASSUME NEW n \in 0 .. top + 1 PROVE beacon'[n].epoch <= n
    <3>1. CASE n = top + 1
      BY <1>5, <1>6, <2>1, <3>1
    <3>2. CASE n # top + 1
      BY <1>0, <1>6, <3>2 DEF ChainInv, EpochsBounded
    <3>. QED
      BY <3>1, <3>2
  <2>. QED
    BY <1>7, <2>2 DEF EpochsBounded
<1>. QED
  BY <1>8, <1>9, <1>11, <1>14, <1>15, <1>16, <1>17, <1>18 DEF ChainInv

-----------------------------------------------------------------------------
(* A relayer takes a step *)

\* The other processes do not move.
OthersStay(r) ==
  \A s \in Relayers \ {r} :
    pc'[s] = pc[s] /\ height'[s] = height[s] /\ from'[s] = from[s] /\ header'[s] = header[s]

\* The newest version of the client is not replaced by one of an older epoch.
ClientForward ==
  clients # <<>> =>
    /\ clients' # <<>> /\ OwnEpoch(Current.height)' \in Nat
    /\ OwnEpoch(Current.height) <= OwnEpoch(Current.height)'

\* What is left to show of a step of relayer r that leaves the chains alone.
LEMMA RelayerStepKeeps ==
  ASSUME IInv, NEW r \in Relayers, UNCHANGED chainVars, OthersStay(r),
         TypeOK', ClientInv', ClientForward, ScanOK(r)', HeldOK(r)', EpochsOK(r)'
  PROVE  IInv'
<1>. USE DEF IInv
<1>1. ChainInv'
  BY DEF chainVars, ChainInv, EpochsForward, GenesisLinksNothing, LinksForward,
         ShardForward, TopBounded, EpochsBounded, GenesisElects
<1>. SUFFICES ASSUME NEW s \in Relayers, s # r
              PROVE  ScanOK(s)' /\ HeldOK(s)' /\ EpochsOK(s)'
  BY <1>1 DEF ScanInv, HeldInv, EpochsInv
<1>2. /\ pc'[s] = pc[s] /\ height'[s] = height[s] /\ from'[s] = from[s]
      /\ header'[s] = header[s]
  BY DEF OthersStay
<1>3. ScanOK(s)'
  BY <1>2 DEF ScanInv, ScanOK, Scanned, Wrapped, NoLinkBetween, chainVars
<1>4. HeldOK(s)'
  BY <1>2 DEF HeldInv, HeldOK, NoLinkBetween, AtBlock, chainVars
<1>5. EpochsOK(s)'
  <2>1. pc[s] = "held" => header[s].epochs = <<>>
    BY DEF EpochsInv, EpochsOK
  <2>2. ASSUME pc[s] \in {"ready", "relayed", "readyAcks"}
        PROVE  clients' # <<>> /\ ReachesBack(header[s], OwnEpoch(Current.height))'
    <3>1. clients # <<>> /\ ReachesBack(header[s], OwnEpoch(Current.height))
      BY <2>2 DEF EpochsInv, EpochsOK
    <3>2. /\ clients' # <<>> /\ OwnEpoch(Current.height)' \in Nat
          /\ OwnEpoch(Current.height) <= OwnEpoch(Current.height)'
      BY <3>1 DEF ClientForward
    <3>3. Len(clients) \in 1 .. Len(clients)
      BY <3>1 DEF TypeOK
    <3>4. OwnEpoch(Current.height) \in Nat
      BY <3>3, ClientKnowsItsEpoch DEF Current
    <3>6. header[s].beacon \in 0 .. top
      <4>1. pc[s] \in Holding
        BY <2>2 DEF Holding
      <4>2. header[s].beacon < from[s] /\ from[s] <= top
        BY <4>1 DEF HeldInv, HeldOK
      <4>3. header[s].beacon \in Nat /\ from[s] \in Nat /\ top \in Nat
        <5>1. header[s] \in Header /\ from[s] \in Nat /\ top \in Nat
          BY DEF TypeOK
        <5>. QED
          BY <5>1 DEF Header
      <4>. QED
        BY <4>2, <4>3
    <3>7. beacon[header[s].beacon].epoch \in Nat
      BY <3>6 DEF TypeOK, Block
    <3>8. header'[s] = header[s] /\ beacon' = beacon
      BY <1>2 DEF chainVars
    <3>. DEFINE e == OwnEpoch(Current.height)
                f == OwnEpoch(Current.height)'
    <3>9. e \in Nat /\ f \in Nat /\ e <= f /\ ReachesBack(header[s], e)
      BY <3>1, <3>2, <3>4
    <3>. HIDE DEF e, f
    <3>10. 0 .. e \subseteq 0 .. f
      BY <3>9
    <3>11. \/ header'[s].epochs = <<>> /\ beacon'[header'[s].beacon].epoch <= f
           \/ \E x \in 0 .. f : EpochChain(header'[s].epochs, x, beacon'[header'[s].beacon].epoch)
      BY <3>7, <3>8, <3>9, <3>10 DEF ReachesBack
    <3>. QED
      BY <3>2, <3>11 DEF ReachesBack, f
  <2>. QED
    BY <1>2, <2>1, <2>2 DEF EpochsOK
<1>. QED
  BY <1>3, <1>4, <1>5

LEMMA SameClientKeeps ==
  ASSUME IInv, UNCHANGED chainVars, UNCHANGED clients
  PROVE  ClientInv' /\ ClientForward
<1>. USE DEF IInv
<1>1. ClientInv'
  BY DEF ClientInv, KnownFrom, AtBlock, chainVars
<1>2. ASSUME clients # <<>> PROVE OwnEpoch(Current.height) \in Nat
  <2>1. Len(clients) \in 1 .. Len(clients)
    BY <1>2 DEF TypeOK
  <2>. QED
    BY <2>1, ClientKnowsItsEpoch DEF Current
<1>3. OwnEpoch(Current.height)' = OwnEpoch(Current.height)
  BY DEF OwnEpoch, Current, chainVars
<1>. QED
  BY <1>1, <1>2, <1>3 DEF ClientForward

\* A process that has dropped its header has nothing to show.
LEMMA DropKeeps ==
  ASSUME IInv, NEW r \in Relayers, Drop(r), UNCHANGED chainVars,
         clients' \in Seq(Client), fails' \in Nat, ClientInv', ClientForward
  PROVE  IInv'
<1>. USE DEF IInv
<1>1. TypeOK'
  <2>1. NilHeader \in Header
    BY DEF NilHeader, Header
  <2>2. header' \in [Relayers -> Header] /\ pc' \in [Relayers -> PCs]
    BY <2>1 DEF TypeOK, Drop, Hold, Goto, PCs
  <2>3. height' \in [Relayers -> Nat] /\ from' \in [Relayers -> Nat]
    BY DEF TypeOK, Drop
  <2>. QED
    BY <2>2, <2>3 DEF TypeOK, chainVars
<1>2. OthersStay(r)
  BY DEF TypeOK, OthersStay, Drop, Hold, Goto
<1>3. pc'[r] = "idle"
  BY DEF TypeOK, Drop, Goto
<1>4. ScanOK(r)' /\ HeldOK(r)' /\ EpochsOK(r)'
  BY <1>3 DEF ScanOK, HeldOK, EpochsOK, Holding
<1>. QED
  BY <1>1, <1>2, <1>4, RelayerStepKeeps

LEMMA QueryLatestHeaderKeeps ==
  ASSUME IInv, NEW r \in Relayers, QueryLatestHeader(r)
  PROVE  IInv'
<1>. USE DEF IInv
<1>1. CASE QueryLatestHeaderForBeacon(r)
  <2>. DEFINE h == [beacon |-> top - 1, target |-> top - 1, epochs |-> <<>>]
  <2>0. top \in Nat /\ top > 0 /\ Before(top) = top - 1
    <3>1. top \in Nat /\ top < MaxUint64
      BY ProverAssumption DEF TypeOK, ChainInv, TopBounded
    <3>2. Before(top) <= top
      BY <1>1 DEF QueryLatestHeaderForBeacon
    <3>. QED
      BY <3>1, <3>2, ProverAssumption DEF Before
  <2>1. /\ ShardId = 0 /\ top > 0 /\ top \in Nat /\ UNCHANGED <<chainVars, clients, height, fails>>
        /\ pc' = [pc EXCEPT ![r] = "held"] /\ from' = [from EXCEPT ![r] = top]
        /\ header' = [header EXCEPT ![r] = h]
    BY <1>1, <2>0 DEF QueryLatestHeaderForBeacon, Goto, Hold
  <2>2. h \in Header /\ h.beacon = top - 1 /\ h.target = top - 1 /\ h.epochs = <<>>
    BY <2>1 DEF Header
  <2>. HIDE DEF h
  <2>3. /\ pc'[r] = "held" /\ from'[r] = top /\ header'[r] = h /\ OthersStay(r)
    BY <2>1 DEF TypeOK, OthersStay
  <2>4. TypeOK'
    BY <2>1, <2>2 DEF TypeOK, chainVars, PCs
  <2>5. ScanOK(r)' /\ EpochsOK(r)'
    BY <2>2, <2>3 DEF ScanOK, EpochsOK
  <2>6. HeldOK(r)'
    BY <2>1, <2>2, <2>3 DEF HeldOK, AtBlock, chainVars
  <2>. QED
    BY <2>1, <2>3, <2>4, <2>5, <2>6, SameClientKeeps, RelayerStepKeeps
<1>2. CASE QueryLatestHeaderForShard(r)
  <2>1. /\ ShardId > 0 /\ top \in Nat /\ UNCHANGED <<chainVars, clients, header, fails>>
        /\ pc' = [pc EXCEPT ![r] = "scan"] /\ from' = [from EXCEPT ![r] = top]
        /\ height' = [height EXCEPT ![r] = Before(top)]
    BY <1>2 DEF QueryLatestHeaderForShard, Goto, TypeOK
  <2>2. /\ pc'[r] = "scan" /\ from'[r] = top /\ height'[r] = Before(top) /\ OthersStay(r)
    BY <2>1 DEF TypeOK, OthersStay
  <2>6. Before(top) \in Nat
    BY <2>1, ProverAssumption DEF Before
  <2>3. TypeOK'
    BY <2>1, <2>6 DEF TypeOK, chainVars, PCs
  <2>4. HeldOK(r)' /\ EpochsOK(r)'
    BY <2>2 DEF HeldOK, EpochsOK, Holding
  <2>5. ScanOK(r)'
    <3>1. CASE top > 0
      BY <2>1, <2>2, <3>1 DEF ScanOK, Scanned, Before, NoLinkBetween, chainVars
    <3>2. CASE top = 0
      BY <2>1, <2>2, <3>2 DEF ScanOK, Wrapped, Before
    <3>. QED
      BY <2>1, <3>1, <3>2
  <2>. QED
    BY <2>1, <2>2, <2>3, <2>4, <2>5, SameClientKeeps, RelayerStepKeeps
<1>. QED
  BY <1>1, <1>2 DEF QueryLatestHeader

\* A scan that is at a block of the chain, or has left the loop, did not wrap.
LEMMA ScanIsOnChain ==
  ASSUME IInv, NEW r \in Relayers, pc[r] = "scan", height[r] <= top
  PROVE  /\ ShardId > 0 /\ height[r] < from[r] /\ from[r] <= top
         /\ NoLinkBetween(height[r], from[r])
<1>1. ShardId > 0 /\ (Scanned(r) \/ Wrapped(r))
  BY DEF IInv, ScanInv, ScanOK
<1>2. top \in Nat /\ top < MaxUint64
  BY ProverAssumption DEF IInv, TypeOK, ChainInv, TopBounded
<1>3. ~ Wrapped(r)
  BY <1>2, ProverAssumption DEF Wrapped
<1>. QED
  BY <1>1, <1>3 DEF Scanned

LEMMA ScanDownKeeps ==
  ASSUME IInv, NEW r \in Relayers, ScanDown(r)
  PROVE  IInv'
<1>. USE DEF IInv
<1>1. /\ pc[r] = "scan" /\ height[r] \in Nat /\ height[r] > 0 /\ from[r] \in Nat
      /\ height[r] <= top
      /\ beacon[height[r]].links = {}
      /\ UNCHANGED <<chainVars, clients, pc, from, header, fails>>
      /\ height' = [height EXCEPT ![r] = height[r] - 1]
  BY DEF ScanDown, TypeOK
<1>2. height'[r] = height[r] - 1 /\ OthersStay(r)
  BY <1>1 DEF TypeOK, OthersStay
<1>3. TypeOK'
  BY <1>1 DEF TypeOK, chainVars
<1>4. HeldOK(r)' /\ EpochsOK(r)'
  BY <1>1 DEF HeldOK, EpochsOK, Holding
<1>5. ScanOK(r)'
  <2>1. /\ ShardId > 0 /\ height[r] < from[r] /\ from[r] <= top
        /\ NoLinkBetween(height[r], from[r])
    BY <1>1, ScanIsOnChain
  <2>2. NoLinkBetween(height[r] - 1, from[r])
    BY <1>1, <2>1 DEF NoLinkBetween
  <2>. QED
    BY <1>1, <1>2, <2>1, <2>2 DEF ScanOK, Scanned, NoLinkBetween, chainVars
<1>. QED
  BY <1>1, <1>2, <1>3, <1>4, <1>5, SameClientKeeps, RelayerStepKeeps

LEMMA ScanFoundKeeps ==
  ASSUME IInv, NEW r \in Relayers, ScanFound(r)
  PROVE  IInv'
<1>. USE DEF IInv
<1>. DEFINE n == height[r]
            h == [beacon |-> n, target |-> LatestLink(beacon[n]), epochs |-> <<>>]
<1>1. /\ pc[r] = "scan" /\ n \in Nat /\ n > 0 /\ n <= top /\ from[r] \in Nat /\ top \in Nat
      /\ beacon[n].links # {}
      /\ UNCHANGED <<chainVars, clients, from, fails>>
      /\ height' = [height EXCEPT ![r] = 0] /\ pc' = [pc EXCEPT ![r] = "held"]
      /\ header' = [header EXCEPT ![r] = h]
  BY DEF ScanFound, TypeOK, Goto, Hold
<1>2. /\ ShardId > 0 /\ n < from[r] /\ from[r] <= top /\ NoLinkBetween(n, from[r])
  BY <1>1, ScanIsOnChain
<1>3. n \in 0 .. top
  BY <1>1, <1>2
<1>4. beacon[n].links \in SUBSET Nat /\ HasMax(beacon[n].links)
  BY <1>1, <1>3 DEF ChainInv, LinksForward, TypeOK, Block
<1>5. /\ LatestLink(beacon[n]) \in beacon[n].links
      /\ \A x \in beacon[n].links : x <= LatestLink(beacon[n])
  BY <1>4, MaxIsGreatest DEF LatestLink
<1>6. h \in Header /\ h.beacon = n /\ h.target = LatestLink(beacon[n]) /\ h.epochs = <<>>
  BY <1>1, <1>4, <1>5 DEF Header
<1>. HIDE DEF h
<1>7. /\ pc'[r] = "held" /\ header'[r] = h /\ from'[r] = from[r] /\ OthersStay(r)
  BY <1>1 DEF TypeOK, OthersStay
<1>8. TypeOK'
  BY <1>1, <1>6 DEF TypeOK, chainVars, PCs
<1>9. ScanOK(r)' /\ EpochsOK(r)'
  BY <1>6, <1>7 DEF ScanOK, EpochsOK
<1>10. AtBlock(h.beacon, h.target)
  BY <1>2, <1>5, <1>6 DEF AtBlock
<1>11. HeldOK(r)'
  BY <1>1, <1>2, <1>6, <1>7, <1>10 DEF HeldOK, AtBlock, NoLinkBetween, chainVars
<1>. QED
  BY <1>1, <1>7, <1>8, <1>9, <1>11, SameClientKeeps, RelayerStepKeeps

LEMMA ScanExhaustedKeeps ==
  ASSUME IInv, NEW r \in Relayers, ScanExhausted(r)
  PROVE  IInv'
<1>. USE DEF IInv
<1>1. /\ pc[r] = "scan" /\ height[r] = 0
      /\ UNCHANGED <<chainVars, clients, height, from, header, fails>>
      /\ pc' = [pc EXCEPT ![r] = "panicked"]
  BY DEF ScanExhausted, Goto
<1>2. pc'[r] = "panicked" /\ OthersStay(r)
  BY <1>1 DEF TypeOK, OthersStay
<1>3. TypeOK'
  BY <1>1 DEF TypeOK, chainVars, PCs
<1>4. HeldOK(r)' /\ EpochsOK(r)'
  BY <1>2 DEF HeldOK, EpochsOK, Holding
<1>5. ScanOK(r)'
  <2>1. /\ ShardId > 0 /\ height[r] < from[r] /\ from[r] <= top
        /\ NoLinkBetween(height[r], from[r])
    BY <1>1, ScanIsOnChain DEF TypeOK
  <2>. QED
    BY <1>1, <1>2, <2>1 DEF ScanOK, Scanned, NoLinkBetween, chainVars
<1>. QED
  BY <1>1, <1>2, <1>3, <1>4, <1>5, SameClientKeeps, RelayerStepKeeps

\* What is known of the header a process holds.
LEMMA HeldHeader ==
  ASSUME IInv, NEW r \in Relayers, pc[r] \in Holding
  PROVE  /\ header[r] \in Header /\ from[r] \in Nat
         /\ header[r].beacon \in 0 .. top /\ beacon[header[r].beacon] \in Block
         /\ AtBlock(header[r].beacon, header[r].target)
<1>. USE DEF IInv
<1>1. header[r] \in Header /\ from[r] \in Nat /\ top \in Nat
  BY DEF TypeOK
<1>2. header[r].beacon \in Nat /\ header[r].target \in Nat
  BY <1>1 DEF Header
<1>3. /\ header[r].beacon < from[r] /\ from[r] <= top
      /\ AtBlock(header[r].beacon, header[r].target)
  BY DEF HeldInv, HeldOK
<1>4. header[r].beacon \in 0 .. top
  BY <1>1, <1>2, <1>3
<1>5. beacon[header[r].beacon] \in Block
  BY <1>4 DEF TypeOK
<1>. QED
  BY <1>1, <1>3, <1>4, <1>5

\* The committee that CreateMsgCreateClient finds is that of the epoch of the
\* held beacon block or, if that block elects one, the next.
LEMMA CommitteeFound ==
  ASSUME IInv, NEW h \in Header, h.beacon \in 0 .. top,
         NEW n \in CommitteeBlocks(h), n < top
  PROVE  /\ n \in 0 .. top /\ beacon[n].state \in Nat
         /\ beacon[n].state \in {beacon[h.beacon].epoch, beacon[h.beacon].state}
<1>. USE DEF IInv
<1>1. beacon[h.beacon] \in Block /\ top \in Nat
  BY DEF TypeOK
<1>2. CASE beacon[h.beacon].state # NoState
  BY <1>1, <1>2 DEF CommitteeBlocks, Block
<1>3. CASE beacon[h.beacon].state = NoState
  <2>. DEFINE e == beacon[h.beacon].epoch
              prev == Before(e)
  <2>1. e \in Nat /\ n \in EpochLastBlockNumber(prev)
    BY <1>1, <1>3 DEF CommitteeBlocks, Block
  <2>2. CASE prev = MaxUint64
    <3>1. n = 0
      BY <2>1, <2>2 DEF EpochLastBlockNumber
    <3>2. e = 0
      <4>1. e <= top
        <5>1. e <= h.beacon
          BY DEF ChainInv, EpochsBounded
        <5>. QED
          BY <1>1, <2>1, <5>1
      <4>2. top < MaxUint64
        BY <1>1, ProverAssumption DEF ChainInv, TopBounded
      <4>. QED
        BY <1>1, <2>1, <2>2, <4>1, <4>2, ProverAssumption DEF Before
    <3>. QED
      BY <1>1, <3>1, <3>2 DEF ChainInv, GenesisElects
  <2>3. CASE prev # MaxUint64
    <3>1. n = EpochLastBlock(prev) /\ EpochLastKnown(prev)
      BY <1>1, <2>1, <2>3 DEF EpochLastBlockNumber
    <3>2. n \in 0 .. top - 1 /\ beacon[n].epoch = prev /\ IsEpochLast(beacon[n])
      BY <3>1 DEF EpochLastBlock, EpochLastKnown
    <3>3. prev = e - 1
      BY <2>1, <2>3 DEF Before
    <3>4. beacon[n].state = e
      BY <2>1, <3>2, <3>3 DEF IsEpochLast
    <3>. QED
      BY <1>1, <2>1, <3>2, <3>4
  <2>. QED
    BY <2>2, <2>3
<1>. QED
  BY <1>2, <1>3

LEMMA CreateClientKeeps ==
  ASSUME IInv, NEW r \in Relayers, CreateClient(r)
  PROVE  IInv'
<1>. USE DEF IInv
<1>. DEFINE h == header[r]
<1>0. PICK cb \in CommitteeBlocks(h) : CanCreate(h, cb) /\ clients' = <<NewClient(h, cb)>>
  BY DEF CreateClient
<1>. DEFINE cs == NewClient(h, cb)
<1>1. /\ pc[r] = "held" /\ clients = <<>> /\ clients' = <<cs>>
      /\ Drop(r) /\ UNCHANGED <<chainVars, fails>>
  BY <1>0 DEF CreateClient
<1>2. /\ h \in Header /\ h.beacon \in 0 .. top /\ beacon[h.beacon] \in Block
      /\ AtBlock(h.beacon, h.target)
  BY <1>1, HeldHeader DEF Holding
<1>3. /\ cb \in 0 .. top /\ beacon[cb].state \in Nat
      /\ beacon[cb].state \in {beacon[h.beacon].epoch, beacon[h.beacon].state}
  <2>1. cb < top
    BY <1>0 DEF CanCreate
  <2>. QED
    BY <1>2, <2>1, CommitteeFound
<1>4. cs.height = CreateTarget(h, cb) /\ cs.committee = beacon[cb].state
  BY DEF NewClient
<1>5. cs \in Client
  <2>1. CreateTarget(h, cb) \in Nat
    BY <1>2, <1>3 DEF CreateTarget, Header
  <2>. QED
    BY <1>3, <2>1 DEF NewClient, Client
<1>6. \E n \in 0 .. top : KnownFrom(cs, n)
  <2>1. CASE ShardId = 0
    <3>1. cs.height = cb
      BY <1>4, <2>1 DEF CreateTarget
    <3>. QED
      BY <1>3, <1>4, <2>1, <3>1 DEF KnownFrom, AtBlock
  <2>2. CASE ShardId # 0
    <3>1. cs.height = h.target
      BY <1>4, <2>2, ProverAssumption DEF CreateTarget
    <3>. QED
      BY <1>2, <1>3, <1>4, <2>2, <3>1 DEF KnownFrom
  <2>. QED
    BY <2>1, <2>2
<1>. HIDE DEF cs
<1>8. clients' \in Seq(Client) /\ Len(clients') = 1 /\ clients'[1] = cs
  BY <1>1, <1>5
<1>9. ClientInv'
  <2>2. PICK n \in 0 .. top : KnownFrom(cs, n)
    BY <1>6
  <2>4. /\ beacon' = beacon /\ top' = top
        /\ \A v \in 1 .. Len(clients') : v = 1
    BY <1>1, <1>8 DEF chainVars
  <2>5. KnownFrom(clients[1], n)'
    BY <1>8, <2>2, <2>4 DEF KnownFrom, AtBlock
  <2>7. clients'[1].height <= clients'[1].height
    BY <1>5, <1>8 DEF Client
  <2>. QED
    BY <2>4, <2>5, <2>7 DEF ClientInv
<1>10. ClientForward
  BY <1>1 DEF ClientForward
<1>. QED
  BY <1>1, <1>8, <1>9, <1>10, DropKeeps DEF TypeOK

LEMMA EndOfCommandKeeps ==
  ASSUME IInv, NEW r \in Relayers,
         CreateRejected(r) \/ ScanBeyond(r) \/ Finish(r) \/ Fail(r)
  PROVE  IInv'
<1>1. Drop(r) /\ UNCHANGED <<chainVars, clients>> /\ fails' \in {fails, fails + 1}
  BY DEF CreateRejected, ScanBeyond, Finish, Fail
<1>2. clients' \in Seq(Client) /\ fails' \in Nat
  BY <1>1 DEF IInv, TypeOK
<1>. QED
  BY <1>1, <1>2, SameClientKeeps, DropKeeps

\* SetupHeader of a header of r from version v of the client state.
SetUpFrom(r, v) ==
  /\ pc[r] \in {"held", "relayed"} /\ clients # <<>>
  /\ Hold(r, [header[r] EXCEPT !.epochs = NewEpochHeaders(header[r], clients[v])])
  /\ Goto(r, IF pc[r] = "held" THEN "ready" ELSE "readyAcks")
  /\ UNCHANGED <<chainVars, clients, height, from, fails>>

LEMMA SetUpFromKeeps ==
  ASSUME IInv, NEW r \in Relayers, NEW v \in 1 .. Len(clients), SetUpFrom(r, v)
  PROVE  IInv'
<1>. USE DEF IInv
<1>. DEFINE h == header[r]
            b == beacon[h.beacon].epoch
<1>. DEFINE E == NewEpochHeaders(h, clients[v])
            g == [h EXCEPT !.epochs = E]
            t == OwnEpoch(clients[v].height)
            c == OwnEpoch(Current.height)
<1>2. /\ pc[r] \in {"held", "relayed"} /\ clients # <<>>
      /\ pc' = [pc EXCEPT ![r] = IF pc[r] = "held" THEN "ready" ELSE "readyAcks"]
      /\ UNCHANGED <<chainVars, clients, height, from, fails>>
      /\ header' = [header EXCEPT ![r] = g]
  BY DEF SetUpFrom, Goto, Hold
<1>3. /\ h \in Header /\ from[r] \in Nat /\ h.beacon \in 0 .. top /\ b \in Nat
      /\ pc[r] \in Holding
  BY <1>2, HeldHeader DEF Holding, Block
<1>4. t \in Nat /\ t <= c
  BY <1>2, ClientKnowsItsEpoch, ClientEpochsForward
<1>5. c \in Nat
  BY <1>2, ClientEpochsForward, ClientKnowsItsEpoch DEF Current
<1>6. h.epochs \in Seq(Nat)
  BY <1>3 DEF Header
<1>. HIDE DEF t, c
<1>7. E = IF b - t > 0 THEN [i \in 1 .. b - t |-> t + i - 1] ELSE h.epochs
  BY DEF NewEpochHeaders, t
<1>. HIDE DEF E, b
<1>8. /\ E \in Seq(Nat)
      /\ (E = <<>> /\ b <= c) \/ \E x \in 0 .. c : EpochChain(E, x, b)
  <2>1. CASE b - t > 0
    <3>. DEFINE n == b - t
    <3>1. n \in Nat \ {0} /\ E = [i \in 1 .. n |-> t + i - 1]
      BY <1>3, <1>4, <1>7, <2>1 DEF b
    <3>. HIDE DEF n
    <3>2. E \in Seq(Nat) /\ Len(E) = n /\ \A i \in 1 .. n : E[i] = t + i - 1
      BY <1>4, <3>1
    <3>3. n \in 1 .. n /\ t + n - 1 = b - 1
      <4>1. b \in Nat
        BY <1>3 DEF b
      <4>2. n = b - t
        BY DEF n
      <4>. QED
        BY <1>4, <3>1, <4>1, <4>2
    <3>4. E # <<>>
      BY <3>1, <3>2
    <3>5. EpochChain(E, t, b)
      BY <3>2, <3>3, <3>4 DEF EpochChain
    <3>. QED
      BY <1>4, <1>5, <3>2, <3>5
  <2>2. CASE ~ (b - t > 0)
    <3>1. E = h.epochs /\ b <= c
      BY <1>3, <1>4, <1>5, <1>7, <2>2 DEF b
    <3>2. CASE pc[r] = "held"
      <4>1. E = <<>>
        BY <3>1, <3>2 DEF EpochsInv, EpochsOK
      <4>. QED
        BY <1>6, <3>1, <4>1
    <3>3. CASE pc[r] = "relayed"
      <4>1. ReachesBack(h, c)
        BY <3>3 DEF EpochsInv, EpochsOK, c
      <4>. QED
        BY <1>6, <3>1, <4>1 DEF ReachesBack, b
    <3>. QED
      BY <1>2, <3>2, <3>3
  <2>. QED
    BY <2>1, <2>2
<1>9. /\ g \in Header /\ g.beacon = h.beacon /\ g.target = h.target /\ g.epochs = E
  BY <1>3, <1>8 DEF Header
<1>. HIDE DEF g
<1>10. /\ header'[r] = g /\ from'[r] = from[r] /\ OthersStay(r)
       /\ pc'[r] \in {"ready", "readyAcks"}
  BY <1>2 DEF TypeOK, OthersStay
<1>11. TypeOK'
  BY <1>2, <1>9 DEF TypeOK, chainVars, PCs
<1>12. ScanOK(r)'
  BY <1>10 DEF ScanOK
<1>13. HeldOK(r)'
  <2>1. /\ h.beacon < from[r] /\ from[r] <= top /\ AtBlock(h.beacon, h.target)
        /\ IF ShardId = 0 THEN h.beacon = from[r] - 1 ELSE NoLinkBetween(h.beacon, from[r])
    BY <1>3 DEF HeldInv, HeldOK
  <2>. QED
    BY <1>2, <1>9, <1>10, <2>1 DEF HeldOK, AtBlock, NoLinkBetween, chainVars
<1>14. EpochsOK(r)'
  <2>1. c' = c /\ beacon' = beacon /\ clients' = clients
    BY <1>2 DEF c, OwnEpoch, Current, chainVars
  <2>2. ReachesBack(header[r], c)'
    BY <1>8, <1>9, <1>10, <2>1 DEF ReachesBack, b
  <2>. QED
    BY <1>2, <1>10, <2>1, <2>2 DEF EpochsOK, c
<1>. QED
  BY <1>2, <1>10, <1>11, <1>12, <1>13, <1>14, SameClientKeeps, RelayerStepKeeps

LEMMA SetupHeaderKeeps ==
  ASSUME IInv, NEW r \in Relayers, SetupHeader(r)
  PROVE  IInv'
<1>1. CASE \E v \in 1 .. Len(clients) : SetUpFrom(r, v)
  BY <1>1, SetUpFromKeeps
<1>2. CASE Drop(r) /\ UNCHANGED <<chainVars, clients, fails>>
  <2>1. clients' \in Seq(Client) /\ fails' \in Nat
    BY <1>2 DEF IInv, TypeOK
  <2>. QED
    BY <1>2, <2>1, SameClientKeeps, DropKeeps
<1>. QED
  BY <1>1, <1>2 DEF SetupHeader, SetUpFrom

LEMMA SubmitUpdateKeeps ==
  ASSUME IInv, NEW r \in Relayers, SubmitUpdate(r)
  PROVE  IInv'
<1>. USE DEF IInv
<1>. DEFINE h == header[r]
            b == beacon[h.beacon]
            L == Len(clients)
<1>1. pc[r] \in {"ready", "readyAcks"} /\ UNCHANGED chainVars /\ UNCHANGED fails
  BY DEF SubmitUpdate
<1>2. /\ h \in Header /\ from[r] \in Nat /\ h.beacon \in 0 .. top /\ b \in Block
      /\ AtBlock(h.beacon, h.target)
  BY <1>1, HeldHeader DEF Holding
<1>3. clients # <<>> /\ ReachesBack(h, OwnEpoch(Current.height))
  BY <1>1 DEF EpochsInv, EpochsOK
<1>4. clients \in Seq(Client) /\ L \in Nat \ {0} /\ L \in 1 .. L /\ Current = clients[L]
  BY <1>3 DEF TypeOK, Current
<1>5. Current \in Client /\ OwnEpoch(Current.height) \in Nat
  BY <1>4, ClientKnowsItsEpoch
<1>6. clients' \in Seq(Client) /\ ClientInv' /\ ClientForward
  <2>1. CASE UNCHANGED clients
    BY <1>1, <1>4, <2>1, SameClientKeeps
  <2>2. CASE ~ UNCHANGED clients
    <3>1. PICK k \in {b.epoch} \union (IF IsEpochLast(b) THEN {b.state} ELSE {}) :
            /\ h.target > Current.height
            /\ clients' = Append(clients, [height |-> h.target, committee |-> k])
      BY <2>2 DEF SubmitUpdate
    <3>. DEFINE cs == [height |-> h.target, committee |-> k]
    <3>2. k \in Nat /\ k \in {b.epoch, b.state}
      BY <1>2, <3>1 DEF Block, IsEpochLast
    <3>3. cs \in Client /\ cs.height = h.target /\ cs.committee = k
      BY <1>2, <3>2 DEF Client, Header
    <3>4. clients' = Append(clients, cs) /\ Current.height < cs.height
      BY <1>2, <1>5, <3>1 DEF Client, Header
    <3>. HIDE DEF cs
    <3>5. /\ clients' \in Seq(Client) /\ Len(clients') = L + 1
          /\ \A v \in 1 .. L : clients'[v] = clients[v]
          /\ clients'[L + 1] = cs
      BY <1>4, <3>3, <3>4
    <3>. HIDE DEF L
    <3>6. PICK n \in 0 .. top : KnownFrom(cs, n)
      BY <1>2, <3>2, <3>3 DEF KnownFrom
    <3>7. beacon' = beacon /\ top' = top /\ shard' = shard
      BY <1>1 DEF chainVars
    <3>8. ASSUME NEW v \in 1 .. L + 1
          PROVE  \E x \in 0 .. top' : KnownFrom(clients[v], x)'
      <4>1. CASE v \in 1 .. L
        <5>1. \E x \in 0 .. top : KnownFrom(clients[v], x)
          BY <4>1 DEF ClientInv, L
        <5>. QED
          BY <3>5, <3>7, <4>1, <5>1 DEF KnownFrom, AtBlock
      <4>2. CASE v = L + 1
        <5>1. clients'[v] = cs
          BY <3>5, <4>2
        <5>2. KnownFrom(clients[v], n)'
          BY <3>6, <3>7, <5>1 DEF KnownFrom, AtBlock
        <5>. QED
          BY <3>7, <5>2
      <4>. QED
        BY <1>4, <4>1, <4>2
    <3>9. ASSUME NEW v \in 1 .. L + 1, NEW w \in 1 .. L + 1, v <= w
          PROVE  clients'[v].height <= clients'[w].height
      <4>1. CASE w \in 1 .. L
        BY <1>4, <3>5, <3>9, <4>1 DEF ClientInv, L
      <4>2. CASE w = L + 1 /\ v \in 1 .. L
        <5>1. clients[v].height <= Current.height
          BY <1>4, <4>2 DEF ClientInv, L
        <5>2. clients[v].height \in Nat /\ Current.height \in Nat /\ cs.height \in Nat
          <6>1. clients[v] \in Client
            BY <1>4, <4>2 DEF L
          <6>. QED
            BY <1>5, <3>3, <6>1 DEF Client
        <5>. QED
          BY <3>4, <3>5, <4>2, <5>1, <5>2
      <4>3. CASE w = L + 1 /\ v = L + 1
        BY <3>3, <3>5, <4>3 DEF Client
      <4>. QED
        BY <1>4, <4>1, <4>2, <4>3
    <3>10. ClientInv'
      BY <3>5, <3>8, <3>9 DEF ClientInv
    <3>11. TypeOK /\ Current' = cs /\ clients' # <<>>
      BY <1>4, <3>5 DEF Current
    <3>12. OwnEpoch(Current.height)' = OwnEpoch(h.target)
      BY <3>3, <3>7, <3>11 DEF OwnEpoch
    <3>13. PICK c \in 0 .. top : AtBlock(c, Current.height)
      BY <1>4 DEF ClientInv, KnownFrom, L
    <3>14. OwnEpoch(h.target) \in Nat /\ OwnEpoch(Current.height) <= OwnEpoch(h.target)
      <4>1. Current.height \in Nat /\ h.target \in Nat /\ Current.height < h.target
        BY <1>2, <1>5, <3>3, <3>4 DEF Client, Header
      <4>2. CASE ShardId = 0
        <5>1. Current.height \in 0 .. top /\ h.target \in 0 .. top
          BY <1>2, <3>13, <4>2, AtBlockExists
        <5>2. beacon[h.target] \in Block
          BY <5>1 DEF TypeOK
        <5>. QED
          BY <4>1, <4>2, <5>1, <5>2 DEF OwnEpoch, Block, ChainInv, EpochsForward
      <4>3. CASE ShardId # 0
        <5>1. Current.height \in 0 .. shardTop /\ h.target \in 0 .. shardTop
          BY <1>2, <3>13, <4>3, AtBlockExists
        <5>2. shard[h.target] \in Nat
          BY <5>1 DEF TypeOK
        <5>. QED
          BY <4>1, <4>3, <5>1, <5>2 DEF OwnEpoch, ChainInv, ShardForward
      <4>. QED
        BY <4>2, <4>3
    <3>. QED
      BY <3>5, <3>10, <3>11, <3>12, <3>14 DEF ClientForward
  <2>. QED
    BY <2>1, <2>2
<1>7. CASE pc[r] = "ready"
  <2>1. pc' = [pc EXCEPT ![r] = "relayed"] /\ UNCHANGED <<height, from, header>>
    BY <1>7 DEF SubmitUpdate, Goto
  <2>2. pc'[r] = "relayed" /\ header'[r] = h /\ from'[r] = from[r] /\ OthersStay(r)
    BY <2>1 DEF TypeOK, OthersStay
  <2>3. TypeOK'
    BY <1>1, <1>6, <2>1 DEF TypeOK, chainVars, PCs
  <2>4. ScanOK(r)'
    BY <2>2 DEF ScanOK
  <2>5. HeldOK(r)'
    <3>1. /\ h.beacon < from[r] /\ from[r] <= top /\ AtBlock(h.beacon, h.target)
          /\ IF ShardId = 0 THEN h.beacon = from[r] - 1 ELSE NoLinkBetween(h.beacon, from[r])
      BY <1>7 DEF HeldInv, HeldOK, Holding
    <3>. QED
      BY <1>1, <2>2, <3>1 DEF HeldOK, AtBlock, NoLinkBetween, chainVars
  <2>6. EpochsOK(r)'
    <3>. DEFINE e == OwnEpoch(Current.height)
                f == OwnEpoch(Current.height)'
    <3>1. clients' # <<>> /\ f \in Nat /\ e <= f
      BY <1>3, <1>6 DEF ClientForward
    <3>2. e \in Nat /\ ReachesBack(h, e)
      BY <1>3, <1>5
    <3>. HIDE DEF e, f
    <3>3. beacon' = beacon /\ 0 .. e \subseteq 0 .. f
      BY <1>1, <3>1, <3>2 DEF chainVars
    <3>4. b.epoch \in Nat
      BY <1>2 DEF Block
    <3>5. ReachesBack(h, f)
      BY <3>1, <3>2, <3>3, <3>4 DEF ReachesBack
    <3>6. \/ header'[r].epochs = <<>> /\ beacon'[header'[r].beacon].epoch <= f
          \/ \E x \in 0 .. f : EpochChain(header'[r].epochs, x, beacon'[header'[r].beacon].epoch)
      BY <2>2, <3>3, <3>5 DEF ReachesBack
    <3>. QED
      BY <2>2, <3>1, <3>6 DEF EpochsOK, ReachesBack, f
  <2>. QED
    BY <1>1, <1>6, <2>2, <2>3, <2>4, <2>5, <2>6, RelayerStepKeeps
<1>8. CASE pc[r] # "ready"
  <2>1. Drop(r)
    BY <1>8 DEF SubmitUpdate
  <2>2. fails' \in Nat
    BY <1>1 DEF TypeOK
  <2>. QED
    BY <1>1, <1>6, <2>1, <2>2, DropKeeps
<1>. QED
  BY <1>7, <1>8

\* Every step of the system preserves the inductive invariant.
LEMMA NextKeeps == IInv /\ [Next]_vars => IInv'
<1>. SUFFICES ASSUME IInv, [Next]_vars PROVE IInv'
  OBVIOUS
<1>1. CASE MineShard
  <2>1. TypeOK' /\ ChainInv' /\ Growth
    BY <1>1, MineShardKeeps
  <2>. QED
    BY <2>1, GrowthKeepsRelayers DEF IInv
<1>2. CASE MineBeacon
  <2>1. TypeOK' /\ ChainInv' /\ Growth
    BY <1>2, MineBeaconKeeps
  <2>. QED
    BY <2>1, GrowthKeepsRelayers DEF IInv
<1>3. ASSUME NEW r \in Relayers, RelayerStep(r) PROVE IInv'
  <2>1. CASE QueryLatestHeader(r)
    BY <2>1, QueryLatestHeaderKeeps
  <2>2. CASE ScanDown(r)
    BY <2>2, ScanDownKeeps
  <2>3. CASE ScanFound(r)
    BY <2>3, ScanFoundKeeps
  <2>4. CASE ScanExhausted(r)
    BY <2>4, ScanExhaustedKeeps
  <2>5. CASE CreateClient(r)
    BY <2>5, CreateClientKeeps
  <2>6. CASE CreateRejected(r) \/ ScanBeyond(r) \/ Finish(r) \/ Fail(r)
    BY <2>6, EndOfCommandKeeps
  <2>7. CASE SetupHeader(r)
    BY <2>7, SetupHeaderKeeps
  <2>8. CASE SubmitUpdate(r)
    BY <2>8, SubmitUpdateKeeps
  <2>. QED
    BY <1>3, <2>1, <2>2, <2>3, <2>4, <2>5, <2>6, <2>7, <2>8 
       DEF RelayerStep, Forward
<1>4. CASE UNCHANGED vars
  <2>1. TypeOK' /\ ChainInv'
    BY <1>4 DEF IInv, TypeOK, ChainInv, EpochsForward, GenesisLinksNothing,
                LinksForward, ShardForward, TopBounded, EpochsBounded,
                GenesisElects, vars, chainVars
  <2>2. Growth
    BY <1>4 DEF IInv, TypeOK, Growth, vars, chainVars
  <2>. QED
    BY <2>1, <2>2, GrowthKeepsRelayers DEF IInv
<1>. QED
  BY <1>1, <1>2, <1>3, <1>4 DEF Next

\* The inductive invariant holds in every state of every behaviour.
LEMMA Invariance == Spec => []IInv
BY InitInv, NextKeeps, PTL DEF Spec

-----------------------------------------------------------------------------
(* Theorems *)

\* Every variable keeps its type: the two chains are functions on their block
\* numbers, and every header and client version names blocks and epochs.
THEOREM TypeCorrect == Spec => []TypeOK
<1>1. IInv => TypeOK
  BY DEF IInv
<1>. QED
  BY <1>1, Invariance, PTL

\* Blocks linked by beacon blocks strictly between the header's and the one the
\* query began at do not exist, so a provable block is linked at or below the
\* header's beacon block.
LEMMA HeldIsGreatest ==
  ASSUME IInv, NEW r \in Relayers, pc[r] \in Holding
  PROVE  /\ header[r].beacon < from[r] /\ from[r] <= top
         /\ header[r].target \in Provable(from[r])
         /\ \A m \in Provable(from[r]) : m <= header[r].target
         /\ ShardId > 0 => header[r].target \in beacon[header[r].beacon].links
<1>. USE DEF IInv
<1>. DEFINE h == header[r]
<1>1. /\ h \in Header /\ from[r] \in Nat /\ h.beacon \in 0 .. top /\ top \in Nat
      /\ AtBlock(h.beacon, h.target) /\ h.beacon \in Nat /\ h.target \in Nat
  BY HeldHeader DEF Header, TypeOK
<1>2. /\ h.beacon < from[r] /\ from[r] <= top
      /\ IF ShardId = 0 THEN h.beacon = from[r] - 1 ELSE NoLinkBetween(h.beacon, from[r])
  BY DEF HeldInv, HeldOK
<1>3. CASE ShardId = 0
  <2>1. h.target = from[r] - 1
    BY <1>1, <1>2, <1>3 DEF AtBlock
  <2>. QED
    BY <1>1, <1>2, <1>3, <2>1 DEF Provable
<1>4. CASE ShardId # 0
  <2>1. h.target \in beacon[h.beacon].links /\ \A x \in beacon[h.beacon].links : x <= h.target
    BY <1>1, <1>4 DEF AtBlock
  <2>2. h.beacon # 0
    BY <2>1 DEF ChainInv, GenesisLinksNothing
  <2>3. h.target \in Provable(from[r])
    BY <1>1, <1>2, <1>4, <2>1, <2>2 DEF Provable
  <2>4. ASSUME NEW m \in Provable(from[r]) PROVE m <= h.target
    <3>1. PICK i \in 1 .. from[r] - 1 : m \in beacon[i].links
      BY <1>4 DEF Provable
    <3>2. i \in 0 .. top /\ i <= h.beacon
      BY <1>1, <1>2, <1>4, <3>1 DEF NoLinkBetween
    <3>3. m \in Nat
      BY <3>1, <3>2 DEF TypeOK, Block
    <3>4. CASE i = h.beacon
      BY <2>1, <3>1, <3>4
    <3>5. CASE i < h.beacon
      <4>1. m < h.target
        BY <1>1, <2>1, <3>1, <3>2, <3>5 DEF ChainInv, LinksForward
      <4>. QED
        BY <1>1, <3>3, <4>1
    <3>. QED
      BY <1>1, <3>2, <3>4, <3>5
  <2>. QED
    BY <1>2, <2>1, <2>3, <2>4
<1>. QED
  BY <1>3, <1>4

\* However long the scan for a cross link took, the header a process holds is
\* the newest one that was provable when its query began
\* (queryLatestHeaderForShard).
THEOREM HeaderIsLatestLinkedTheorem == Spec => []HeaderIsLatestLinked
<1>1. IInv => HeaderIsLatestLinked
  BY HeldIsGreatest DEF HeaderIsLatestLinked
<1>. QED
  BY <1>1, Invariance, PTL

\* A process that asked later never holds an older header.
THEOREM LaterQueryNewerHeaderTheorem == Spec => []LaterQueryNewerHeader
<1>1. ASSUME IInv, NEW r \in Relayers, NEW s \in Relayers,
             pc[r] \in Holding, pc[s] \in Holding, from[r] <= from[s]
      PROVE  header[r].target <= header[s].target /\ header[r].beacon <= header[s].beacon
  <2>. USE DEF IInv
  <2>1. /\ header[r] \in Header /\ header[s] \in Header /\ from[r] \in Nat /\ from[s] \in Nat
        /\ header[r].beacon \in 0 .. top /\ header[s].beacon \in 0 .. top
        /\ header[r].beacon \in Nat /\ header[s].beacon \in Nat
        /\ header[r].target \in Nat /\ header[s].target \in Nat
        /\ AtBlock(header[r].beacon, header[r].target)
    BY <1>1, HeldHeader DEF Header
  <2>2. /\ header[r].beacon < from[r]
        /\ header[r].target \in Provable(from[r])
        /\ \A m \in Provable(from[s]) : m <= header[s].target
    BY <1>1, HeldIsGreatest
  <2>3. header[r].target \in Provable(from[s])
    BY <1>1, <2>1, <2>2 DEF Provable
  <2>4. /\ header[s].beacon < from[s]
        /\ IF ShardId = 0 THEN header[s].beacon = from[s] - 1
           ELSE NoLinkBetween(header[s].beacon, from[s])
    BY <1>1 DEF HeldInv, HeldOK
  <2>5. header[r].beacon <= header[s].beacon
    <3>1. CASE ShardId = 0
      BY <1>1, <2>1, <2>2, <2>4, <3>1
    <3>2. CASE ShardId # 0
      <4>1. beacon[header[r].beacon].links # {}
        BY <2>1, <3>2 DEF AtBlock
      <4>2. header[r].beacon < from[s]
        BY <1>1, <2>1, <2>2
      <4>. QED
        BY <2>1, <2>4, <3>2, <4>1, <4>2 DEF NoLinkBetween
    <3>. QED
      BY <3>1, <3>2
  <2>. QED
    BY <2>2, <2>3, <2>5
<1>2. IInv => LaterQueryNewerHeader
  BY <1>1 DEF LaterQueryNewerHeader
<1>. QED
  BY <1>2, Invariance, PTL

\* Whatever other relayers have done to the client since the header was set up,
\* the client can follow the committees up to it if it is news (SetupHeader).
THEOREM UpdateCanBeVerifiedTheorem == Spec => []UpdateCanBeVerified
<1>1. ASSUME IInv, NEW r \in Relayers, pc[r] \in {"ready", "readyAcks"},
             header[r].target > Current.height
      PROVE  Follows(header[r], Current.committee)
  <2>1. clients # <<>> /\ ReachesBack(header[r], OwnEpoch(Current.height))
    BY <1>1 DEF IInv, EpochsInv, EpochsOK
  <2>2. Len(clients) \in 1 .. Len(clients)
    BY <1>1, <2>1 DEF IInv, TypeOK
  <2>3. /\ Current \in Client /\ OwnEpoch(Current.height) \in Nat
        /\ OwnEpoch(Current.height) <= Current.committee
    BY <1>1, <2>2, ClientKnowsItsEpoch DEF IInv, Current
  <2>4. /\ header[r] \in Header /\ beacon[header[r].beacon].epoch \in Nat
        /\ Current.committee <= beacon[header[r].beacon].epoch
    BY <1>1, <2>1, NewsIsNotBehind DEF IInv, Holding
  <2>5. Current.committee \in Nat
    BY <2>3 DEF Client
  <2>. QED
    BY <2>1, <2>3, <2>4, <2>5, FollowsFromBack
<1>2. IInv => UpdateCanBeVerified
  BY <1>1 DEF UpdateCanBeVerified
<1>. QED
  BY <1>2, Invariance, PTL

\* A scan ends without a header only if it began above block 0 and there was
\* nothing to find (queryLatestHeaderForShard).
THEOREM NilOnlyIfNothingLinkedTheorem == Spec => []NilOnlyIfNothingLinked
<1>1. ASSUME IInv, NEW r \in Relayers, pc[r] = "panicked"
      PROVE  from[r] > 0 /\ Provable(from[r]) = {}
  <2>1. /\ ShardId > 0 /\ 0 < from[r] /\ from[r] <= top /\ NoLinkBetween(0, from[r])
        /\ from[r] \in Nat
    BY <1>1 DEF IInv, TypeOK, ScanInv, ScanOK, Scanned
  <2>2. \A i \in 1 .. from[r] - 1 : beacon[i].links = {}
    BY <2>1 DEF NoLinkBetween
  <2>3. Provable(from[r]) = UNION {beacon[i].links : i \in 1 .. from[r] - 1}
    BY <2>1, ProverAssumption DEF Provable
  <2>. QED
    BY <2>1, <2>2, <2>3
<1>2. IInv => NilOnlyIfNothingLinked
  BY <1>1 DEF NilOnlyIfNothingLinked
<1>. QED
  BY <1>2, Invariance, PTL

\* A client, also one created in epoch 0, knows the committee that signs the
\* beacon block of its height, or the one that block elects
\* (CreateMsgCreateClient).
THEOREM ClientKnowsSignersTheorem == Spec => []ClientKnowsSigners
<1>1. ASSUME IInv, NEW v \in 1 .. Len(clients), NEW n \in 0 .. top,
             IF ShardId = 0 THEN n = clients[v].height
                            ELSE clients[v].height \in beacon[n].links
      PROVE  \/ clients[v].committee = beacon[n].epoch
             \/ IsEpochLast(beacon[n]) /\ clients[v].committee = beacon[n].state
  <2>. USE DEF IInv
  <2>1. clients[v] \in Client /\ beacon[n] \in Block /\ top \in Nat
    BY <1>1 DEF TypeOK
  <2>2. PICK m \in 0 .. top : KnownFrom(clients[v], m)
    BY <1>1 DEF ClientInv
  <2>3. m = n
    <3>1. CASE ShardId = 0
      BY <1>1, <2>2, <3>1 DEF KnownFrom, AtBlock
    <3>2. CASE ShardId # 0
      <4>1. clients[v].height \in beacon[n].links /\ clients[v].height \in beacon[m].links
        BY <1>1, <2>2, <3>2 DEF KnownFrom, AtBlock
      <4>2. clients[v].height \in Nat
        BY <2>1 DEF Client
      <4>3. ~ (m < n) /\ ~ (n < m)
        BY <1>1, <4>1, <4>2 DEF ChainInv, LinksForward
      <4>. QED
        BY <4>3
    <3>. QED
      BY <3>1, <3>2
  <2>4. clients[v].committee \in {beacon[n].epoch, beacon[n].state}
    BY <2>2, <2>3 DEF KnownFrom
  <2>5. beacon[n].state \in {NoState, beacon[n].epoch, beacon[n].epoch + 1}
    BY <1>1 DEF ChainInv, EpochsForward
  <2>6. clients[v].committee \in Nat
    BY <2>1 DEF Client
  <2>. QED
    BY <2>4, <2>5, <2>6 DEF IsEpochLast, NoState
<1>2. IInv => ClientKnowsSigners
  BY <1>1 DEF ClientKnowsSigners
<1>. QED
  BY <1>2, Invariance, PTL
=============================================================================
