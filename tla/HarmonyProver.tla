---------------------------- MODULE HarmonyProver ----------------------------
(***************************************************************************)
(* The Harmony prover of the relayer: relayer/chains/harmony/prover.go.    *)
(*                                                                         *)
(* Several relayer processes build light-client headers of one Harmony     *)
(* shard for a client hosted on the Cosmos chain, while the beacon chain   *)
(* and the shard keep growing.  A header of a shard other than 0 is found  *)
(* by scanning the beacon chain downwards, one RPC per block, for a cross  *)
(* link; a header that crosses epochs carries the last beacon header of    *)
(* each epoch since the trusted one, so that the client can follow the     *)
(* change of committee.                                                    *)
(*                                                                         *)
(* Abstractions.  A header is named by the numbers of its beacon block and *)
(* of its target block; an entry of EpochHeaders by its epoch (it is the   *)
(* last beacon header of that epoch); a committee by the epoch it signs    *)
(* for; a state root by the block that produced it.  Encodings and hashes  *)
(* are left out: the RPC nodes return the blocks of the chain.             *)
(***************************************************************************)
EXTENDS Integers, Sequences, FiniteSetsExt

CONSTANTS
  Relayers,   \* relayer processes working on the same path
  ShardId,    \* the shard the path is on (0 is the beacon shard itself)
  MaxBeacon,  \* bound: highest beacon block
  MaxShard,   \* bound: highest shard block
  MaxFails,   \* bound: commands that die on an RPC error
  MaxUint64   \* the largest uint64, scaled down with the chains

ASSUME ProverAssumption ==
  /\ ShardId \in Nat
  /\ MaxBeacon \in Nat /\ MaxShard \in Nat /\ MaxFails \in Nat
  /\ MaxUint64 \in Nat /\ MaxBeacon < MaxUint64

VARIABLES
  top,      \* number of the newest beacon block
  beacon,   \* beacon blocks 0..top
  shardTop, \* number of the newest block of the shard
  shard,    \* the epoch of each shard block 0..shardTop
  linked,   \* highest shard block the beacon chain has cross-linked
  clients,  \* versions of the client state on the Cosmos chain, oldest first
  pc,       \* where each relayer process is
  height,   \* the local `height` of queryLatestHeaderForShard
  from,     \* the BlockNumber the current header was queried at
  header,   \* the header the process holds
  fails     \* RPC errors so far

chainVars == <<top, beacon, shardTop, shard, linked>>
vars == <<chainVars, clients, pc, height, from, header, fails>>

-----------------------------------------------------------------------------
(* Data *)

NoState == -1   \* the block carries no shard state

Block == [epoch: Nat, state: Nat \union {NoState}, links: SUBSET Nat, root: Nat]
Header == [beacon: Nat, target: Nat, epochs: Seq(Nat)]
Client == [height: Nat, committee: Nat]

NilHeader == [beacon |-> 0, target |-> 0, epochs |-> <<>>]

PCs == {"idle", "scan", "held", "ready", "relayed", "readyAcks", "panicked"}
Holding == {"held", "ready", "relayed", "readyAcks"}

\* A block whose shard state elects the committee of the next epoch.
IsEpochLast(b) == b.state = b.epoch + 1

\* Bug: what is before 0 is 0.
Before_Saturated(n) == IF n > 0 THEN n - 1 ELSE 0

\* n - 1 of a uint64.
Before(n) == IF n > 0 THEN n - 1 ELSE MaxUint64

\* The last beacon block of epoch e can be fetched together with its successor,
\* which holds its commit signature.
EpochLastKnown(e) ==
  \E n \in 0 .. top - 1 : beacon[n].epoch = e /\ IsEpochLast(beacon[n])

EpochLastBlock(e) ==
  CHOOSE n \in 0 .. top - 1 : beacon[n].epoch = e /\ IsEpochLast(beacon[n])

\* The block numbers that EpochLastBlockNumber may answer.  It also answers for
\* an epoch that has not ended, with a number from top on: the block or its
\* successor cannot be fetched.  For the epoch "before 0" the number, a float64
\* in the answer, may also come back from 2^64 as 0.
EpochLastBlockNumber(e) ==
  IF e = MaxUint64 THEN {0, top}
  ELSE IF EpochLastKnown(e) THEN {EpochLastBlock(e)} ELSE {top}

\* FullHeader(height).Epoch of a block of the path's own shard.
OwnEpoch(n) == IF ShardId = 0 THEN beacon[n].epoch ELSE shard[n]

Current == clients[Len(clients)]

-----------------------------------------------------------------------------
(* The Harmony network *)

Extend(f, n, v) == [i \in 0 .. n |-> IF i = n THEN v ELSE f[i]]

\* The shard produces a block.  It enters an epoch only after the beacon chain.
MineShard ==
  /\ ShardId > 0 /\ shardTop < MaxShard
  /\ \E e \in {shard[shardTop], shard[shardTop] + 1} :
       /\ e <= beacon[top].epoch
       /\ shard' = Extend(shard, shardTop + 1, e)
  /\ shardTop' = shardTop + 1
  /\ UNCHANGED <<top, beacon, linked, clients, pc, height, from, header, fails>>

\* The beacon chain produces a block that cross-links the next shard blocks, in
\* order, and that may be the last of its epoch.  A block in which nothing
\* happens may keep the state root (only told apart on the beacon shard).
MineBeacon ==
  /\ top < MaxBeacon
  /\ LET e == IF IsEpochLast(beacon[top]) THEN beacon[top].epoch + 1 ELSE beacon[top].epoch
     IN \E s \in {NoState, e + 1}, m \in linked .. shardTop,
           root \in IF ShardId = 0 THEN {beacon[top].root, top + 1} ELSE {top + 1} :
          /\ beacon' = Extend(beacon, top + 1,
               [epoch |-> e, state |-> s, links |-> (linked + 1) .. m, root |-> root])
          /\ linked' = m
  /\ top' = top + 1
  /\ UNCHANGED <<shardTop, shard, clients, pc, height, from, header, fails>>

-----------------------------------------------------------------------------
(* The prover *)

Goto(r, l) == pc' = [pc EXCEPT ![r] = l]

Hold(r, h) == header' = [header EXCEPT ![r] = h]

\* QueryLatestHeader reads BlockNumber once; the block below it is the newest
\* whose commit signature is known.  At block 0 the subtraction wraps and
\* FullHeader fails: the command ends where it began.
QueryLatestHeaderForBeacon(r) ==
  /\ pc[r] = "idle" /\ ShardId = 0 /\ Before(top) <= top
  /\ from' = [from EXCEPT ![r] = top]
  /\ Hold(r, [beacon |-> Before(top), target |-> Before(top), epochs |-> <<>>])
  /\ Goto(r, "held")
  /\ UNCHANGED <<chainVars, clients, height, fails>>

QueryLatestHeaderForShard(r) ==
  /\ pc[r] = "idle" /\ ShardId > 0
  /\ from' = [from EXCEPT ![r] = top]
  /\ height' = [height EXCEPT ![r] = Before(top)]
  /\ Goto(r, "scan")
  /\ UNCHANGED <<chainVars, clients, header, fails>>

QueryLatestHeader(r) == QueryLatestHeaderForBeacon(r) \/ QueryLatestHeaderForShard(r)

\* Bug: the first link of the block to the shard instead of the last.
LatestLink_First(b) == Min(b.links)

\* Which cross link of a block is used: the last of the sorted list.
LatestLink(b) == Max(b.links)

\* Bug: the loop steps over two blocks at a time.
ScanDown_Twice(r) ==
  /\ pc[r] = "scan" /\ height[r] \in 1 .. top
  /\ beacon[height[r]].links = {}
  /\ height' = [height EXCEPT ![r] = IF @ > 1 THEN @ - 2 ELSE 0]
  /\ UNCHANGED <<chainVars, clients, pc, from, header, fails>>

\* One iteration of the loop that finds no link to the shard.
ScanDown(r) ==
  /\ pc[r] = "scan" /\ height[r] \in 1 .. top
  /\ beacon[height[r]].links = {}
  /\ height' = [height EXCEPT ![r] = @ - 1]
  /\ UNCHANGED <<chainVars, clients, pc, from, header, fails>>

\* The iteration that finds one: the header is built and the loop left.
ScanFound(r) ==
  /\ pc[r] = "scan" /\ height[r] \in 1 .. top
  /\ beacon[height[r]].links # {}
  /\ Hold(r, [beacon |-> height[r], target |-> LatestLink(beacon[height[r]]),
              epochs |-> <<>>])
  /\ height' = [height EXCEPT ![r] = 0]
  /\ Goto(r, "held")
  /\ UNCHANGED <<chainVars, clients, from, fails>>

\* The loop ends without a link: a nil *Header is returned as a non-nil
\* interface, and UpdateLightWithHeader calls GetHeight on it.
ScanExhausted(r) ==
  /\ pc[r] = "scan" /\ height[r] = 0
  /\ Goto(r, "panicked")
  /\ UNCHANGED <<chainVars, clients, height, from, header, fails>>

\* The process that ran a command is gone, and its header with it.
Drop(r) ==
  /\ Goto(r, "idle")
  /\ Hold(r, NilHeader)
  /\ from' = [from EXCEPT ![r] = 0]
  /\ height' = [height EXCEPT ![r] = 0]

\* An iteration at a height that wrapped: FullHeader fails, and so the command.
ScanBeyond(r) ==
  /\ pc[r] = "scan" /\ height[r] > top
  /\ Drop(r)
  /\ UNCHANGED <<chainVars, clients, fails>>

\* The beacon block whose shard state gives the new client its committee: the
\* held one or, if that carries none, the last one of the previous epoch.
CommitteeBlocks(h) ==
  IF beacon[h.beacon].state # NoState THEN {h.beacon}
  ELSE EpochLastBlockNumber(Before(beacon[h.beacon].epoch))

\* On the beacon shard the committee's block n is also the target of the client.
CreateTarget(h, n) == IF ShardId > 0 THEN h.target ELSE n

RootOf(n) == IF ShardId > 0 THEN n ELSE beacon[n].root

\* The committee's block n is found with its successor, and the account proof,
\* taken at the held header's target, verifies against the client's target.
CanCreate(h, n) ==
  n < top /\ RootOf(CreateTarget(h, n)) = RootOf(h.target)

\* Bug: the committee is always taken from the held header.
NewClient_Held(h, n) ==
  [height |-> CreateTarget(h, n), committee |-> beacon[h.beacon].state]

NewClient(h, n) ==
  [height |-> CreateTarget(h, n), committee |-> beacon[n].state]

\* CreateMsgCreateClient, and the inclusion of its message.
CreateClient(r) ==
  /\ pc[r] = "held" /\ clients = <<>>
  /\ \E n \in CommitteeBlocks(header[r]) :
       CanCreate(header[r], n) /\ clients' = <<NewClient(header[r], n)>>
  /\ Drop(r)
  /\ UNCHANGED <<chainVars, fails>>

\* CreateMsgCreateClient returns an error: the command has failed.
CreateRejected(r) ==
  /\ pc[r] = "held" /\ clients = <<>>
  /\ \E n \in CommitteeBlocks(header[r]) : ~ CanCreate(header[r], n)
  /\ Drop(r)
  /\ UNCHANGED <<chainVars, clients, fails>>

NewEpochHeaders_Next(h, cs) ==   \* Bug: from the epoch after the trusted one
  LET t   == OwnEpoch(cs.height)
      gap == beacon[h.beacon].epoch - t
  IN IF gap > 0 THEN [i \in 1 .. gap |-> t + i] ELSE h.epochs

NewEpochHeaders_Last(h, cs) ==   \* Bug: only the last epoch before the header's
  LET t   == OwnEpoch(cs.height)
      gap == beacon[h.beacon].epoch - t
  IN IF gap > 0 THEN <<beacon[h.beacon].epoch - 1>> ELSE h.epochs

NewEpochHeaders(h, cs) ==
  LET t   == OwnEpoch(cs.height)
      gap == beacon[h.beacon].epoch - t
  IN IF gap > 0 THEN [i \in 1 .. gap |-> t + i - 1] ELSE h.epochs

\* SetupHeader.  The client state is read at the height of the local light
\* client of the Cosmos chain, so it may be any earlier version.  The header is
\* changed in place, and only if the epoch of its beacon block is ahead; it is an
\* error if the last block of an epoch in between cannot be fetched.
SetupHeader(r) ==
  /\ pc[r] \in {"held", "relayed"} /\ clients # <<>>
  /\ \E v \in 1 .. Len(clients) :
       LET cs == clients[v]
       IN IF \A e \in OwnEpoch(cs.height) .. beacon[header[r].beacon].epoch - 1 :
               EpochLastKnown(e)
          THEN /\ Hold(r, [header[r] EXCEPT !.epochs = NewEpochHeaders(header[r], cs)])
               /\ Goto(r, IF pc[r] = "held" THEN "ready" ELSE "readyAcks")
               /\ UNCHANGED <<height, from>>
          ELSE Drop(r)
  /\ UNCHANGED <<chainVars, clients, fails>>

-----------------------------------------------------------------------------
(* The client on the Cosmos chain (external) and the commands *)

\* A verifier that knows the committee of epoch k can follow the epoch headers
\* of h up to the committee of the epoch of its beacon block.
Follows(h, k) ==
  LET b == beacon[h.beacon].epoch
      E == h.epochs
  IN \/ k = b
     \/ \E i \in 1 .. Len(E) :
          /\ E[i] = k /\ E[Len(E)] = b - 1
          /\ \A j \in i .. Len(E) - 1 : E[j + 1] = E[j] + 1

\* The Cosmos chain executes the MsgUpdateClient of r.  The client keeps its
\* latest height; it takes the committee of the header, or the next one if the
\* header carries it.
SubmitUpdate(r) ==
  LET h == header[r]
      b == beacon[h.beacon]
  IN /\ pc[r] \in {"ready", "readyAcks"}
     /\ IF h.target > Current.height /\ Follows(h, Current.committee)
        THEN \E k \in {b.epoch} \union (IF IsEpochLast(b) THEN {b.state} ELSE {}) :
               clients' = Append(clients, [height |-> h.target, committee |-> k])
        ELSE UNCHANGED clients
     /\ IF pc[r] = "ready"
        THEN Goto(r, "relayed") /\ UNCHANGED <<height, from, header>>
        ELSE Drop(r)
     /\ UNCHANGED <<chainVars, fails>>

\* The command ends after its update; a panicked process is started again.
Finish(r) ==
  /\ pc[r] \in {"relayed", "panicked"}
  /\ Drop(r)
  /\ UNCHANGED <<chainVars, clients, fails>>

\* An RPC fails: every function returns the error and the command exits.
Fail(r) ==
  /\ pc[r] \notin {"idle", "panicked"} /\ fails < MaxFails
  /\ Drop(r)
  /\ fails' = fails + 1
  /\ UNCHANGED <<chainVars, clients>>

-----------------------------------------------------------------------------
Init ==
  /\ top = 0
  /\ beacon = [n \in 0 .. 0 |-> [epoch |-> 0, state |-> 0, links |-> {}, root |-> 0]]
  /\ shardTop = 0 /\ shard = [n \in 0 .. 0 |-> 0] /\ linked = 0
  /\ clients = <<>>
  /\ pc = [r \in Relayers |-> "idle"]
  /\ height = [r \in Relayers |-> 0]
  /\ from = [r \in Relayers |-> 0]
  /\ header = [r \in Relayers |-> NilHeader]
  /\ fails = 0

\* What a process does by itself once it is started, and its being started.
Forward(r) ==
  \/ QueryLatestHeader(r) \/ ScanDown(r) \/ ScanFound(r) \/ ScanExhausted(r)
  \/ ScanBeyond(r) \/ SetupHeader(r) \/ SubmitUpdate(r) \/ Finish(r)

RelayerStep(r) ==
  Forward(r) \/ CreateClient(r) \/ CreateRejected(r) \/ Fail(r)

Next == MineShard \/ MineBeacon \/ \E r \in Relayers : RelayerStep(r)

\* The operator's scripts run the commands again and again (retry), and a
\* started command keeps running; nobody promises that the chains grow, that a
\* client is created or that an RPC fails.
Fairness == \A r \in Relayers : WF_vars(Forward(r))

Spec == Init /\ [][Next]_vars

FairSpec == Spec /\ Fairness

-----------------------------------------------------------------------------
(* Properties *)

TypeOK ==
  /\ top \in Nat /\ beacon \in [0 .. top -> Block]
  /\ shardTop \in Nat /\ shard \in [0 .. shardTop -> Nat]
  /\ linked \in 0 .. shardTop
  /\ clients \in Seq(Client)
  /\ pc \in [Relayers -> PCs]
  /\ height \in [Relayers -> Nat] /\ from \in [Relayers -> Nat]
  /\ header \in [Relayers -> Header]
  /\ fails \in Nat

\* Blocks that a header queried at BlockNumber n may be about.
Provable(n) ==
  IF ShardId = 0 THEN 0 .. n - 1
  ELSE UNION {beacon[i].links : i \in 1 .. n - 1}

\* However long the scan took and however much the chains grew meanwhile, the
\* header held is that of the newest own block that the beacon blocks with a
\* known commit signature had linked when the query began, and it is paired with
\* the beacon block that links it (prover.go, queryLatestHeaderForShard).
HeaderIsLatestLinked ==
  \A r \in Relayers : pc[r] \in Holding =>
    LET h == header[r]
    IN /\ h.beacon < from[r] /\ from[r] <= top
       /\ h.target \in Provable(from[r])
       /\ \A m \in Provable(from[r]) : m <= h.target
       /\ ShardId > 0 => h.target \in beacon[h.beacon].links

\* A process that asked later than another never holds an older header: neither
\* its target nor its beacon block is lower.
LaterQueryNewerHeader ==
  \A r, s \in Relayers :
    (pc[r] \in Holding /\ pc[s] \in Holding /\ from[r] <= from[s]) =>
      header[r].target <= header[s].target /\ header[r].beacon <= header[s].beacon

\* A header set up for the client, from any earlier version of its state, kept
\* while other relayers update the client, and set up again in place, still lets
\* the client follow the committees up to it whenever it is news to the client
\* (prover.go, SetupHeader: "needed to update committee").
UpdateCanBeVerified ==
  \A r \in Relayers :
    (pc[r] \in {"ready", "readyAcks"} /\ header[r].target > Current.height) =>
      Follows(header[r], Current.committee)

\* A scan ends without a header only if it began above block 0 and no block with
\* a known commit signature linked the shard then; at block 0, where `height -= 1`
\* wraps, the query is an error and not a nil header (queryLatestHeaderForShard).
NilOnlyIfNothingLinked ==
  \A r \in Relayers :
    pc[r] = "panicked" => from[r] > 0 /\ Provable(from[r]) = {}

\* The committee a version of the client knows is the one that signs the beacon
\* block its height is taken from, or the next one if that block elects it, also
\* when the committee came from the epoch before, be it that "before" epoch 0
\* (CreateMsgCreateClient: "The last beacon header of the previous epoch is
\* needed").
ClientKnowsSigners ==
  \A v \in 1 .. Len(clients), n \in 0 .. top :
    LET cs == clients[v]
        b  == beacon[n]
    IN (IF ShardId = 0 THEN n = cs.height ELSE cs.height \in b.links) =>
         \/ cs.committee = b.epoch
         \/ IsEpochLast(b) /\ cs.committee = b.state

\* Once there is a client, every block that a header can be built for is covered
\* by an update of it, unless commands keep dying on RPC errors.
ClientCatchesUp ==
  \A m \in 1 .. (IF ShardId = 0 THEN MaxBeacon ELSE MaxShard) :
    (clients # <<>> /\ m \in Provable(top)) ~> (clients # <<>> /\ Current.height >= m)

\* "QueryLatestHeader returns the latest header from the chain" (prover.go:52):
\* the caller gets a header or an error, and no command panics.
QueryNeverPanics == \A r \in Relayers : pc[r] # "panicked"
=============================================================================
