# A verification of the Harmony–Cosmos bridge relayer

This directory holds TLA+ specifications of the relayer modules in `relayer/`,
the TLC models that check them and TLAPS proofs of the most important results.
Every definition is translated from the Go source; `PROJECT.json` maps each one
to the lines it stands for.

## 1. The system

The relayer (`relayer/main.go`) is the yui-relayer command line with two chain
modules: `harmony` and `tendermint` (a Cosmos chain).  Each module has a *chain*
(queries and transactions) and a *prover* (light-client headers and proofs).  The
core of yui-relayer, the IBC contracts on Harmony, the light clients and the
chains themselves are other repositories.

A command such as `tx relay` asks both provers for their newest header
(`UpdateLightWithHeader`), queries packets on both chains, lets each prover
prepare its header for the client on the other chain (`SetupHeader`), collects
values with proofs, and gives each chain a batch of messages, client update
first (`SendMsgs` or `Send`).  The process then ends; the scripts in `tests/` run
commands again until they succeed (`retry`).  A service runs the same steps in a
loop.  Nothing coordinates two processes for the same path except the chains and
the lock on the light-client database.

| Component | State | Operations | Interacts with | Correct when |
|---|---|---|---|---|
| Harmony prover (`harmony/prover.go`, `client.go`) | none but the header a command holds | `QueryLatestHeader` (beacon / cross-link scan), `CreateMsgCreateClient`, `SetupHeader`, `UpdateLightWithHeader`, `Query...WithProof` | Harmony RPC nodes, one call at a time; the client state on the Cosmos chain, read at the height of the local light client | headers are the newest provable ones, later ones are newer, the client can follow the committees to each and knows the one that signs for its height, and no answer "nothing is linked" hides a link |
| Harmony sender (`harmony/tx.go`, `demo.go`) | keystore (account, locked or not) | `SendMsgs`, `Send`, one transaction per message | node: pending nonce, then transaction; other processes with the same account | batches execute as prefixes, nonces have no hole, conflicts have a winner |
| Light-client database (`tendermint/light.go`, `prover.go`, `cmd/light.go`) | trusted blocks in a goleveldb directory, its lock | `init`, `update`, `header`, `delete`, and the relaying commands | other processes; the Cosmos node | the lock is never leaked, no command works with older blocks than were trusted when it began |
| Harmony queries and events (`harmony/chain.go`, `events.go`, `proof.go`) | none | queries at a height, packets and acknowledgements from event logs | Harmony node | what is relayed is what was sent, provable at the height used |
| Tendermint sender (`tendermint/chain.go`) | key, account sequence on the chain | simulate, sign, broadcast; `SendMsgs`, `Send` | node; other processes with the same key | a reported success is one, a sequence is used once |
| Tendermint queries (`tendermint/query.go`, `prover.go`) | none | queries with proofs, packets from transactions, validator sets | node | as for Harmony |
| SDK context (`tendermint/chain.go`, `contextual.go`, `cmd/keys.go`) | global bech32 prefixes and a mutex | `UseSDKContext` and every codec call | all goroutines | a codec call sees its own chain's prefixes, nobody waits for himself |
| Header conversions (`tendermint/types`) | none | field copies | the light client's blocks; the wire format | nothing is lost that a verifier needs |
| Generated code (`*.pb.go`) | none | `Size`, `Marshal`, `Unmarshal`, `skip` of 36 messages | the contract and the chains, which read and write the same bytes | what is written is read back; nothing read makes it panic |
| Contract deployment (`contract/migrations`) | deployed and linked contracts | four migrations | Harmony node | a contract is deployed after what it links |
| Scripts (`tests/`) | – | handshake, transfer, retries | commands | the handshake ends |
| Test chain (`tests/chains/tendermint/simapp`) | a sample Cosmos application | genesis accounts, export | – | supply equals balances |

What is hard here is in `PROJECT.json` under `hazards`: state read in one RPC
and used in a later one, two processes on one account or one database, batches
that fail half way, boundaries of epochs and heights, and things that must
eventually happen although every command may die.

## 2. Modules

| Module | Models | Section |
|---|---|---|
| `HarmonyProver` (`MCHarmonyProver`) | the Harmony prover | 3 |
| `HarmonyProver_proofs` | theorems about it | 4 |
| `HarmonySender` (`MCHarmonySender`) | the Harmony sender | 5 |
| `HarmonySender_proofs` | theorems about it | 5 |
| `TmLightDB` | the light-client database | 6 |
| `TmLightDB_proofs` | theorems about it | 6 |
| `Commands` | what sending with one account promises: commands that take effect as a whole, once, or not | 7 |
| `TendermintSender` | the Tendermint sender; implements `Commands` | 7 |
| `TendermintSender_proofs` | theorems about it, the refinement among them | 7 |
| `Channel` | what relaying promises: an abstract unordered channel | 8 |
| `PacketRelay` | packets and acknowledgements between both chains; implements `Channel` | 8 |
| `PacketRelay_proofs` | theorems about it | 8 |
| `ProtoMessages` | the schemas of the 36 messages of the protocol files | 9 |
| `HeaderConversion` | Tendermint headers to messages and back; extends `ProtoMessages` | 9 |
| `HeaderConversion_proofs` | a theorem about it | 9 |
| `WireParts` | varints, fixed words, slices, unknown fields and a round of `Unmarshal`'s loop; extends `ProtoMessages` | 9 |
| `WireParts_proofs` | theorems about these, for all widths, values and bytes | 9 |
| `Wire` | whole messages, written and read; extends `HeaderConversion` and `WireParts` | 9 |

The `MC` modules only add the symmetry sets.  Definitions whose names end in
`_Something` and whose comment begins with "Bug:" are mutations, used to
confirm that each property can fail; no specification uses them.

## 3. HarmonyProver

**State.** The chains: `beacon` (epoch, next committee, cross links and root of
each block), `shard` (epoch of each block), `top`, `shardTop`, `linked`.  The
client on the Cosmos chain: `clients`, all versions of its state, oldest first,
because `SetupHeader` may read any of them.  Per relayer process: where it is
(`pc`), the loop variable of the scan (`height`), the `BlockNumber` its query began
at (`from`) and the header it holds (`header`).

**Actions.** `QueryLatestHeaderForBeacon` and `QueryLatestHeaderForShard` are the
two branches of `QueryLatestHeader`.  The scan is one action per iteration
(`ScanDown`, `ScanFound`, `ScanExhausted`), since every iteration is an RPC between
which chains grow.  `height -= 1` is that of a uint64 (`Before`, with `MaxUint64` scaled
down): a query at block 0 goes on at a height far above the chain, where the next
`FullHeader` fails (`ScanBeyond`), or is not begun at all on the beacon shard.  `CreateClient` and `CreateRejected` are
`CreateMsgCreateClient`.  A held block that elects nobody needs the last block of the epoch
before (`CommitteeBlocks`), and that of epoch 0 is `MaxUint64`: `EpochLastBlockNumber`, computed by the
node in floating point, may then answer 0 or a number beyond the chain, and the
genesis block does give a committee, that of epoch 0.  `SetupHeader` is one action that picks any earlier client
version; if the last block of an epoch in between is not known it is an error.  `Fail` is any RPC error, which ends a command.  External: `MineBeacon` and
`MineShard` (blocks, epochs, cross links in order), `SubmitUpdate` (the client takes
an update if it is newer and its committee chain can be followed).  The header
queried once is set up and submitted twice (`held`, `ready`, `relayed`, `readyAcks`),
as the relaying service does with packets and acknowledgements; the second
`SetupHeader` works on the header that the first one changed.

**Abstractions.** A header is a pair of block numbers and the epochs of its
epoch headers; a committee is the epoch it signs for; a root is named by the
block that produced it, and only told apart in the guard of `CreateClient`
(`CanCreate`), not kept in the client.  RLP, hashes, signatures and account proofs are left out:
an account proof taken at a block verifies against an equal root only.  Nodes are
honest and the chains do not fork.

**Runs.**

| Run | Instance | Checks |
|---|---|---|
| `prover_shard` | shard 1, two relayers, beacon blocks to 4, shard blocks to 2 | `TypeOK`, `HeaderIsLatestLinked`, `LaterQueryNewerHeader`, `NilOnlyIfNothingLinked`, `UpdateCanBeVerified`, `ClientKnowsSigners`, `ClientCatchesUp` |
| `prover_beacon` | shard 0, two relayers, blocks to 4, one RPC failure | `UpdateCanBeVerified` |
| `prover_nil_header` | shard 1, one relayer | `QueryNeverPanics`, violated |

*Bounds.* Four beacon blocks after the genesis hold several changes of epoch, hence
headers with none, one or more epoch headers; two shard blocks are the fewest with which one beacon
block carries two links of the shard or links follow each other; two relayers are
the fewest with which a client changes under a header that was set up.  `MaxUint64` is 9: all
that matters is that it is above every block.  `NilOnlyIfNothingLinked` and
`ClientKnowsSigners` are about the two subtractions that may wrap; with one that stops at
0 instead, TLC finds each violated.  `prover_beacon` asks the one thing that is harder on
the beacon shard: there the committee of a new client may be one epoch ahead of the epoch of
its height, from which `SetupHeader` counts.  The
proofs of section 4 remove these bounds for everything but liveness.

*Fairness.* A started command goes on and commands are started again (`retry` in
`tests/scripts/util`, the service's loop): weak fairness of `Forward`, the steps of
each relayer but its failures and the creation of the client.  Nothing is assumed of block production, of the creation of a client or of
failures, so `ClientCatchesUp` speaks of blocks already linked and of a client that
exists.

*Finding.* `prover_nil_header`: when no beacon block links the shard,
`queryLatestHeaderForShard` returns a nil pointer in a non-nil interface without
an error (prover.go:549), and `UpdateLightWithHeader` panics on it.

## 4. Proofs about HarmonyProver

`HarmonyProver_proofs` proves, for every set of relayers, every shard and any
length of the chains:

* `TypeCorrect`: `Spec => []TypeOK`
* `HeaderIsLatestLinkedTheorem`, `LaterQueryNewerHeaderTheorem`,
  `NilOnlyIfNothingLinkedTheorem`, `UpdateCanBeVerifiedTheorem`,
  `ClientKnowsSignersTheorem`: `Spec => []P` of the invariants of the same names.

The only assumption is `ProverAssumption` (the constants are natural numbers, and `MaxUint64` is above every beacon block).  None
of the invariants is inductive alone.  The inductive invariant `IInv` adds:

* `ChainInv`, what the two chains guarantee: epochs and committees only move
  forward, links are in order, the genesis block links nothing and elects the committee
  of its own epoch, the shard is never in an epoch before the beacon chain, and there
  are no more epochs and blocks than `MaxBeacon`, so that only what wrapped is `MaxUint64`;
* `ScanInv`, what a scan has excluded so far: no block above `height` up to `from`
  links the shard, unless the scan began at block 0 and its height wrapped;
* `HeldInv`, of a header held: its block was the newest with a link when the query began;
* `ClientInv`: each version of the client knows the committee of the epoch of its
  own block or the one after, and versions only move forward;
* `EpochsInv`: the epoch headers of a header that is set up begin no later than
  what the current client, or any later one that the header is still news to, knows,
  and run without a gap to the epoch before the header's.

`ClientInv` and `EpochsInv` are the heart of it: a header computed from an *old*
version of the client stays verifiable by a *newer* one because it reaches further
back, and the newer one enters the chain of epoch headers in the middle
(`EnterEpochChain`, `NewsIsNotBehind`).  The proof has one lemma per action
(`...Keeps`), `NextKeeps` combines them, and `Invariance` concludes
`Spec => []IInv`.  Liveness (`ClientCatchesUp`) is model-checked only: fairness and
ENABLED are out of the prover's reach.

## 5. HarmonySender

**State.** Per process: where it is in `SendMsgs` (`pc`), its batch, message and
nonce, whether its keystore holds the key unlocked, and what `Send` returned.  A transfer
(`TxMsgTransfer` in `demo.go`) is the same sequence of calls for a batch of one.  The
node's `pool` by nonce, counted from the account's own nonce so that mining shifts
it down; this is what keeps a system that sends for ever finite.  Names of batches
are used again once no process and no transaction has them.

**Actions.** `CountNonce` (build the call, unlock, ask for the pending nonce) and
`Accepted` / `Rejected` / `ExecuteFails` (hand the transaction over, lock again on
success only) are separate because other processes and the chain act in between.
`CountFails` is a call that cannot be packed, or an account that cannot be found or
unlocked.  An RPC failure of `CountNonce` gives the nonce 0 and no error (`Unasked`), one of
`ExecuteFails` may come after the node has taken the transaction.  External: the
pool's admission, `Mine`, and `Lose` for a pool that forgets a transaction.

**Runs.**

| Run | Instance | Checks |
|---|---|---|
| `sender` | two processes, batches of two, a pool of five, one failure, one loss, one revert | `TypeOK`, `ExecutedInOrder`, `NoGapUnlessLost`, `ConflictHasWinner` |
| `sender_live` | one process, a pool of six, one failure, one loss, one revert | `LoneSenderSucceeds` |
| `sender_reverted` | one process, one revert | `SendTrueIsSuccess`, violated |

*Bounds.* Two messages are the fewest with an order, two processes the fewest with
a conflict.  The pool is large enough that both batches and what waits before them
fit; it fills up in `sender`.  `MaxBacklog` is a bound of the model, not of the
code: a command starts when at most one transaction waits, or when the pool is stuck
behind a hole (then it may start at any length, since only sending fills the hole).

*Fairness.* A process whose command has not finished goes on and commands are
repeated; the chain executes what it can.  With a second process on the account,
`LoneSenderSucceeds` would not hold: two processes can reject each other for ever.

*What the runs taught.* `ExecutedInOrder` needs its condition on `lost`.  If the
pool loses a transaction while a batch is being sent, the batch's first message waits
behind the hole, the second is told the nonce of the hole, and is executed first.

*Finding.* `sender_reverted`: `Send` "returns a boolean value whether the result is
success" (tx.go:83), but no receipt is read.

**Proofs.** `HarmonySender_proofs` proves, for any processes, batches of any length, a
pool of any size and any number of faults, every safety property of `sender`:
`TypeCorrect`, `BatchesInOrder` and `NoHoles` (`Spec => []P` of `TypeOK`,
`ExecutedInOrder` and `NoGapUnlessLost`) and `RefusedForRival` (`Spec =>` the action
property `ConflictHasWinner`).  The only assumption is `SenderAssumption`.  The inductive
invariant `IInv`, which TLC found to hold in the instance of `sender`, adds to the types:

* `Apart`: no two processes send the same batch;
* `Sending`: what the pool has taken of a batch being sent is exactly what comes
  before the message at hand;
* `Told`: while no other process is accepted, the slot that a process was told stays
  free and is not used up;
* `Careful`: below the nonce that a process was told there is no hole, and all that
  the pool holds of its batch is below it too, unless the pool has lost something;
* `Solid`: there is no hole below a transaction, under the same condition;
* `Queued`: for a batch that lost nothing, what was executed is a prefix of what was
  taken, and the rest waits in the pool in the batch's order.

`Careful` is the heart of it: `PendingNonce` is the *first* free slot (`Pending`), so a
process leaves no hole whoever enters before it, and a batch whose earlier
messages stand on solid ground is told a nonce above all of them.  A lost transaction
breaks just this, hence the condition of `ExecutedInOrder`.  `EnterKeeps` is shared by
an accepted transaction and by one that is taken although its sender sees an
error; `Shift` and `Counted` say what mining does to slots and nonces.

## 6. TmLightDB

**State.** The node's height `tip`; the directory: `db` (trusted heights) and `owner`
of its lock; per process what it has open (`handle`: nothing, the directory's files,
or removed ones, whose blocks are `orphan`), its command, where it is and the heights
it has read (`mine`, `dsth`).

**Actions.** A command is a sequence of *jobs*, each of which opens the database
(`OpenDB`, `OpenRetry`) and closes it when its function returns (`Close`, in `Exit` and
`GoOn`): `light init` one, `light update` two (`GetLatestLightHeader`, then
`UpdateLightWithHeader`), `light header` one, with a height or without, `light header
[chain-id] 0` two, and a
relaying command two (`UpdateLightWithHeader`, then `GetLatestLightHeight` in the other
prover's `SetupHeader`).  `ForceTip` is apart from `ForceInit` because the chain
grows between the two calls.  `DeleteLightDB` takes no lock.  A job's own reads and
writes are one action: the lock excludes other processes, and a deletion in the
middle equals one before or after.  `Watch` keeps the history variable `rewound`: a
command that is running when the database loses its last block, or is deleted, is told,
and the properties about what it works with exempt it; a command that begins afterwards
is not.

**Abstractions.** A light block is its height and the node is honest.  The light
client library stores the newest block on `Update` and, when initialised at a
height, drops later ones; it prunes only beyond a thousand blocks, which no run
reaches.  The trusting period, whose end makes every use fail, is part of `Fail`.

**Runs.**

| Run | Instance | Checks |
|---|---|---|
| `light_db` | two processes, two attempts, heights 1 and 2, one deletion | `TypeOK`, `LockHeldWhileOpen`, `RelaysTheNewest`, `SetupNotBehind`, `DeleteForcesInit`, `ShownHeaderIsStored`, `EveryCommandEnds` |
| `light_update` | the same without deletion | `UpdateReports`, violated |

*Bounds.* Two heights are enough to be older, newer and set back; one deletion to
have files removed under a process and a new database beside them; two attempts
(five in the code) to retry and to give up.

*Fairness.* A command that has begun keeps running.

*Finding.* `light_update`: the command asserts its result to be a `*tmclient.Header`
(cmd/light.go:112), which the prover never returns, and panics after every
successful update.

**Proofs.** `TmLightDB_proofs` proves, for any processes, any length of the chain and any
number of attempts and deletions, every safety property of `light_db`: `TypeCorrect`,
`LockFollowsHandle`, `RelayIsFresh` and `SetupFollows` (`Spec => []P` of `TypeOK`,
`LockHeldWhileOpen`, `RelaysTheNewest` and `SetupNotBehind`), `InitAfterDelete` and
`HeaderIsThere` (`Spec =>` the action properties `DeleteForcesInit` and
`ShownHeaderIsStored`).  The only assumption is `LightAssumption`.  The inductive
invariant `IInv` consists of the types, `Honest` (the database holds blocks that the node
has) and, for each process,

* `Lock`: the property about the lock;
* `Fits`: the job is one of the command, and a height that the job needs was read;
* `Informed`: a height to trust, once asked of the node, is one that the node has;
* `Kept`: unless the database was set back, its last height is not below what it was when the
  command began, every height the command has read is still in it and is not
  below that either, and removed files that are open are empty.

`Kept` is preserved by what *others* do because whatever replaces the blocks `S` of a
database either has a lower last height or contains `S`
(`Follows`, shown of trusting a height and of updating), and a lower last height
is what `rewound` records (`DbGoesOn`, `Waits`).  The removed files must be part of it: a
process that has them open goes on with the old blocks beside a new database, and only
because its deletion emptied the database does `rewound` cover it.  Each action has a
lemma; `ExitKeeps` and `GoOnKeeps` are the two ways in which a job ends.  `InitAfterDelete`
needs no invariant.

## 7. TendermintSender and Commands

**What is promised.** `Commands` has no calls, sequences or mempool: a command takes
on what is not done (`Begin`) and ends in one of three ways.  `Succeed`: it is answered with
code 0 and takes effect at that moment, as a whole, none of its work having been done before.
`Refuse`: it is answered with another code, and nothing of it is done now or later.  `Err`:
the caller is told of an error, and the work may be left over in `late`, from where
`Settle` does it once and as a whole, or drops it.  What callers of `Send` need is in the
guards: there is never more than one command left over, nothing succeeds while one is, and
a process that is refused has none.  `TendermintSender` implements this
(`CommandsAreAtomic`, with `Promise == INSTANCE Commands`): a command runs while its `pc` is not
`"idle"` (`running`), and the transactions in the mempool that nobody waits for are
the ones left over (`late`); one that is waited for is part of its command.

**State.** Per process: where it is in `rawSendMsgs` (`pc`), the work its command
carries (`batch`), the sequence it was told (`seq`) and what came of its command
(`response`: a code, or an error).  The node's `mempool` and the work `done` on the
chain.  Sequences are counted from the committed one, so that executing a
transaction shifts those that processes hold; this keeps a system that sends for
ever finite.  `rival` and `stale` are history variables for the properties.

**Actions.** One per call to the node: `PrepareFactory` (the account's sequence, from
the committed state), `CalculateGas` / `SimulationFails` (the simulation, on the check
state), `Broadcast` / `Refused` / `BroadcastFails`, and `Timeout` for a node that
answers with an error while the transaction stays in its mempool.  Building,
signing and encoding touch nothing shared and belong to `Broadcast`.  External:
`Execute` (which answers the waiting broadcast), `DoneByOther` (a relayer with
another key), `Lose`, `NewWork`.

**Abstractions.** A message is the piece of work it does; a transaction does all of its
work or none, and none if some of it is done already.  Fees and gas are left out but
for their effect: a transaction simulated on another state may fail.  A broadcast
request that the network delays until after its sender has given up is not modelled.

**Run.**

| Run | Instance | Checks |
|---|---|---|
| `tm_sender` | two processes, two pieces of work at a time, three faults | `TypeOK`, `AnswerIsFinal`, `OneInFlight`, `WrongSequenceOnlyForRival`, `FailsOnlyIfStale`, `SilentFailureOnlyIfRaced`, `CommandsAreAtomic`, `AllDone` |

*Bounds.* Two pieces of work are the fewest of which a rival can do a part; work is
renewed without end.  Three faults allow a time-out, the loss of what timed out and
the failure of the next attempt in one behaviour.

*Fairness.* Commands are run again and run to their end (the scripts' `retry`, the
service's loop), and the node executes what is in its mempool.  `AllDone` holds
with two processes although either may refuse the other for a while: whoever is in
the way got its own transaction through.

*What the runs taught.* `OneInFlight` holds because the sequence is asked from the
committed state and the simulation compares it with the check state: a transaction
that waits makes every other command end before it broadcasts.  Nothing in the code
says so, and a sequence counted from the mempool breaks it.  `SendMsgs` returns no
error for a transaction that failed (chain.go:208-211, 304-311), although
chain.go:206 tells its callers to look at the error; `Send` looks at the code.  How far a
caller of `SendMsgs` can be misled is `SilentFailureOnlyIfRaced`: only if another
process's transaction may have spoilt the sequence, or the chain has changed since the
simulation, which turns into an error whatever the command could know of.

**Proofs.** `TendermintSender_proofs` proves, for any processes, any finite set of work
and any number of faults, every safety property of the run: `TypeCorrect`,
`AtMostOneInFlight`, `AnswersAreFinal` (`Spec => []P`), `NoFeeForNothing`,
`SequencesAreRight` and `SilenceNeedsRace` (`Spec =>` the action properties `FailsOnlyIfStale`,
`WrongSequenceOnlyForRival` and `SilentFailureOnlyIfRaced`), and `SenderIsAtomic` (`Spec => CommandsAreAtomic`), the
refinement of `Commands`.  The only assumption is `SenderAssumption`.
The inductive invariant `IInv` adds to the properties what they rest on:

* `WaitedFor`: a transaction that a broadcast waits for is that of its owner's current
  command, so that the answer is about the command's own work;
* `NothingOfOwn`: a process between simulation and broadcast has nothing in the
  mempool, so that a refusal leaves nothing behind;
* `NoAnswerYet`: the answer of an earlier command is not taken for that of this one;
* `SimulatedIsFresh`: the work of whatever was simulated on the present state is undone;
* `SpoiltByRival`: a sequence that differs from the check state's had a rival.

The argument is short: the committed sequence is the check state's next one only
while the mempool is empty (`Entered`), so whatever enters is alone, and what is
executed or lost leaves an empty mempool (`Taken`).  There is one lemma per action
(`...Keeps`); `NextKeeps` combines them.  `SilenceNeedsRace` needs `SharedStaleness` besides: a
transaction that a broadcast waits for is no staler than its owner's simulation.

The refinement rests on the same invariant.  Since at most one transaction waits
(`OneInFlight`), `late` is empty or that transaction (`LateNow`), so that a step that leaves
the mempool alone, or marks in it what was executed around it, leaves `late` alone
(`LateStays`).  Of a process's own steps those that end its command are `Refuse` or `Err`
and the others stutter, but for `Start` (`Ended`, `SendOfCommands`).  An execution is the
`Succeed` or `Refuse` of the process that waits for it, by `WaitedFor`, and the `Settle` of
what nobody waits for (`ExecuteOfCommands`); a loss is a `Settle` or a stutter.

## 8. PacketRelay and Channel

**Composition.** `PacketRelay` puts the queries and senders of both chains into the
commands `relay` and `acks` of the relayer's core.  `Channel` is the abstract
specification: each packet goes from unsent to sent, received and acknowledged, one
stage at a time and each once; under fairness every packet sent gets to the end.  The
operator `stage` computes a packet's stage from the versions in which it was
sent, received and acknowledged, and the property `Delivers`
(`Promise!FairSpec`, with `Promise == INSTANCE Channel`) says that `PacketRelay`
implements it.  That no packet is received twice is what the IBC handlers promise,
whatever a relayer sends (`TakesPacket`, external), so that what is asked of the relayer
is the rest: that every packet gets there.

**State.** Per chain, the *version* of its IBC state (`ver`), the newest version that a
header proves (`headed`) and the versions of the other chain that its client knows
(`knows`).  Per packet, when it was `sent`, `received` and `acked`.  Per
relayer, its command (`pc`, `kind`), the versions at which it queries (`query`),
which its headers prove (`header`), at which it takes proofs (`proof`), its messages
(`batch`) and its transactions in Harmony's pool (`queue`).

**Correspondence.** `UpdateLightWithHeader` is that of both provers: on Harmony one
height serves for everything, on Cosmos the height for proofs is one less than that
for queries (tendermint/prover.go:188-192), hence a version that the header proves.
`GetAllPackets` and `GetAllAcknowledgements` read Harmony's logs and ignore the height
(events.go); `QueryPacketCommitments` and its kin query the Cosmos stores at it.
`Collect` is the part of a command between its queries and its messages: the lists
of both chains, the packets looked up by sequence, values and proofs.  The calls for a
value (`ValueFound`) and for its proof (`Provable`) are told apart: a value that is not found at the
height of the proof fails the command (`AllFound`), but taking a proof never does; it then
proves that nothing is there, which the other chain finds out.  `Collect` is one
action because all of it is asked at heights fixed before, or of logs that only grow
by things that then are not found.  `SubmitToCosmos` sends one
transaction, executed as a whole or not at all; `SubmitToHarmony` one for each
message, of which a failure leaves a prefix.  `Fail` is any other error.

**Abstractions.** Each transaction is in a block of its own, and a header is told
from others by the version it proves only.  A relayer alternates `relay` and `acks`.  Time-outs of packets, the
page limit of the queries (1000) and reorganisations are left out; an index that lags
is a `Fail`.

**Runs.**

| Run | Instance | Checks |
|---|---|---|
| `packet_relay` | one relayer, two packets of Harmony and one of Cosmos, one fault | `TypeOK`, `RefusedOnlyForRival`, `Delivers` |
| `packet_race` | two relayers, a packet from each chain | `MessagesProvable`, `RefusedOnlyForRival`, `RevertsOnlyIfStale` |

*Bounds.* Two packets of one chain are the fewest of which a prefix can be lost, and
of which one can be received while the other is sent.  `MaxBacklog`, which is not in
the code, lets a command start while one transaction of the one before still waits, so that a
command overlaps with what it sent last.

*Fairness.* Commands go on and are run again; Harmony executes what is in the pool;
both chains produce blocks and headers.  `Delivers` is checked for a relayer alone.
With a rival it depends on the rival: a batch on Cosmos fails as a whole when one of
its messages is redundant, and a rival that is always faster with one packet could
starve the others, if new packets never ended.

*What the runs taught.* Harmony's list of packets is read without a height, so that a
packet newer than the header fails the whole command, packets that could be relayed
included.  `Delivers` holds because there are finitely many packets; a stream of
packets faster than the commands would keep every command from sending anything.

**Proofs.** `PacketRelay_proofs` proves, for any relayers, any number of packets from
either chain and any number of faults, every safety property of the two runs:
`TypeCorrect` and `ProofsHold` (`Spec => []P` of `TypeOK` and `MessagesProvable`), and
`RefusalNeedsRival` and `RevertNeedsCause` (`Spec =>` the action properties
`RefusedOnlyForRival` and `RevertsOnlyIfStale`).  The only assumption is
`RelayAssumption`.  The inductive invariant `IInv` consists of

* `Typed`, `InTime` and `KnowsHeaders`: nothing is done, proved or known before the
  version in which it can be, nor received before it is sent;
* `Counted`: every version of a chain did something to a packet, which bounds versions
  by twice the number of packets (the bound in `TypeOK`);
* `ReadInv` and `BatchInv`: what a command holds at each place of it;
* `QueueInv`: each message in Harmony's pool waits behind the update that it needs,
  unless that or a newer one is known already or there was a fault;
* `RivalInv`: as long as nobody else has changed Cosmos, what a command read of it is
  the newest there is, and what it is going to do there is not done;
* `MessagesProvable`, which later versions keep: what a version has stored
  stays provable at it (`ProvableStays`).

There is one lemma per action (`...Keeps`).

## 9. Wire, HeaderConversion and ProtoMessages

**What it is.** The generated code of the four `.pb.go` files repeats one scheme for
each field of each message.  `ProtoMessages` has the messages' schemas, each from its
`Unmarshal`.  The scheme is there once, as functions over a schema.  `WireParts` has what does
not call itself: what a field is written as (`Tag`, `Payload`, `Delimited`), the
reading of each kind of value with the checks of its indices (`Varint`, `Fixed`, `Body`,
`Packed`), the loop that skips an unknown field with its groups (`Skip`, `Unknown`), and `Round`,
one round of the loop of `Unmarshal`, from the tag to the field it ends in; `sub` stands for what came of
the `Unmarshal` of a message within the field.  `Wire` has the recursion over messages:
`MarshalFields` (`MarshalToSizedBuffer`), `Size`, `Marshal` and `Unmarshal`.  A
behaviour writes a message, perhaps changes the bytes, and reads them.
`HeaderConversion` has the functions of `tendermint/types` in both directions; the
initial states of `Wire` include the headers that they make of light blocks.

**Run.**

| Run | Instance | Checks |
|---|---|---|
| `wire` | all 36 messages; bytes of 4 bits, words of 16, int32s of 8 | `NeverPanics`, `ReadsBack`, `CutIsNoticed`, `JoinMerges`, `HeaderSurvives` |

*Bounds.* Numbers are scaled down in proportion: 7 and 1 bits of a byte become 3 and
1, a word of 64 bits one of 16, an int32 of 32 one of 8.  As in the code a word is a whole
number of bytes, a varint of a full word spills one bit into its last byte, and a
length added to an index can overflow.  Each field takes its default, a rich value and the bounds of its type,
in an otherwise empty and an otherwise full message, each of which is read back.  Of the nearly empty
messages and of a full one, the bytes are cut at every place or prefixed or followed by unknown fields of every wire
type.  Two nearly empty messages are joined, a full one is changed one byte at a time, and an empty
one is followed by lengths at the limits.  Headers come with a trusted
height, of revision 0 or another, or without one, as a client is created.

*Abstractions.* Strings are not told from byte slices, nor a nil slice from an empty one,
nor the bit patterns of a float64 beyond their word (negative zero).  `HeaderSurvives` compares what
a verifier hashes: proposer priorities are not carried over.

**Proofs.** `HeaderConversion_proofs` proves `NothingIsLost`: for every light block, whatever
numbers, hashes, signatures and however many votes and validators it has, the
message that is made of it gives back the same header and commit, the trusted height with its
revision, or height zero if there is none, the same validator sets in Tendermint's
order (`ByPower`, which is left uninterpreted), and nothing for trusted validators that
there are not.  `HeaderSurvives` shows the same through the wire format, for samples.

`WireParts_proofs` proves of a round of the loop, for every width of bytes, words and int32s
that `WidthAssumption` allows, every value and whatever bytes are around it:

* `RoundReadsField`: the bytes written for a number, a bool or one byte slice set just that
  field to just that value, and the loop goes on after the last of them;
* `RoundReadsMessage`: the message in a field is read from exactly the bytes that were written for
  it, and what comes of that is put into the field or behind what it has;
* `RoundSkipsField`: a field that the message does not have changes nothing and is passed
  over to its last byte;
* `RoundNoticesCut`: bytes that end within a field, of any type and wherever, are an error;
* `RoundGoesForward`: for any bytes at all, and any of the 36 messages, a round is an error that
  `Unmarshal` returns, or takes a byte at least and ends within the bytes.  No slice is out of
  range, and the loop ends.

They are what `NeverPanics`, `ReadsBack` and `CutIsNoticed` show for whole messages, in the
step on which these depend; what is left to TLC is that rounds and messages
within messages add up.  The assumption `WidthAssumption` is what the code's widths
(7 bits of 8, 64, 32) and those of the run have in common: a varint of a word spills one bit into its last byte, a
word is a number of bytes, an int32 is half a word.  Bytes are those that a Go slice can
have: a `Buffer` is shorter than half a word by more than a word's bytes, since an index
is a signed number and the code adds 8 to one without looking.  `FieldNumbers` are the numbers that
the protocol allows and whose tag is a word.

The argument is in layers.  *Numbers*: powers of two (as numbers of subsets, since no library
has them), and digits: the first `n` digits of a number add up to its remainder modulo the
`n`-th power (`FromDigitsOfNumber`), and `Sov` is how many it takes (`SovFits`), from which
`VarintReadsBack`; the two's complement gives a number back (`SignedReadsBack`).  *Indices*: two
of them that are not negative add up to what they are or to a negative number
(`SumOrNegative`), which is what the code looks for before it slices (`BodyStays`,
`SkippedStays`).  *Loops*: those of `Skip` and `Packed` are functions on the number of their
rounds, which exist (`RoundsExist`), and each of whose values is an error, an end, or
further on (`SkipNextStays`, `PackedStays`).  *Fields*: bytes that are there, or are cut, are
so part by part (`HasParts`), and every field of the schemas has a type that the switch
has a case for (`SchemaKinds`).  Induction is that on a set of natural numbers (`Induct`), from
the least element of its complement.

*What the runs taught.* A member of a oneof that comes twice is replaced, not
merged; the packed list of `InnerSpec` reads its last number beyond its own field;
both are part of `SetField` and `Packed`, and neither breaks a property.  In the proofs `Packed` is why
a round ends *at or after* the end of its field.

## 10. What is proved, and what is only model-checked

Every safety property of every passing run but `wire` is a theorem, for all values of the
constants that the assumptions allow; sections 4 to 9 give the inductive
invariants.  TLC has checked each of those invariants on an instance before it was proved.

Only model-checked are

* the liveness properties `ClientCatchesUp`, `LoneSenderSucceeds`, `EveryCommandEnds`,
  `AllDone` and `Delivers`: fairness and ENABLED are out of the prover's reach;
* the five invariants of `wire`: `NeverPanics`, `ReadsBack`, `CutIsNoticed`, `JoinMerges` and
  `HeaderSurvives`.  They are about `MarshalFields`, `Size`, `Unmarshal` and `Merge`, which are recursive over
  messages within messages, and what such definitions compute needs induction over data,
  which the prover cannot instantiate.  What they do in one round, with any field and any bytes, is proved;
* the order of validators in `HeaderConversion`, and the sum of their power;
* the three properties that are violated, whose counterexamples are found by TLC.

The Harmony sender has no abstract specification of the kind of `Commands`: its batches are
sent in transactions of their own and executed one by one, so that what it promises is the order of
each batch and not its unity, and that is what its invariants say.

## 11. Not modelled

* The handshake of clients, connections and channels, and the queries that only it
  uses: its steps are chosen by the core of yui-relayer, in another repository; the
  code here only passes its messages on.
* The SDK context (`UseSDKContext`, `contextual.go`, `cmd/keys.go`): its calls do not
  nest and a process has one Cosmos chain, so that nothing can go wrong in a model of it.
* Contract deployment: run by hand, in an order that Truffle's deployer decides.
* Packet time-outs, which the relayer never sends messages for.
* `simapp`, a copy of the Cosmos SDK's sample application.
* Argument parsing, configuration, logging, and the accessors, text formats and
  descriptors of the generated code: no state and no choices.
* The code of other repositories beyond what the modules rely on.
