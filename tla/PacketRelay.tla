----------------------------- MODULE PacketRelay -----------------------------
(***************************************************************************)
(* Packets and acknowledgements carried between Harmony and Cosmos by      *)
(* relayers: the queries of relayer/chains/harmony/chain.go, events.go and *)
(* prover.go and of relayer/chains/tendermint/query.go and prover.go, used *)
(* by the commands "relay" and "acks" of the relayer core.                 *)
(*                                                                         *)
(* Time on a chain is counted in versions of its packet state, one for     *)
(* each block that changes it.  A header proves a version; the version a   *)
(* light header proves is one block older on Cosmos than the one that can  *)
(* be queried at its height, and on Harmony any linked one.                *)
(***************************************************************************)
EXTENDS Integers, Sequences, SequencesExt, FiniteSets

CONSTANTS
  Relayers,      \* relayer processes
  NoPacket,      \* the packet of an update message
  FromHarmony,   \* bound: packets Harmony sends
  FromCosmos,    \* bound: packets Cosmos sends
  MaxBacklog,    \* bound: own Harmony transactions waiting when a command starts
  PathSrc,       \* the source chain of the path (tests/cases/tm2harmony/configs/path.json)
  MaxFaults      \* bound: failing RPCs and pools that forget

ASSUME RelayAssumption ==
  /\ FromHarmony \in Nat /\ FromCosmos \in Nat
  /\ MaxBacklog \in Nat /\ MaxFaults \in Nat
  /\ PathSrc \in {"harmony", "cosmos"}

VARIABLES
  ver,      \* per chain, its current version
  headed,   \* per chain, the newest version with a header that proves it
  sent, received, acked,  \* per packet, the version that did it, or Never
  knows,    \* per chain, the versions of the other one its client knows
  queue,    \* per relayer, its transactions in the Harmony pool
  pc,       \* per relayer, where its command is
  kind,     \* per relayer, its command
  query,    \* per relayer and chain, the version it queries, or Never
  header,   \* per relayer and chain, the version that the header it holds proves
  proof,    \* per relayer and chain, the version it takes proofs at
  batch,    \* per relayer and chain, the packets of the messages to it
  rival,    \* per relayer, Cosmos was changed by another since it began (history)
  faults

chainVars == <<ver, headed, sent, received, acked, knows>>
commandVars == <<pc, kind, query, header, proof, batch, rival>>
vars == <<chainVars, queue, commandVars, faults>>

-----------------------------------------------------------------------------
Chains == {"harmony", "cosmos"}
Other(c) == IF c = "harmony" THEN "cosmos" ELSE "harmony"

\* A packet is its source and sequence.
Packets == ({"harmony"} \X (1 .. FromHarmony)) \union ({"cosmos"} \X (1 .. FromCosmos))
Src(p) == p[1]
Dst(p) == Other(p[1])

Never == -1
Unread == [c \in Chains |-> Never]
By(t, v) == t # Never /\ t <= v     \* done at version v or before

Kinds == {"relay", "acks"}

\* A packet's commitment is stored when it is sent and deleted when acknowledged.
HasCommitment(p, v) == By(sent[p], v) /\ ~By(acked[p], v)
HasReceipt(p, v) == By(received[p], v)

\* What a message about p rests on is in the state of a version: the commitment
\* on the packet's source, the acknowledgement on its destination.
Stored(k, p, v) == IF k = "relay" THEN HasCommitment(p, v) ELSE HasReceipt(p, v)

\* A storage proof taken at version v shows it; taking one never fails, it then
\* proves that there is nothing.
Provable(k, p, v) == Stored(k, p, v)

Done(k, p) == IF k = "relay" THEN received[p] # Never ELSE acked[p] # Never

-----------------------------------------------------------------------------
(* The chains *)

\* Cosmos seals a version with the next block, whose header proves it.
NewVersion(c) ==
  /\ ver' = [ver EXCEPT ![c] = @ + 1]
  /\ headed' = IF c = "cosmos" THEN [headed EXCEPT ![c] = ver[c]] ELSE headed

SendPacket(p) ==
  /\ sent[p] = Never
  /\ \A q \in Packets : Src(q) = Src(p) /\ q[2] < p[2] => sent[q] # Never
  /\ NewVersion(Src(p))
  /\ sent' = [sent EXCEPT ![p] = ver[Src(p)] + 1]
  /\ UNCHANGED <<received, acked, knows, queue, commandVars, faults>>

\* An empty block on Cosmos; a block of the beacon chain that links a block of the
\* Harmony shard.
NewHeader(c) ==
  /\ headed[c] < ver[c]
  /\ \E v \in headed[c] + 1 .. ver[c] : headed' = [headed EXCEPT ![c] = v]
  /\ UNCHANGED <<ver, sent, received, acked, knows, queue, commandVars, faults>>

\* The client on d takes a header that is news to it, or one it has.
TakesUpdate(d, v) == v \in knows[d] \/ \A w \in knows[d] : v > w

\* The IBC handler on d accepts a message about p with a proof taken at version v.
TakesPacket(d, k, p, v) ==
  /\ ~Done(k, p)
  /\ k = "acks" => sent[p] # Never
  /\ Provable(k, p, v)

\* The messages about S are executed on d.
Apply(d, k, S) ==
  /\ NewVersion(d)
  /\ IF k = "relay"
     THEN /\ received' = [p \in Packets |-> IF p \in S THEN ver[d] + 1 ELSE received[p]]
          /\ UNCHANGED acked
     ELSE /\ acked' = [p \in Packets |-> IF p \in S THEN ver[d] + 1 ELSE acked[p]]
          /\ UNCHANGED received

\* The next transaction of a relayer on Harmony: it is executed or reverted.
Execute(r) ==
  /\ queue[r] # <<>>
  /\ LET m == Head(queue[r]) IN
     \/ /\ m.kind = "update"
        /\ knows' = IF TakesUpdate("harmony", m.proof)
                    THEN [knows EXCEPT !["harmony"] = @ \union {m.proof}] ELSE knows
        /\ UNCHANGED <<ver, headed, received, acked>>
     \/ /\ m.kind # "update"
        /\ IF m.proof \in knows["harmony"] /\ TakesPacket("harmony", m.kind, m.pkt, m.proof)
           THEN Apply("harmony", m.kind, {m.pkt})
           ELSE UNCHANGED <<ver, headed, received, acked>>
        /\ UNCHANGED knows
  /\ queue' = [queue EXCEPT ![r] = Tail(@)]
  /\ UNCHANGED <<sent, commandVars, faults>>

\* The pool forgets what it has of a relayer.
Lose(r) ==
  /\ queue[r] # <<>> /\ faults < MaxFaults
  /\ queue' = [queue EXCEPT ![r] = <<>>]
  /\ faults' = faults + 1
  /\ UNCHANGED <<chainVars, commandVars>>

-----------------------------------------------------------------------------
(* A command *)

\* The command is over; the next one is of the other kind.
Over(r) ==
  /\ pc' = [pc EXCEPT ![r] = "idle"]
  /\ kind' = [kind EXCEPT ![r] = IF @ = "relay" THEN "acks" ELSE "relay"]
  /\ query' = [query EXCEPT ![r] = Unread]
  /\ header' = [header EXCEPT ![r] = Unread]
  /\ proof' = [proof EXCEPT ![r] = Unread]

ProvableVersion_Queryable(c) ==   \* Bug: no block less on Cosmos (prover.go:190)
  IF c = "cosmos" THEN ver[c] ELSE headed[c]

\* UpdateLightWithHeader: provableHeight
ProvableVersion(c) == headed[c]

QueryableVersion_Provable(c) == 0     \* Bug: the height of the first header is kept

\* UpdateLightWithHeader: queryableHeight
QueryableVersion(c) == IF c = "cosmos" THEN ver[c] ELSE headed[c]

UpdateLightWithHeader(r, c) ==
  /\ header' = [header EXCEPT ![r][c] = headed[c]]
  /\ query' = [query EXCEPT ![r][c] = QueryableVersion(c)]
  /\ proof' = [proof EXCEPT ![r][c] = ProvableVersion(c)]
  /\ UNCHANGED <<chainVars, queue, kind, batch, rival, faults>>

\* A command begins with the header of the path's source chain.
Begin(r) ==
  /\ pc[r] = "idle" /\ Len(queue[r]) <= MaxBacklog
  /\ UpdateLightWithHeader(r, PathSrc)
  /\ pc' = [pc EXCEPT ![r] = "sync"]

Sync(r) ==
  /\ pc[r] = "sync"
  /\ UpdateLightWithHeader(r, Other(PathSrc))
  /\ pc' = [pc EXCEPT ![r] = "collect"]

\* The event logs of Harmony, of all blocks to the latest: the packets sent, also
\* those that are acknowledged already, and the acknowledgements written.
GetAllPackets == {p \in Packets : Src(p) = "harmony" /\ sent[p] # Never}
GetAllAcknowledgements == {p \in Packets : Dst(p) = "harmony" /\ received[p] # Never}

\* On Cosmos the stores are queried, at the height.
QueryPacketCommitments(r) ==
  {p \in Packets : Src(p) = "cosmos" /\ HasCommitment(p, query[r]["cosmos"])}

QueryPacketAcknowledgementCommitments(r) ==
  {p \in Packets : Dst(p) = "cosmos" /\ HasReceipt(p, query[r]["cosmos"])}

QueryUnrecievedPackets_All(r, d, S) == S    \* Bug: the receipts are not looked up

QueryUnrecievedPackets(r, d, S) == {p \in S : ~HasReceipt(p, query[r][d])}

QueryUnrecievedAcknowledgements(r, d, S) == {p \in S : HasCommitment(p, query[r][d])}

\* What chain c has for the other one.
Unrelayed(r, c) ==
  IF kind[r] = "relay"
  THEN QueryUnrecievedPackets(r, Other(c),
         IF c = "harmony" THEN GetAllPackets ELSE QueryPacketCommitments(r))
  ELSE QueryUnrecievedAcknowledgements(r, Other(c),
         IF c = "harmony" THEN GetAllAcknowledgements
         ELSE QueryPacketAcknowledgementCommitments(r))

BySequence(S) ==
  CHOOSE s \in [1 .. Cardinality(S) -> S] : \A i, j \in DOMAIN s : i < j => s[i][2] < s[j][2]

\* The packet of an event, and the data of an acknowledgement, looked up by its
\* sequence: in Harmony's logs, or as the one transaction that a search on Cosmos
\* finds, in both cases without regard to the height.
FindPacket(p) == sent[p] # Never
FindAcknowledgement(p) == received[p] # Never

ValueFound_Latest(r, c, p) ==   \* Bug: the value is read at the latest block
  Stored(kind[r], p, ver[c])

\* The commitment or acknowledgement on chain c is read by a call of its own, at
\* the height that the proof will be taken at; "not found" is an error.
ValueFound(r, c, p) == Stored(kind[r], p, proof[r][c])

\* Each packet or acknowledgement is looked up, and its value; one that is not
\* stored yet fails the command.
AllFound(r) ==
  \A c \in Chains : \A p \in Unrelayed(r, c) :
    /\ FindPacket(p)
    /\ kind[r] = "acks" => FindAcknowledgement(p)
    /\ ValueFound(r, c, p)

Collect(r) ==
  /\ pc[r] = "collect"
  /\ LET todo == [d \in Chains |-> Unrelayed(r, Other(d))] IN
     IF AllFound(r) /\ \E d \in Chains : todo[d] # {}
     THEN /\ batch' = [batch EXCEPT ![r] = [d \in Chains |-> BySequence(todo[d])]]
          /\ pc' = [pc EXCEPT ![r] = IF todo[PathSrc] # {} THEN "toSrc" ELSE "toDst"]
          /\ query' = [query EXCEPT ![r] = Unread]
          /\ UNCHANGED <<kind, header, proof, rival>>
     ELSE Over(r) /\ rival' = [rival EXCEPT ![r] = FALSE] /\ UNCHANGED batch
  /\ UNCHANGED <<chainVars, queue, faults>>

\* The whole batch, client update first, is one transaction on Cosmos.
TakesBatch(r) ==
  LET v == proof[r]["harmony"] IN
  /\ TakesUpdate("cosmos", header[r]["harmony"])
  /\ v \in knows["cosmos"] \union {header[r]["harmony"]}
  /\ \A i \in DOMAIN batch[r]["cosmos"] : TakesPacket("cosmos", kind[r], batch[r]["cosmos"][i], v)

\* The messages to d are sent, those to the source chain of the path first.
Submitting(r, d) ==
  pc[r] = IF d = PathSrc THEN "toSrc" ELSE "toDst"

Sent(r, d) ==
  /\ batch' = [batch EXCEPT ![r][d] = <<>>]
  /\ IF d = PathSrc /\ batch[r][Other(d)] # <<>>
     THEN pc' = [pc EXCEPT ![r] = "toDst"] /\ UNCHANGED <<kind, query, header, proof>>
     ELSE Over(r)

SubmitToCosmos(r) ==
  /\ Submitting(r, "cosmos")
  /\ IF TakesBatch(r)
     THEN /\ Apply("cosmos", kind[r], ToSet(batch[r]["cosmos"]))
          /\ knows' = [knows EXCEPT !["cosmos"] = @ \union {header[r]["harmony"]}]
          /\ rival' = [s \in Relayers |-> s # r /\ pc[s] # "idle"]
     ELSE /\ rival' = [rival EXCEPT ![r] = FALSE]
          /\ UNCHANGED <<ver, headed, received, acked, knows>>
  /\ Sent(r, "cosmos")
  /\ UNCHANGED <<sent, queue, faults>>

Transactions_NoUpdate(r) ==   \* Bug: the client update is left out
  [i \in DOMAIN batch[r]["harmony"] |->
     [kind |-> kind[r], pkt |-> batch[r]["harmony"][i], proof |-> proof[r]["cosmos"]]]

Transactions_Query(r) ==   \* Bug: the update is of the height queried, not of the header
  <<[kind |-> "update", pkt |-> NoPacket, proof |-> query[r]["cosmos"]]>>
  \o Transactions_NoUpdate(r)

\* On Harmony each message is a transaction; an RPC failure leaves a prefix of them.
Transactions(r) ==
  LET v == proof[r]["cosmos"]
      pkts == batch[r]["harmony"]
  IN <<[kind |-> "update", pkt |-> NoPacket, proof |-> header[r]["cosmos"]]>>
     \o [i \in DOMAIN pkts |-> [kind |-> kind[r], pkt |-> pkts[i], proof |-> v]]

SubmitToHarmony(r) ==
  /\ Submitting(r, "harmony")
  /\ LET txs == Transactions(r) IN
     \/ queue' = [queue EXCEPT ![r] = @ \o txs] /\ UNCHANGED faults
     \/ \E n \in 0 .. Len(txs) - 1 :
          /\ faults < MaxFaults
          /\ queue' = [queue EXCEPT ![r] = @ \o SubSeq(txs, 1, n)]
          /\ faults' = faults + 1
  /\ Sent(r, "harmony")
  /\ rival' = [rival EXCEPT ![r] = @ /\ batch[r]["cosmos"] # <<>>]
  /\ UNCHANGED chainVars

\* An RPC fails, or the process dies.
Fail(r) ==
  /\ pc[r] # "idle" /\ faults < MaxFaults
  /\ faults' = faults + 1
  /\ Over(r)
  /\ batch' = [batch EXCEPT ![r] = [c \in Chains |-> <<>>]]
  /\ rival' = [rival EXCEPT ![r] = FALSE]
  /\ UNCHANGED <<chainVars, queue>>

-----------------------------------------------------------------------------
Init ==
  /\ ver = [c \in Chains |-> 0] /\ headed = ver
  /\ sent = [p \in Packets |-> Never] /\ received = sent /\ acked = sent
  /\ knows = [c \in Chains |-> {0}]
  /\ queue = [r \in Relayers |-> <<>>]
  /\ pc = [r \in Relayers |-> "idle"]
  /\ kind = [r \in Relayers |-> "relay"]
  /\ query = [r \in Relayers |-> Unread] /\ header = query /\ proof = query
  /\ batch = [r \in Relayers |-> [c \in Chains |-> <<>>]]
  /\ rival = [r \in Relayers |-> FALSE]
  /\ faults = 0

Forward(r) ==
  Begin(r) \/ Sync(r) \/ Collect(r) \/ SubmitToCosmos(r) \/ SubmitToHarmony(r)

Next ==
  \/ \E p \in Packets : SendPacket(p)
  \/ \E c \in Chains : NewHeader(c)
  \/ \E r \in Relayers : Execute(r) \/ Lose(r) \/ Forward(r) \/ Fail(r)

\* Commands go on and are run again, in turn; both chains produce blocks.
Fairness ==
  /\ \A r \in Relayers : WF_vars(Forward(r)) /\ WF_vars(Execute(r))
  /\ \A c \in Chains : WF_vars(NewHeader(c))

Spec == Init /\ [][Next]_vars

FairSpec == Spec /\ Fairness

-----------------------------------------------------------------------------
(* Properties *)

Versions == 0 .. 2 * (FromHarmony + FromCosmos)

Message ==
  [kind : Kinds \union {"update"}, pkt : Packets \union {NoPacket}, proof : Versions]

TypeOK ==
  /\ ver \in [Chains -> Versions] /\ headed \in [Chains -> Versions]
  /\ {sent, received, acked} \subseteq [Packets -> Versions \union {Never}]
  /\ knows \in [Chains -> SUBSET Versions]
  /\ queue \in [Relayers -> Seq(Message)]
  /\ pc \in [Relayers -> {"idle", "sync", "collect", "toSrc", "toDst"}]
  /\ kind \in [Relayers -> Kinds]
  /\ query \in [Relayers -> [Chains -> Versions \union {Never}]]
  /\ header \in [Relayers -> [Chains -> Versions \union {Never}]]
  /\ proof \in [Relayers -> [Chains -> Versions \union {Never}]]
  /\ batch \in [Relayers -> [Chains -> Seq(Packets)]]
  /\ rival \in [Relayers -> BOOLEAN]
  /\ faults \in 0 .. MaxFaults

\* Whatever is on its way, in a command or in the pool of Harmony, carries a proof
\* that holds at the version it is taken at, which is the one that the header sent
\* along proves (the heights of UpdateLightWithHeader, the ...WithProof queries and
\* the block of the header agree).
MessagesProvable ==
  \A r \in Relayers :
    /\ \A d \in Chains : \A i \in DOMAIN batch[r][d] :
         /\ Provable(kind[r], batch[r][d][i], proof[r][Other(d)])
         /\ proof[r][Other(d)] = header[r][Other(d)]
    /\ \A i \in DOMAIN queue[r] :
         LET m == queue[r][i] IN
         m.kind # "update" => Provable(m.kind, m.pkt, m.proof)

\* Cosmos refuses a relayer's transaction only if another relayer changed Cosmos
\* since the command began: heights, lists and receipts that a command reads
\* at different moments never make it refuse itself.
RefusedOnlyForRival ==
  [][\A r \in Relayers :
       SubmitToCosmos(r) /\ ~TakesBatch(r) => rival[r]]_vars

\* A transaction about a packet reverts on Harmony only if the packet has got there
\* before it, if a newer update of another relayer made the client refuse this one's,
\* or after a fault: the update goes first in a batch, and transactions that wait in
\* the pool stay valid while both chains go on.
RevertsOnlyIfStale ==
  [][\A r \in Relayers :
       Execute(r) /\ Head(queue[r]).kind # "update" /\ UNCHANGED ver
       => LET m == Head(queue[r]) IN
          \/ Done(m.kind, m.pkt)
          \/ \E v \in knows["harmony"] : v > m.proof
          \/ faults > 0]_vars

stage ==
  [p \in Packets |->
     CASE acked[p] # Never -> "acknowledged"
       [] acked[p] = Never /\ received[p] # Never -> "received"
       [] received[p] = Never /\ sent[p] # Never -> "sent"
       [] OTHER -> "unsent"]

\* Relaying implements the channel: every packet sent is received and then
\* acknowledged, once each and in the end, although commands abort, are refused,
\* die half way or race each other, and transactions are lost.
Promise == INSTANCE Channel WITH Packets <- Packets, stage <- stage

Delivers == Promise!FairSpec

=============================================================================
