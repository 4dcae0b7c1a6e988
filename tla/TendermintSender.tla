--------------------------- MODULE TendermintSender ---------------------------
(***************************************************************************)
(* How the relayer sends to a Tendermint chain:                            *)
(* relayer/chains/tendermint/chain.go, sendMsgs to Send.                   *)
(*                                                                         *)
(* All messages of a command go into one transaction.  The account's       *)
(* sequence is queried from the committed state, the transaction simulated *)
(* for its gas, signed, and broadcast in block mode: the node first checks *)
(* it and then answers with what its execution gave, or gives up waiting   *)
(* while the transaction stays in its mempool.  Several processes (the     *)
(* relaying service, the operator's scripts) may use the same key.         *)
(*                                                                         *)
(* A command carries all the work (packets, acknowledgements) that it      *)
(* found undone.  The chain executes a transaction as a whole or not at    *)
(* all: it fails if any of its work is already done.  Sequences are        *)
(* counted from the committed one, which every executed transaction uses   *)
(* up, a failed one too.                                                   *)
(***************************************************************************)
EXTENDS Integers, Sequences, FiniteSets

CONSTANTS
  Procs,     \* processes that send with the key
  Work,      \* names for the pieces of work still remembered
  MaxFaults  \* bound: RPC failures, time-outs, lost or starved transactions

ASSUME SenderAssumption == IsFiniteSet(Work) /\ MaxFaults \in Nat

VARIABLES
  pc,        \* where each process is in rawSendMsgs
  batch,     \* the work of its current or last command
  seq,       \* the account sequence it was told
  response,  \* what came of its last command: the code of a response, or an error
  rival,     \* a transaction of which the process does not know may spoil its
             \* sequence (history)
  stale,     \* the chain has executed something since its simulation (history)
  mempool,   \* the account's transactions in the node's mempool, in order
  done,      \* the work done on the chain
  faults

procVars == <<pc, batch, seq, response, rival, stale>>
vars == <<procVars, mempool, done, faults>>

-----------------------------------------------------------------------------
Committed == 0   \* the sequence that the next executed transaction must have
Used == -1       \* one that an executed transaction has used up

Tx == [owner : Procs, batch : SUBSET Work, waited : BOOLEAN, stale : BOOLEAN]

\* The sequence the node's check state expects next: simulations and broadcasts
\* see what is in the mempool, queries do not.
CheckSequence == Committed + Len(mempool)

Sequence_Kept(p) == seq[p]         \* Bug: the one of the last command is used again

Sequence_Check(p) == CheckSequence \* Bug: the transactions in the mempool are counted

\* What prepareFactory is told: the account as of the last block.
Sequence(p) == Committed

Fresh(w) == w \cap done = {}

Fault == faults < MaxFaults /\ faults' = faults + 1

Return(p, r) ==
  /\ pc' = [pc EXCEPT ![p] = "idle"]
  /\ response' = [response EXCEPT ![p] = r]

\* The error that SendMsgs returns, unlike Send: none for a response with a code.
SendMsgs(r) == IF r = "error" THEN "error" ELSE "nil"

-----------------------------------------------------------------------------
(* The processes *)

\* A command begins: what is still to be done goes into its batch.
Start(p) ==
  /\ pc[p] = "idle"
  /\ Work \ done # {}
  /\ batch' = [batch EXCEPT ![p] = Work \ done]
  /\ pc' = [pc EXCEPT ![p] = "account"]
  /\ response' = [response EXCEPT ![p] = "none"]
  /\ UNCHANGED <<seq, rival, stale, mempool, done, faults>>

\* An RPC fails before anything was broadcast: the command ends with the error.
CallFails(p) ==
  /\ pc[p] \in {"account", "simulate"}
  /\ Fault
  /\ Return(p, "error")
  /\ UNCHANGED <<batch, seq, rival, stale, mempool, done>>

PrepareFactory(p) ==
  /\ pc[p] = "account"
  /\ seq' = [seq EXCEPT ![p] = Sequence(p)]
  /\ rival' = [rival EXCEPT ![p] = \E i \in DOMAIN mempool :
                 mempool[i].owner # p \/ ~ mempool[i].waited]
  /\ pc' = [pc EXCEPT ![p] = "simulate"]
  /\ UNCHANGED <<batch, response, stale, mempool, done, faults>>

Simulates_Always(p) == TRUE   \* Bug: the error of the simulation is ignored

\* The simulation runs on the check state: it wants its next sequence, and
\* messages that succeed.
Simulates(p) == seq[p] = CheckSequence /\ Fresh(batch[p])

CalculateGas(p) ==
  /\ pc[p] = "simulate"
  /\ Simulates(p)
  /\ stale' = [stale EXCEPT ![p] = FALSE]
  /\ pc' = [pc EXCEPT ![p] = "broadcast"]
  /\ UNCHANGED <<batch, seq, response, rival, mempool, done, faults>>

SimulationFails(p) ==
  /\ pc[p] = "simulate"
  /\ ~ Simulates(p)
  /\ Return(p, "error")
  /\ UNCHANGED <<batch, seq, rival, stale, mempool, done, faults>>

\* The transaction passes CheckTx, which compares the sequence only.
Enter(p, waited) ==
  /\ seq[p] = CheckSequence
  /\ mempool' = Append(mempool, [owner  |-> p, batch |-> batch[p],
                                 waited |-> waited, stale |-> stale[p]])
  /\ rival' = [q \in Procs |-> rival[q] \/ q # p]

AfterCheck_Sync(p) ==   \* Bug: broadcast in sync mode, where CheckTx answers
  Return(p, "code 0")

\* Block mode: the broadcast now waits for the execution.
AfterCheck(p) ==
  pc' = [pc EXCEPT ![p] = "wait"] /\ UNCHANGED response

Broadcast(p) ==
  /\ pc[p] = "broadcast"
  /\ Enter(p, TRUE)
  /\ AfterCheck(p)
  /\ UNCHANGED <<batch, seq, stale, done, faults>>

\* CheckTx refuses the sequence: a response with a code, and no error.
Refused(p) ==
  /\ pc[p] = "broadcast"
  /\ seq[p] # CheckSequence
  /\ Return(p, "other code")
  /\ UNCHANGED <<batch, seq, rival, stale, mempool, done, faults>>

\* The RPC fails, before or after the node has taken the transaction.
BroadcastFails(p) ==
  /\ pc[p] = "broadcast"
  /\ Fault
  /\ Return(p, "error")
  /\ Enter(p, FALSE) \/ UNCHANGED <<mempool, rival>>
  /\ UNCHANGED <<batch, seq, stale, done>>

Awaited(p) == {i \in DOMAIN mempool : mempool[i].owner = p /\ mempool[i].waited}

TimeoutResponse_Code == "other code"   \* Bug: the error is turned into a code

TimeoutResponse == "error"

\* The node gives up waiting (timeout_broadcast_tx_commit): the transaction is
\* lost, or slow and still in the mempool.
Timeout(p) ==
  /\ pc[p] = "wait"
  /\ IF Awaited(p) = {} THEN UNCHANGED faults ELSE Fault
  /\ mempool' = [i \in DOMAIN mempool |->
                   [mempool[i] EXCEPT !.waited = @ /\ i \notin Awaited(p)]]
  /\ Return(p, TimeoutResponse)
  /\ UNCHANGED <<batch, seq, rival, stale, done>>

-----------------------------------------------------------------------------
(* The chain (external) *)

\* Whatever was simulated before may now cost more, or fail.
Stales(m) == [i \in DOMAIN m |-> [m[i] EXCEPT !.stale = TRUE]]

\* The first transaction of the mempool is executed, and its broadcast answered.
\* One that was simulated on another state may also run out of gas.
Execute(ok) ==
  /\ mempool # <<>>
  /\ LET tx == Head(mempool)
     IN /\ IF ok THEN Fresh(tx.batch) /\ UNCHANGED faults
           ELSE IF Fresh(tx.batch) THEN tx.stale /\ Fault
           ELSE UNCHANGED faults
        /\ done' = IF ok THEN done \union tx.batch ELSE done
        /\ IF tx.waited /\ pc[tx.owner] = "wait"
           THEN Return(tx.owner, IF ok THEN "code 0" ELSE "other code")
           ELSE UNCHANGED <<pc, response>>
  /\ mempool' = Stales(Tail(mempool))
  /\ stale' = [p \in Procs |-> TRUE]
  /\ seq' = [p \in Procs |-> IF seq[p] > Used THEN seq[p] - 1 ELSE Used]
  /\ UNCHANGED <<batch, rival>>

\* A relayer with another key has done the work.
DoneByOther ==
  /\ Fault
  /\ \E w \in Work \ done : done' = done \union {w}
  /\ mempool' = Stales(mempool)
  /\ stale' = [p \in Procs |-> TRUE]
  /\ UNCHANGED <<pc, batch, seq, response, rival>>

\* The node loses a transaction (a restart).
Lose ==
  /\ mempool # <<>>
  /\ Fault
  /\ mempool' = Tail(mempool)
  /\ UNCHANGED <<procVars, done>>

\* There is new work, under a name that no command or transaction uses any more.
NewWork ==
  /\ \E w \in done :
       /\ \A p \in Procs : pc[p] # "idle" => w \notin batch[p]
       /\ \A i \in DOMAIN mempool : w \notin mempool[i].batch
       /\ done' = done \ {w}
       /\ batch' = [p \in Procs |-> batch[p] \ {w}]
  /\ UNCHANGED <<pc, seq, response, rival, stale, mempool, faults>>

-----------------------------------------------------------------------------
Init ==
  /\ pc = [p \in Procs |-> "idle"] /\ batch = [p \in Procs |-> {}]
  /\ seq = [p \in Procs |-> Used] /\ response = [p \in Procs |-> "none"]
  /\ rival = [p \in Procs |-> FALSE] /\ stale = [p \in Procs |-> FALSE]
  /\ mempool = <<>>
  /\ done = {}
  /\ faults = 0

Send(p) ==
  \/ Start(p) \/ CallFails(p) \/ PrepareFactory(p) \/ CalculateGas(p)
  \/ SimulationFails(p) \/ Broadcast(p) \/ Refused(p) \/ BroadcastFails(p)
  \/ Timeout(p)

Next ==
  \/ \E p \in Procs : Send(p)
  \/ \E ok \in BOOLEAN : Execute(ok)
  \/ DoneByOther \/ Lose \/ NewWork

Spec == Init /\ [][Next]_vars

\* Commands are run again and again and run to their end, and the chain executes
\* what is in its mempool.
FairSpec ==
  Spec /\ (\A p \in Procs : WF_vars(Send(p))) /\ WF_vars(\E ok \in BOOLEAN : Execute(ok))

-----------------------------------------------------------------------------
(* Properties *)

TypeOK ==
  /\ pc \in [Procs -> {"idle", "account", "simulate", "broadcast", "wait"}]
  /\ batch \in [Procs -> SUBSET Work]
  /\ seq \in [Procs -> {Used, Committed}]
  /\ response \in [Procs -> {"none", "code 0", "other code", "error"}]
  /\ rival \in [Procs -> BOOLEAN] /\ stale \in [Procs -> BOOLEAN]
  /\ mempool \in Seq(Tx)
  /\ done \subseteq Work
  /\ faults \in 0 .. MaxFaults

\* A command whose transaction is answered with code 0 has done all its work
\* (Send returns true), and one answered with another code leaves no transaction
\* behind that might still do it: only an error leaves that open.
AnswerIsFinal ==
  \A p \in Procs :
    /\ response[p] = "code 0" => batch[p] \subseteq done
    /\ response[p] = "other code" =>
         \A i \in DOMAIN mempool : mempool[i].owner = p => mempool[i].batch \cap batch[p] = {}

\* Processes that race for the account, time out and try again never have two
\* of its transactions in the mempool: none is ever queued behind one that may
\* fail or be lost.
OneInFlight == Len(mempool) <= 1

\* A sequence is found wrong, by the simulation or by CheckTx, only because of a
\* transaction that the process cannot know of: another process's, or its own
\* whose broadcast ended with an error.  What it was answered for never stands
\* in its way.
WrongSequenceOnlyForRival ==
  [][\A p \in Procs :
       (SimulationFails(p) \/ Refused(p)) /\ seq[p] # CheckSequence => rival[p]]_vars

\* A transaction fails on the chain, and costs its fee for nothing, only if the
\* chain executed something between its simulation and itself.
FailsOnlyIfStale == [][Execute(FALSE) => Head(mempool).stale]_vars

\* SendMsgs returns no error for a transaction with a code other than 0 (chain.go:
\* 304-311).  Its caller is misled, though, only if another process's transaction may
\* have spoilt the sequence, or the chain has changed since the simulation: what a
\* command could know of, the simulation has turned into an error.
SilentFailureOnlyIfRaced ==
  [][\A p \in Procs :
       /\ pc[p] # "idle" /\ pc'[p] = "idle"
       /\ SendMsgs(response'[p]) = "nil" /\ ~ (batch[p] \subseteq done')
       => rival[p] \/ stale[p]]_vars

\* All work is done in the end, however the processes get in each other's way and
\* after any number of time-outs, losses and failures within the bound.
AllDone == \A w \in Work : [](w \notin done => <>(w \in done))

\* What Commands says of this: which commands run, and the transactions that wait
\* in the mempool although their senders were told of an error.  One that is waited
\* for is part of its command.
running == {p \in Procs : pc[p] # "idle"}
late ==
  {[owner |-> mempool[i].owner, batch |-> mempool[i].batch] :
     i \in {j \in DOMAIN mempool : ~ mempool[j].waited}}

Promise == INSTANCE Commands

\* Through all the calls to the node, commands take effect as a whole when they are
\* answered with code 0, and not at all when answered with another code; after an
\* error at most one of them still may, once.
CommandsAreAtomic == Promise!Spec
=============================================================================
