----------------------- MODULE TendermintSender_proofs -----------------------
(***************************************************************************)
(* Proofs about TendermintSender for any processes, any work and any       *)
(* number of faults: type correctness, that the account never has two      *)
(* transactions in the mempool, that answers with a code can be believed,  *)
(* that a transaction fails only if the chain changed after its            *)
(* simulation, that a sequence is wrong only because of a transaction that *)
(* the process cannot know of, and that the sender implements Commands.    *)
(***************************************************************************)
EXTENDS TendermintSender, SequenceTheorems, TLAPS

\* The transaction that a broadcast waits for is that of its owner's command.
WaitedFor ==
  \A i \in DOMAIN mempool :
    mempool[i].waited =>
      pc[mempool[i].owner] = "wait" /\ mempool[i].batch = batch[mempool[i].owner]

\* Between the simulation and the broadcast a process has nothing in the mempool.
NothingOfOwn ==
  \A p \in Procs : pc[p] = "broadcast" =>
    \A i \in DOMAIN mempool : mempool[i].owner # p

\* What was simulated on the chain's state is still to be done.
SimulatedIsFresh ==
  /\ \A i \in DOMAIN mempool : ~ mempool[i].stale => Fresh(mempool[i].batch)
  /\ \A p \in Procs : pc[p] = "broadcast" /\ ~ stale[p] => Fresh(batch[p])

\* A sequence that is wrong was spoilt by somebody else.
SpoiltByRival ==
  \A p \in Procs :
    pc[p] \in {"simulate", "broadcast"} /\ seq[p] # CheckSequence => rival[p]

\* A command has no answer before it ends.
NoAnswerYet == \A p \in Procs : pc[p] # "idle" => response[p] = "none"

IInv ==
  /\ TypeOK /\ OneInFlight /\ WaitedFor /\ NothingOfOwn /\ NoAnswerYet
  /\ SimulatedIsFresh /\ SpoiltByRival /\ AnswerIsFinal

-----------------------------------------------------------------------------
(* The mempool, which is empty or has one transaction *)

LEMMA MempoolType ==
  ASSUME TypeOK
  PROVE  /\ Len(mempool) \in Nat /\ DOMAIN mempool = 1 .. Len(mempool)
         /\ \A i \in DOMAIN mempool : mempool[i] \in Tx
         /\ mempool = <<>> <=> Len(mempool) = 0
BY LenProperties, EmptySeq DEF TypeOK

\* A sequence whose elements are changed, one by one, is as long as it was.
LEMMA Relabelled ==
  ASSUME NEW m \in Seq(Tx), NEW f, f = [i \in DOMAIN m |-> f[i]],
         \A i \in DOMAIN m : f[i] \in Tx
  PROVE  f \in Seq(Tx) /\ Len(f) = Len(m) /\ DOMAIN f = DOMAIN m
<1>1. Len(m) \in Nat /\ DOMAIN m = 1 .. Len(m)
  BY LenProperties
<1>2. f \in [1 .. Len(m) -> Tx]
  BY <1>1
<1>3. f \in Seq(Tx)
  BY <1>1, <1>2, SeqDef
<1>4. Len(f) = Len(m)
  BY <1>1, <1>2, <1>3, LenProperties
<1>. QED
  BY <1>1, <1>2, <1>3, <1>4

LEMMA Sequences ==
  ASSUME TypeOK, NEW p \in Procs
  PROVE  seq[p] \in {-1, 0} /\ CheckSequence = Len(mempool) /\ Len(mempool) \in Nat
<1>1. seq[p] \in {Used, Committed}
  BY DEF TypeOK
<1>2. Len(mempool) \in Nat
  BY MempoolType
<1>. QED
  BY <1>1, <1>2 DEF CheckSequence, Committed, Used

LEMMA Faulty ==
  ASSUME TypeOK, Fault
  PROVE  faults' \in 0 .. MaxFaults
<1>1. faults \in 0 .. MaxFaults
  BY DEF TypeOK
<1>2. MaxFaults \in Nat
  BY SenderAssumption
<1>3. faults < MaxFaults /\ faults' = faults + 1
  BY DEF Fault
<1>. QED
  BY <1>1, <1>2, <1>3

\* A transaction enters only an empty mempool: its sequence is the committed one.
LEMMA Entered ==
  ASSUME TypeOK, NEW p \in Procs, NEW waited \in BOOLEAN, Enter(p, waited)
  PROVE  /\ mempool = <<>> /\ seq[p] = 0
         /\ mempool' \in Seq(Tx) /\ Len(mempool') = 1
         /\ \A i \in DOMAIN mempool' :
              /\ mempool'[i].owner = p /\ mempool'[i].batch = batch[p]
              /\ mempool'[i].waited = waited /\ mempool'[i].stale = stale[p]
<1>. DEFINE tx == [owner |-> p, batch |-> batch[p], waited |-> waited, stale |-> stale[p]]
<1>1. tx \in Tx
  BY DEF TypeOK, Tx
<1>2. seq[p] = Len(mempool) /\ seq[p] \in {-1, 0}
  BY Sequences DEF Enter
<1>3. mempool = <<>> /\ seq[p] = 0 /\ Len(mempool) = 0
  BY <1>2, MempoolType
<1>. HIDE DEF tx
<1>4. mempool' = Append(mempool, tx)
  BY DEF Enter, tx
<1>a. mempool \in Seq(Tx)
  BY DEF TypeOK
<1>b. /\ mempool' \in Seq(Tx) /\ Len(mempool') = Len(mempool) + 1
      /\ mempool'[Len(mempool) + 1] = tx
  BY <1>1, <1>4, <1>a, AppendProperties
<1>5. /\ mempool' \in Seq(Tx) /\ Len(mempool') = 1
      /\ \A i \in 1 .. Len(mempool') : mempool'[i] = tx
  BY <1>3, <1>b
<1>6. DOMAIN mempool' = 1 .. Len(mempool')
  BY <1>5, LenProperties
<1>7. tx.owner = p /\ tx.batch = batch[p] /\ tx.waited = waited /\ tx.stale = stale[p]
  BY DEF tx
<1>. QED
  BY <1>3, <1>5, <1>6, <1>7

\* The transaction executed or lost was the only one.
LEMMA Taken ==
  ASSUME TypeOK, OneInFlight, mempool # <<>>
  PROVE  /\ Tail(mempool) = <<>> /\ Len(mempool) = 1
         /\ Head(mempool) \in Tx
         /\ \E i \in DOMAIN mempool : Head(mempool) = mempool[i]
<1>0. mempool \in Seq(Tx) /\ Len(mempool) <= 1
  BY DEF OneInFlight, TypeOK
<1>1. Len(mempool) = 1 /\ DOMAIN mempool = 1 .. Len(mempool) /\ mempool \in Seq(Tx)
  BY <1>0, MempoolType
<1>2. Tail(mempool) \in Seq(Tx) /\ Len(Tail(mempool)) = 0
  BY <1>1, HeadTailProperties
<1>3. Tail(mempool) = <<>>
  BY <1>2, EmptySeq
<1>4. Head(mempool) \in Tx
  BY <1>1, HeadTailProperties
<1>5. Head(mempool) = mempool[1] /\ 1 \in DOMAIN mempool
  BY <1>1
<1>. QED
  BY <1>1, <1>3, <1>4, <1>5

-----------------------------------------------------------------------------
(* Every step preserves the invariant: one lemma for each action *)

\* Nothing that an invariant is about changes but the place of one process.
LEMMA StartKeeps ==
  ASSUME IInv, NEW p \in Procs, Start(p)
  PROVE  IInv'
<1>. USE DEF IInv, Start
<1>1. TypeOK'
  BY DEF TypeOK
<1>2. OneInFlight'
  BY DEF OneInFlight
<1>3. WaitedFor'
  BY MempoolType DEF WaitedFor, TypeOK, Tx
<1>4. NothingOfOwn'
  BY DEF NothingOfOwn, TypeOK
<1>5. SimulatedIsFresh'
  BY DEF SimulatedIsFresh, TypeOK, Fresh
<1>6. SpoiltByRival'
  BY DEF SpoiltByRival, TypeOK, CheckSequence
<1>7. AnswerIsFinal'
  BY DEF AnswerIsFinal, TypeOK
<1>8. NoAnswerYet'
  BY DEF NoAnswerYet, TypeOK
<1>. QED
  BY <1>1, <1>2, <1>3, <1>4, <1>5, <1>6, <1>7, <1>8

LEMMA CallFailsKeeps ==
  ASSUME IInv, NEW p \in Procs, CallFails(p)
  PROVE  IInv'
<1>. USE DEF IInv, CallFails, Return
<1>1. TypeOK'
  <2>1. faults' \in 0 .. MaxFaults
    BY Faulty
  <2>. QED
    BY <2>1 DEF TypeOK
<1>2. OneInFlight'
  BY DEF OneInFlight
<1>3. WaitedFor'
  BY MempoolType DEF WaitedFor, TypeOK, Tx
<1>4. NothingOfOwn'
  BY DEF NothingOfOwn, TypeOK
<1>5. SimulatedIsFresh'
  BY DEF SimulatedIsFresh, TypeOK, Fresh
<1>6. SpoiltByRival'
  BY DEF SpoiltByRival, TypeOK, CheckSequence
<1>7. AnswerIsFinal'
  BY DEF AnswerIsFinal, TypeOK
<1>8. NoAnswerYet'
  BY DEF NoAnswerYet, TypeOK
<1>. QED
  BY <1>1, <1>2, <1>3, <1>4, <1>5, <1>6, <1>7, <1>8

LEMMA PrepareFactoryKeeps ==
  ASSUME IInv, NEW p \in Procs, PrepareFactory(p)
  PROVE  IInv'
<1>. USE DEF IInv, PrepareFactory, Sequence
<1>1. TypeOK'
  BY DEF TypeOK
<1>2. OneInFlight'
  BY DEF OneInFlight
<1>3. WaitedFor'
  BY MempoolType DEF WaitedFor, TypeOK, Tx
<1>4. NothingOfOwn'
  BY DEF NothingOfOwn, TypeOK
<1>5. SimulatedIsFresh'
  BY DEF SimulatedIsFresh, TypeOK, Fresh
<1>6. SpoiltByRival'
  <2>1. Len(mempool) # 0 => rival'[p]
    <3>1. SUFFICES ASSUME Len(mempool) # 0 PROVE rival'[p]
      OBVIOUS
    <3>2. PICK i \in DOMAIN mempool : mempool[i] = Head(mempool)
      BY <3>1, MempoolType, Taken
    <3>3. mempool[i].owner # p \/ ~ mempool[i].waited
      BY <3>2 DEF WaitedFor
    <3>. QED
      BY <3>2, <3>3 DEF TypeOK
  <2>2. CheckSequence = Len(mempool) /\ CheckSequence' = CheckSequence
    BY Sequences DEF CheckSequence
  <2>3. seq' = [seq EXCEPT ![p] = 0]
    BY DEF Committed
  <2>. QED
    BY <2>1, <2>2, <2>3 DEF SpoiltByRival, TypeOK
<1>7. AnswerIsFinal'
  BY DEF AnswerIsFinal, TypeOK
<1>8. NoAnswerYet'
  BY DEF NoAnswerYet, TypeOK
<1>. QED
  BY <1>1, <1>2, <1>3, <1>4, <1>5, <1>6, <1>7, <1>8

LEMMA CalculateGasKeeps ==
  ASSUME IInv, NEW p \in Procs, CalculateGas(p)
  PROVE  IInv'
<1>. USE DEF IInv, CalculateGas, Simulates
<1>0. Len(mempool) = 0 /\ DOMAIN mempool = {}
  <2>1. Len(mempool) \in Nat /\ DOMAIN mempool = 1 .. Len(mempool)
    BY MempoolType
  <2>2. Len(mempool) = 0
    BY <2>1, Sequences
  <2>. QED
    BY <2>1, <2>2
<1>1. TypeOK'
  BY DEF TypeOK
<1>2. OneInFlight'
  BY DEF OneInFlight
<1>3. WaitedFor'
  BY <1>0 DEF WaitedFor
<1>4. NothingOfOwn'
  BY <1>0 DEF NothingOfOwn
<1>5. SimulatedIsFresh'
  BY <1>0 DEF SimulatedIsFresh, TypeOK, Fresh
<1>6. SpoiltByRival'
  BY DEF SpoiltByRival, TypeOK, CheckSequence
<1>7. AnswerIsFinal'
  BY DEF AnswerIsFinal, TypeOK
<1>8. NoAnswerYet'
  BY DEF NoAnswerYet, TypeOK
<1>. QED
  BY <1>1, <1>2, <1>3, <1>4, <1>5, <1>6, <1>7, <1>8

LEMMA SimulationFailsKeeps ==
  ASSUME IInv, NEW p \in Procs, SimulationFails(p)
  PROVE  IInv'
<1>. USE DEF IInv, SimulationFails, Return
<1>1. TypeOK'
  BY DEF TypeOK
<1>2. OneInFlight'
  BY DEF OneInFlight
<1>3. WaitedFor'
  BY MempoolType DEF WaitedFor, TypeOK, Tx
<1>4. NothingOfOwn'
  BY DEF NothingOfOwn, TypeOK
<1>5. SimulatedIsFresh'
  BY DEF SimulatedIsFresh, TypeOK, Fresh
<1>6. SpoiltByRival'
  BY DEF SpoiltByRival, TypeOK, CheckSequence
<1>7. AnswerIsFinal'
  BY DEF AnswerIsFinal, TypeOK
<1>8. NoAnswerYet'
  BY DEF NoAnswerYet, TypeOK
<1>. QED
  BY <1>1, <1>2, <1>3, <1>4, <1>5, <1>6, <1>7, <1>8

\* The transaction that enters is the only one, fresh if nothing was executed
\* since its simulation; everybody else's sequence is spoilt by it.
LEMMA BroadcastKeeps ==
  ASSUME IInv, NEW p \in Procs, Broadcast(p)
  PROVE  IInv'
<1>. USE DEF IInv, Broadcast, AfterCheck
<1>0. /\ mempool' \in Seq(Tx) /\ Len(mempool') = 1
      /\ \A i \in DOMAIN mempool' :
           /\ mempool'[i].owner = p /\ mempool'[i].batch = batch[p]
           /\ mempool'[i].waited = TRUE /\ mempool'[i].stale = stale[p]
      /\ rival' = [q \in Procs |-> rival[q] \/ q # p]
  BY Entered DEF Enter
<1>. HIDE DEF Enter
<1>1. TypeOK'
  BY <1>0 DEF TypeOK
<1>2. OneInFlight'
  BY <1>0 DEF OneInFlight
<1>3. WaitedFor'
  BY <1>0 DEF WaitedFor, TypeOK
<1>4. NothingOfOwn'
  BY <1>0 DEF NothingOfOwn, TypeOK
<1>5. SimulatedIsFresh'
  BY <1>0 DEF SimulatedIsFresh, TypeOK, Fresh
<1>6. SpoiltByRival'
  BY <1>0 DEF SpoiltByRival, TypeOK
<1>7. AnswerIsFinal'
  BY <1>0 DEF AnswerIsFinal, NoAnswerYet, TypeOK
<1>8. NoAnswerYet'
  BY DEF NoAnswerYet, TypeOK
<1>. QED
  BY <1>1, <1>2, <1>3, <1>4, <1>5, <1>6, <1>7, <1>8

\* CheckTx refuses a transaction only when none of its owner's is in the mempool.
LEMMA RefusedKeeps ==
  ASSUME IInv, NEW p \in Procs, Refused(p)
  PROVE  IInv'
<1>. USE DEF IInv, Refused, Return
<1>1. TypeOK'
  BY DEF TypeOK
<1>2. OneInFlight'
  BY DEF OneInFlight
<1>3. WaitedFor'
  BY MempoolType DEF WaitedFor, TypeOK, Tx
<1>4. NothingOfOwn'
  BY DEF NothingOfOwn, TypeOK
<1>5. SimulatedIsFresh'
  BY DEF SimulatedIsFresh, TypeOK, Fresh
<1>6. SpoiltByRival'
  BY DEF SpoiltByRival, TypeOK, CheckSequence
<1>7. AnswerIsFinal'
  BY DEF AnswerIsFinal, NothingOfOwn, TypeOK
<1>8. NoAnswerYet'
  BY DEF NoAnswerYet, TypeOK
<1>. QED
  BY <1>1, <1>2, <1>3, <1>4, <1>5, <1>6, <1>7, <1>8

LEMMA BroadcastFailsKeeps ==
  ASSUME IInv, NEW p \in Procs, BroadcastFails(p)
  PROVE  IInv'
<1>. USE DEF IInv, BroadcastFails, Return
<1>0. faults' \in 0 .. MaxFaults
  BY Faulty
<1>a. CASE Enter(p, FALSE)
  <2>0. /\ mempool' \in Seq(Tx) /\ Len(mempool') = 1
        /\ \A i \in DOMAIN mempool' :
             /\ mempool'[i].owner = p /\ mempool'[i].batch = batch[p]
             /\ mempool'[i].waited = FALSE /\ mempool'[i].stale = stale[p]
        /\ rival' = [q \in Procs |-> rival[q] \/ q # p]
    BY <1>a, Entered DEF Enter
  <2>1. TypeOK'
    BY <1>0, <2>0 DEF TypeOK
  <2>2. OneInFlight'
    BY <2>0 DEF OneInFlight
  <2>3. WaitedFor'
    BY <2>0 DEF WaitedFor
  <2>4. NothingOfOwn'
    BY <2>0 DEF NothingOfOwn, TypeOK
  <2>5. SimulatedIsFresh'
    BY <2>0 DEF SimulatedIsFresh, TypeOK, Fresh
  <2>6. SpoiltByRival'
    BY <2>0 DEF SpoiltByRival, TypeOK
  <2>7. AnswerIsFinal'
    BY <2>0 DEF AnswerIsFinal, TypeOK
  <2>8. NoAnswerYet'
    BY DEF NoAnswerYet, TypeOK
  <2>. QED
    BY <2>1, <2>2, <2>3, <2>4, <2>5, <2>6, <2>7, <2>8
<1>b. CASE UNCHANGED <<mempool, rival>>
  <2>. USE <1>b
  <2>1. TypeOK'
    BY <1>0 DEF TypeOK
  <2>2. OneInFlight'
    BY DEF OneInFlight
  <2>3. WaitedFor'
    BY MempoolType DEF WaitedFor, TypeOK, Tx
  <2>4. NothingOfOwn'
    BY DEF NothingOfOwn, TypeOK
  <2>5. SimulatedIsFresh'
    BY DEF SimulatedIsFresh, TypeOK, Fresh
  <2>6. SpoiltByRival'
    BY DEF SpoiltByRival, TypeOK, CheckSequence
  <2>7. AnswerIsFinal'
    BY DEF AnswerIsFinal, TypeOK
  <2>8. NoAnswerYet'
    BY DEF NoAnswerYet, TypeOK
  <2>. QED
    BY <2>1, <2>2, <2>3, <2>4, <2>5, <2>6, <2>7, <2>8
<1>. QED
  BY <1>a, <1>b

\* Its broadcast given up, a transaction in the mempool is its owner's rival.
LEMMA TimeoutKeeps ==
  ASSUME IInv, NEW p \in Procs, Timeout(p)
  PROVE  IInv'
<1>. USE DEF IInv, Timeout, Return, TimeoutResponse
<1>0. faults' \in 0 .. MaxFaults
  BY Faulty DEF TypeOK
<1>a. \A i \in DOMAIN mempool : mempool[i] \in Tx
  BY MempoolType
<1>b. /\ mempool' = [i \in DOMAIN mempool |-> mempool'[i]]
      /\ \A i \in DOMAIN mempool :
           /\ mempool'[i] \in Tx
           /\ mempool'[i].owner = mempool[i].owner
           /\ mempool'[i].batch = mempool[i].batch
           /\ mempool'[i].stale = mempool[i].stale
           /\ mempool'[i].waited => mempool[i].waited /\ mempool[i].owner # p
  BY <1>a DEF Tx, Awaited
<1>. HIDE DEF IInv, Timeout
<1>c. mempool \in Seq(Tx)
  BY DEF IInv, TypeOK
<1>d. mempool' \in Seq(Tx) /\ Len(mempool') = Len(mempool) /\ DOMAIN mempool' = DOMAIN mempool
  BY <1>b, <1>c, Relabelled
<1>e. /\ pc[p] = "wait" /\ pc' = [pc EXCEPT ![p] = "idle"]
      /\ response' = [response EXCEPT ![p] = "error"]
      /\ UNCHANGED <<batch, seq, rival, stale, done>>
  BY DEF Timeout
<1>. USE DEF IInv
<1>1. TypeOK'
  BY <1>0, <1>d, <1>e DEF TypeOK
<1>2. OneInFlight'
  BY <1>d DEF OneInFlight
<1>3. WaitedFor'
  <2>1. ASSUME NEW i \in DOMAIN mempool, mempool'[i].waited
        PROVE  /\ pc'[mempool'[i].owner] = "wait"
               /\ mempool'[i].batch = batch'[mempool'[i].owner]
    <3>1. /\ mempool[i].waited /\ mempool[i].owner # p /\ mempool[i].owner \in Procs
          /\ mempool'[i].owner = mempool[i].owner /\ mempool'[i].batch = mempool[i].batch
      BY <1>a, <1>b, <2>1 DEF Tx
    <3>2. pc[mempool[i].owner] = "wait" /\ mempool[i].batch = batch[mempool[i].owner]
      BY <3>1 DEF WaitedFor
    <3>3. \A q \in Procs : q # p => pc'[q] = pc[q]
      BY <1>e DEF TypeOK
    <3>. QED
      BY <1>e, <3>1, <3>2, <3>3
  <2>. QED
    BY <1>d, <2>1 DEF WaitedFor
<1>4. NothingOfOwn'
  <2>1. \A q \in Procs : pc'[q] = "broadcast" => pc[q] = "broadcast"
    BY <1>e DEF TypeOK
  <2>. QED
    BY <1>b, <1>d, <2>1 DEF NothingOfOwn
<1>5. SimulatedIsFresh'
  BY <1>b, <1>d, <1>e DEF SimulatedIsFresh, TypeOK, Fresh
<1>6. SpoiltByRival'
  BY <1>d, <1>e DEF SpoiltByRival, TypeOK, CheckSequence
<1>7. AnswerIsFinal'
  <2>1. \A q \in Procs : response'[q] \in {"code 0", "other code"} => response'[q] = response[q]
    BY <1>e DEF TypeOK
  <2>. QED
    BY <1>b, <1>d, <1>e, <2>1 DEF AnswerIsFinal
<1>8. NoAnswerYet'
  BY <1>e DEF NoAnswerYet, TypeOK
<1>. QED
  BY <1>1, <1>2, <1>3, <1>4, <1>5, <1>6, <1>7, <1>8

\* Nothing is left in the mempool, and whoever has the executed transaction's
\* sequence was told of it by the rival.
LEMMA ExecuteKeeps ==
  ASSUME IInv, NEW ok \in BOOLEAN, Execute(ok)
  PROVE  IInv'
<1>. DEFINE tx == Head(mempool)
<1>. USE DEF IInv
<1>0. faults' \in 0 .. MaxFaults
  BY Faulty DEF Execute, TypeOK
<1>a. /\ mempool # <<>> /\ Tail(mempool) = <<>> /\ Len(mempool) = 1 /\ tx \in Tx
      /\ \E i \in DOMAIN mempool : tx = mempool[i]
  BY Taken DEF Execute
<1>b. mempool' = <<>> /\ Len(mempool') = 0 /\ mempool' \in Seq(Tx) /\ DOMAIN mempool' = {}
  <2>1. mempool' = Stales(<<>>)
    BY <1>a DEF Execute
  <2>2. mempool' = <<>>
    BY <2>1 DEF Stales
  <2>. QED
    BY <2>2
<1>c. tx.waited => pc[tx.owner] = "wait" /\ tx.batch = batch[tx.owner]
  BY <1>a DEF WaitedFor
<1>d. /\ done' = IF ok THEN done \union tx.batch ELSE done
      /\ IF tx.waited /\ pc[tx.owner] = "wait"
         THEN /\ pc' = [pc EXCEPT ![tx.owner] = "idle"]
              /\ response' = [response EXCEPT ![tx.owner] =
                                IF ok THEN "code 0" ELSE "other code"]
         ELSE UNCHANGED <<pc, response>>
      /\ stale' = [q \in Procs |-> TRUE]
      /\ seq' = [q \in Procs |-> IF seq[q] > Used THEN seq[q] - 1 ELSE Used]
      /\ UNCHANGED <<batch, rival>>
  BY DEF Execute, Return
<1>e. tx.owner \in Procs /\ tx.batch \subseteq Work
  BY <1>a DEF Tx
<1>. HIDE DEF tx
<1>f. \A q \in Procs : pc'[q] # "idle" => pc'[q] = pc[q] /\ response'[q] = response[q]
  BY <1>d, <1>e DEF TypeOK
<1>1. TypeOK'
  <2>1. seq' \in [Procs -> {Used, Committed}]
    <3>1. \A q \in Procs : seq[q] \in {-1, 0}
      BY Sequences
    <3>2. \A q \in Procs : (IF seq[q] > Used THEN seq[q] - 1 ELSE Used) = -1
      BY <3>1 DEF Used
    <3>. QED
      BY <1>d, <3>2 DEF Used
  <2>2. pc' \in [Procs -> {"idle", "account", "simulate", "broadcast", "wait"}]
    <3>1. pc' = [pc EXCEPT ![tx.owner] = "idle"] \/ pc' = pc
      BY <1>d
    <3>2. pc \in [Procs -> {"idle", "account", "simulate", "broadcast", "wait"}]
      BY DEF TypeOK
    <3>. QED
      BY <3>1, <3>2
  <2>3. response' \in [Procs -> {"none", "code 0", "other code", "error"}]
    BY <1>d DEF TypeOK
  <2>. QED
    BY <1>0, <1>b, <1>d, <1>e, <2>1, <2>2, <2>3 DEF TypeOK
<1>2. OneInFlight'
  BY <1>b DEF OneInFlight
<1>3. WaitedFor'
  BY <1>b DEF WaitedFor
<1>4. NothingOfOwn'
  BY <1>b DEF NothingOfOwn
<1>5. SimulatedIsFresh'
  BY <1>b, <1>d DEF SimulatedIsFresh
<1>6. SpoiltByRival'
  <2>1. \A q \in Procs : pc[q] \in {"simulate", "broadcast"} => rival[q]
    BY <1>a, Sequences DEF SpoiltByRival
  <2>. QED
    BY <1>d, <1>f, <2>1 DEF SpoiltByRival
<1>7. AnswerIsFinal'
  BY <1>b, <1>c, <1>d, <1>e DEF AnswerIsFinal, TypeOK
<1>8. NoAnswerYet'
  BY <1>f DEF NoAnswerYet
<1>. QED
  BY <1>1, <1>2, <1>3, <1>4, <1>5, <1>6, <1>7, <1>8

\* All that was simulated becomes stale.
LEMMA DoneByOtherKeeps ==
  ASSUME IInv, DoneByOther
  PROVE  IInv'
<1>. USE DEF IInv
<1>0. faults' \in 0 .. MaxFaults
  BY Faulty DEF DoneByOther
<1>a. \A i \in DOMAIN mempool : mempool[i] \in Tx
  BY MempoolType
<1>b. /\ mempool' = [i \in DOMAIN mempool |-> mempool'[i]]
      /\ \A i \in DOMAIN mempool :
           /\ mempool'[i] \in Tx
           /\ mempool'[i].owner = mempool[i].owner
           /\ mempool'[i].batch = mempool[i].batch
           /\ mempool'[i].waited = mempool[i].waited
           /\ mempool'[i].stale
  BY <1>a DEF DoneByOther, Stales, Tx
<1>c. mempool \in Seq(Tx)
  BY DEF TypeOK
<1>d. mempool' \in Seq(Tx) /\ Len(mempool') = Len(mempool) /\ DOMAIN mempool' = DOMAIN mempool
  BY <1>b, <1>c, Relabelled
<1>e. /\ done \subseteq done' /\ done' \subseteq Work
      /\ stale' = [q \in Procs |-> TRUE]
      /\ UNCHANGED <<pc, batch, seq, response, rival>>
  BY DEF DoneByOther, TypeOK
<1>1. TypeOK'
  BY <1>0, <1>d, <1>e DEF TypeOK
<1>2. OneInFlight'
  BY <1>d DEF OneInFlight
<1>3. WaitedFor'
  BY <1>b, <1>d, <1>e DEF WaitedFor
<1>4. NothingOfOwn'
  BY <1>b, <1>d, <1>e DEF NothingOfOwn
<1>5. SimulatedIsFresh'
  BY <1>b, <1>d, <1>e DEF SimulatedIsFresh
<1>6. SpoiltByRival'
  BY <1>d, <1>e DEF SpoiltByRival, CheckSequence
<1>7. AnswerIsFinal'
  BY <1>b, <1>d, <1>e DEF AnswerIsFinal
<1>8. NoAnswerYet'
  BY <1>e DEF NoAnswerYet
<1>. QED
  BY <1>1, <1>2, <1>3, <1>4, <1>5, <1>6, <1>7, <1>8

LEMMA LoseKeeps ==
  ASSUME IInv, Lose
  PROVE  IInv'
<1>. USE DEF IInv
<1>0. faults' \in 0 .. MaxFaults
  BY Faulty DEF Lose
<1>a. Len(mempool) = 1 /\ mempool' = <<>>
  BY Taken DEF Lose
<1>b. Len(mempool') = 0 /\ mempool' \in Seq(Tx) /\ DOMAIN mempool' = {}
  BY <1>a
<1>c. UNCHANGED <<pc, batch, seq, response, rival, stale, done>>
  BY DEF Lose, procVars
<1>1. TypeOK'
  BY <1>0, <1>b, <1>c DEF TypeOK
<1>2. OneInFlight'
  BY <1>b DEF OneInFlight
<1>3. WaitedFor'
  BY <1>b DEF WaitedFor
<1>4. NothingOfOwn'
  BY <1>b DEF NothingOfOwn
<1>5. SimulatedIsFresh'
  BY <1>b, <1>c DEF SimulatedIsFresh, Fresh
<1>6. SpoiltByRival'
  <2>1. \A q \in Procs : pc[q] \in {"simulate", "broadcast"} => rival[q]
    BY <1>a, Sequences DEF SpoiltByRival
  <2>. QED
    BY <1>c, <2>1 DEF SpoiltByRival
<1>7. AnswerIsFinal'
  BY <1>b, <1>c DEF AnswerIsFinal
<1>8. NoAnswerYet'
  BY <1>c DEF NoAnswerYet
<1>. QED
  BY <1>1, <1>2, <1>3, <1>4, <1>5, <1>6, <1>7, <1>8

\* The name that is used again is in no batch that an invariant is about.
LEMMA NewWorkKeeps ==
  ASSUME IInv, NewWork
  PROVE  IInv'
<1>. USE DEF IInv
<1>1. PICK w \in done :
        /\ \A p \in Procs : pc[p] # "idle" => w \notin batch[p]
        /\ \A i \in DOMAIN mempool : w \notin mempool[i].batch
        /\ done' = done \ {w}
        /\ batch' = [p \in Procs |-> batch[p] \ {w}]
  BY DEF NewWork
<1>2. UNCHANGED <<pc, seq, response, rival, stale, mempool, faults>>
  BY DEF NewWork
<1>3. \A p \in Procs : pc[p] # "idle" => batch'[p] = batch[p]
  BY <1>1
<1>4. TypeOK'
  BY <1>1, <1>2 DEF TypeOK
<1>5. OneInFlight' /\ NothingOfOwn' /\ NoAnswerYet'
  BY <1>2 DEF OneInFlight, NothingOfOwn, NoAnswerYet
<1>6. WaitedFor'
  <2>1. \A i \in DOMAIN mempool : mempool[i].owner \in Procs
    BY MempoolType DEF Tx
  <2>. QED
    BY <1>2, <1>3, <2>1 DEF WaitedFor
<1>7. SimulatedIsFresh'
  BY <1>1, <1>2, <1>3 DEF SimulatedIsFresh, Fresh
<1>8. SpoiltByRival'
  BY <1>2 DEF SpoiltByRival, CheckSequence
<1>9. AnswerIsFinal'
  BY <1>1, <1>2 DEF AnswerIsFinal
<1>. QED
  BY <1>4, <1>5, <1>6, <1>7, <1>8, <1>9

-----------------------------------------------------------------------------
(* The theorems *)

LEMMA InitHolds == Init => IInv
<1>. SUFFICES ASSUME Init PROVE IInv
  OBVIOUS
<1>1. /\ pc = [p \in Procs |-> "idle"] /\ response = [p \in Procs |-> "none"]
      /\ mempool = <<>>
  BY DEF Init
<1>2. mempool \in Seq(Tx) /\ Len(mempool) = 0 /\ DOMAIN mempool = {}
  BY <1>1
<1>3. 0 \in 0 .. MaxFaults
  BY SenderAssumption
<1>4. TypeOK
  BY <1>2, <1>3 DEF Init, TypeOK
<1>5. OneInFlight
  BY <1>2 DEF OneInFlight
<1>6. WaitedFor /\ NothingOfOwn /\ NoAnswerYet
  BY <1>1, <1>2 DEF WaitedFor, NothingOfOwn, NoAnswerYet
<1>7. SimulatedIsFresh /\ SpoiltByRival /\ AnswerIsFinal
  BY <1>1, <1>2 DEF SimulatedIsFresh, SpoiltByRival, AnswerIsFinal
<1>. QED
  BY <1>4, <1>5, <1>6, <1>7 DEF IInv

LEMMA NextKeeps == IInv /\ [Next]_vars => IInv'
<1>. SUFFICES ASSUME IInv, [Next]_vars PROVE IInv'
  OBVIOUS
<1>1. ASSUME NEW p \in Procs, Send(p) PROVE IInv'
  BY <1>1, StartKeeps, CallFailsKeeps, PrepareFactoryKeeps, CalculateGasKeeps,
     SimulationFailsKeeps, BroadcastKeeps, RefusedKeeps, BroadcastFailsKeeps,
     TimeoutKeeps DEF Send
<1>2. ASSUME NEW ok \in BOOLEAN, Execute(ok) PROVE IInv'
  BY <1>2, ExecuteKeeps
<1>3. CASE DoneByOther
  BY <1>3, DoneByOtherKeeps
<1>4. CASE Lose
  BY <1>4, LoseKeeps
<1>5. CASE NewWork
  BY <1>5, NewWorkKeeps
<1>6. CASE UNCHANGED vars
  BY <1>6 DEF vars, procVars, IInv, TypeOK, OneInFlight, WaitedFor, NothingOfOwn,
              NoAnswerYet, SimulatedIsFresh, SpoiltByRival, AnswerIsFinal, Fresh,
              CheckSequence
<1>. QED
  BY <1>1, <1>2, <1>3, <1>4, <1>5, <1>6 DEF Next

LEMMA Invariance == Spec => []IInv
<1>. QED
  BY InitHolds, NextKeeps, PTL DEF Spec

\* Every state the sender reaches is well typed: no sequence that a process was
\* told is ever ahead of the committed one.
THEOREM TypeCorrect == Spec => []TypeOK
<1>1. IInv => TypeOK
  BY DEF IInv
<1>. QED
  BY <1>1, Invariance, PTL

\* However many processes share the account, and whatever times out, fails or is
\* lost, the mempool never holds two of its transactions.
THEOREM AtMostOneInFlight == Spec => []OneInFlight
<1>1. IInv => OneInFlight
  BY DEF IInv
<1>. QED
  BY <1>1, Invariance, PTL

\* A command answered with code 0 has done all its work, and one answered with
\* another code has left nothing behind that might do it.
THEOREM AnswersAreFinal == Spec => []AnswerIsFinal
<1>1. IInv => AnswerIsFinal
  BY DEF IInv
<1>. QED
  BY <1>1, Invariance, PTL

\* A transaction fails on the chain only if something was executed between its
\* simulation and itself.
THEOREM NoFeeForNothing == Spec => FailsOnlyIfStale
<1>1. IInv /\ [Next]_vars => [Execute(FALSE) => Head(mempool).stale]_vars
  <2>. SUFFICES ASSUME IInv, Execute(FALSE) PROVE Head(mempool).stale
    OBVIOUS
  <2>1. CASE Fresh(Head(mempool).batch)
    BY <2>1 DEF Execute
  <2>2. CASE ~ Fresh(Head(mempool).batch)
    <3>1. PICK i \in DOMAIN mempool : Head(mempool) = mempool[i]
      BY Taken DEF IInv, Execute
    <3>. QED
      BY <2>2, <3>1 DEF IInv, SimulatedIsFresh
  <2>. QED
    BY <2>1, <2>2
<1>. QED
  BY <1>1, Invariance, PTL DEF Spec, FailsOnlyIfStale

\* A sequence is found wrong only because of a transaction that the process
\* cannot know of.
THEOREM SequencesAreRight == Spec => WrongSequenceOnlyForRival
<1>1. IInv /\ [Next]_vars =>
        [\A p \in Procs :
           (SimulationFails(p) \/ Refused(p)) /\ seq[p] # CheckSequence => rival[p]]_vars
  BY DEF IInv, SpoiltByRival, SimulationFails, Refused
<1>. QED
  BY <1>1, Invariance, PTL DEF Spec, WrongSequenceOnlyForRival

-----------------------------------------------------------------------------
(* What SendMsgs may keep silent about *)

\* A transaction that a broadcast waits for is no staler than its owner's simulation.
SharedStaleness ==
  \A i \in DOMAIN mempool :
    mempool[i].waited /\ mempool[i].stale => stale[mempool[i].owner]

LEMMA StalenessKeeps ==
  ASSUME IInv, SharedStaleness, [Next]_vars
  PROVE  SharedStaleness'
<1>. USE DEF SharedStaleness
<1>0. \A i \in DOMAIN mempool : mempool[i] \in Tx /\ mempool[i].owner \in Procs
  BY MempoolType DEF IInv, Tx
<1>1. ASSUME UNCHANGED <<mempool, stale>> PROVE SharedStaleness'
  BY <1>1
<1>2. ASSUME NEW p \in Procs, CalculateGas(p) PROVE SharedStaleness'
  <2>1. Len(mempool) = 0
    BY <1>2, Sequences DEF IInv, CalculateGas, Simulates
  <2>2. mempool' = mempool /\ DOMAIN mempool = {}
    BY <1>2, <2>1, MempoolType DEF IInv, CalculateGas
  <2>. QED
    BY <2>2
<1>3. ASSUME NEW p \in Procs, NEW waited \in BOOLEAN, Enter(p, waited), UNCHANGED stale
      PROVE  SharedStaleness'
  BY <1>3, Entered DEF IInv
<1>4. ASSUME NEW p \in Procs, Timeout(p) PROVE SharedStaleness'
  <2>1. /\ DOMAIN mempool' = DOMAIN mempool /\ stale' = stale
        /\ \A i \in DOMAIN mempool :
             /\ mempool'[i].owner = mempool[i].owner /\ mempool'[i].stale = mempool[i].stale
             /\ mempool'[i].waited => mempool[i].waited
    BY <1>0, <1>4 DEF Timeout, Tx
  <2>. QED
    BY <2>1
<1>5. ASSUME NEW ok \in BOOLEAN, Execute(ok) PROVE SharedStaleness'
  <2>1. Tail(mempool) = <<>> /\ mempool' = Stales(Tail(mempool))
    BY <1>5, Taken DEF IInv, Execute
  <2>2. DOMAIN mempool' = {}
    BY <2>1 DEF Stales
  <2>. QED
    BY <2>2
<1>6. CASE DoneByOther
  <2>1. /\ stale' = [q \in Procs |-> TRUE] /\ DOMAIN mempool' = DOMAIN mempool
        /\ \A i \in DOMAIN mempool : mempool'[i].owner = mempool[i].owner
    BY <1>0, <1>6 DEF DoneByOther, Stales, Tx
  <2>. QED
    BY <1>0, <2>1
<1>7. CASE Lose
  <2>1. mempool' = <<>>
    BY <1>7, Taken DEF IInv, Lose
  <2>. QED
    BY <2>1
<1>8. ASSUME NEW p \in Procs, Send(p) PROVE SharedStaleness'
  <2>1. CASE Broadcast(p)
    BY <1>3, <2>1 DEF Broadcast
  <2>2. CASE BroadcastFails(p)
    BY <1>1, <1>3, <2>2 DEF BroadcastFails
  <2>3. CASE Start(p) \/ CallFails(p) \/ PrepareFactory(p) \/ SimulationFails(p) \/ Refused(p)
    BY <1>1, <2>3 DEF Start, CallFails, PrepareFactory, SimulationFails, Refused
  <2>. QED
    BY <1>2, <1>4, <1>8, <2>1, <2>2, <2>3 DEF Send
<1>9. CASE NewWork \/ UNCHANGED vars
  BY <1>1, <1>9 DEF NewWork, vars, procVars
<1>. QED
  BY <1>5, <1>6, <1>7, <1>8, <1>9 DEF Next

\* When SendMsgs returns no error and its messages have no effect, another process may
\* have spoilt the sequence, or the chain has changed since the simulation.
THEOREM SilenceNeedsRace == Spec => SilentFailureOnlyIfRaced
<1>. DEFINE Raced ==
       \A p \in Procs :
         /\ pc[p] # "idle" /\ pc'[p] = "idle"
         /\ SendMsgs(response'[p]) = "nil" /\ ~ (batch[p] \subseteq done')
         => rival[p] \/ stale[p]
<1>1. Init => SharedStaleness
  BY DEF Init, SharedStaleness
<1>2. IInv /\ SharedStaleness /\ [Next]_vars => SharedStaleness'
  BY StalenessKeeps
<1>3. IInv /\ SharedStaleness /\ [Next]_vars => [Raced]_vars
  <2>. SUFFICES ASSUME IInv, SharedStaleness, Next, NEW p \in Procs,
                       pc[p] # "idle", pc'[p] = "idle", SendMsgs(response'[p]) = "nil",
                       ~ (batch[p] \subseteq done')
                PROVE  rival[p] \/ stale[p]
    OBVIOUS
  <2>0. pc \in [Procs -> {"idle", "account", "simulate", "broadcast", "wait"}]
        /\ response \in [Procs -> {"none", "code 0", "other code", "error"}]
    BY DEF IInv, TypeOK
  <2>1. response'[p] # "error"
    BY DEF SendMsgs
  <2>2. ASSUME NEW q \in Procs, Send(q) PROVE rival[p] \/ stale[p]
    <3>1. \A r : Return(q, r) => p = q /\ response'[p] = r
      BY <2>0 DEF Return
    <3>2. ~ CallFails(q) /\ ~ SimulationFails(q) /\ ~ BroadcastFails(q) /\ ~ Timeout(q)
      BY <2>1, <3>1 DEF CallFails, SimulationFails, BroadcastFails, Timeout, TimeoutResponse
    <3>3. ~ Start(q) /\ ~ PrepareFactory(q) /\ ~ CalculateGas(q) /\ ~ Broadcast(q)
      BY <2>0 DEF Start, PrepareFactory, CalculateGas, Broadcast, AfterCheck
    <3>4. Refused(q) /\ p = q
      BY <2>2, <3>1, <3>2, <3>3 DEF Send, Refused
    <3>. QED
      BY <3>4 DEF Refused, IInv, SpoiltByRival
  <2>3. ASSUME NEW ok \in BOOLEAN, Execute(ok) PROVE rival[p] \/ stale[p]
    <3>. DEFINE tx == Head(mempool)
    <3>1. PICK i \in DOMAIN mempool : tx = mempool[i]
      BY <2>3, Taken DEF IInv, Execute
    <3>2. tx.waited /\ pc[tx.owner] = "wait" /\ p = tx.owner
      <4>1. IF tx.waited /\ pc[tx.owner] = "wait"
            THEN pc' = [pc EXCEPT ![tx.owner] = "idle"] ELSE pc' = pc
        BY <2>3 DEF Execute, Return
      <4>. HIDE DEF tx
      <4>. QED
        BY <2>0, <4>1
    <3>3. tx.batch = batch[p]
      BY <3>1, <3>2 DEF IInv, WaitedFor
    <3>4. ~ ok
      BY <2>3, <3>3 DEF Execute
    <3>5. tx.stale
      <4>1. ~ Fresh(tx.batch) \/ tx.stale
        BY <2>3, <3>4 DEF Execute
      <4>. QED
        BY <3>1, <4>1 DEF IInv, SimulatedIsFresh
    <3>. QED
      BY <3>1, <3>2, <3>5 DEF SharedStaleness
  <2>4. ~ DoneByOther /\ ~ Lose /\ ~ NewWork
    BY DEF DoneByOther, Lose, NewWork, procVars
  <2>. QED
    BY <2>2, <2>3, <2>4 DEF Next
<1>. QED
  BY <1>1, <1>2, <1>3, Invariance, PTL DEF Spec, SilentFailureOnlyIfRaced

-----------------------------------------------------------------------------
(* The refinement of Commands *)

\* What is late, of mempools of no and of one transaction.
LEMMA LateOfFew ==
  ASSUME NEW m \in Seq(Tx), Len(m) <= 1
  PROVE  LET l == {[owner |-> m[i].owner, batch |-> m[i].batch] :
                     i \in {j \in DOMAIN m : ~ m[j].waited}}
         IN /\ Len(m) = 0 => l = {}
            /\ Len(m) = 1 /\ m[1].waited => l = {}
            /\ Len(m) = 1 /\ ~ m[1].waited =>
                 l = {[owner |-> m[1].owner, batch |-> m[1].batch]}
<1>1. DOMAIN m = 1 .. Len(m) /\ Len(m) \in Nat
  BY LenProperties
<1>2. CASE Len(m) = 0
  <2>1. DOMAIN m = {}
    BY <1>1, <1>2
  <2>. QED
    BY <1>2, <2>1
<1>3. CASE Len(m) = 1
  <2>1. DOMAIN m = {1}
    BY <1>1, <1>3
  <2>2. CASE m[1].waited
    <3>1. {j \in DOMAIN m : ~ m[j].waited} = {}
      BY <2>1, <2>2
    <3>. QED
      BY <1>3, <2>2, <3>1
  <2>3. CASE ~ m[1].waited
    <3>1. {j \in DOMAIN m : ~ m[j].waited} = {1}
      BY <2>1, <2>3
    <3>. QED
      BY <1>3, <2>3, <3>1
  <2>. QED
    BY <2>2, <2>3
<1>. QED
  BY <1>1, <1>2, <1>3

\* The mempool of a reachable state, and what is late in it.
LEMMA LateNow ==
  ASSUME IInv
  PROVE  \/ Len(mempool) = 0 /\ DOMAIN mempool = {} /\ late = {}
         \/ /\ Len(mempool) = 1 /\ DOMAIN mempool = {1} /\ mempool[1].waited /\ late = {}
            /\ mempool[1] \in Tx
         \/ /\ Len(mempool) = 1 /\ DOMAIN mempool = {1} /\ ~ mempool[1].waited
            /\ mempool[1] \in Tx
            /\ late = {[owner |-> mempool[1].owner, batch |-> mempool[1].batch]}
<1>1. mempool \in Seq(Tx) /\ Len(mempool) <= 1
  BY DEF IInv, TypeOK, OneInFlight
<1>2. /\ Len(mempool) \in Nat /\ DOMAIN mempool = 1 .. Len(mempool)
      /\ \A i \in DOMAIN mempool : mempool[i] \in Tx
  BY MempoolType DEF IInv
<1>3. CASE Len(mempool) = 0
  <2>1. DOMAIN mempool = {}
    BY <1>2, <1>3
  <2>2. late = {}
    BY <1>1, <1>3, LateOfFew DEF late
  <2>. QED
    BY <1>3, <2>1, <2>2
<1>4. CASE Len(mempool) = 1
  <2>1. DOMAIN mempool = {1} /\ mempool[1] \in Tx
    BY <1>2, <1>4
  <2>2. /\ mempool[1].waited => late = {}
        /\ ~ mempool[1].waited =>
             late = {[owner |-> mempool[1].owner, batch |-> mempool[1].batch]}
    BY <1>1, <1>4, LateOfFew DEF late
  <2>. QED
    BY <1>4, <2>1, <2>2
<1>. QED
  BY <1>1, <1>2, <1>3, <1>4

\* Nothing is late of transactions that keep their owner, batch and sender.
LEMMA LateStays ==
  ASSUME DOMAIN mempool' = DOMAIN mempool,
         \A i \in DOMAIN mempool :
           /\ mempool'[i].owner = mempool[i].owner
           /\ mempool'[i].batch = mempool[i].batch
           /\ mempool'[i].waited = mempool[i].waited
  PROVE  late' = late
BY DEF late

\* Which commands run when one process goes on.
LEMMA Running ==
  ASSUME TypeOK, NEW p \in Procs, NEW to, pc' = [pc EXCEPT ![p] = to]
  PROVE  /\ pc[p] = "idle" /\ to # "idle" => p \notin running /\ running' = running \union {p}
         /\ pc[p] # "idle" /\ to # "idle" => running' = running
         /\ pc[p] # "idle" /\ to = "idle" => p \in running /\ running' = running \ {p}
<1>1. \A q \in Procs : pc'[q] = IF q = p THEN to ELSE pc[q]
  BY DEF TypeOK
<1>. QED
  BY <1>1 DEF running

\* A command that ends with an answer or an error.
LEMMA Ended ==
  ASSUME TypeOK, NEW p \in Procs, NEW r, pc[p] # "idle", Return(p, r), UNCHANGED batch
  PROVE  Promise!End(p, r)
<1>1. p \in running /\ running' = running \ {p}
  BY Running DEF Return
<1>. QED
  BY <1>1 DEF Promise!End, Return

LEMMA InitOfCommands == Init => Promise!Init
<1>. SUFFICES ASSUME Init PROVE Promise!Init
  OBVIOUS
<1>1. running = {}
  BY DEF Init, running
<1>2. late = {}
  <2>1. mempool = <<>> /\ DOMAIN mempool = {}
    BY DEF Init
  <2>. QED
    BY <2>1 DEF late
<1>. QED
  BY <1>1, <1>2 DEF Init, Promise!Init

\* A process's step is a step of its command, or none.
LEMMA SendOfCommands ==
  ASSUME IInv, NEW p \in Procs, Send(p)
  PROVE  [Promise!Next]_(Promise!vars)
<1>0. TypeOK
  BY DEF IInv
<1>1. CASE Start(p)
  <2>1. p \notin running /\ running' = running \union {p}
    <3>1. pc[p] = "idle" /\ pc' = [pc EXCEPT ![p] = "account"] /\ "account" # "idle"
      BY <1>1 DEF Start
    <3>. QED
      BY <1>0, <3>1, Running
  <2>2. late' = late
    BY <1>1 DEF Start, late
  <2>3. Promise!Begin(p)
    BY <1>1, <2>1, <2>2 DEF Start, Promise!Begin
  <2>. QED
    BY <2>3 DEF Promise!Next
<1>2. CASE CallFails(p) \/ SimulationFails(p)
  <2>1. Promise!End(p, "error")
    BY <1>0, <1>2, Ended DEF CallFails, SimulationFails
  <2>2. late' = late /\ done' = done
    BY <1>2 DEF CallFails, SimulationFails, late
  <2>3. Promise!Err(p)
    BY <2>1, <2>2 DEF Promise!Err
  <2>. QED
    BY <2>3 DEF Promise!Next
<1>3. CASE PrepareFactory(p) \/ CalculateGas(p)
  <2>1. running' = running
    BY <1>0, <1>3, Running DEF PrepareFactory, CalculateGas
  <2>2. late' = late
    BY <1>3 DEF PrepareFactory, CalculateGas, late
  <2>. QED
    BY <1>3, <2>1, <2>2 DEF PrepareFactory, CalculateGas, Promise!vars
<1>4. CASE Broadcast(p)
  <2>1. running' = running
    BY <1>0, <1>4, Running DEF Broadcast, AfterCheck
  <2>2. /\ mempool = <<>> /\ mempool' \in Seq(Tx) /\ Len(mempool') = 1
        /\ \A i \in DOMAIN mempool' : mempool'[i].waited = TRUE
    BY <1>0, <1>4, Entered DEF Broadcast
  <2>3. late = {} /\ late' = {}
    <3>1. DOMAIN mempool = {}
      BY <2>2
    <3>2. {j \in DOMAIN mempool' : ~ mempool'[j].waited} = {}
      BY <2>2
    <3>. QED
      BY <3>1, <3>2 DEF late
  <2>. QED
    BY <1>4, <2>1, <2>3 DEF Broadcast, AfterCheck, Promise!vars
<1>5. CASE Refused(p)
  <2>1. Promise!End(p, "other code")
    BY <1>0, <1>5, Ended DEF Refused
  <2>2. late' = late /\ done' = done
    BY <1>5 DEF Refused, late
  <2>3. \A x \in late : x.owner # p
    <3>1. \A i \in DOMAIN mempool : mempool[i].owner # p
      BY <1>5 DEF IInv, NothingOfOwn, Refused
    <3>. QED
      BY <3>1 DEF late
  <2>4. Promise!Refuse(p)
    BY <2>1, <2>2, <2>3 DEF Promise!Refuse
  <2>. QED
    BY <2>4 DEF Promise!Next
<1>6. CASE BroadcastFails(p)
  <2>1. Promise!End(p, "error") /\ done' = done
    BY <1>0, <1>6, Ended DEF BroadcastFails
  <2>2. CASE Enter(p, FALSE)
    <3>1. /\ mempool = <<>> /\ mempool' \in Seq(Tx) /\ Len(mempool') = 1
          /\ \A i \in DOMAIN mempool' :
               /\ mempool'[i].owner = p /\ mempool'[i].batch = batch[p]
               /\ mempool'[i].waited = FALSE
      BY <1>0, <2>2, Entered
    <3>2. 1 \in DOMAIN mempool' /\ Len(mempool') <= 1
      BY <3>1, LenProperties
    <3>3. late' = {[owner |-> p, batch |-> batch[p]]}
      BY <3>1, <3>2, LateOfFew DEF late
    <3>4. late = {}
      <4>1. DOMAIN mempool = {}
        BY <3>1
      <4>. QED
        BY <4>1 DEF late
    <3>5. Promise!Err(p)
      BY <2>1, <3>3, <3>4 DEF Promise!Err
    <3>. QED
      BY <3>5 DEF Promise!Next
  <2>3. CASE UNCHANGED <<mempool, rival>>
    <3>1. late' = late
      BY <2>3 DEF late
    <3>2. Promise!Err(p)
      BY <2>1, <3>1 DEF Promise!Err
    <3>. QED
      BY <3>2 DEF Promise!Next
  <2>. QED
    BY <1>6, <2>2, <2>3 DEF BroadcastFails
<1>7. CASE Timeout(p)
  <2>1. Promise!End(p, "error") /\ done' = done
    BY <1>0, <1>7, Ended DEF Timeout, TimeoutResponse
  <2>2. /\ DOMAIN mempool' = DOMAIN mempool
        /\ \A i \in DOMAIN mempool :
             /\ mempool'[i].owner = mempool[i].owner
             /\ mempool'[i].batch = mempool[i].batch
             /\ mempool'[i].waited = (mempool[i].waited /\ mempool[i].owner # p)
    <3>1. \A i \in DOMAIN mempool : mempool[i] \in Tx
      BY <1>0, MempoolType
    <3>2. mempool' = [i \in DOMAIN mempool |->
                        [mempool[i] EXCEPT !.waited = @ /\ i \notin Awaited(p)]]
      BY <1>7 DEF Timeout
    <3>. QED
      BY <3>1, <3>2 DEF Awaited, Tx
  <2>3. CASE \E i \in DOMAIN mempool : mempool[i].waited /\ mempool[i].owner = p
    <3>1. DOMAIN mempool = {1} /\ mempool[1].waited /\ mempool[1].owner = p /\ late = {}
      BY <2>3, LateNow
    <3>2. mempool[1].batch = batch[p]
      BY <3>1 DEF IInv, WaitedFor
    <3>3. {j \in DOMAIN mempool' : ~ mempool'[j].waited} = {1}
      BY <2>2, <3>1
    <3>4. late' = {[owner |-> p, batch |-> batch[p]]}
      BY <2>2, <3>1, <3>2, <3>3 DEF late
    <3>5. Promise!Err(p)
      BY <2>1, <3>1, <3>4 DEF Promise!Err
    <3>. QED
      BY <3>5 DEF Promise!Next
  <2>4. CASE ~ \E i \in DOMAIN mempool : mempool[i].waited /\ mempool[i].owner = p
    <3>1. late' = late
      <4>1. \A i \in DOMAIN mempool : mempool[i].waited \in BOOLEAN
        BY <1>0, MempoolType DEF Tx
      <4>2. \A i \in DOMAIN mempool : mempool'[i].waited = mempool[i].waited
        BY <2>2, <2>4, <4>1
      <4>. QED
        BY <2>2, <4>2, LateStays
    <3>2. Promise!Err(p)
      BY <2>1, <3>1 DEF Promise!Err
    <3>. QED
      BY <3>2 DEF Promise!Next
  <2>. QED
    BY <2>3, <2>4
<1>. QED
  BY <1>1, <1>2, <1>3, <1>4, <1>5, <1>6, <1>7 DEF Send

\* What is executed is the running command that waits for it, or what was late.
LEMMA ExecuteOfCommands ==
  ASSUME IInv, NEW ok \in BOOLEAN, Execute(ok)
  PROVE  [Promise!Next]_(Promise!vars)
<1>. DEFINE tx == mempool[1]
<1>0. TypeOK /\ OneInFlight /\ mempool # <<>>
  BY DEF IInv, Execute
<1>1. Len(mempool) = 1 /\ Tail(mempool) = <<>> /\ Head(mempool) = tx
  <2>1. Len(mempool) = 1 /\ Tail(mempool) = <<>>
    BY <1>0, Taken
  <2>. QED
    BY <2>1
<1>2. DOMAIN mempool = {1} /\ tx \in Tx
  BY <1>1, LateNow
<1>3. late' = {}
  <2>1. mempool' = Stales(<<>>)
    BY <1>1 DEF Execute
  <2>2. DOMAIN mempool' = {}
    BY <2>1 DEF Stales
  <2>. QED
    BY <2>2 DEF late
<1>4. /\ ok => Fresh(tx.batch) /\ done' = done \union tx.batch
      /\ ~ ok => done' = done
      /\ UNCHANGED batch
  BY <1>1 DEF Execute
<1>5. /\ tx.waited /\ pc[tx.owner] = "wait" =>
           Return(tx.owner, IF ok THEN "code 0" ELSE "other code")
      /\ ~ (tx.waited /\ pc[tx.owner] = "wait") => UNCHANGED <<pc, response>>
  BY <1>1 DEF Execute
<1>6. tx.owner \in Procs
  BY <1>2 DEF Tx
<1>7. CASE tx.waited
  <2>1. late = {}
    BY <1>1, <1>7, LateNow
  <2>2. pc[tx.owner] = "wait" /\ tx.batch = batch[tx.owner]
    BY <1>2, <1>7 DEF IInv, WaitedFor
  <2>3. Promise!End(tx.owner, IF ok THEN "code 0" ELSE "other code")
    BY <1>0, <1>4, <1>5, <1>6, <1>7, <2>2, Ended
  <2>. HIDE DEF tx
  <2>4. CASE ok
    <3>1. Promise!Succeed(tx.owner)
      BY <1>3, <1>4, <2>1, <2>2, <2>3, <2>4 DEF Promise!Succeed, Promise!Fresh, Fresh
    <3>. QED
      BY <1>6, <3>1 DEF Promise!Next
  <2>5. CASE ~ ok
    <3>1. Promise!Refuse(tx.owner)
      BY <1>3, <1>4, <2>1, <2>3, <2>5 DEF Promise!Refuse
    <3>. QED
      BY <1>6, <3>1 DEF Promise!Next
  <2>. QED
    BY <2>4, <2>5
<1>8. CASE ~ tx.waited
  <2>1. late = {[owner |-> tx.owner, batch |-> tx.batch]}
    BY <1>1, <1>8, LateNow
  <2>2. UNCHANGED <<running, response>>
    BY <1>5, <1>8 DEF running
  <2>. HIDE DEF tx
  <2>3. Promise!Settle
    <3>. DEFINE x == [owner |-> tx.owner, batch |-> tx.batch]
    <3>1. x \in late /\ late' = late \ {x} /\ x.batch = tx.batch
      BY <1>3, <2>1
    <3>2. done' = done \/ (Fresh(x.batch) /\ done' = done \union x.batch)
      BY <1>4, <3>1
    <3>. HIDE DEF x
    <3>. QED
      BY <1>4, <2>2, <3>1, <3>2 DEF Promise!Settle, Promise!Fresh, Fresh
  <2>. QED
    BY <2>3 DEF Promise!Next
<1>. QED
  BY <1>7, <1>8

\* A transaction that is lost was late, or its command still runs.
LEMMA LoseOfCommands ==
  ASSUME IInv, Lose
  PROVE  [Promise!Next]_(Promise!vars)
<1>0. TypeOK /\ OneInFlight /\ mempool # <<>>
  BY DEF IInv, Lose
<1>1. Len(mempool) = 1 /\ mempool' = <<>>
  BY <1>0, Taken DEF Lose
<1>2. late' = {}
  <2>1. DOMAIN mempool' = {}
    BY <1>1
  <2>. QED
    BY <2>1 DEF late
<1>3. UNCHANGED <<running, batch, response, done>>
  BY DEF Lose, procVars, running
<1>4. CASE late = {}
  BY <1>2, <1>3, <1>4 DEF Promise!vars
<1>5. CASE \E x \in late : late = {x}
  <2>1. Promise!Settle
    BY <1>2, <1>3, <1>5 DEF Promise!Settle
  <2>. QED
    BY <2>1 DEF Promise!Next
<1>. QED
  BY <1>1, <1>4, <1>5, LateNow

\* A relayer with another key, and new work, change what is done.
LEMMA OthersOfCommands ==
  ASSUME IInv, DoneByOther \/ NewWork
  PROVE  [Promise!Next]_(Promise!vars)
<1>1. CASE DoneByOther
  <2>1. UNCHANGED <<running, batch, response>>
    BY <1>1 DEF DoneByOther, running
  <2>2. late' = late
    <3>1. \A i \in DOMAIN mempool : mempool[i] \in Tx
      BY MempoolType DEF IInv
    <3>2. mempool' = [i \in DOMAIN mempool |-> [mempool[i] EXCEPT !.stale = TRUE]]
      BY <1>1 DEF DoneByOther, Stales
    <3>3. DOMAIN mempool' = DOMAIN mempool
      BY <3>2
    <3>4. \A i \in DOMAIN mempool :
            /\ mempool'[i].owner = mempool[i].owner
            /\ mempool'[i].batch = mempool[i].batch
            /\ mempool'[i].waited = mempool[i].waited
      BY <3>1, <3>2 DEF Tx
    <3>. QED
      BY <3>3, <3>4, LateStays
  <2>3. Promise!DoneByOther
    BY <1>1, <2>1, <2>2 DEF DoneByOther, Promise!DoneByOther
  <2>. QED
    BY <2>3 DEF Promise!Next
<1>2. CASE NewWork
  <2>1. UNCHANGED <<running, response, late>>
    BY <1>2 DEF NewWork, running, late
  <2>2. PICK w \in done :
          /\ \A p \in Procs : pc[p] # "idle" => w \notin batch[p]
          /\ \A i \in DOMAIN mempool : w \notin mempool[i].batch
          /\ done' = done \ {w}
          /\ batch' = [p \in Procs |-> batch[p] \ {w}]
    BY <1>2 DEF NewWork
  <2>3. \A p \in running : w \notin batch[p]
    BY <2>2 DEF running
  <2>4. \A x \in late : w \notin x.batch
    BY <2>2 DEF late
  <2>5. Promise!NewWork
    BY <2>1, <2>2, <2>3, <2>4 DEF Promise!NewWork
  <2>. QED
    BY <2>5 DEF Promise!Next
<1>. QED
  BY <1>1, <1>2

\* The sender implements Commands: a transaction takes effect as a whole at the
\* moment its command is answered with code 0, or, its command having ended with
\* an error, at most once later; of another answer nothing comes.
THEOREM SenderIsAtomic == Spec => CommandsAreAtomic
<1>1. IInv /\ [Next]_vars => [Promise!Next]_(Promise!vars)
  <2>. SUFFICES ASSUME IInv, [Next]_vars PROVE [Promise!Next]_(Promise!vars)
    OBVIOUS
  <2>1. ASSUME NEW p \in Procs, Send(p) PROVE [Promise!Next]_(Promise!vars)
    BY <2>1, SendOfCommands
  <2>2. ASSUME NEW ok \in BOOLEAN, Execute(ok) PROVE [Promise!Next]_(Promise!vars)
    BY <2>2, ExecuteOfCommands
  <2>3. CASE DoneByOther \/ NewWork
    BY <2>3, OthersOfCommands
  <2>4. CASE Lose
    BY <2>4, LoseOfCommands
  <2>5. CASE UNCHANGED vars
    BY <2>5 DEF vars, procVars, Promise!vars, running, late
  <2>. QED
    BY <2>1, <2>2, <2>3, <2>4, <2>5 DEF Next
<1>. QED
  BY <1>1, InitOfCommands, Invariance, PTL DEF Spec, CommandsAreAtomic, Promise!Spec
=============================================================================
