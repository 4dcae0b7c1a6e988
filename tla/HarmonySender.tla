---------------------------- MODULE HarmonySender ----------------------------
(***************************************************************************)
(* How the relayer sends to Harmony: relayer/chains/harmony/tx.go, demo.go *)
(*                                                                         *)
(* SendMsgs turns the messages of a command, one after the other, into     *)
(* transactions of one account.  For each it asks a node for the account's *)
(* next pending nonce and then hands the node a transaction with it; it    *)
(* waits for no receipt.  Several processes (the relaying service, the     *)
(* operator's scripts) may send for the same account at the same time,     *)
(* transactions wait in the node's pool and are executed in nonce order,   *)
(* and the pool may lose one.                                              *)
(*                                                                         *)
(* Nonces are counted from the account's own nonce, so that slot 0 of the  *)
(* pool is the next transaction to be executed, and mining one shifts the  *)
(* pool down.  The account has sent transactions before: nonce 0 of the    *)
(* code is always used up.  What a message does is not told apart: it may  *)
(* be reverted by the contract, and it is reverted if a message before it  *)
(* in its batch has not taken effect (a packet needs its client update).   *)
(***************************************************************************)
EXTENDS Integers, FiniteSetsExt

CONSTANTS
  Procs,      \* processes that send for the account
  Batches,    \* names for the batches still remembered
  NoBatch,    \* no name
  BatchLen,   \* messages of a command
  MaxPool,    \* transactions of an account that the pool takes
  MaxBacklog, \* bound: transactions in the pool at which a command still starts
  MaxFails,   \* bound: failures of RPCs and of the keystore
  MaxDrops,   \* bound: transactions the pool loses
  MaxReverts  \* bound: reverts the contract decides by itself

ASSUME SenderAssumption ==
  /\ NoBatch \notin Batches
  /\ BatchLen \in Nat \ {0} /\ MaxPool \in Nat \ {0} /\ MaxBacklog \in Nat
  /\ MaxFails \in Nat /\ MaxDrops \in Nat /\ MaxReverts \in Nat

VARIABLES
  pc,        \* where each process is in SendMsgs
  batch,     \* the batch of its current or last command
  msg,       \* the message of it being sent
  nonce,     \* the nonce it was told
  unlocked,  \* whether its keystore holds the key unlocked
  answer,    \* what Send returned
  rival,     \* another process was accepted since the nonce was told (history)
  pool,      \* the node's transaction pool, by nonce
  accepted,  \* messages of a batch the pool has taken (history)
  executed,  \* messages of a batch that were executed (history)
  okay,      \* messages of a batch that took effect
  lost,      \* whether the pool lost a transaction while a batch was in use (history)
  achieved,  \* some batch has taken effect as a whole
  fails, drops, reverts

procVars == <<pc, batch, msg, nonce, unlocked, answer, rival>>
histVars == <<accepted, executed, okay, lost, achieved>>
vars == <<procVars, pool, histVars, fails, drops, reverts>>

-----------------------------------------------------------------------------
Messages == 1 .. BatchLen
Slots == 0 .. MaxPool - 1
Used == -1     \* a nonce the account has used up
Unasked == -2  \* the answer 0 of a node that could not be asked

NoTx == [batch |-> NoBatch, msg |-> 0]
Tx == [batch : Batches, msg : Messages]

Waiting == {k \in Slots : pool[k] # NoTx}

PendingNonce_Latest == 0   \* Bug: the account's nonce, as in tx (tx.go:329)

PendingNonce_Next ==       \* Bug: one too many
  Cardinality(Waiting) + (IF Waiting = {} THEN 0 ELSE 1)

\* The first nonce of the account that is neither executed nor in the pool; one
\* that the pool has no room for if it is full.
PendingNonce == Min({k \in Slots : pool[k] = NoTx} \union {MaxPool})

InUse == {batch[p] : p \in Procs} \union {pool[k].batch : k \in Slots}

-----------------------------------------------------------------------------
(* The processes *)

\* A command begins to send a batch.  There is no bound in the code: a command
\* starts here only when few transactions wait, or the pool is stuck.
Start(p) ==
  /\ pc[p] = "idle"
  /\ Cardinality(Waiting) <= MaxBacklog \/ pool[0] = NoTx
  /\ \E b \in Batches \ InUse :
       /\ batch' = [batch EXCEPT ![p] = b]
       /\ accepted' = [accepted EXCEPT ![b] = {}]
       /\ executed' = [executed EXCEPT ![b] = {}]
       /\ okay' = [okay EXCEPT ![b] = {}]
       /\ lost' = [lost EXCEPT ![b] = FALSE]
  /\ msg' = [msg EXCEPT ![p] = 1]
  /\ answer' = [answer EXCEPT ![p] = "none"]
  /\ pc' = [pc EXCEPT ![p] = "count"]
  /\ UNCHANGED <<nonce, unlocked, rival, pool, achieved, fails, drops, reverts>>

\* The key is unlocked and the node asked for the next pending nonce.
CountNonce(p) ==
  /\ pc[p] = "count"
  /\ \/ nonce' = [nonce EXCEPT ![p] = PendingNonce] /\ UNCHANGED fails
     \/ /\ fails < MaxFails   \* no error is returned: the answer is 0
        /\ nonce' = [nonce EXCEPT ![p] = Unasked] /\ fails' = fails + 1
  /\ unlocked' = [unlocked EXCEPT ![p] = TRUE]
  /\ rival' = [rival EXCEPT ![p] = FALSE]
  /\ pc' = [pc EXCEPT ![p] = "execute"]
  /\ UNCHANGED <<batch, msg, answer, pool, histVars, drops, reverts>>

\* The node takes a transaction with a nonce that is neither used nor waiting.
Takes(p) == nonce[p] \in Slots /\ pool[nonce[p]] = NoTx

Enter(p) ==
  /\ pool' = [pool EXCEPT ![nonce[p]] = [batch |-> batch[p], msg |-> msg[p]]]
  /\ accepted' = [accepted EXCEPT ![batch[p]] = @ \union {msg[p]}]
  /\ rival' = [q \in Procs |-> IF q = p THEN FALSE ELSE TRUE]

\* ExecuteTransaction succeeds: the key is locked again and the next message
\* follows, or Send returns true.
Accepted(p) ==
  /\ pc[p] = "execute" /\ Takes(p)
  /\ Enter(p)
  /\ nonce' = [nonce EXCEPT ![p] = Used]
  /\ unlocked' = [unlocked EXCEPT ![p] = FALSE]
  /\ IF msg[p] = BatchLen
     THEN /\ pc' = [pc EXCEPT ![p] = "idle"]
          /\ answer' = [answer EXCEPT ![p] = "true"]
          /\ UNCHANGED msg
     ELSE /\ pc' = [pc EXCEPT ![p] = "count"]
          /\ msg' = [msg EXCEPT ![p] = @ + 1]
          /\ UNCHANGED answer
  /\ UNCHANGED <<batch, executed, okay, lost, achieved, fails, drops, reverts>>

Abort_Continue(p) ==   \* Bug: the loop goes on with the next message
  /\ pc' = [pc EXCEPT ![p] = IF msg[p] = BatchLen THEN "idle" ELSE "count"]
  /\ msg' = [msg EXCEPT ![p] = IF @ = BatchLen THEN @ ELSE @ + 1]
  /\ nonce' = [nonce EXCEPT ![p] = Used]
  /\ answer' = [answer EXCEPT ![p] = "false"]
  /\ UNCHANGED <<batch, unlocked>>

\* An error ends the whole batch; the key stays unlocked.
Abort(p) ==
  /\ pc' = [pc EXCEPT ![p] = "idle"]
  /\ nonce' = [nonce EXCEPT ![p] = Used]
  /\ answer' = [answer EXCEPT ![p] = "false"]
  /\ UNCHANGED <<batch, msg, unlocked>>

\* The call cannot be packed, or the account not be found or unlocked.
CountFails(p) ==
  /\ pc[p] = "count" /\ fails < MaxFails
  /\ Abort(p)
  /\ fails' = fails + 1
  /\ UNCHANGED <<rival, pool, histVars, drops, reverts>>

\* The nonce is too low, its slot is taken and the gas price is the same, or the
\* pool is full.
Rejected(p) ==
  /\ pc[p] = "execute" /\ ~ Takes(p)
  /\ Abort(p)
  /\ UNCHANGED <<rival, pool, histVars, fails, drops, reverts>>

\* The RPC fails, before or after the node has taken the transaction.
ExecuteFails(p) ==
  /\ pc[p] = "execute" /\ fails < MaxFails
  /\ Abort(p)
  /\ \/ UNCHANGED <<rival, pool, accepted>>
     \/ Takes(p) /\ Enter(p)
  /\ fails' = fails + 1
  /\ UNCHANGED <<executed, okay, lost, achieved, drops, reverts>>

-----------------------------------------------------------------------------
(* The Harmony node and its contracts (external) *)

\* The next transaction of the account is executed.
Mine ==
  /\ pool[0] # NoTx
  /\ LET b     == pool[0].batch
         i     == pool[0].msg
         ready == 1 .. i - 1 \subseteq okay[b]
     IN /\ executed' = [executed EXCEPT ![b] = @ \union {i}]
        /\ \/ ready /\ okay' = [okay EXCEPT ![b] = @ \union {i}] /\ UNCHANGED reverts
           \/ ~ ready /\ UNCHANGED <<okay, reverts>>
           \/ ready /\ reverts < MaxReverts /\ reverts' = reverts + 1 /\ UNCHANGED okay
        /\ achieved' = (achieved \/ okay'[b] = Messages)
  /\ pool' = [k \in Slots |-> IF k + 1 \in Slots THEN pool[k + 1] ELSE NoTx]
  /\ nonce' = [p \in Procs |-> IF nonce[p] > Used THEN nonce[p] - 1 ELSE nonce[p]]
  /\ UNCHANGED <<pc, batch, msg, unlocked, answer, rival, accepted, lost, fails, drops>>

\* The pool loses a transaction (its lifetime, a restart of the node).
Lose ==
  /\ drops < MaxDrops
  /\ \E k \in Waiting : pool' = [pool EXCEPT ![k] = NoTx]
  /\ lost' = [b \in Batches |-> lost[b] \/ b \in InUse]
  /\ drops' = drops + 1
  /\ UNCHANGED <<procVars, accepted, executed, okay, achieved, fails, reverts>>

-----------------------------------------------------------------------------
Init ==
  /\ pc = [p \in Procs |-> "idle"] /\ batch = [p \in Procs |-> NoBatch]
  /\ msg = [p \in Procs |-> 1] /\ nonce = [p \in Procs |-> Used]
  /\ unlocked = [p \in Procs |-> FALSE] /\ answer = [p \in Procs |-> "none"]
  /\ rival = [p \in Procs |-> FALSE]
  /\ pool = [k \in Slots |-> NoTx]
  /\ accepted = [b \in Batches |-> {}] /\ executed = [b \in Batches |-> {}]
  /\ okay = [b \in Batches |-> {}] /\ lost = [b \in Batches |-> FALSE]
  /\ achieved = FALSE
  /\ fails = 0 /\ drops = 0 /\ reverts = 0

Send(p) ==
  \/ Start(p) \/ CountNonce(p) \/ CountFails(p)
  \/ Accepted(p) \/ Rejected(p) \/ ExecuteFails(p)

Next == (\E p \in Procs : Send(p)) \/ Mine \/ Lose

Spec == Init /\ [][Next]_vars

\* Commands are run again and again (the service's loop, the scripts' retry) and
\* run to their end; the chain keeps executing what it can.
FairSpec == Spec /\ (\A p \in Procs : WF_vars(Send(p))) /\ WF_vars(Mine)

-----------------------------------------------------------------------------
(* Properties *)

TypeOK ==
  /\ pc \in [Procs -> {"idle", "count", "execute"}]
  /\ batch \in [Procs -> Batches \union {NoBatch}]
  /\ msg \in [Procs -> Messages]
  /\ nonce \in [Procs -> Slots \union {Used, Unasked, MaxPool}]
  /\ unlocked \in [Procs -> BOOLEAN] /\ rival \in [Procs -> BOOLEAN]
  /\ answer \in [Procs -> {"none", "true", "false"}]
  /\ pool \in [Slots -> Tx \union {NoTx}]
  /\ accepted \in [Batches -> SUBSET Messages] /\ executed \in [Batches -> SUBSET Messages]
  /\ okay \in [Batches -> SUBSET Messages] /\ lost \in [Batches -> BOOLEAN]
  /\ achieved \in BOOLEAN
  /\ fails \in Nat /\ drops \in Nat /\ reverts \in Nat

Prefix(S) == S = 1 .. Cardinality(S)

\* Whatever other processes send for the account and whichever RPC fails, what
\* the chain executes of a batch is always a prefix of it, in order: no packet is
\* executed before the client update sent ahead of it (SendMsgs, "return nil,
\* err").  Only a transaction that the pool loses meanwhile can break this: then
\* the second message may be told the nonce of the hole ahead of the first.
ExecutedInOrder ==
  \A b \in Batches : Prefix(accepted[b]) /\ (~ lost[b] => Prefix(executed[b]))

\* The pending nonces that racing processes are told never leave a hole in the
\* account's nonces, behind which every later transaction would wait.
NoGapUnlessLost ==
  drops = 0 => \A k \in Waiting : \A j \in 0 .. k : pool[j] # NoTx

\* A transaction is rejected for its nonce only if another process was accepted
\* since that nonce was told: the messages of one command never collide with
\* each other, nor with its earlier ones still waiting, and of two processes that
\* collide one gets in.
ConflictHasWinner ==
  [][\A p \in Procs : (Rejected(p) /\ nonce[p] \in Slots \union {Used}) => rival[p]]_vars

\* A process alone on its account sooner or later gets a whole batch through,
\* after RPC failures, lost transactions and reverts.
LoneSenderSucceeds == <>achieved

\* "It returns a boolean value whether the result is success" (tx.go:83): the
\* messages of a batch that Send has returned true for are not reverted.
SendTrueIsSuccess ==
  \A p \in Procs : answer[p] = "true" => executed[batch[p]] = okay[batch[p]]
=============================================================================
