------------------------- MODULE HarmonySender_proofs -------------------------
(***************************************************************************)
(* Proofs about HarmonySender for any processes, batches, pool and faults: *)
(* type correctness, that a batch is executed in its order, that racing    *)
(* processes leave no hole in the nonces, and that a nonce is refused only *)
(* because another process got in first.                                   *)
(***************************************************************************)
EXTENDS HarmonySender, FiniteSetTheorems, TLAPS

-----------------------------------------------------------------------------
(* The inductive invariant *)

\* No two processes send the same batch.
Apart ==
  \A p, q \in Procs : p # q /\ batch[p] \in Batches => batch[p] # batch[q]

\* What the pool has taken of a batch being sent is what comes before the message.
Sending(p) ==
  pc[p] # "idle" => batch[p] \in Batches /\ accepted[batch[p]] = 1 .. msg[p] - 1

\* The slots below n are taken.
Below(n) == \A j \in Slots : j < n => pool[j] # NoTx

\* While no process is accepted, the slot that a process was told stays free.
Told(p) ==
  pc[p] = "execute" /\ ~ rival[p] =>
    nonce[p] # Used /\ (nonce[p] \in Slots => pool[nonce[p]] = NoTx)

\* A process that was told a nonce will leave no hole, and will not overtake what it
\* has sent, unless the pool loses something.
Careful(p) ==
  /\ pc[p] = "execute" /\ (drops = 0 \/ ~ lost[batch[p]]) => Below(nonce[p])
  /\ pc[p] = "execute" /\ ~ lost[batch[p]] /\ nonce[p] # Unasked =>
       \A k \in Slots : pool[k].batch = batch[p] => k < nonce[p]

\* There is no hole below a transaction.
Solid ==
  \A k \in Slots : pool[k] # NoTx /\ (drops = 0 \/ ~ lost[pool[k].batch]) => Below(k)

\* The messages of a batch up to one of them, or none.
FirstOf(S) == \E n \in 0 .. BatchLen : S = 1 .. n

\* What was taken of a batch and not executed is in the pool, in its order.
Queued(b) ==
  /\ executed[b] \subseteq accepted[b] /\ FirstOf(executed[b])
  /\ \A i \in accepted[b] \ executed[b] : \E k \in Slots : pool[k] = [batch |-> b, msg |-> i]
  /\ \A k \in Slots : pool[k].batch = b => pool[k].msg \in accepted[b] \ executed[b]
  /\ \A j, k \in Slots :
       pool[j].batch = b /\ pool[k].batch = b /\ j < k => pool[j].msg < pool[k].msg

Process(p) == Sending(p) /\ Told(p) /\ Careful(p)

Ordered(b) == FirstOf(accepted[b]) /\ (~ lost[b] => Queued(b))

IInv ==
  /\ TypeOK /\ Apart /\ Solid
  /\ \A p \in Procs : Process(p)
  /\ \A b \in Batches : Ordered(b)

-----------------------------------------------------------------------------
(* Nonces and transactions *)

\* Slots and nonces are numbers.
LEMMA Numbers ==
  /\ MaxPool \in Nat /\ MaxPool > 0 /\ BatchLen \in Nat /\ BatchLen > 0
  /\ 0 \in Slots /\ Used \notin Slots /\ Unasked \notin Slots /\ MaxPool \notin Slots
  /\ Used # Unasked /\ Used = -1 /\ Unasked = -2
  /\ \A k \in Slots : k \in Int /\ k >= 0 /\ k < MaxPool
  /\ \A k \in Slots \union {MaxPool} : k \in Nat /\ k # Used /\ k # Unasked
BY SenderAssumption DEF Slots, Used, Unasked

\* What is in the pool is a message of a batch.
LEMMA InPool ==
  ASSUME TypeOK, NEW k \in Slots
  PROVE  /\ pool[k] # NoTx <=> pool[k].batch \in Batches
         /\ pool[k] # NoTx => /\ pool[k].msg \in Messages
                              /\ pool[k] = [batch |-> pool[k].batch, msg |-> pool[k].msg]
         /\ pool[k] = NoTx <=> pool[k].batch = NoBatch
<1>1. pool[k] \in Tx \union {NoTx} /\ NoBatch \notin Batches
  BY SenderAssumption DEF TypeOK
<1>2. NoTx.batch = NoBatch
  BY DEF NoTx
<1>3. \A t \in Tx : t.batch \in Batches /\ t.msg \in Messages /\ t = [batch |-> t.batch, msg |-> t.msg]
  BY DEF Tx
<1>. QED
  BY <1>1, <1>2, <1>3

\* The pending nonce is the first free slot.
LEMMA Pending ==
  ASSUME TypeOK
  PROVE  /\ PendingNonce \in Slots \union {MaxPool} /\ Below(PendingNonce)
         /\ PendingNonce \in Slots => pool[PendingNonce] = NoTx
<1>. DEFINE R == OpToRel(<, Nat)
            F == {k \in Slots : pool[k] = NoTx} \union {MaxPool}
<1>1. F \in SUBSET Nat /\ F # {} /\ F \subseteq Slots \union {MaxPool}
  BY Numbers
<1>2. IsWellFoundedOn(R, Nat)
  BY NatLessThanWellFounded
<1>3. \A n, m \in Nat : n < m => <<n, m>> \in R
  BY DEF OpToRel
<1>4. \A k \in Slots : pool[k] = NoTx <=> k \in F
  BY Numbers
<1>. HIDE DEF R, F
<1>5. PICK n \in F : \A m \in F : ~ (<<m, n>> \in R)
  BY <1>1, <1>2, WFMin
<1>6. \A m \in F : n \in Nat /\ m \in Nat /\ ~ (m < n)
  BY <1>1, <1>3, <1>5
<1>7. \E x \in F : \A y \in F : x <= y
  BY <1>5, <1>6
<1>8. Min(F) \in F /\ \A k \in F : Min(F) <= k
  BY <1>7 DEF Min
<1>9. PendingNonce = Min(F)
  BY DEF PendingNonce, F
<1>10. \A k \in Slots : k < Min(F) => k \notin F
  <2>1. ASSUME NEW k \in F, k < Min(F) PROVE FALSE
    <3>1. Min(F) <= k /\ Min(F) \in Nat /\ k \in Nat
      BY <1>1, <1>8
    <3>. QED
      BY <2>1, <3>1
  <2>. QED
    BY <2>1
<1>. QED
  BY <1>1, <1>4, <1>8, <1>9, <1>10 DEF Below

\* The first messages of a batch are a prefix of it.
LEMMA FirstIsPrefix ==
  ASSUME NEW S, FirstOf(S)
  PROVE  Prefix(S)
<1>1. PICK n \in 0 .. BatchLen : S = 1 .. n
  BY DEF FirstOf
<1>2. Cardinality(1 .. n) = n
  <2>1. n \in Nat
    BY Numbers
  <2>2. Cardinality(1 .. n) = IF 1 > n THEN 0 ELSE n - 1 + 1
    BY <2>1, FS_Interval
  <2>. QED
    BY <2>1, <2>2
<1>. QED
  BY <1>1, <1>2 DEF Prefix

-----------------------------------------------------------------------------
(* The processes *)

\* What belongs to one process.
Own(p) == <<pc[p], batch[p], msg[p], nonce[p], rival[p]>>

\* A step of a process that leaves the pool and what was done alone.
LEMMA TalkKeeps ==
  ASSUME IInv, TypeOK', NEW p \in Procs, Process(p)',
         UNCHANGED <<batch, pool, accepted, executed, lost, drops>>,
         \A q \in Procs \ {p} : UNCHANGED Own(q)
  PROVE  IInv'
<1>1. Apart' /\ Solid'
  BY DEF IInv, Apart, Solid, Below
<1>2. ASSUME NEW q \in Procs \ {p} PROVE Process(q)'
  <2>1. /\ pc'[q] = pc[q] /\ batch'[q] = batch[q] /\ msg'[q] = msg[q]
        /\ nonce'[q] = nonce[q] /\ rival'[q] = rival[q]
    BY <1>2 DEF Own
  <2>2. Sending(q) /\ Told(q) /\ Careful(q)
    BY DEF IInv, Process
  <2>3. Sending(q)' /\ Told(q)'
    BY <2>1, <2>2 DEF Sending, Told
  <2>4. Careful(q)'
    BY <2>1, <2>2 DEF Careful, Below
  <2>. QED
    BY <2>3, <2>4 DEF Process
<1>3. ASSUME NEW b \in Batches PROVE Ordered(b)'
  BY DEF IInv, Ordered, Queued, FirstOf
<1>. QED
  BY <1>1, <1>2, <1>3 DEF IInv

LEMMA CountNonceKeeps ==
  ASSUME IInv, NEW p \in Procs, CountNonce(p)
  PROVE  IInv'
<1>1. PICK n \in {PendingNonce, Unasked} : nonce' = [nonce EXCEPT ![p] = n]
  BY DEF CountNonce
<1>2. /\ pc[p] = "count" /\ pc' = [pc EXCEPT ![p] = "execute"]
      /\ rival' = [rival EXCEPT ![p] = FALSE] /\ unlocked' = [unlocked EXCEPT ![p] = TRUE]
      /\ UNCHANGED <<batch, msg, answer, pool, accepted, executed, okay, lost, achieved, drops,
                     reverts>>
      /\ fails' \in Nat
  BY DEF CountNonce, histVars, IInv, TypeOK
<1>3. /\ PendingNonce \in Slots \union {MaxPool} /\ Below(PendingNonce)
      /\ PendingNonce \in Slots => pool[PendingNonce] = NoTx
  BY Pending DEF IInv
<1>4. TypeOK'
  BY <1>1, <1>2, <1>3 DEF IInv, TypeOK
<1>5. /\ nonce'[p] = n /\ pc'[p] = "execute" /\ rival'[p] = FALSE /\ batch'[p] = batch[p]
      /\ msg'[p] = msg[p] /\ pool' = pool /\ accepted' = accepted /\ drops' = drops /\ lost' = lost
  BY <1>1, <1>2 DEF IInv, TypeOK
<1>6. Sending(p)'
  BY <1>2, <1>5 DEF Sending, IInv, Process
<1>7. Told(p)'
  BY <1>3, <1>5, Numbers DEF Told
<1>8. Careful(p)'
  <2>1. Below(n)
    <3>1. CASE n = Unasked
      BY <3>1, Numbers DEF Below
    <3>. QED
      BY <1>3, <3>1
  <2>2. Below(nonce[p])'
    BY <1>5, <2>1 DEF Below
  <2>3. ASSUME ~ lost[batch[p]], n # Unasked, NEW k \in Slots, pool[k].batch = batch[p]
        PROVE  k < n
    <3>1. batch[p] \in Batches
      BY <1>2 DEF IInv, Process, Sending
    <3>2. pool[k] # NoTx /\ Below(k)
      BY <2>3, <3>1, InPool DEF IInv, Solid
    <3>3. n = PendingNonce
      BY <2>3
    <3>4. ~ (n < k) /\ n # k
      BY <1>3, <3>2, <3>3, Numbers DEF Below
    <3>. QED
      BY <1>3, <3>3, <3>4, Numbers
  <2>. QED
    BY <1>5, <2>2, <2>3 DEF Careful
<1>9. \A q \in Procs \ {p} : UNCHANGED Own(q)
  BY <1>1, <1>2 DEF Own, IInv, TypeOK
<1>. QED
  BY <1>2, <1>4, <1>6, <1>7, <1>8, <1>9, TalkKeeps DEF Process

\* A process that is idle promises nothing.
LEMMA IdleIsFine ==
  ASSUME NEW p \in Procs, pc'[p] = "idle"
  PROVE  Process(p)'
BY DEF Process, Sending, Told, Careful

\* A command that ends in an error.
LEMMA AbortTypes ==
  ASSUME IInv, NEW p \in Procs, Abort(p)
  PROVE  /\ pc' \in [Procs -> {"idle", "count", "execute"}] /\ pc'[p] = "idle"
         /\ nonce' \in [Procs -> Slots \union {Used, Unasked, MaxPool}]
         /\ answer' \in [Procs -> {"none", "true", "false"}]
         /\ UNCHANGED <<batch, msg, unlocked>>
         /\ \A q \in Procs \ {p} : pc'[q] = pc[q] /\ nonce'[q] = nonce[q]
BY DEF Abort, IInv, TypeOK

LEMMA RejectedKeeps ==
  ASSUME IInv, NEW p \in Procs, Rejected(p)
  PROVE  IInv'
<1>1. Abort(p) /\ UNCHANGED <<rival, pool, accepted, executed, okay, lost, achieved, fails, drops,
                              reverts>>
  BY DEF Rejected, histVars
<1>2. TypeOK' /\ Process(p)'
  BY <1>1, AbortTypes, IdleIsFine DEF IInv, TypeOK
<1>3. \A q \in Procs \ {p} : UNCHANGED Own(q)
  BY <1>1, AbortTypes DEF Own
<1>4. UNCHANGED batch
  BY <1>1, AbortTypes
<1>. QED
  BY <1>1, <1>2, <1>3, <1>4, TalkKeeps

LEMMA CountFailsKeeps ==
  ASSUME IInv, NEW p \in Procs, CountFails(p)
  PROVE  IInv'
<1>1. Abort(p) /\ fails' = fails + 1
      /\ UNCHANGED <<rival, pool, accepted, executed, okay, lost, achieved, drops, reverts>>
  BY DEF CountFails, histVars
<1>2. TypeOK' /\ Process(p)'
  BY <1>1, AbortTypes, IdleIsFine DEF IInv, TypeOK
<1>3. \A q \in Procs \ {p} : UNCHANGED Own(q)
  BY <1>1, AbortTypes DEF Own
<1>4. UNCHANGED batch
  BY <1>1, AbortTypes
<1>. QED
  BY <1>1, <1>2, <1>3, <1>4, TalkKeeps

-----------------------------------------------------------------------------
(* The pool takes a transaction *)

LEMMA EnterKeeps ==
  ASSUME IInv, TypeOK', NEW p \in Procs, pc[p] = "execute", Takes(p), Enter(p),
         UNCHANGED <<batch, executed, lost, drops>>, pc'[p] # "execute", Sending(p)',
         \A q \in Procs \ {p} : pc'[q] = pc[q] /\ msg'[q] = msg[q] /\ nonce'[q] = nonce[q]
  PROVE  IInv'
<1>. SUFFICES ASSUME NEW b, NEW m, NEW n, b = batch[p], m = msg[p], n = nonce[p]
              PROVE  IInv'
  OBVIOUS
<1>1. /\ b \in Batches /\ m \in Messages /\ m \in Nat /\ accepted[b] = 1 .. m - 1
      /\ n \in Slots /\ pool[n] = NoTx /\ m <= BatchLen /\ 1 <= m
  BY DEF IInv, TypeOK, Process, Sending, Takes, Messages
<1>2. /\ pool' = [pool EXCEPT ![n] = [batch |-> b, msg |-> m]]
      /\ accepted' = [accepted EXCEPT ![b] = accepted[b] \union {m}]
      /\ \A q \in Procs \ {p} : rival'[q] = TRUE
  BY DEF Enter
<1>3. /\ pool'[n].batch = b /\ pool'[n].msg = m /\ pool'[n] = [batch |-> b, msg |-> m]
      /\ pool'[n] # NoTx /\ accepted'[b] = accepted[b] \union {m}
      /\ \A k \in Slots \ {n} : pool'[k] = pool[k]
      /\ \A c \in Batches \ {b} : accepted'[c] = accepted[c]
  <2>1. pool'[n] = [batch |-> b, msg |-> m] /\ \A k \in Slots \ {n} : pool'[k] = pool[k]
    BY <1>1, <1>2 DEF IInv, TypeOK
  <2>2. /\ accepted'[b] = accepted[b] \union {m}
        /\ \A c \in Batches \ {b} : accepted'[c] = accepted[c]
    BY <1>1, <1>2 DEF IInv, TypeOK
  <2>3. pool'[n].batch = b /\ pool'[n].msg = m /\ b # NoBatch
    BY <1>1, <2>1, SenderAssumption
  <2>4. pool'[n] # NoTx
    BY <2>3 DEF NoTx
  <2>. QED
    BY <2>1, <2>2, <2>3, <2>4
<1>4. \A c \in Batches : pool[n].batch # c
  BY <1>1, InPool DEF IInv
<1>5. accepted'[b] = 1 .. m
  BY <1>1, <1>3
<1>6. Apart'
  BY DEF IInv, Apart
<1>7. \A k \in Int : Below(k) => Below(k)'
  BY <1>1, <1>3 DEF Below
<1>8. drops = 0 \/ ~ lost[b] => Below(n)
  BY DEF IInv, Process, Careful
<1>9. Solid'
  <2>. SUFFICES ASSUME NEW k \in Slots, pool'[k] # NoTx, drops = 0 \/ ~ lost[pool'[k].batch]
                PROVE  Below(k)'
    BY DEF Solid, Below
  <2>1. CASE k = n
    BY <1>1, <1>3, <1>7, <1>8, <2>1, Numbers
  <2>2. CASE k # n
    BY <1>3, <1>7, <2>2, Numbers DEF IInv, Solid
  <2>. QED
    BY <2>1, <2>2
<1>10. ASSUME NEW q \in Procs PROVE Process(q)'
  <2>1. CASE q = p
    BY <2>1 DEF Process, Told, Careful
  <2>2. CASE q # p
    <3>1. /\ pc'[q] = pc[q] /\ msg'[q] = msg[q] /\ nonce'[q] = nonce[q] /\ rival'[q]
          /\ batch'[q] = batch[q] /\ lost' = lost /\ drops' = drops
      BY <1>2, <2>2
    <3>2. Sending(q) /\ Careful(q)
      BY DEF IInv, Process
    <3>3. pc[q] # "idle" => batch[q] \in Batches /\ batch[q] # b
      BY <2>2, <3>2 DEF Sending, IInv, Apart
    <3>4. Sending(q)' /\ Told(q)'
      BY <1>3, <3>1, <3>2, <3>3 DEF Sending, Told
    <3>5. nonce[q] \in Int
      BY Numbers DEF IInv, TypeOK
    <3>6. Careful(q)'
      <4>. SUFFICES ASSUME pc[q] = "execute" PROVE Careful(q)'
        BY <3>1 DEF Careful
      <4>1. drops = 0 \/ ~ lost[batch[q]] => Below(nonce[q])
        BY <3>2 DEF Careful
      <4>2. drops' = 0 \/ ~ lost'[batch'[q]] => Below(nonce[q])'
        <5>1. Below(nonce'[q]) <=> Below(nonce[q])
          BY <3>1
        <5>2. Below(nonce[q]) => Below(nonce[q])'
          BY <1>1, <1>3, <3>1 DEF Below
        <5>. QED
          BY <3>1, <4>1, <5>2
      <4>3. ASSUME ~ lost[batch[q]], nonce[q] # Unasked, NEW k \in Slots,
                   pool'[k].batch = batch[q]
            PROVE  k < nonce[q]
        <5>1. k # n
          BY <1>3, <3>3, <4>3
        <5>. QED
          BY <1>3, <3>2, <4>3, <5>1 DEF Careful
      <4>. QED
        BY <3>1, <4>2, <4>3 DEF Careful
    <3>. QED
      BY <3>4, <3>6 DEF Process
  <2>. QED
    BY <2>1, <2>2
<1>11. ASSUME NEW c \in Batches, c # b PROVE Ordered(c)'
  <2>1. /\ accepted'[c] = accepted[c] /\ executed'[c] = executed[c] /\ lost'[c] = lost[c]
        /\ Ordered(c)
    BY <1>3, <1>11 DEF IInv
  <2>2. pool'[n].batch # c /\ \A k \in Slots : pool[k].batch = c => pool'[k] = pool[k]
    BY <1>3, <1>4, <1>11
  <2>3. ASSUME ~ lost[c] PROVE Queued(c)'
    <3>1. Queued(c)
      BY <2>1, <2>3 DEF Ordered
    <3>2. \A k \in Slots : pool'[k].batch = c => pool[k].batch = c /\ pool'[k] = pool[k]
      BY <1>3, <2>2
    <3>3. executed'[c] \subseteq accepted'[c] /\ FirstOf(executed[c])'
      BY <2>1, <3>1 DEF Queued, FirstOf
    <3>4. ASSUME NEW i \in accepted'[c] \ executed'[c]
          PROVE  \E k \in Slots : pool'[k] = [batch |-> c, msg |-> i]
      <4>1. PICK k \in Slots : pool[k] = [batch |-> c, msg |-> i]
        BY <2>1, <3>1, <3>4 DEF Queued
      <4>. QED
        BY <2>2, <4>1
    <3>5. \A k \in Slots : pool'[k].batch = c => pool'[k].msg \in accepted'[c] \ executed'[c]
      BY <2>1, <3>1, <3>2 DEF Queued
    <3>6. \A j, k \in Slots :
            pool'[j].batch = c /\ pool'[k].batch = c /\ j < k => pool'[j].msg < pool'[k].msg
      BY <3>1, <3>2 DEF Queued
    <3>. QED
      BY <3>3, <3>4, <3>5, <3>6 DEF Queued
  <2>. QED
    BY <2>1, <2>3 DEF Ordered, FirstOf
<1>12. Ordered(b)'
  <2>1. FirstOf(accepted[b])'
    <3>1. m \in 0 .. BatchLen
      BY <1>1, Numbers
    <3>. QED
      BY <1>5, <3>1 DEF FirstOf
  <2>2. ASSUME ~ lost[b] PROVE Queued(b)'
    <3>1. Queued(b) /\ executed'[b] = executed[b]
      BY <1>1, <2>2 DEF IInv, Ordered
    <3>2. \A k \in Slots : pool[k].batch = b => k < n
      <4>1. n # Unasked
        BY <1>1, Numbers
      <4>. QED
        BY <2>2, <4>1 DEF IInv, Process, Careful
    <3>3. \A k \in Slots : pool'[k].batch = b /\ k # n => pool[k].batch = b /\ pool'[k] = pool[k]
      BY <1>3
    <3>4. m \notin accepted[b] /\ m \notin executed[b]
      BY <1>1, <3>1 DEF Queued
    <3>5. executed'[b] \subseteq accepted'[b] /\ FirstOf(executed[b])'
      BY <1>3, <3>1 DEF Queued, FirstOf
    <3>6. ASSUME NEW i \in accepted'[b] \ executed'[b]
          PROVE  \E k \in Slots : pool'[k] = [batch |-> b, msg |-> i]
      <4>1. CASE i = m
        BY <1>1, <1>3, <4>1
      <4>2. CASE i # m
        <5>1. PICK k \in Slots : pool[k] = [batch |-> b, msg |-> i]
          BY <1>3, <3>1, <3>6, <4>2 DEF Queued
        <5>2. k # n
          BY <1>1, <1>4, <5>1
        <5>. QED
          BY <1>3, <5>1, <5>2
      <4>. QED
        BY <4>1, <4>2
    <3>7. ASSUME NEW k \in Slots, pool'[k].batch = b
          PROVE  pool'[k].msg \in accepted'[b] \ executed'[b]
      <4>1. CASE k = n
        BY <1>3, <3>1, <3>4, <4>1
      <4>2. CASE k # n
        BY <1>3, <3>1, <3>3, <3>7, <4>2 DEF Queued
      <4>. QED
        BY <4>1, <4>2
    <3>8. ASSUME NEW j \in Slots, NEW k \in Slots, pool'[j].batch = b, pool'[k].batch = b, j < k
          PROVE  pool'[j].msg < pool'[k].msg
      <4>1. j \in Int /\ k \in Int /\ n \in Int
        BY <1>1, Numbers
      <4>2. j # n
        <5>1. CASE k = n
          BY <3>8, <4>1, <5>1
        <5>2. CASE k # n
          BY <3>2, <3>3, <3>8, <4>1, <5>2
        <5>. QED
          BY <5>1, <5>2
      <4>3. pool[j].batch = b /\ pool'[j] = pool[j] /\ pool[j].msg \in accepted[b]
        BY <3>1, <3>3, <3>8, <4>2 DEF Queued
      <4>4. CASE k = n
        BY <1>1, <1>3, <4>3, <4>4
      <4>5. CASE k # n
        <5>1. pool[k].batch = b /\ pool'[k] = pool[k]
          BY <3>3, <3>8, <4>5
        <5>. QED
          BY <3>1, <3>8, <4>3, <5>1 DEF Queued
      <4>. QED
        BY <4>4, <4>5
    <3>. QED
      BY <3>5, <3>6, <3>7, <3>8 DEF Queued
  <2>. QED
    BY <2>1, <2>2 DEF Ordered
<1>. QED
  BY <1>6, <1>9, <1>10, <1>11, <1>12 DEF IInv

\* What Enter does to the types.
LEMMA EnterTypes ==
  ASSUME IInv, NEW p \in Procs, pc[p] = "execute", Enter(p), Takes(p)
  PROVE  /\ pool' \in [Slots -> Tx \union {NoTx}] /\ accepted' \in [Batches -> SUBSET Messages]
         /\ rival' \in [Procs -> BOOLEAN] /\ batch[p] \in Batches
         /\ accepted'[batch[p]] = 1 .. msg[p]
<1>1. /\ batch[p] \in Batches /\ msg[p] \in Messages /\ accepted[batch[p]] = 1 .. msg[p] - 1
      /\ msg[p] \in Nat /\ 1 <= msg[p]
  BY DEF IInv, TypeOK, Process, Sending, Messages
<1>2. [batch |-> batch[p], msg |-> msg[p]] \in Tx
  BY <1>1 DEF Tx
<1>3. accepted'[batch[p]] = accepted[batch[p]] \union {msg[p]}
  BY <1>1 DEF Enter, IInv, TypeOK
<1>4. accepted'[batch[p]] = 1 .. msg[p]
  BY <1>1, <1>3
<1>5. rival' \in [Procs -> BOOLEAN]
  BY DEF Enter
<1>6. accepted[batch[p]] \union {msg[p]} \in SUBSET Messages
  BY <1>1 DEF IInv, TypeOK
<1>. QED
  BY <1>1, <1>2, <1>4, <1>5, <1>6 DEF Enter, IInv, TypeOK

LEMMA AcceptedKeeps ==
  ASSUME IInv, NEW p \in Procs, Accepted(p)
  PROVE  IInv'
<1>1. /\ pc[p] = "execute" /\ Takes(p) /\ Enter(p) /\ nonce' = [nonce EXCEPT ![p] = Used]
      /\ unlocked' = [unlocked EXCEPT ![p] = FALSE]
      /\ UNCHANGED <<batch, executed, okay, lost, achieved, fails, drops, reverts>>
  BY DEF Accepted
<1>2. /\ pool' \in [Slots -> Tx \union {NoTx}] /\ accepted' \in [Batches -> SUBSET Messages]
      /\ rival' \in [Procs -> BOOLEAN] /\ batch[p] \in Batches
      /\ accepted'[batch[p]] = 1 .. msg[p]
  BY <1>1, EnterTypes
<1>3. /\ nonce' \in [Procs -> Slots \union {Used, Unasked, MaxPool}]
      /\ \A q \in Procs \ {p} : nonce'[q] = nonce[q]
  BY <1>1 DEF IInv, TypeOK
<1>4. msg[p] \in Nat /\ msg[p] <= BatchLen /\ 1 <= msg[p]
  BY DEF IInv, TypeOK, Messages
<1>5. CASE msg[p] = BatchLen
  <2>1. /\ pc' = [pc EXCEPT ![p] = "idle"] /\ answer' = [answer EXCEPT ![p] = "true"]
        /\ msg' = msg
    BY <1>5 DEF Accepted
  <2>2. /\ pc' \in [Procs -> {"idle", "count", "execute"}] /\ pc'[p] = "idle"
        /\ answer' \in [Procs -> {"none", "true", "false"}]
        /\ \A q \in Procs \ {p} : pc'[q] = pc[q]
    BY <2>1 DEF IInv, TypeOK
  <2>3. TypeOK'
    BY <1>1, <1>2, <1>3, <2>1, <2>2 DEF IInv, TypeOK
  <2>4. Sending(p)' /\ pc'[p] # "execute"
    BY <2>2 DEF Sending
  <2>. QED
    BY <1>1, <1>3, <2>1, <2>2, <2>3, <2>4, EnterKeeps
<1>6. CASE msg[p] # BatchLen
  <2>1. /\ pc' = [pc EXCEPT ![p] = "count"] /\ answer' = answer
        /\ msg' = [msg EXCEPT ![p] = msg[p] + 1]
    BY <1>6 DEF Accepted
  <2>2. msg[p] + 1 \in Messages /\ msg[p] + 1 - 1 = msg[p]
    BY <1>4, <1>6, Numbers DEF Messages
  <2>3. /\ pc' \in [Procs -> {"idle", "count", "execute"}] /\ pc'[p] = "count"
        /\ msg' \in [Procs -> Messages] /\ msg'[p] = msg[p] + 1
        /\ \A q \in Procs \ {p} : pc'[q] = pc[q] /\ msg'[q] = msg[q]
    BY <2>1, <2>2 DEF IInv, TypeOK
  <2>4. TypeOK'
    BY <1>1, <1>2, <1>3, <2>1, <2>3 DEF IInv, TypeOK
  <2>5. Sending(p)' /\ pc'[p] # "execute"
    <3>1. batch'[p] \in Batches /\ accepted'[batch'[p]] = 1 .. msg'[p] - 1
      <4>1. msg'[p] - 1 = msg[p] /\ batch'[p] = batch[p]
        BY <1>1, <1>4, <2>3
      <4>. QED
        BY <1>2, <4>1
    <3>. QED
      BY <2>3, <3>1 DEF Sending
  <2>. QED
    BY <1>1, <1>3, <2>3, <2>4, <2>5, EnterKeeps
<1>. QED
  BY <1>5, <1>6

LEMMA ExecuteFailsKeeps ==
  ASSUME IInv, NEW p \in Procs, ExecuteFails(p)
  PROVE  IInv'
<1>1. /\ pc[p] = "execute" /\ Abort(p) /\ fails' = fails + 1
      /\ UNCHANGED <<executed, okay, lost, achieved, drops, reverts>>
  BY DEF ExecuteFails
<1>2. /\ pc' \in [Procs -> {"idle", "count", "execute"}] /\ pc'[p] = "idle"
      /\ nonce' \in [Procs -> Slots \union {Used, Unasked, MaxPool}]
      /\ answer' \in [Procs -> {"none", "true", "false"}]
      /\ UNCHANGED <<batch, msg, unlocked>>
      /\ \A q \in Procs \ {p} : pc'[q] = pc[q] /\ nonce'[q] = nonce[q]
  BY <1>1, AbortTypes
<1>3. CASE UNCHANGED <<rival, pool, accepted>>
  <2>1. TypeOK'
    BY <1>1, <1>2, <1>3 DEF IInv, TypeOK
  <2>2. \A q \in Procs \ {p} : UNCHANGED Own(q)
    BY <1>2, <1>3 DEF Own
  <2>3. Process(p)'
    BY <1>2, IdleIsFine
  <2>. QED
    BY <1>1, <1>2, <1>3, <2>1, <2>2, <2>3, TalkKeeps
<1>4. CASE Takes(p) /\ Enter(p)
  <2>1. TypeOK'
    BY <1>1, <1>2, <1>4, EnterTypes DEF IInv, TypeOK
  <2>2. Sending(p)' /\ pc'[p] # "execute"
    BY <1>2 DEF Sending
  <2>. QED
    BY <1>1, <1>2, <1>4, <2>1, <2>2, EnterKeeps
<1>. QED
  BY <1>3, <1>4 DEF ExecuteFails

-----------------------------------------------------------------------------
(* The chain executes a transaction *)

\* Mining moves every transaction one slot down.
LEMMA Shift ==
  ASSUME IInv, pool' = [k \in Slots |-> IF k + 1 \in Slots THEN pool[k + 1] ELSE NoTx]
  PROVE  /\ pool' \in [Slots -> Tx \union {NoTx}]
         /\ \A k \in Slots : pool'[k] # NoTx => k + 1 \in Slots /\ pool'[k] = pool[k + 1]
         /\ \A k \in Slots : pool'[k].batch \in Batches => k + 1 \in Slots /\ pool'[k] = pool[k + 1]
         /\ \A k \in Slots : k # 0 => k - 1 \in Slots /\ pool'[k - 1] = pool[k]
         /\ \A k \in Slots : k + 1 \in Slots => pool'[k] = pool[k + 1]
         /\ pool'[MaxPool - 1] = NoTx /\ MaxPool - 1 \in Slots
<1>1. \A k \in Slots : pool'[k] = IF k + 1 \in Slots THEN pool[k + 1] ELSE NoTx
  OBVIOUS
<1>2. \A k \in Slots : k # 0 => k - 1 \in Slots /\ k - 1 + 1 = k
  BY Numbers DEF Slots
<1>3. MaxPool - 1 \in Slots /\ MaxPool - 1 + 1 = MaxPool /\ MaxPool \notin Slots
  BY Numbers DEF Slots
<1>4. NoTx.batch \notin Batches
  BY SenderAssumption DEF NoTx
<1>5. pool' \in [Slots -> Tx \union {NoTx}]
  <2>1. \A k \in Slots : pool[k] \in Tx \union {NoTx}
    BY DEF IInv, TypeOK
  <2>. QED
    BY <2>1
<1>6. ASSUME NEW k \in Slots, k # 0 PROVE k - 1 \in Slots /\ pool'[k - 1] = pool[k]
  <2>1. k - 1 \in Slots /\ k - 1 + 1 = k
    BY <1>2, <1>6
  <2>2. pool'[k - 1] = IF k - 1 + 1 \in Slots THEN pool[k - 1 + 1] ELSE NoTx
    BY <1>1, <2>1
  <2>. QED
    BY <2>1, <2>2
<1>7. pool'[MaxPool - 1] = NoTx
  <2>1. pool'[MaxPool - 1] = IF MaxPool - 1 + 1 \in Slots THEN pool[MaxPool - 1 + 1] ELSE NoTx
    BY <1>1, <1>3
  <2>. QED
    BY <1>3, <2>1
<1>. QED
  BY <1>1, <1>3, <1>4, <1>5, <1>6, <1>7

\* Nonces are counted from the account's own.
LEMMA Counted ==
  ASSUME IInv, nonce' = [p \in Procs |-> IF nonce[p] > Used THEN nonce[p] - 1 ELSE nonce[p]]
  PROVE  /\ nonce' \in [Procs -> Slots \union {Used, Unasked, MaxPool}]
         /\ \A p \in Procs :
              /\ nonce[p] \in {Used, Unasked} => nonce'[p] = nonce[p]
              /\ nonce[p] \notin {Used, Unasked} =>
                   nonce[p] \in Slots \union {MaxPool} /\ nonce'[p] = nonce[p] - 1
              /\ nonce'[p] = Unasked <=> nonce[p] = Unasked
<1>1. \A n \in Slots \union {MaxPool} : n > Used /\ n - 1 \in Slots \union {Used} /\ n - 1 # Unasked
  BY Numbers DEF Slots
<1>2. ~ (Used > Used) /\ ~ (Unasked > Used)
  BY Numbers
<1>3. \A p \in Procs : nonce[p] \in Slots \union {MaxPool} \/ nonce[p] = Used \/ nonce[p] = Unasked
  BY DEF IInv, TypeOK
<1>4. ASSUME NEW p \in Procs
      PROVE  /\ nonce'[p] \in Slots \union {Used, Unasked, MaxPool}
             /\ nonce[p] \in {Used, Unasked} => nonce'[p] = nonce[p]
             /\ nonce[p] \notin {Used, Unasked} =>
                  nonce[p] \in Slots \union {MaxPool} /\ nonce'[p] = nonce[p] - 1
             /\ nonce'[p] = Unasked <=> nonce[p] = Unasked
  <2>1. nonce'[p] = IF nonce[p] > Used THEN nonce[p] - 1 ELSE nonce[p]
    OBVIOUS
  <2>2. CASE nonce[p] \in Slots \union {MaxPool}
    <3>1. nonce[p] # Used /\ nonce[p] # Unasked
      BY <2>2, Numbers
    <3>. QED
      BY <1>1, <2>1, <2>2, <3>1
  <2>3. CASE nonce[p] = Used
    BY <1>2, <2>1, <2>3, Numbers
  <2>4. CASE nonce[p] = Unasked
    BY <1>2, <2>1, <2>4, Numbers
  <2>. QED
    BY <1>3, <2>2, <2>3, <2>4
<1>5. nonce' \in [Procs -> Slots \union {Used, Unasked, MaxPool}]
  <2>. DEFINE f(p) == IF nonce[p] > Used THEN nonce[p] - 1 ELSE nonce[p]
  <2>1. \A p \in Procs : nonce'[p] = f(p)
    OBVIOUS
  <2>2. nonce' = [p \in Procs |-> f(p)]
    OBVIOUS
  <2>. HIDE DEF f
  <2>. QED
    BY <1>4, <2>1, <2>2
<1>. QED
  BY <1>4, <1>5

LEMMA MineTypes ==
  ASSUME IInv, Mine
  PROVE  TypeOK'
<1>. DEFINE b == pool[0].batch
            i == pool[0].msg
<1>1. /\ pool[0] # NoTx /\ executed' = [executed EXCEPT ![b] = executed[b] \union {i}]
      /\ okay' \in {okay, [okay EXCEPT ![b] = okay[b] \union {i}]}
      /\ reverts' \in {reverts, reverts + 1}
      /\ pool' = [k \in Slots |-> IF k + 1 \in Slots THEN pool[k + 1] ELSE NoTx]
      /\ nonce' = [p \in Procs |-> IF nonce[p] > Used THEN nonce[p] - 1 ELSE nonce[p]]
      /\ UNCHANGED <<pc, batch, msg, unlocked, answer, rival, accepted, lost, fails, drops>>
  BY DEF Mine
<1>2. achieved' \in BOOLEAN
  BY DEF Mine, IInv, TypeOK
<1>3. b \in Batches /\ i \in Messages
  BY <1>1, InPool, Numbers DEF IInv
<1>. HIDE DEF b, i
<1>4. /\ executed' \in [Batches -> SUBSET Messages] /\ okay' \in [Batches -> SUBSET Messages]
      /\ reverts' \in Nat
  <2>1. executed[b] \union {i} \in SUBSET Messages /\ okay[b] \union {i} \in SUBSET Messages
    BY <1>3 DEF IInv, TypeOK
  <2>2. executed' \in [Batches -> SUBSET Messages]
    BY <1>1, <2>1 DEF IInv, TypeOK
  <2>3. okay' = okay \/ okay' = [okay EXCEPT ![b] = okay[b] \union {i}]
    BY <1>1
  <2>4. okay' \in [Batches -> SUBSET Messages]
    BY <2>1, <2>3 DEF IInv, TypeOK
  <2>5. reverts' \in Nat
    BY <1>1 DEF IInv, TypeOK
  <2>. QED
    BY <2>2, <2>4, <2>5
<1>5. /\ pool' \in [Slots -> Tx \union {NoTx}]
      /\ nonce' \in [Procs -> Slots \union {Used, Unasked, MaxPool}]
  BY <1>1, Shift, Counted
<1>. QED
  BY <1>1, <1>2, <1>4, <1>5 DEF IInv, TypeOK

LEMMA MineKeeps ==
  ASSUME IInv, Mine
  PROVE  IInv'
<1>. SUFFICES ASSUME NEW b, NEW i, b = pool[0].batch, i = pool[0].msg PROVE IInv'
  OBVIOUS
<1>1. /\ pool[0] # NoTx /\ executed' = [executed EXCEPT ![b] = executed[b] \union {i}]
      /\ UNCHANGED <<pc, batch, msg, rival, accepted, lost, drops>>
  BY DEF Mine
<1>2. /\ \A k \in Slots : pool'[k] # NoTx => k + 1 \in Slots /\ pool'[k] = pool[k + 1]
      /\ \A k \in Slots : pool'[k].batch \in Batches => k + 1 \in Slots /\ pool'[k] = pool[k + 1]
      /\ \A k \in Slots : k # 0 => k - 1 \in Slots /\ pool'[k - 1] = pool[k]
      /\ \A k \in Slots : k + 1 \in Slots => pool'[k] = pool[k + 1]
      /\ pool'[MaxPool - 1] = NoTx
  BY Shift DEF Mine
<1>3. \A p \in Procs :
        /\ nonce[p] \in {Used, Unasked} => nonce'[p] = nonce[p]
        /\ nonce[p] \notin {Used, Unasked} =>
             nonce[p] \in Slots \union {MaxPool} /\ nonce'[p] = nonce[p] - 1
        /\ nonce'[p] = Unasked <=> nonce[p] = Unasked
  BY Counted DEF Mine
<1>4. b \in Batches /\ i \in Messages /\ 0 \in Slots
  BY <1>1, InPool, Numbers DEF IInv
<1>5. executed'[b] = executed[b] \union {i} /\ \A c \in Batches \ {b} : executed'[c] = executed[c]
  BY <1>1, <1>4 DEF IInv, TypeOK
<1>6. ASSUME NEW n \in Int, n < MaxPool, Below(n + 1) PROVE Below(n)'
  <2>. SUFFICES ASSUME NEW j \in Slots, j < n PROVE pool'[j] # NoTx
    BY DEF Below
  <2>1. j + 1 \in Slots /\ j + 1 # 0 /\ j + 1 - 1 = j /\ j + 1 < n + 1
    BY <1>6, Numbers DEF Slots
  <2>2. pool'[j] = pool[j + 1]
    BY <1>2, <2>1
  <2>. QED
    BY <1>6, <2>1, <2>2 DEF Below
<1>7. Solid'
  <2>. SUFFICES ASSUME NEW k \in Slots, pool'[k] # NoTx, drops = 0 \/ ~ lost[pool'[k].batch]
                PROVE  Below(k)'
    BY <1>1 DEF Solid, Below
  <2>1. k + 1 \in Slots /\ pool'[k] = pool[k + 1]
    BY <1>2
  <2>2. Below(k + 1)
    BY <2>1 DEF IInv, Solid
  <2>. QED
    BY <1>6, <2>2, Numbers
<1>8. ASSUME NEW q \in Procs PROVE Process(q)'
  <2>1. Sending(q) /\ Told(q) /\ Careful(q) /\ nonce[q] \in Slots \union {Used, Unasked, MaxPool}
    BY DEF IInv, Process, TypeOK
  <2>2. Sending(q)'
    BY <1>1, <2>1 DEF Sending
  <2>3. Told(q)'
    <3>. SUFFICES ASSUME pc[q] = "execute", ~ rival[q]
                  PROVE  nonce'[q] # Used /\ (nonce'[q] \in Slots => pool'[nonce'[q]] = NoTx)
      BY <1>1 DEF Told
    <3>1. nonce[q] # Used /\ (nonce[q] \in Slots => pool[nonce[q]] = NoTx)
      BY <2>1 DEF Told
    <3>2. CASE nonce[q] = Unasked
      BY <1>3, <3>2, Numbers
    <3>3. CASE nonce[q] = MaxPool
      <4>1. nonce'[q] = MaxPool - 1
        BY <1>3, <3>3, Numbers
      <4>. QED
        BY <1>2, <4>1, Numbers
    <3>4. CASE nonce[q] \in Slots
      <4>1. nonce'[q] = nonce[q] - 1 /\ nonce[q] # 0
        BY <1>1, <1>3, <3>1, <3>4, Numbers
      <4>. QED
        BY <1>2, <3>1, <3>4, <4>1, Numbers
    <3>. QED
      BY <2>1, <3>1, <3>2, <3>3, <3>4
  <2>4. ASSUME pc[q] = "execute", drops = 0 \/ ~ lost[batch[q]] PROVE Below(nonce[q])'
    <3>1. Below(nonce[q])
      BY <2>1, <2>4 DEF Careful
    <3>2. CASE nonce[q] \in {Used, Unasked}
      BY <1>3, <3>2, Numbers DEF Below
    <3>3. CASE nonce[q] \notin {Used, Unasked}
      <4>. SUFFICES ASSUME NEW n, n = nonce[q] - 1 PROVE Below(nonce[q])'
        OBVIOUS
      <4>1. n \in Int /\ n < MaxPool /\ n + 1 = nonce[q] /\ nonce'[q] = n
        BY <1>3, <3>3, Numbers
      <4>2. Below(n)'
        BY <1>6, <3>1, <4>1
      <4>. QED
        BY <4>1, <4>2 DEF Below
    <3>. QED
      BY <3>2, <3>3
  <2>5. ASSUME pc[q] = "execute", ~ lost[batch[q]], nonce'[q] # Unasked, NEW k \in Slots,
               pool'[k].batch = batch[q]
        PROVE  k < nonce'[q]
    <3>1. batch[q] \in Batches
      BY <2>1, <2>5 DEF Sending
    <3>2. k + 1 \in Slots /\ pool[k + 1].batch = batch[q]
      BY <1>2, <2>5, <3>1
    <3>3. k + 1 < nonce[q]
      BY <1>3, <2>1, <2>5, <3>2 DEF Careful
    <3>4. nonce[q] \notin {Used, Unasked}
      BY <3>2, <3>3, Numbers
    <3>. QED
      BY <1>3, <3>3, <3>4, Numbers
  <2>6. Careful(q)'
    <3>1. pc' = pc /\ batch' = batch /\ drops' = drops /\ lost' = lost
      BY <1>1
    <3>. QED
      BY <2>4, <2>5, <3>1 DEF Careful
  <2>. QED
    BY <2>2, <2>3, <2>6 DEF Process
<1>9. ASSUME NEW c \in Batches, ~ lost[c] PROVE Queued(c)'
  <2>1. Queued(c) /\ FirstOf(accepted[c])
    BY <1>9 DEF IInv, Ordered
  <2>2. \A k \in Slots : pool'[k].batch = c => k + 1 \in Slots /\ pool'[k] = pool[k + 1]
    BY <1>2
  <2>3. executed[c] \subseteq executed'[c] /\ \A x \in executed'[c] : x \in executed[c] \/ (c = b /\ x = i)
    BY <1>5
  <2>4. c = b => i \in accepted[c] \ executed[c]
    BY <1>4, <2>1 DEF Queued
  <2>5. executed'[c] \subseteq accepted[c]
    BY <2>1, <2>3, <2>4 DEF Queued
  <2>6. FirstOf(executed'[c])
    <3>1. CASE c # b
      BY <1>5, <2>1, <3>1 DEF Queued
    <3>2. CASE c = b
      <4>1. PICK m \in 0 .. BatchLen : executed[c] = 1 .. m
        BY <2>1 DEF Queued, FirstOf
      <4>2. PICK n \in 0 .. BatchLen : accepted[c] = 1 .. n
        BY <2>1 DEF FirstOf
      <4>3. i \in Nat /\ 1 <= i /\ i <= n /\ m < i
        BY <2>4, <3>2, <4>1, <4>2, Numbers
      <4>4. ASSUME m + 1 < i PROVE FALSE
        <5>1. m + 1 \in accepted[c] \ executed[c]
          BY <4>1, <4>2, <4>3, <4>4
        <5>2. PICK k \in Slots : pool[k] = [batch |-> c, msg |-> m + 1]
          BY <2>1, <5>1 DEF Queued
        <5>3. k # 0 /\ pool[k].batch = c /\ pool[k].msg = m + 1
          BY <4>3, <4>4, <5>2
        <5>4. 0 < k
          BY <5>3, Numbers
        <5>5. i < m + 1
          BY <1>4, <2>1, <3>2, <5>3, <5>4 DEF Queued
        <5>. QED
          BY <4>1, <4>3, <4>4, <5>5
      <4>5. i = m + 1
        BY <4>1, <4>3, <4>4
      <4>6. executed'[c] = 1 .. m + 1 /\ m + 1 \in 0 .. BatchLen
        <5>1. executed'[c] = (1 .. m) \union {m + 1}
          BY <1>5, <3>2, <4>1, <4>5
        <5>2. m \in Nat /\ n \in Nat /\ n <= BatchLen /\ m + 1 <= n
          BY <4>3, <4>5, Numbers
        <5>. QED
          BY <5>1, <5>2, Numbers
      <4>. QED
        BY <4>6 DEF FirstOf
    <3>. QED
      BY <3>1, <3>2
  <2>7. ASSUME NEW x \in accepted[c] \ executed'[c]
        PROVE  \E k \in Slots : pool'[k] = [batch |-> c, msg |-> x]
    <3>1. PICK k \in Slots : pool[k] = [batch |-> c, msg |-> x]
      BY <2>1, <2>3, <2>7 DEF Queued
    <3>2. k # 0
      BY <1>5, <2>7, <3>1
    <3>. QED
      BY <1>2, <3>1, <3>2
  <2>8. ASSUME NEW k \in Slots, pool'[k].batch = c
        PROVE  pool'[k].msg \in accepted[c] \ executed'[c]
    <3>1. k + 1 \in Slots /\ pool'[k] = pool[k + 1] /\ 0 < k + 1
      BY <2>2, <2>8, Numbers
    <3>2. pool[k + 1].msg \in accepted[c] \ executed[c]
      BY <2>1, <2>8, <3>1 DEF Queued
    <3>3. c = b => i < pool[k + 1].msg /\ i \in Int
      BY <1>4, <2>1, <2>8, <3>1, Numbers DEF Queued, Messages
    <3>4. c = b => i # pool[k + 1].msg
      BY <3>3
    <3>. QED
      BY <2>3, <3>1, <3>2, <3>4
  <2>9. ASSUME NEW j \in Slots, NEW k \in Slots, pool'[j].batch = c, pool'[k].batch = c, j < k
        PROVE  pool'[j].msg < pool'[k].msg
    <3>1. /\ j + 1 \in Slots /\ pool'[j] = pool[j + 1] /\ k + 1 \in Slots
          /\ pool'[k] = pool[k + 1] /\ j + 1 < k + 1
      BY <2>2, <2>9, Numbers
    <3>. QED
      BY <2>1, <2>9, <3>1 DEF Queued
  <2>10. accepted' = accepted
    BY <1>1
  <2>. QED
    BY <2>5, <2>6, <2>7, <2>8, <2>9, <2>10 DEF Queued, FirstOf
<1>10. ASSUME NEW c \in Batches PROVE Ordered(c)'
  BY <1>1, <1>9 DEF IInv, Ordered, FirstOf
<1>11. TypeOK' /\ Apart'
  BY <1>1, MineTypes DEF IInv, Apart
<1>. QED
  BY <1>7, <1>8, <1>10, <1>11 DEF IInv

-----------------------------------------------------------------------------
(* Losses, and new batches *)

LEMMA LoseKeeps ==
  ASSUME IInv, Lose
  PROVE  IInv'
<1>1. /\ lost' = [b \in Batches |-> lost[b] \/ b \in InUse] /\ drops' = drops + 1
      /\ UNCHANGED <<pc, batch, msg, nonce, unlocked, answer, rival, accepted, executed, okay,
                     achieved, fails, reverts>>
  BY DEF Lose, procVars
<1>2. PICK k0 \in Slots : pool' = [pool EXCEPT ![k0] = NoTx]
  BY DEF Lose, Waiting
<1>3. drops' # 0 /\ drops' \in Nat
  BY <1>1 DEF IInv, TypeOK
<1>4. \A b \in Batches : /\ lost'[b] \in BOOLEAN
                         /\ ~ lost'[b] => ~ lost[b] /\ b \notin InUse
  BY <1>1
<1>5. \A k \in Slots : pool'[k] = NoTx \/ pool'[k] = pool[k]
  BY <1>2 DEF IInv, TypeOK
<1>6. TypeOK'
  <2>1. pool' \in [Slots -> Tx \union {NoTx}]
    BY <1>2 DEF IInv, TypeOK
  <2>2. lost' \in [Batches -> BOOLEAN]
    BY <1>1
  <2>. QED
    BY <1>1, <1>3, <2>1, <2>2 DEF IInv, TypeOK
<1>7. NoTx.batch \notin Batches
  BY SenderAssumption DEF NoTx
<1>8. \A k \in Slots : pool'[k] # NoTx => pool'[k].batch \in Batches /\ pool'[k].batch \in InUse
  BY <1>5, InPool DEF IInv, InUse
<1>9. Apart' /\ Solid'
  <2>1. Apart'
    BY <1>1 DEF IInv, Apart
  <2>2. Solid'
    BY <1>3, <1>4, <1>8 DEF Solid
  <2>. QED
    BY <2>1, <2>2
<1>10. ASSUME NEW p \in Procs PROVE Process(p)'
  <2>1. Sending(p) /\ Told(p)
    BY DEF IInv, Process
  <2>2. Sending(p)'
    BY <1>1, <2>1 DEF Sending
  <2>3. Told(p)'
    BY <1>1, <1>5, <2>1 DEF Told
  <2>4. pc'[p] = "execute" => lost'[batch'[p]] /\ drops' # 0
    <3>1. batch[p] \in InUse
      BY DEF InUse
    <3>. QED
      BY <1>1, <1>3, <1>4, <2>1, <3>1 DEF Sending
  <2>5. Careful(p)'
    BY <2>4 DEF Careful
  <2>. QED
    BY <2>2, <2>3, <2>5 DEF Process
<1>11. ASSUME NEW b \in Batches, ~ lost'[b] PROVE Queued(b)'
  <2>1. Queued(b) /\ b \notin InUse
    BY <1>4, <1>11 DEF IInv, Ordered
  <2>2. \A k \in Slots : pool[k].batch # b
    BY <2>1 DEF InUse
  <2>3. \A k \in Slots : pool'[k].batch # b
    BY <1>5, <1>7, <2>2
  <2>4. accepted[b] \ executed[b] = {}
    <3>1. ASSUME NEW i \in accepted[b] \ executed[b] PROVE FALSE
      <4>1. PICK k \in Slots : pool[k] = [batch |-> b, msg |-> i]
        BY <2>1, <3>1 DEF Queued
      <4>. QED
        BY <2>2, <4>1
    <3>. QED
      BY <3>1
  <2>5. accepted' = accepted /\ executed' = executed
    BY <1>1
  <2>. QED
    BY <2>1, <2>3, <2>4, <2>5 DEF Queued, FirstOf
<1>12. ASSUME NEW b \in Batches PROVE Ordered(b)'
  BY <1>1, <1>11 DEF IInv, Ordered, FirstOf
<1>. QED
  BY <1>6, <1>9, <1>10, <1>12 DEF IInv

LEMMA StartKeeps ==
  ASSUME IInv, NEW p \in Procs, Start(p)
  PROVE  IInv'
<1>1. PICK b \in Batches \ InUse :
        /\ batch' = [batch EXCEPT ![p] = b] /\ accepted' = [accepted EXCEPT ![b] = {}]
        /\ executed' = [executed EXCEPT ![b] = {}] /\ okay' = [okay EXCEPT ![b] = {}]
        /\ lost' = [lost EXCEPT ![b] = FALSE]
  BY DEF Start
<1>2. /\ msg' = [msg EXCEPT ![p] = 1] /\ answer' = [answer EXCEPT ![p] = "none"]
      /\ pc' = [pc EXCEPT ![p] = "count"]
      /\ UNCHANGED <<nonce, unlocked, rival, pool, achieved, fails, drops, reverts>>
  BY DEF Start
<1>3. 1 \in Messages /\ 1 .. 1 - 1 = {} /\ 0 \in 0 .. BatchLen /\ 1 .. 0 = {}
  BY Numbers DEF Messages
<1>4. TypeOK'
  BY <1>1, <1>2, <1>3 DEF IInv, TypeOK
<1>5. /\ batch'[p] = b /\ msg'[p] = 1 /\ pc'[p] = "count" /\ accepted'[b] = {}
      /\ executed'[b] = {} /\ lost'[b] = FALSE
      /\ \A q \in Procs \ {p} : pc'[q] = pc[q] /\ batch'[q] = batch[q] /\ msg'[q] = msg[q]
      /\ \A c \in Batches \ {b} : /\ accepted'[c] = accepted[c] /\ executed'[c] = executed[c]
                                  /\ lost'[c] = lost[c]
      /\ nonce' = nonce /\ rival' = rival /\ pool' = pool /\ drops' = drops
  BY <1>1, <1>2 DEF IInv, TypeOK
<1>6. (\A q \in Procs : batch[q] # b) /\ (\A k \in Slots : pool[k].batch # b)
  BY DEF InUse
<1>7. Apart'
  BY <1>5, <1>6 DEF IInv, Apart
<1>8. Solid'
  <2>. SUFFICES ASSUME NEW k \in Slots, pool[k] # NoTx, drops = 0 \/ ~ lost'[pool[k].batch]
                PROVE  Below(k)
    BY <1>5 DEF Solid, Below
  <2>1. pool[k].batch \in Batches \ {b}
    BY <1>6, InPool DEF IInv
  <2>. QED
    BY <1>5, <2>1 DEF IInv, Solid
<1>9. ASSUME NEW q \in Procs PROVE Process(q)'
  <2>1. CASE q = p
    BY <1>3, <1>5, <2>1 DEF Process, Sending, Told, Careful
  <2>2. CASE q # p
    <3>1. /\ pc'[q] = pc[q] /\ batch'[q] = batch[q] /\ msg'[q] = msg[q] /\ nonce'[q] = nonce[q]
          /\ rival'[q] = rival[q] /\ pool' = pool /\ drops' = drops
      BY <1>5, <2>2
    <3>2. Sending(q) /\ Told(q) /\ Careful(q)
      BY DEF IInv, Process
    <3>3. pc[q] # "idle" => /\ accepted'[batch[q]] = accepted[batch[q]]
                            /\ lost'[batch[q]] = lost[batch[q]]
      BY <1>5, <1>6, <3>2 DEF Sending
    <3>4. Sending(q)' /\ Told(q)'
      BY <3>1, <3>2, <3>3 DEF Sending, Told
    <3>5. Careful(q)'
      BY <3>1, <3>2, <3>3 DEF Careful, Below
    <3>. QED
      BY <3>4, <3>5 DEF Process
  <2>. QED
    BY <2>1, <2>2
<1>10. ASSUME NEW c \in Batches PROVE Ordered(c)'
  <2>1. CASE c = b
    <3>1. FirstOf(accepted'[c]) /\ FirstOf(executed'[c])
      BY <1>3, <1>5, <2>1 DEF FirstOf
    <3>. QED
      BY <1>5, <1>6, <2>1, <3>1 DEF Ordered, Queued, FirstOf
  <2>2. CASE c # b
    <3>1. /\ accepted'[c] = accepted[c] /\ executed'[c] = executed[c] /\ lost'[c] = lost[c]
          /\ pool' = pool /\ Ordered(c)
      BY <1>5, <2>2 DEF IInv
    <3>. QED
      BY <3>1 DEF Ordered, Queued, FirstOf
  <2>. QED
    BY <2>1, <2>2
<1>. QED
  BY <1>4, <1>7, <1>8, <1>9, <1>10 DEF IInv

-----------------------------------------------------------------------------
(* The specification *)

LEMMA InitIInv == Init => IInv
<1>. SUFFICES ASSUME Init PROVE IInv
  OBVIOUS
<1>1. 1 \in Messages /\ 0 \in 0 .. BatchLen /\ 1 .. 0 = {}
  BY Numbers DEF Messages
<1>2. TypeOK
  BY <1>1 DEF Init, TypeOK
<1>3. Apart
  BY SenderAssumption DEF Init, Apart
<1>4. Solid
  BY DEF Init, Solid
<1>5. \A p \in Procs : Process(p)
  BY DEF Init, Process, Sending, Told, Careful
<1>6. ASSUME NEW b \in Batches PROVE Ordered(b)
  <2>1. \A k \in Slots : pool[k].batch # b
    BY SenderAssumption DEF Init, NoTx
  <2>2. accepted[b] = {} /\ executed[b] = {}
    BY DEF Init
  <2>. QED
    BY <1>1, <2>1, <2>2 DEF Ordered, Queued, FirstOf
<1>. QED
  BY <1>2, <1>3, <1>4, <1>5, <1>6 DEF IInv

LEMMA NextIInv == IInv /\ [Next]_vars => IInv'
<1>. SUFFICES ASSUME IInv, [Next]_vars PROVE IInv'
  OBVIOUS
<1>1. CASE UNCHANGED vars
  <2>1. /\ UNCHANGED <<pc, batch, msg, nonce, unlocked, answer, rival, pool, accepted, executed>>
        /\ UNCHANGED <<okay, lost, achieved, fails, drops, reverts>>
    BY <1>1 DEF vars, procVars, histVars
  <2>2. TypeOK' /\ Apart' /\ Solid'
    BY <2>1 DEF IInv, TypeOK, Apart, Solid, Below
  <2>3. ASSUME NEW p \in Procs PROVE Process(p)'
    BY <2>1 DEF IInv, Process, Sending, Told, Careful, Below
  <2>4. ASSUME NEW b \in Batches PROVE Ordered(b)'
    BY <2>1 DEF IInv, Ordered, Queued, FirstOf
  <2>. QED
    BY <2>2, <2>3, <2>4 DEF IInv
<1>2. ASSUME NEW p \in Procs, Send(p) PROVE IInv'
  BY <1>2, StartKeeps, CountNonceKeeps, CountFailsKeeps, AcceptedKeeps, RejectedKeeps,
     ExecuteFailsKeeps DEF Send
<1>. QED
  BY <1>1, <1>2, MineKeeps, LoseKeeps DEF Next

\* In every state that is reached, what the pool has taken of a batch and not lost is
\* in the pool in its order, and nothing that a process was told makes a hole.
THEOREM Invariance == Spec => []IInv
<1>1. Init => IInv
  BY InitIInv
<1>2. IInv /\ [Next]_vars => IInv'
  BY NextIInv
<1>. QED
  BY <1>1, <1>2, PTL DEF Spec

\* The variables keep their types.
THEOREM TypeCorrect == Spec => []TypeOK
<1>1. IInv => TypeOK
  BY DEF IInv
<1>. QED
  BY <1>1, Invariance, PTL

\* Whatever is sent beside it, fails or reverts, what is executed of a batch is always
\* a prefix of it, unless the pool lost a transaction meanwhile.
THEOREM BatchesInOrder == Spec => []ExecutedInOrder
<1>1. ASSUME IInv, NEW b \in Batches
      PROVE  Prefix(accepted[b]) /\ (~ lost[b] => Prefix(executed[b]))
  <2>1. Ordered(b)
    BY <1>1 DEF IInv
  <2>2. Prefix(accepted[b])
    BY <2>1, FirstIsPrefix DEF Ordered
  <2>3. ~ lost[b] => Prefix(executed[b])
    BY <2>1, FirstIsPrefix DEF Ordered, Queued
  <2>. QED
    BY <2>2, <2>3
<1>2. IInv => ExecutedInOrder
  BY <1>1 DEF ExecutedInOrder
<1>. QED
  BY <1>2, Invariance, PTL

\* However processes race for nonces, no transaction waits behind a hole unless the
\* pool has lost one.
THEOREM NoHoles == Spec => []NoGapUnlessLost
<1>1. ASSUME IInv, drops = 0, NEW k \in Waiting, NEW j \in 0 .. k PROVE pool[j] # NoTx
  <2>1. k \in Slots /\ pool[k] # NoTx /\ Below(k)
    BY <1>1 DEF IInv, Solid, Waiting
  <2>2. j \in Slots /\ (j < k \/ j = k)
    BY <2>1, Numbers DEF Slots
  <2>. QED
    BY <2>1, <2>2 DEF Below
<1>2. IInv => NoGapUnlessLost
  BY <1>1 DEF NoGapUnlessLost
<1>. QED
  BY <1>2, Invariance, PTL

\* A nonce is refused only when another process was accepted since it was told.
THEOREM RefusedForRival == Spec => ConflictHasWinner
<1>. DEFINE Won == \A p \in Procs : (Rejected(p) /\ nonce[p] \in Slots \union {Used}) => rival[p]
<1>1. ASSUME IInv, NEW p \in Procs, Rejected(p), nonce[p] \in Slots \union {Used}, ~ rival[p]
      PROVE  FALSE
  <2>1. Told(p) /\ pc[p] = "execute" /\ ~ Takes(p)
    BY <1>1 DEF IInv, Process, Rejected
  <2>. QED
    BY <1>1, <2>1 DEF Told, Takes
<1>2. IInv /\ [Next]_vars => [Won]_vars
  BY <1>1
<1>. QED
  BY <1>2, Invariance, PTL DEF Spec, ConflictHasWinner
=============================================================================
