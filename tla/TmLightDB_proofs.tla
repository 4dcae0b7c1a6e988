--------------------------- MODULE TmLightDB_proofs ---------------------------
(***************************************************************************)
(* Proofs about TmLightDB for any processes, any length of the Cosmos      *)
(* chain, and any number of attempts and deletions: type correctness, that *)
(* the lock is held exactly while the files are open, that commands work   *)
(* with the newest blocks unless the database was set back, and that only  *)
(* an init command ends an empty database.                                 *)
(***************************************************************************)
EXTENDS TmLightDB, FiniteSetTheorems, TLAPS

-----------------------------------------------------------------------------
(* The inductive invariant *)

\* The jobs of a command.
JobsOf ==
  [c \in Commands |->
     CASE c = "init force" -> {"force", "forceAt"}
       [] c = "init trust" -> {"trust"}
       [] c = "update" -> {"read", "update"}
       [] c = "header" -> {"read"}
       [] c = "header 0" -> {"height", "show"}
       [] c = "header at" -> {"show"}
       [] c = "relay" -> {"update", "height"}]

\* A process does a job of its command, and has the height that the job needs.
Fits(p) ==
  /\ pc[p] = "idle" => mine[p] = NoHeight
  /\ pc[p] # "idle" => cmd[p] \in Commands
  /\ pc[p] \in {"opening", "open"} => job[p] \in JobsOf[cmd[p]]
  /\ pc[p] \notin {"opening", "open"} => job[p] = None
  /\ pc[p] = "panicked" => cmd[p] = "update"
  /\ job[p] \in {"forceAt", "trust", "show"} => mine[p] # NoHeight
  /\ dsth[p] # NoHeight => pc[p] = "relayed"

\* Nobody trusts, or is about to trust, a block that the node does not have yet.
Honest == \A h \in db : h <= tip

Informed(p) == job[p] = "forceAt" => mine[p] <= tip

\* Unless the database is set back, a running command finds in it what was there when
\* it began and what it has read, and the removed files are empty.
Kept(p) ==
  pc[p] # "idle" /\ ~ rewound[p] =>
    /\ floor[p] <= Last(db)
    /\ handle[p] = "orphan" => orphan[p] = {}
    /\ cmd[p] \notin Given \union {"init force"} /\ mine[p] # NoHeight =>
         /\ mine[p] \in db /\ handle[p] # "orphan"
         /\ cmd[p] = "relay" => mine[p] >= floor[p]
         /\ dsth[p] # NoHeight => dsth[p] >= mine[p]

Lock(p) ==
  /\ owner = p <=> handle[p] = "live"
  /\ handle[p] # "none" <=> pc[p] = "open"

Good(p) == Lock(p) /\ Fits(p) /\ Informed(p) /\ Kept(p)

IInv == TypeOK /\ Honest /\ \A p \in Procs : Good(p)

-----------------------------------------------------------------------------
(* Heights *)

\* A set of heights that is not empty has a last one.
LEMMA LastOf ==
  ASSUME NEW S \in SUBSET Heights, S # {}
  PROVE  Last(S) \in S /\ \A h \in S : h <= Last(S)
<1>. DEFINE R == OpToRel(<, Nat)
            T == {n \in Nat : MaxTip - n \in S}
<1>0. MaxTip \in Nat /\ S \in SUBSET (1 .. MaxTip)
  BY LightAssumption DEF Heights
<1>1. T # {}
  <2>1. PICK h \in S : TRUE
    OBVIOUS
  <2>2. MaxTip - h \in Nat /\ MaxTip - (MaxTip - h) = h
    BY <1>0
  <2>. QED
    BY <2>1, <2>2
<1>2. IsWellFoundedOn(R, Nat) /\ T \in SUBSET Nat
  BY NatLessThanWellFounded
<1>3. \A n, m \in Nat : n < m => <<n, m>> \in R
  BY DEF OpToRel
<1>. HIDE DEF R
<1>4. PICK n \in T : \A m \in T : ~ (<<m, n>> \in R)
  BY <1>1, <1>2, WFMin
<1>5. \A m \in T : n \in Nat /\ m \in Nat /\ ~ (m < n)
  BY <1>2, <1>3, <1>4
<1>6. MaxTip - n \in S
  BY <1>4
<1>7. \A h \in S : MaxTip - h \in T
  <2>. TAKE h \in S
  <2>1. MaxTip - h \in Nat /\ MaxTip - (MaxTip - h) = h
    BY <1>0
  <2>. QED
    BY <2>1
<1>8. \A h \in S : MaxTip - n >= h
  <2>. TAKE h \in S
  <2>1. ~ (MaxTip - h < n) /\ n \in Nat /\ h \in Int
    BY <1>0, <1>5, <1>7
  <2>. HIDE DEF T
  <2>. QED
    BY <1>0, <2>1
<1>9. \E x \in S : \A y \in S : x >= y
  BY <1>6, <1>8
<1>10. Max(S) \in S /\ \A h \in S : Max(S) >= h
  BY <1>9 DEF Max
<1>11. Last(S) = Max(S)
  BY DEF Last
<1>. QED
  BY <1>0, <1>10, <1>11

\* What a database may become, unless it is deleted: nothing that it has is lost if
\* its last height stays.
LEMMA LastHeights ==
  ASSUME NEW S \in SUBSET Heights
  PROVE  /\ Last(S) \in Heights \union {NoHeight} /\ Last(S) \in Int
         /\ S = {} <=> Last(S) = NoHeight
<1>1. NoHeight \notin Heights /\ Heights \subseteq Int /\ NoHeight \in Int
  BY DEF NoHeight, Heights
<1>2. S = {} => Last(S) = NoHeight
  BY DEF Last
<1>. QED
  BY <1>1, <1>2, LastOf

\* What replaces the blocks S of a database either drops the last one or keeps all.
Follows(S, T) ==
  T \in SUBSET Heights /\ (Last(T) >= Last(S) => S \subseteq T)

LEMMA TrustingFollows ==
  ASSUME NEW S \in SUBSET Heights, NEW h \in Heights
  PROVE  Follows(S, Trusting(S, h))
<1>. DEFINE T == Trusting(S, h)
<1>1. h \in T /\ \A x \in T : x = h \/ (x \in S /\ x < h)
  BY DEF Trusting
<1>2. \A x \in S : x < h => x \in T
  BY DEF Trusting
<1>. HIDE DEF T
<1>3. T \in SUBSET Heights /\ T # {}
  BY <1>1
<1>4. \A x \in Heights : x \in Int
  BY DEF Heights
<1>5. Last(T) \in T /\ \A x \in T : x <= Last(T)
  BY <1>3, LastOf
<1>6. Last(T) = h
  BY <1>1, <1>3, <1>4, <1>5
<1>7. ASSUME h >= Last(S), NEW x \in S PROVE x \in T
  <2>1. x <= Last(S) /\ Last(S) \in Int /\ x \in Int /\ h \in Int
    BY <1>4, LastOf, LastHeights
  <2>2. x < h \/ x = h
    BY <1>7, <2>1
  <2>. QED
    BY <1>1, <1>2, <2>2
<1>. QED
  BY <1>3, <1>6, <1>7 DEF Follows, T

LEMMA UpdatedFollows ==
  ASSUME NEW S \in SUBSET Heights, tip \in Heights
  PROVE  /\ Follows(S, Updated(S)) /\ S \subseteq Updated(S) /\ Updated(S) \subseteq S \union {tip}
         /\ S = {} <=> Updated(S) = {}
         /\ S # {} => Last(Updated(S)) \in Updated(S) /\ Last(Updated(S)) >= Last(S)
<1>1. /\ Updated(S) \in SUBSET Heights /\ S \subseteq Updated(S)
      /\ Updated(S) \subseteq S \union {tip} /\ (S = {} <=> Updated(S) = {})
  BY DEF Updated
<1>2. ASSUME S # {} PROVE Last(Updated(S)) \in Updated(S) /\ Last(Updated(S)) >= Last(S)
  <2>1. /\ Last(Updated(S)) \in Updated(S) /\ \A h \in Updated(S) : h <= Last(Updated(S))
        /\ Last(S) \in S
    BY <1>1, <1>2, LastOf
  <2>. QED
    BY <1>1, <2>1, LastHeights
<1>. QED
  BY <1>1, <1>2 DEF Follows

-----------------------------------------------------------------------------
(* What every step keeps *)

\* What belongs to one process.
Own(p) ==
  <<handle[p], orphan[p], pc[p], cmd[p], job[p], tries[p], mine[p], dsth[p], floor[p]>>

\* The database goes on: it may be set back, but then the running commands learn it.
DbGoesOn ==
  /\ tip \in Heights /\ tip' \in Heights /\ tip <= tip'
  /\ Follows(db, db') /\ \A h \in db' : h <= tip'
  /\ \A p \in Procs : pc[p] # "idle" /\ pc'[p] # "idle" /\ ~ rewound'[p] =>
       ~ rewound[p] /\ Last(db') >= Last(db)

\* A process that does nothing.
LEMMA Waits ==
  ASSUME IInv, DbGoesOn, NEW p \in Procs, UNCHANGED Own(p), owner' = p <=> owner = p
  PROVE  Good(p)'
<1>0. /\ handle'[p] = handle[p] /\ orphan'[p] = orphan[p] /\ pc'[p] = pc[p] /\ cmd'[p] = cmd[p]
      /\ job'[p] = job[p] /\ mine'[p] = mine[p] /\ dsth'[p] = dsth[p] /\ floor'[p] = floor[p]
  BY DEF Own
<1>1. Lock(p)' /\ Fits(p)'
  BY <1>0 DEF IInv, Good, Lock, Fits
<1>2. Informed(p)'
  <2>1. job[p] = "forceAt" => mine[p] \in Heights /\ mine[p] <= tip
    BY DEF IInv, Good, Informed, Fits, TypeOK
  <2>2. tip \in Int /\ tip' \in Int /\ \A h \in Heights : h \in Int
    BY DEF DbGoesOn, Heights
  <2>. QED
    BY <1>0, <2>1, <2>2 DEF Informed, DbGoesOn
<1>3. Kept(p)'
  <2>. SUFFICES ASSUME pc[p] # "idle", ~ rewound'[p] PROVE Kept(p)'
    BY <1>0 DEF Kept
  <2>1. ~ rewound[p] /\ Last(db') >= Last(db) /\ db \subseteq db'
    BY <1>0 DEF DbGoesOn, Follows
  <2>2. db \in SUBSET Heights /\ db' \in SUBSET Heights /\ floor[p] \in Heights \union {NoHeight}
    BY DEF IInv, TypeOK, DbGoesOn, Follows
  <2>3. floor[p] <= Last(db')
    <3>1. Kept(p)
      BY DEF IInv, Good
    <3>2. floor[p] <= Last(db)
      BY <2>1, <3>1 DEF Kept
    <3>3. floor[p] \in Int
      BY <2>2 DEF Heights, NoHeight
    <3>. QED
      BY <2>1, <2>2, <3>2, <3>3, LastHeights
  <2>. QED
    BY <1>0, <2>1, <2>3 DEF IInv, Good, Kept
<1>. QED
  BY <1>1, <1>2, <1>3 DEF Good

\* The function that opened the database returns.
LEMMA Closed ==
  ASSUME IInv, NEW p \in Procs, Close(p)
  PROVE  /\ owner' \in Procs \union {Nobody} /\ owner' # p
         /\ \A q \in Procs \ {p} : owner' = q <=> owner = q
         /\ handle' \in [Procs -> {"none", "live", "orphan"}] /\ handle'[p] = "none"
         /\ orphan' \in [Procs -> SUBSET Heights]
         /\ \A q \in Procs \ {p} : handle'[q] = handle[q] /\ orphan'[q] = orphan[q]
<1>1. /\ owner \in Procs \union {Nobody} /\ Nobody \notin Procs
      /\ handle \in [Procs -> {"none", "live", "orphan"}] /\ orphan \in [Procs -> SUBSET Heights]
  BY LightAssumption DEF IInv, TypeOK
<1>2. handle' = [handle EXCEPT ![p] = "none"] /\ orphan' = [orphan EXCEPT ![p] = {}]
      /\ owner' = IF owner = p THEN Nobody ELSE owner
  BY DEF Close
<1>. QED
  BY <1>1, <1>2

\* A database that a command leaves behind.
LEMMA Watched ==
  ASSUME IInv, NEW o, Watch(o), tip' = tip,
         \A p \in Procs : pc[p] # "idle" /\ pc'[p] # "idle" => p # o,
         Follows(db, db'), \A h \in db' : h <= tip
  PROVE  DbGoesOn /\ rewound' \in [Procs -> BOOLEAN]
<1>1. tip \in Heights
  BY DEF IInv, TypeOK
<1>2. rewound' \in [Procs -> BOOLEAN]
  BY DEF Watch
<1>3. \A p \in Procs : pc[p] # "idle" /\ pc'[p] # "idle" /\ ~ rewound'[p] =>
        ~ rewound[p] /\ ~ (Last(db') < Last(db))
  BY DEF Watch
<1>4. Last(db) \in Int /\ Last(db') \in Int
  BY LastHeights DEF IInv, TypeOK, Follows
<1>. QED
  BY <1>1, <1>2, <1>3, <1>4 DEF DbGoesOn, Heights

\* The end of a command, whatever it leaves in the database.
LEMMA ExitKeeps ==
  ASSUME IInv, NEW p \in Procs, Exit(p), UNCHANGED <<tip, deletes>>,
         Follows(db, db'), \A h \in db' : h <= tip
  PROVE  IInv'
<1>1. /\ owner' \in Procs \union {Nobody} /\ owner' # p
      /\ \A q \in Procs \ {p} : owner' = q <=> owner = q
      /\ handle' \in [Procs -> {"none", "live", "orphan"}] /\ handle'[p] = "none"
      /\ orphan' \in [Procs -> SUBSET Heights]
      /\ \A q \in Procs \ {p} : handle'[q] = handle[q] /\ orphan'[q] = orphan[q]
  BY Closed DEF Exit
<1>2. /\ pc' \in [Procs -> {"idle", "opening", "open", "relayed", "panicked"}]
      /\ cmd' \in [Procs -> Commands \union {None}] /\ job' \in [Procs -> Jobs \union {None}]
      /\ pc'[p] = "idle" /\ job'[p] = None
      /\ \A q \in Procs \ {p} : pc'[q] = pc[q] /\ cmd'[q] = cmd[q] /\ job'[q] = job[q]
  BY DEF Exit, IInv, TypeOK
<1>3. /\ tries' \in [Procs -> 0 .. Attempts - 1]
      /\ mine' \in [Procs -> Heights \union {NoHeight}]
      /\ dsth' \in [Procs -> Heights \union {NoHeight}]
      /\ floor' \in [Procs -> Heights \union {NoHeight}]
      /\ mine'[p] = NoHeight /\ dsth'[p] = NoHeight
      /\ \A q \in Procs \ {p} : /\ tries'[q] = tries[q] /\ mine'[q] = mine[q]
                                /\ dsth'[q] = dsth[q] /\ floor'[q] = floor[q]
  <2>1. 0 \in 0 .. Attempts - 1
    BY LightAssumption
  <2>. QED
    BY <2>1 DEF Exit, IInv, TypeOK
<1>4. DbGoesOn /\ rewound' \in [Procs -> BOOLEAN]
  <2>1. Watch(p) /\ \A q \in Procs : pc[q] # "idle" /\ pc'[q] # "idle" => q # p
    BY <1>2 DEF Exit
  <2>. QED
    BY <2>1, Watched
<1>5. TypeOK'
  BY <1>1, <1>2, <1>3, <1>4 DEF IInv, TypeOK, Follows
<1>6. ASSUME NEW q \in Procs PROVE Good(q)'
  <2>1. CASE q = p
    <3>1. Lock(p)' /\ Fits(p)' /\ Kept(p)'
      BY <1>1, <1>2, <1>3 DEF Lock, Fits, Kept, None
    <3>2. Informed(p)'
      BY <1>2 DEF Informed, None
    <3>. QED
      BY <2>1, <3>1, <3>2 DEF Good
  <2>2. CASE q # p
    <3>1. UNCHANGED Own(q)
      BY <1>1, <1>2, <1>3, <2>2 DEF Own
    <3>. QED
      BY <1>1, <1>4, <2>2, <3>1, Waits
  <2>. QED
    BY <2>1, <2>2
<1>. QED
  BY <1>4, <1>5, <1>6 DEF IInv, Honest, DbGoesOn

\* A command that closes the database and goes on.
LEMMA GoOnKeeps ==
  ASSUME IInv, NEW p \in Procs, pc[p] # "idle",
         NEW l \in {"opening", "relayed", "panicked"}, NEW j \in Jobs \union {None}, GoOn(p, l, j),
         UNCHANGED <<tip, deletes>>, Follows(db, db'), \A h \in db' : h <= tip,
         NEW m \in Heights \union {NoHeight}, NEW d \in Heights \union {NoHeight},
         mine' = [mine EXCEPT ![p] = m], dsth' = [dsth EXCEPT ![p] = d],
         l = "opening" => j \in JobsOf[cmd[p]], l # "opening" => j = None,
         l = "panicked" => cmd[p] = "update",
         j \notin {"forceAt", "trust"}, j = "show" => m # NoHeight,
         d # NoHeight => l = "relayed",
         Kept(p)'
  PROVE  IInv'
<1>1. /\ owner' \in Procs \union {Nobody} /\ owner' # p
      /\ \A q \in Procs \ {p} : owner' = q <=> owner = q
      /\ handle' \in [Procs -> {"none", "live", "orphan"}] /\ handle'[p] = "none"
      /\ orphan' \in [Procs -> SUBSET Heights]
      /\ \A q \in Procs \ {p} : handle'[q] = handle[q] /\ orphan'[q] = orphan[q]
  BY Closed DEF GoOn
<1>2. /\ pc' \in [Procs -> {"idle", "opening", "open", "relayed", "panicked"}]
      /\ job' \in [Procs -> Jobs \union {None}]
      /\ pc'[p] = l /\ job'[p] = j /\ UNCHANGED <<cmd, tries, floor>>
      /\ \A q \in Procs \ {p} : pc'[q] = pc[q] /\ job'[q] = job[q]
  BY DEF GoOn, IInv, TypeOK
<1>3. /\ mine' \in [Procs -> Heights \union {NoHeight}]
      /\ dsth' \in [Procs -> Heights \union {NoHeight}]
      /\ mine'[p] = m /\ dsth'[p] = d
      /\ \A q \in Procs \ {p} : mine'[q] = mine[q] /\ dsth'[q] = dsth[q]
  BY DEF IInv, TypeOK
<1>4. DbGoesOn /\ rewound' \in [Procs -> BOOLEAN]
  <2>1. Watch(Nobody) /\ \A q \in Procs : q # Nobody
    BY LightAssumption DEF GoOn
  <2>. QED
    BY <2>1, Watched
<1>5. TypeOK'
  BY <1>1, <1>2, <1>3, <1>4 DEF IInv, TypeOK, Follows
<1>6. ASSUME NEW q \in Procs PROVE Good(q)'
  <2>1. CASE q = p
    <3>1. Lock(p)'
      BY <1>1, <1>2 DEF Lock
    <3>2. Fits(p)'
      BY <1>2, <1>3 DEF Fits, IInv, Good
    <3>3. Informed(p)'
      BY <1>2 DEF Informed
    <3>. QED
      BY <2>1, <3>1, <3>2, <3>3 DEF Good
  <2>2. CASE q # p
    <3>1. UNCHANGED Own(q)
      BY <1>1, <1>2, <1>3, <2>2 DEF Own
    <3>. QED
      BY <1>1, <1>4, <2>2, <3>1, Waits
  <2>. QED
    BY <2>1, <2>2
<1>. QED
  BY <1>4, <1>5, <1>6 DEF IInv, Honest, DbGoesOn

-----------------------------------------------------------------------------
(* The steps *)

\* Steps that leave the database, and what is open, alone.
LEMMA DbStays ==
  ASSUME IInv, UNCHANGED <<tip, db, rewound>>
  PROVE  DbGoesOn /\ rewound' \in [Procs -> BOOLEAN]
<1>1. /\ tip \in Heights /\ db \in SUBSET Heights /\ Last(db) \in Int
      /\ rewound \in [Procs -> BOOLEAN]
  BY LastHeights DEF IInv, TypeOK
<1>2. \A h \in db : h <= tip
  BY DEF IInv, Honest
<1>. QED
  BY <1>1, <1>2 DEF DbGoesOn, Follows, Heights


\* A step of process p that does not change the database.
LEMMA StepKeeps ==
  ASSUME IInv, TypeOK', NEW p \in Procs, UNCHANGED <<tip, db, rewound>>,
         \A q \in Procs \ {p} : UNCHANGED Own(q) /\ (owner' = q <=> owner = q),
         Good(p)'
  PROVE  IInv'
<1>1. DbGoesOn
  BY DbStays
<1>2. \A q \in Procs \ {p} : Good(q)'
  BY <1>1, Waits
<1>. QED
  BY <1>1, <1>2 DEF IInv, Honest, DbGoesOn

\* The store that a process has open.
LEMMA StoreOf ==
  ASSUME IInv, NEW p \in Procs
  PROVE  /\ Store(p) \in SUBSET Heights /\ db \in SUBSET Heights /\ tip \in Heights
         /\ handle[p] = "live" => Store(p) = db
         /\ pc[p] # "idle" /\ ~ rewound[p] /\ handle[p] # "live" /\ handle[p] # "none" => Store(p) = {}
  BY DEF IInv, TypeOK, Store, Good, Kept

\* Writing what follows from the store that is open.
LEMMA Written ==
  ASSUME IInv, NEW p \in Procs, NEW S, S \in SUBSET Heights, Write(p, S), Follows(Store(p), S),
         \A h \in S : h <= tip \/ h \in Store(p)
  PROVE  Follows(db, db') /\ \A h \in db' : h <= tip
<1>1. CASE handle[p] = "live"
  BY <1>1, StoreOf DEF Write, IInv, Honest
<1>2. CASE handle[p] # "live"
  BY <1>2, StoreOf DEF Write, IInv, Honest, Follows
<1>. QED
  BY <1>1, <1>2

LEMMA BeginKeeps ==
  ASSUME IInv, NEW p \in Procs, Begin(p)
  PROVE  IInv'
<1>1. PICK c \in Commands :
        /\ cmd' = [cmd EXCEPT ![p] = c] /\ job' = [job EXCEPT ![p] = FirstJob[c]]
        /\ \E h \in IF c \in Given THEN Heights ELSE {NoHeight} :
             mine' = [mine EXCEPT ![p] = h]
  BY DEF Begin
<1>2. PICK h \in Heights \union {NoHeight} :
        (c \in Given <=> h # NoHeight) /\ mine' = [mine EXCEPT ![p] = h]
  <2>1. NoHeight \notin Heights
    BY DEF Heights, NoHeight
  <2>2. CASE c \in Given
    BY <1>1, <2>1, <2>2
  <2>3. CASE c \notin Given
    BY <1>1, <2>1, <2>3
  <2>. QED
    BY <2>2, <2>3
<1>3. /\ pc[p] = "idle" /\ pc' = [pc EXCEPT ![p] = "opening"]
      /\ floor' = [floor EXCEPT ![p] = Last(db)]
      /\ UNCHANGED <<tip, files, tries, dsth, rewound, deletes>>
  BY DEF Begin
<1>4. /\ FirstJob[c] \in Jobs /\ FirstJob[c] \in JobsOf[c] /\ FirstJob[c] # "forceAt"
      /\ FirstJob[c] \in {"trust", "show"} => c \in Given
  BY DEF Commands, Jobs, FirstJob, JobsOf, Given
<1>5. Last(db) \in Heights \union {NoHeight} /\ Last(db) \in Int
  BY LastHeights DEF IInv, TypeOK
<1>6. h \in Heights \union {NoHeight} /\ (c \in Given <=> h # NoHeight)
  BY <1>2
<1>7. TypeOK'
  BY <1>1, <1>2, <1>3, <1>4, <1>5, <1>6 DEF IInv, TypeOK, files
<1>8. /\ cmd'[p] = c /\ job'[p] = FirstJob[c] /\ mine'[p] = h /\ pc'[p] = "opening"
      /\ floor'[p] = Last(db) /\ handle'[p] = handle[p] /\ dsth'[p] = dsth[p] /\ owner' = owner
      /\ db' = db
  BY <1>1, <1>2, <1>3 DEF IInv, TypeOK, files
<1>9. Lock(p) /\ Fits(p) /\ handle[p] = "none" /\ dsth[p] = NoHeight
  BY <1>3 DEF IInv, Good, Lock, Fits
<1>10. Lock(p)' /\ Informed(p)'
  BY <1>4, <1>8, <1>9 DEF Lock, Informed
<1>11. Fits(p)'
  BY <1>4, <1>6, <1>8, <1>9 DEF Fits
<1>12. Kept(p)'
  <2>1. floor'[p] <= Last(db')
    <3>1. Last(db') = Last(db) /\ floor'[p] = Last(db)
      BY <1>8, Zenon
    <3>. QED
      BY <1>5, <3>1
  <2>2. handle'[p] = "none"
    BY <1>8, <1>9
  <2>3. cmd'[p] \in Given \/ mine'[p] = NoHeight
    BY <1>6, <1>8
  <2>. QED
    BY <2>1, <2>2, <2>3 DEF Kept
<1>13. \A q \in Procs \ {p} : UNCHANGED Own(q)
  BY <1>1, <1>2, <1>3 DEF Own, IInv, TypeOK, files
<1>. QED
  BY <1>3, <1>7, <1>10, <1>11, <1>12, <1>13, StepKeeps DEF Good, files

LEMMA OpenDBKeeps ==
  ASSUME IInv, NEW p \in Procs, OpenDB(p)
  PROVE  IInv'
<1>1. /\ pc[p] = "opening" /\ owner = Nobody /\ owner' = p
      /\ handle' = [handle EXCEPT ![p] = "live"] /\ pc' = [pc EXCEPT ![p] = "open"]
      /\ tries' = [tries EXCEPT ![p] = 0]
      /\ UNCHANGED <<tip, db, orphan, cmd, mine, dsth, floor, job, rewound, deletes>>
  BY DEF OpenDB, command
<1>2. TypeOK'
  <2>1. 0 \in 0 .. Attempts - 1
    BY LightAssumption
  <2>. QED
    BY <1>1, <2>1 DEF IInv, TypeOK
<1>3. handle'[p] = "live" /\ pc'[p] = "open"
  BY <1>1 DEF IInv, TypeOK
<1>4. Lock(p) /\ Fits(p) /\ Informed(p) /\ Kept(p)
  BY DEF IInv, Good
<1>5. Good(p)'
  BY <1>1, <1>3, <1>4 DEF Good, Lock, Fits, Informed, Kept
<1>6. \A q \in Procs \ {p} : UNCHANGED Own(q) /\ (owner' = q <=> owner = q)
  BY <1>1, LightAssumption DEF Own, IInv, TypeOK
<1>. QED
  BY <1>1, <1>2, <1>5, <1>6, StepKeeps

LEMMA OpenRetryKeeps ==
  ASSUME IInv, NEW p \in Procs, OpenRetry(p)
  PROVE  IInv'
<1>1. CASE tries[p] + 1 < Attempts /\ tries' = [tries EXCEPT ![p] = tries[p] + 1]
           /\ UNCHANGED <<tip, deletes, files, pc, command, job, rewound>>
  <2>1. TypeOK'
    <3>1. tries[p] + 1 \in 0 .. Attempts - 1
      BY <1>1, LightAssumption DEF IInv, TypeOK
    <3>. QED
      BY <1>1, <3>1 DEF IInv, TypeOK, files, command
  <2>2. Good(p)'
    <3>1. Lock(p) /\ Fits(p) /\ Informed(p) /\ Kept(p)
      BY DEF IInv, Good
    <3>. QED
      BY <1>1, <3>1 DEF Good, Lock, Fits, Informed, Kept, files, command
  <2>3. \A q \in Procs \ {p} : UNCHANGED Own(q)
    BY <1>1 DEF Own, IInv, TypeOK, files, command
  <2>. QED
    BY <1>1, <2>1, <2>2, <2>3, StepKeeps DEF files
<1>2. CASE Exit(p) /\ UNCHANGED <<tip, db, deletes>>
  BY <1>2, DbStays, ExitKeeps DEF Follows, IInv, TypeOK, Honest
<1>. QED
  BY <1>1, <1>2 DEF OpenRetry

LEMMA ForceTipKeeps ==
  ASSUME IInv, NEW p \in Procs, ForceTip(p)
  PROVE  IInv'
<1>1. /\ pc[p] = "open" /\ job[p] = "force"
      /\ mine' = [mine EXCEPT ![p] = tip] /\ job' = [job EXCEPT ![p] = "forceAt"]
      /\ UNCHANGED <<tip, files, pc, cmd, tries, dsth, floor, rewound, deletes>>
  BY DEF ForceTip, At
<1>2. TypeOK'
  BY <1>1 DEF IInv, TypeOK, files, Jobs
<1>3. mine'[p] = tip /\ job'[p] = "forceAt" /\ tip \in Heights /\ tip <= tip /\ tip # NoHeight
  BY <1>1 DEF IInv, TypeOK, Heights, NoHeight
<1>4. Lock(p) /\ Fits(p) /\ Kept(p)
  BY DEF IInv, Good
<1>5. cmd[p] = "init force"
  <2>1. cmd[p] \in Commands /\ "force" \in JobsOf[cmd[p]]
    BY <1>1, <1>4 DEF Fits
  <2>. QED
    BY <2>1 DEF JobsOf, Commands
<1>6. Good(p)'
  <2>1. "forceAt" \in JobsOf[cmd[p]]
    BY <1>5 DEF JobsOf, Commands
  <2>2. Fits(p)'
    BY <1>1, <1>3, <1>4, <2>1 DEF Fits, files
  <2>3. Lock(p)' /\ Informed(p)'
    BY <1>1, <1>3, <1>4 DEF Lock, Informed, files
  <2>4. Kept(p)'
    BY <1>1, <1>4, <1>5 DEF Kept, files
  <2>. QED
    BY <2>2, <2>3, <2>4 DEF Good
<1>7. \A q \in Procs \ {p} : UNCHANGED Own(q)
  BY <1>1 DEF Own, IInv, TypeOK, files
<1>. QED
  BY <1>1, <1>2, <1>6, <1>7, StepKeeps DEF files

LEMMA ForceInitKeeps ==
  ASSUME IInv, NEW p \in Procs, ForceInit(p)
  PROVE  IInv'
<1>. DEFINE S == Trusting(Store(p), mine[p])
<1>1. job[p] = "forceAt" /\ Write(p, S) /\ Exit(p) /\ UNCHANGED <<tip, deletes>>
  BY DEF ForceInit, At
<1>2. mine[p] \in Heights /\ mine[p] <= tip
  BY <1>1 DEF IInv, Good, Fits, Informed, TypeOK
<1>3. Follows(Store(p), S)
  BY <1>2, StoreOf, TrustingFollows
<1>4. \A h \in S : h <= tip \/ h \in Store(p)
  BY <1>2 DEF Trusting
<1>. HIDE DEF S
<1>5. Follows(db, db') /\ \A h \in db' : h <= tip
  BY <1>1, <1>3, <1>4, Written DEF Follows
<1>. QED
  BY <1>1, <1>5, ExitKeeps

LEMMA TrustInitKeeps ==
  ASSUME IInv, NEW p \in Procs, TrustInit(p)
  PROVE  IInv'
<1>. DEFINE S == Trusting(Store(p), mine[p])
<1>1. job[p] = "trust" /\ Exit(p) /\ UNCHANGED <<tip, deletes>>
      /\ IF mine[p] <= tip THEN Write(p, S) ELSE UNCHANGED db
  BY DEF TrustInit, At
<1>2. mine[p] \in Heights
  BY <1>1 DEF IInv, Good, Fits, TypeOK
<1>3. Follows(db, db') /\ \A h \in db' : h <= tip
  <2>1. CASE mine[p] <= tip
    <3>1. Follows(Store(p), S)
      BY <1>2, StoreOf, TrustingFollows
    <3>2. \A h \in S : h <= tip \/ h \in Store(p)
      BY <2>1 DEF Trusting
    <3>. HIDE DEF S
    <3>. QED
      BY <1>1, <2>1, <3>1, <3>2, Written DEF Follows
  <2>2. CASE ~ (mine[p] <= tip)
    BY <1>1, <2>2 DEF Follows, IInv, TypeOK, Honest
  <2>. QED
    BY <2>1, <2>2
<1>. QED
  BY <1>1, <1>3, ExitKeeps


\* A command that goes on, and was not set back, still finds what it found.
LEMMA StillKept ==
  ASSUME IInv, NEW p \in Procs, pc[p] # "idle", NEW l, l # "idle", NEW j, GoOn(p, l, j),
         UNCHANGED tip, Follows(db, db'), \A h \in db' : h <= tip
  PROVE  /\ handle'[p] = "none" /\ floor'[p] = floor[p] /\ cmd'[p] = cmd[p]
         /\ ~ rewound'[p] => /\ ~ rewound[p] /\ floor[p] <= Last(db') /\ db \subseteq db'
                             /\ Last(db') >= Last(db)
<1>1. Watch(Nobody) /\ Close(p) /\ pc' = [pc EXCEPT ![p] = l] /\ UNCHANGED <<cmd, floor>>
  BY DEF GoOn
<1>2. \A q \in Procs : q # Nobody
  BY LightAssumption
<1>3. DbGoesOn
  BY <1>1, <1>2, Watched
<1>4. pc'[p] = l
  BY <1>1 DEF IInv, TypeOK
<1>5. handle'[p] = "none"
  BY <1>1, Closed
<1>6. ASSUME ~ rewound'[p]
      PROVE  /\ ~ rewound[p] /\ floor[p] <= Last(db') /\ db \subseteq db'
             /\ Last(db') >= Last(db)
  <2>1. ~ rewound[p] /\ Last(db') >= Last(db) /\ db \subseteq db'
    BY <1>3, <1>4, <1>6 DEF DbGoesOn, Follows
  <2>2. Kept(p)
    BY DEF IInv, Good
  <2>3. floor[p] <= Last(db)
    BY <2>1, <2>2 DEF Kept
  <2>4. Last(db) \in Int /\ Last(db') \in Int
    BY LastHeights DEF IInv, TypeOK, Follows
  <2>5. floor[p] \in Int
    <3>1. floor[p] \in Heights \union {NoHeight}
      BY DEF IInv, TypeOK
    <3>. QED
      BY <3>1 DEF Heights, NoHeight
  <2>. QED
    BY <2>1, <2>3, <2>4, <2>5
<1>. QED
  BY <1>1, <1>5, <1>6

\* What holds of a process that has the database open for a job.
LEMMA WithOpen ==
  ASSUME IInv, NEW p \in Procs, NEW j, At(p, j)
  PROVE  /\ pc[p] = "open" /\ cmd[p] \in Commands /\ j \in JobsOf[cmd[p]]
         /\ dsth[p] = NoHeight /\ handle[p] # "none"
         /\ mine[p] \in Heights \union {NoHeight} /\ dsth[p] \in Heights \union {NoHeight}
         /\ mine' = mine => mine' = [mine EXCEPT ![p] = mine[p]]
         /\ dsth' = dsth => dsth' = [dsth EXCEPT ![p] = dsth[p]]
         /\ ~ rewound[p] /\ Store(p) # {} => handle[p] = "live" /\ Store(p) = db
<1>1. Fits(p) /\ Lock(p) /\ pc[p] = "open" /\ job[p] = j
  BY DEF IInv, Good, At
<1>2. cmd[p] \in Commands /\ j \in JobsOf[cmd[p]] /\ dsth[p] = NoHeight /\ handle[p] # "none"
  BY <1>1 DEF Fits, Lock
<1>3. /\ mine[p] \in Heights \union {NoHeight} /\ dsth[p] \in Heights \union {NoHeight}
      /\ mine' = mine => mine' = [mine EXCEPT ![p] = mine[p]]
      /\ dsth' = dsth => dsth' = [dsth EXCEPT ![p] = dsth[p]]
  BY DEF IInv, TypeOK
<1>. QED
  BY <1>1, <1>2, <1>3, StoreOf

\* The commands that do a job.
LEMMA CommandOf ==
  ASSUME NEW c \in Commands
  PROVE  /\ "read" \in JobsOf[c] => c \in {"update", "header"}
         /\ "update" \in JobsOf[c] => c \in {"update", "relay"}
         /\ "height" \in JobsOf[c] => c \in {"header 0", "relay"}
         /\ c = "update" => "update" \in JobsOf[c]
         /\ c = "relay" => "height" \in JobsOf[c]
         /\ c = "header 0" => "show" \in JobsOf[c]
BY DEF Commands, JobsOf

LEMMA ReadLastKeeps ==
  ASSUME IInv, NEW p \in Procs, ReadLast(p)
  PROVE  IInv'
<1>1. At(p, "read") /\ UNCHANGED <<tip, db, deletes>>
  BY DEF ReadLast
<1>2. Follows(db, db') /\ \A h \in db' : h <= tip
  BY <1>1 DEF Follows, IInv, TypeOK, Honest
<1>3. CASE Exit(p)
  BY <1>1, <1>2, <1>3, ExitKeeps
<1>4. CASE cmd[p] = "update" /\ GoOn(p, "opening", "update") /\ UNCHANGED <<mine, dsth>>
  <2>1. /\ pc[p] = "open" /\ dsth[p] = NoHeight /\ cmd[p] \in Commands
        /\ mine[p] \in Heights \union {NoHeight} /\ dsth[p] \in Heights \union {NoHeight}
        /\ mine' = [mine EXCEPT ![p] = mine[p]] /\ dsth' = [dsth EXCEPT ![p] = dsth[p]]
    BY <1>1, <1>4, WithOpen
  <2>2. "update" \in JobsOf[cmd[p]] /\ "update" \in Jobs
    BY <1>4, <2>1, CommandOf DEF Jobs
  <2>3. /\ handle'[p] = "none" /\ floor'[p] = floor[p] /\ cmd'[p] = cmd[p]
        /\ ~ rewound'[p] => ~ rewound[p] /\ floor[p] <= Last(db')
    BY <1>1, <1>2, <1>4, <2>1, StillKept
  <2>4. Kept(p)
    BY DEF IInv, Good
  <2>5. Kept(p)'
    BY <1>1, <1>4, <2>1, <2>3, <2>4 DEF Kept
  <2>. QED
    BY <1>1, <1>2, <1>4, <2>1, <2>2, <2>5, GoOnKeeps
<1>. QED
  BY <1>1, <1>3, <1>4 DEF ReadLast

LEMMA UpdateLightKeeps ==
  ASSUME IInv, NEW p \in Procs, UpdateLight(p)
  PROVE  IInv'
<1>. DEFINE S == Updated(Store(p))
<1>1. /\ At(p, "update") /\ Write(p, S) /\ UNCHANGED <<tip, deletes>>
      /\ IF S = {}
         THEN Exit(p)
         ELSE /\ mine' = [mine EXCEPT ![p] = Last(S)] /\ UNCHANGED dsth
              /\ IF cmd[p] = "relay"
                 THEN GoOn(p, "opening", "height") ELSE GoOn(p, "panicked", None)
  BY DEF UpdateLight, Returned
<1>2. /\ Follows(Store(p), S) /\ S \subseteq Store(p) \union {tip}
      /\ S = {} <=> Store(p) = {}
      /\ S # {} => Last(S) \in S
  BY StoreOf, UpdatedFollows
<1>. HIDE DEF S
<1>3. Follows(db, db') /\ \A h \in db' : h <= tip
  <2>1. \A h \in S : h <= tip \/ h \in Store(p)
    <3>1. tip <= tip
      BY DEF IInv, TypeOK, Heights
    <3>. QED
      BY <1>2, <3>1
  <2>. QED
    BY <1>1, <1>2, <2>1, Written DEF Follows
<1>4. CASE S = {}
  BY <1>1, <1>3, <1>4, ExitKeeps
<1>5. CASE S # {}
  <2>1. /\ pc[p] = "open" /\ dsth[p] = NoHeight /\ cmd[p] \in {"update", "relay"}
        /\ dsth[p] \in Heights \union {NoHeight} /\ dsth' = [dsth EXCEPT ![p] = dsth[p]]
        /\ ~ rewound[p] => handle[p] = "live" /\ Store(p) = db
    BY <1>1, <1>2, <1>5, WithOpen, CommandOf
  <2>2. Last(S) \in Heights /\ mine'[p] = Last(S) /\ dsth'[p] = NoHeight
    BY <1>1, <1>2, <1>5, <2>1 DEF Follows, IInv, TypeOK
  <2>3. ASSUME NEW l, l # "idle", NEW j, GoOn(p, l, j) PROVE Kept(p)'
    <3>1. /\ handle'[p] = "none" /\ floor'[p] = floor[p] /\ cmd'[p] = cmd[p]
          /\ ~ rewound'[p] => ~ rewound[p] /\ floor[p] <= Last(db')
      BY <1>1, <1>3, <2>1, <2>3, StillKept
    <3>2. ASSUME ~ rewound'[p] PROVE db' = S
      BY <1>1, <2>1, <3>1, <3>2 DEF Write
    <3>3. ~ rewound'[p] => mine'[p] \in db' /\ floor'[p] <= mine'[p]
      BY <1>2, <1>5, <2>2, <3>1, <3>2
    <3>4. Last(S) \in Int /\ floor[p] \in Int
      <4>1. floor[p] \in Heights \union {NoHeight}
        BY DEF IInv, TypeOK
      <4>. QED
        BY <2>2, <4>1 DEF Heights, NoHeight
    <3>5. ~ rewound'[p] => mine'[p] >= floor'[p]
      BY <2>2, <3>1, <3>3, <3>4
    <3>. QED
      BY <2>2, <3>1, <3>3, <3>5 DEF Kept
  <2>4. CASE cmd[p] = "relay"
    <3>1. /\ "height" \in JobsOf[cmd[p]] /\ "height" \in Jobs
          /\ "height" \notin {"forceAt", "trust", "show"}
      BY <2>4, CommandOf DEF Jobs, Commands
    <3>2. GoOn(p, "opening", "height") /\ mine' = [mine EXCEPT ![p] = Last(S)]
      BY <1>1, <1>5, <2>4
    <3>3. Kept(p)'
      BY <2>3, <3>2
    <3>. QED
      BY <1>1, <1>3, <2>1, <2>2, <3>1, <3>2, <3>3, GoOnKeeps
  <2>5. CASE cmd[p] # "relay"
    <3>1. GoOn(p, "panicked", None) /\ mine' = [mine EXCEPT ![p] = Last(S)] /\ cmd[p] = "update"
      BY <1>1, <1>5, <2>1, <2>5
    <3>2. Kept(p)'
      BY <2>3, <3>1
    <3>3. None \notin {"forceAt", "trust", "show"}
      BY DEF None
    <3>. QED
      BY <1>1, <1>3, <2>1, <2>2, <3>1, <3>2, <3>3, GoOnKeeps
  <2>. QED
    BY <2>4, <2>5
<1>. QED
  BY <1>4, <1>5

LEMMA LatestHeightKeeps ==
  ASSUME IInv, NEW p \in Procs, LatestHeight(p)
  PROVE  IInv'
<1>. DEFINE h == Last(Store(p))
<1>1. /\ At(p, "height") /\ UNCHANGED <<tip, db, deletes>>
      /\ IF cmd[p] = "relay"
         THEN dsth' = [dsth EXCEPT ![p] = h] /\ UNCHANGED mine /\ GoOn(p, "relayed", None)
         ELSE IF h = NoHeight THEN Exit(p)
         ELSE /\ mine' = [mine EXCEPT ![p] = h] /\ UNCHANGED dsth
              /\ GoOn(p, "opening", "show")
  BY DEF LatestHeight
<1>2. Follows(db, db') /\ \A x \in db' : x <= tip
  BY <1>1 DEF Follows, IInv, TypeOK, Honest
<1>3. /\ h \in Heights \union {NoHeight} /\ h \in Int
      /\ h # NoHeight => h \in Store(p) /\ \A x \in Store(p) : x <= h
  BY StoreOf, LastHeights, LastOf
<1>4. /\ pc[p] = "open" /\ cmd[p] \in {"header 0", "relay"} /\ dsth[p] = NoHeight
      /\ mine[p] \in Heights \union {NoHeight} /\ dsth[p] \in Heights \union {NoHeight}
      /\ mine' = mine => mine' = [mine EXCEPT ![p] = mine[p]]
      /\ dsth' = dsth => dsth' = [dsth EXCEPT ![p] = dsth[p]]
      /\ ~ rewound[p] /\ Store(p) # {} => handle[p] = "live" /\ Store(p) = db
      /\ handle[p] # "none"
  BY <1>1, WithOpen, CommandOf
<1>5. Kept(p) /\ (handle[p] = "live" => Store(p) = db)
  BY StoreOf DEF IInv, Good
<1>6. handle[p] \in {"none", "live", "orphan"}
  BY DEF IInv, TypeOK
<1>7. h # NoHeight => Store(p) # {}
  BY <1>3
<1>. HIDE DEF h
<1>8. CASE cmd[p] = "relay"
  <2>1. /\ dsth' = [dsth EXCEPT ![p] = h] /\ mine' = [mine EXCEPT ![p] = mine[p]]
        /\ mine'[p] = mine[p] /\ dsth'[p] = h /\ GoOn(p, "relayed", None)
    BY <1>1, <1>4, <1>8 DEF IInv, TypeOK
  <2>2. /\ handle'[p] = "none" /\ floor'[p] = floor[p] /\ cmd'[p] = cmd[p]
        /\ ~ rewound'[p] => ~ rewound[p] /\ floor[p] <= Last(db')
    BY <1>1, <1>2, <1>4, <2>1, StillKept
  <2>3. Kept(p)'
    <3>. SUFFICES ASSUME ~ rewound'[p] PROVE Kept(p)'
      BY DEF Kept
    <3>1. ASSUME mine[p] # NoHeight
          PROVE  mine[p] \in db /\ mine[p] >= floor[p] /\ (h # NoHeight => h >= mine[p])
      <4>1. mine[p] \in db /\ handle[p] # "orphan" /\ mine[p] >= floor[p]
        BY <1>4, <1>5, <1>8, <2>2, <3>1 DEF Kept, Given
      <4>2. Store(p) = db
        BY <1>4, <1>5, <1>6, <4>1
      <4>3. h # NoHeight => mine[p] <= h
        BY <1>3, <4>1, <4>2
      <4>4. mine[p] \in Int
        <5>1. mine[p] \in Heights \union {NoHeight}
          BY <1>4
        <5>. QED
          BY <5>1 DEF Heights, NoHeight
      <4>. QED
        BY <1>3, <4>1, <4>3, <4>4
    <3>2. /\ db' = db /\ mine'[p] = mine[p] /\ dsth'[p] = h /\ handle'[p] = "none"
          /\ floor'[p] = floor[p] /\ floor[p] <= Last(db')
      BY <1>1, <2>1, <2>2
    <3>. QED
      BY <3>1, <3>2 DEF Kept
  <2>4. None \notin {"forceAt", "trust", "show"}
    BY DEF None
  <2>. QED
    BY <1>1, <1>2, <1>3, <1>4, <2>1, <2>3, <2>4, GoOnKeeps
<1>9. CASE cmd[p] # "relay" /\ h = NoHeight
  BY <1>1, <1>2, <1>9, ExitKeeps
<1>10. CASE cmd[p] # "relay" /\ h # NoHeight
  <2>1. /\ mine' = [mine EXCEPT ![p] = h] /\ dsth' = [dsth EXCEPT ![p] = dsth[p]]
        /\ mine'[p] = h /\ dsth'[p] = NoHeight /\ GoOn(p, "opening", "show")
    BY <1>1, <1>4, <1>10 DEF IInv, TypeOK
  <2>2. /\ handle'[p] = "none" /\ floor'[p] = floor[p] /\ cmd'[p] = cmd[p]
        /\ ~ rewound'[p] => ~ rewound[p] /\ floor[p] <= Last(db')
    BY <1>1, <1>2, <1>4, <2>1, StillKept
  <2>3. ~ rewound'[p] => h \in db'
    BY <1>1, <1>3, <1>4, <1>7, <1>10, <2>2
  <2>4. Kept(p)'
    BY <1>10, <2>1, <2>2, <2>3 DEF Kept
  <2>5. "show" \in JobsOf[cmd[p]] /\ "show" \in Jobs /\ "show" \notin {"forceAt", "trust"}
    BY <1>4, <1>10, CommandOf DEF Jobs, Commands
  <2>. QED
    BY <1>1, <1>2, <1>3, <1>4, <1>10, <2>1, <2>4, <2>5, GoOnKeeps
<1>. QED
  BY <1>8, <1>9, <1>10

\* Steps that only end a command.
LEMMA EndsKeep ==
  ASSUME IInv, NEW p \in Procs, Exit(p), UNCHANGED <<tip, db, deletes>>
  PROVE  IInv'
<1>1. Follows(db, db') /\ \A x \in db' : x <= tip
  BY DEF Follows, IInv, TypeOK, Honest
<1>. QED
  BY <1>1, ExitKeeps

\* Steps that only concern the directory or the node: the processes wait.
LEMMA GrowKeeps ==
  ASSUME IInv, Grow
  PROVE  IInv'
<1>1. /\ tip < MaxTip /\ tip' = tip + 1
      /\ UNCHANGED <<db, owner, handle, orphan, pc, cmd, mine, dsth, floor, job, tries, rewound,
                     deletes>>
  BY DEF Grow, files, command
<1>2. tip \in Heights /\ tip' \in Heights /\ tip <= tip'
  BY <1>1, LightAssumption DEF IInv, TypeOK, Heights
<1>3. Follows(db, db') /\ Last(db) \in Int /\ db' = db
  BY <1>1, LastHeights DEF Follows, IInv, TypeOK
<1>4. \A h \in db' : h <= tip'
  <2>1. \A h \in db : h <= tip /\ h \in Int
    BY DEF IInv, TypeOK, Honest, Heights
  <2>. QED
    BY <1>1, <1>2, <2>1 DEF Heights
<1>5. DbGoesOn
  BY <1>1, <1>2, <1>3, <1>4 DEF DbGoesOn
<1>6. TypeOK'
  BY <1>1, <1>2 DEF IInv, TypeOK
<1>7. \A p \in Procs : Good(p)'
  BY <1>1, <1>5, Waits DEF Own
<1>. QED
  BY <1>4, <1>6, <1>7 DEF IInv, Honest

LEMMA DeleteLightDBKeeps ==
  ASSUME IInv, DeleteLightDB
  PROVE  IInv'
<1>1. /\ deletes < MaxDeletes /\ db' = {} /\ owner' = Nobody /\ deletes' = deletes + 1
      /\ orphan' = [p \in Procs |-> IF handle[p] = "live" THEN db ELSE orphan[p]]
      /\ handle' = [p \in Procs |-> IF handle[p] = "live" THEN "orphan" ELSE handle[p]]
      /\ Watch(Nobody) /\ UNCHANGED <<tip, pc, cmd, mine, dsth, floor, job, tries>>
  BY DEF DeleteLightDB, command
<1>2. /\ db \in SUBSET Heights /\ Last(db) \in Int /\ (db = {} <=> Last(db) = NoHeight)
      /\ Last({}) = NoHeight /\ \A x \in Heights : x > NoHeight
  BY LastHeights DEF IInv, TypeOK, Last, Heights, NoHeight
<1>3. Follows(db, db') /\ \A h \in db' : h <= tip
  <2>1. NoHeight >= Last(db) => db = {}
    <3>1. Last(db) \in Heights \union {NoHeight}
      BY <1>2, LastHeights
    <3>. QED
      BY <1>2, <3>1 DEF Heights, NoHeight
  <2>. QED
    BY <1>1, <1>2, <2>1 DEF Follows
<1>4. DbGoesOn /\ rewound' \in [Procs -> BOOLEAN]
  <2>1. \A q \in Procs : q # Nobody
    BY LightAssumption
  <2>. QED
    BY <1>1, <1>3, <2>1, Watched
<1>5. TypeOK'
  <2>1. deletes' \in 0 .. MaxDeletes
    BY <1>1, LightAssumption DEF IInv, TypeOK
  <2>2. handle' \in [Procs -> {"none", "live", "orphan"}] /\ orphan' \in [Procs -> SUBSET Heights]
    BY <1>1 DEF IInv, TypeOK
  <2>. QED
    BY <1>1, <1>4, <2>1, <2>2 DEF IInv, TypeOK
<1>6. ASSUME NEW p \in Procs PROVE Good(p)'
  <2>1. Lock(p) /\ Fits(p) /\ Informed(p) /\ Kept(p)
    BY DEF IInv, Good
  <2>2. /\ handle'[p] = IF handle[p] = "live" THEN "orphan" ELSE handle[p]
        /\ orphan'[p] = IF handle[p] = "live" THEN db ELSE orphan[p]
    BY <1>1
  <2>3. Lock(p)'
    <3>1. owner' # p
      BY <1>1, LightAssumption
    <3>. QED
      BY <1>1, <2>1, <2>2, <3>1 DEF Lock
  <2>4. Fits(p)' /\ Informed(p)'
    BY <1>1, <2>1 DEF Fits, Informed
  <2>5. Kept(p)'
    <3>. SUFFICES ASSUME pc[p] # "idle", ~ rewound'[p] PROVE Kept(p)'
      BY <1>1 DEF Kept
    <3>1. ~ rewound[p] /\ db \subseteq db'
      BY <1>1, <1>4 DEF DbGoesOn, Follows
    <3>2. db = {} /\ db' = db
      BY <1>1, <3>1
    <3>. QED
      BY <1>1, <2>1, <2>2, <3>1, <3>2 DEF Kept
  <2>. QED
    BY <2>3, <2>4, <2>5 DEF Good
<1>. QED
  BY <1>1, <1>5, <1>6 DEF IInv, Honest

-----------------------------------------------------------------------------
(* The specification *)

LEMMA InitIInv == Init => IInv
<1>. SUFFICES ASSUME Init PROVE IInv
  OBVIOUS
<1>1. TypeOK
  BY LightAssumption DEF Init, TypeOK, Heights, Jobs
<1>2. ASSUME NEW p \in Procs PROVE Good(p)
  BY LightAssumption DEF Init, Good, Lock, Fits, Informed, Kept, None
<1>. QED
  BY <1>1, <1>2 DEF IInv, Honest, Init

LEMMA NextIInv == IInv /\ [Next]_vars => IInv'
<1>. SUFFICES ASSUME IInv, [Next]_vars PROVE IInv'
  OBVIOUS
<1>1. CASE UNCHANGED vars
  <2>1. TypeOK' /\ Honest'
    BY <1>1 DEF IInv, TypeOK, Honest, vars, files, command
  <2>2. ASSUME NEW p \in Procs PROVE Good(p)'
    BY <1>1 DEF IInv, Good, Lock, Fits, Informed, Kept, vars, files, command
  <2>. QED
    BY <2>1, <2>2 DEF IInv
<1>2. ASSUME NEW p \in Procs, Step(p) PROVE IInv'
  <2>1. CASE ShowHeader(p) \/ End(p)
    BY <2>1, EndsKeep DEF ShowHeader, End
  <2>. QED
    BY <1>2, <2>1, OpenDBKeeps, OpenRetryKeeps, ForceTipKeeps, ForceInitKeeps, TrustInitKeeps,
       ReadLastKeeps, UpdateLightKeeps, LatestHeightKeeps DEF Step
<1>3. ASSUME NEW p \in Procs, Fail(p) PROVE IInv'
  BY <1>3, EndsKeep DEF Fail
<1>. QED
  BY <1>1, <1>2, <1>3, BeginKeeps, DeleteLightDBKeeps, GrowKeeps DEF Next

\* In every state that is reached, what a running command has read is kept unless the
\* database was set back.
THEOREM Invariance == Spec => []IInv
<1>1. Init => IInv
  BY InitIInv
<1>2. IInv /\ [Next]_vars => IInv'
  BY NextIInv
<1>. QED
  BY <1>1, <1>2, PTL DEF Spec

\* The variables keep their types.
THEOREM TypeCorrect == Spec => []TypeOK
<1>1. IInv => TypeOK
  BY DEF IInv
<1>. QED
  BY <1>1, Invariance, PTL

\* However commands fail or end, and whenever the directory is removed, the lock is
\* held exactly by the process that has the directory's files open.
THEOREM LockFollowsHandle == Spec => []LockHeldWhileOpen
<1>1. IInv => LockHeldWhileOpen
  BY DEF IInv, Good, Lock, LockHeldWhileOpen
<1>. QED
  BY <1>1, Invariance, PTL

\* A relay command never works with a header older than what was trusted when it
\* began, or newer than the chain, whichever processes run beside it.
THEOREM RelayIsFresh == Spec => []RelaysTheNewest
<1>1. ASSUME IInv, NEW p \in Procs, Synced(p), ~ rewound[p]
      PROVE  mine[p] >= floor[p] /\ mine[p] <= tip
  <2>1. Kept(p) /\ Fits(p) /\ cmd[p] = "relay" /\ mine[p] # NoHeight
    BY <1>1 DEF IInv, Good, Synced
  <2>2. mine[p] \in db /\ mine[p] >= floor[p]
    BY <1>1, <2>1 DEF Kept, Fits, Given
  <2>. QED
    BY <1>1, <2>2 DEF IInv, Honest
<1>2. IInv => RelaysTheNewest
  BY <1>1 DEF RelaysTheNewest
<1>. QED
  BY <1>2, Invariance, PTL

\* The height that SetupHeader reads is at least the height of the header.
THEOREM SetupFollows == Spec => []SetupNotBehind
<1>1. ASSUME IInv, NEW p \in Procs, Synced(p), dsth[p] # NoHeight, ~ rewound[p]
      PROVE  dsth[p] >= mine[p]
  <2>1. Kept(p) /\ Fits(p) /\ cmd[p] = "relay" /\ mine[p] # NoHeight
    BY <1>1 DEF IInv, Good, Synced
  <2>. QED
    BY <1>1, <2>1 DEF Kept, Fits, Given
<1>2. IInv => SetupNotBehind
  BY <1>1 DEF SetupNotBehind
<1>. QED
  BY <1>2, Invariance, PTL

\* Only an init command puts a block into an empty database.
THEOREM InitAfterDelete == Spec => DeleteForcesInit
<1>. DEFINE Inits == \E p \in Procs : ForceInit(p) \/ TrustInit(p)
<1>1. ASSUME Next, db = {}, db' # {} PROVE Inits
  <2>1. ASSUME NEW p \in Procs, UpdateLight(p) PROVE FALSE
    <3>1. Write(p, Updated(Store(p)))
      BY <2>1 DEF UpdateLight
    <3>2. CASE handle[p] = "live"
      BY <1>1, <3>1, <3>2 DEF Write, Updated, Store
    <3>3. CASE handle[p] # "live"
      BY <1>1, <3>1, <3>3 DEF Write
    <3>. QED
      BY <3>2, <3>3
  <2>2. ASSUME NEW p \in Procs, Step(p) PROVE Inits
    <3>1. ~ UpdateLight(p)
      BY <2>1, <2>2
    <3>2. ForceInit(p) \/ TrustInit(p)
      BY <1>1, <2>2, <3>1 DEF Step, OpenDB, OpenRetry, ForceTip, ReadLast, LatestHeight,
         ShowHeader, End, files
    <3>. QED
      BY <3>2
  <2>3. ~ DeleteLightDB /\ ~ Grow /\ \A p \in Procs : ~ Begin(p) /\ ~ Fail(p)
    BY <1>1 DEF DeleteLightDB, Grow, Begin, Fail, files
  <2>. QED
    BY <1>1, <2>2, <2>3 DEF Next
<1>2. ASSUME [Next]_vars, db = {}, db' # {}, UNCHANGED vars PROVE FALSE
  BY <1>2 DEF vars, files
<1>3. [Next]_vars => [db = {} /\ db' # {} => Inits]_vars
  BY <1>1, <1>2
<1>. QED
  BY <1>3, PTL DEF Spec, DeleteForcesInit

\* Between reading the last height and the header of that height, no update and no
\* other process takes the header away, unless the operator sets the database back.
THEOREM HeaderIsThere == Spec => ShownHeaderIsStored
<1>. DEFINE Shown == \A p \in Procs : (ShowHeader(p) /\ cmd[p] = "header 0" /\ ~ rewound[p]) => mine[p] \in Store(p)
<1>1. ASSUME IInv, NEW p \in Procs, ShowHeader(p), cmd[p] = "header 0", ~ rewound[p]
      PROVE  mine[p] \in Store(p)
  <2>1. At(p, "show")
    BY <1>1 DEF ShowHeader
  <2>2. /\ pc[p] = "open" /\ cmd[p] \in Commands /\ "show" \in JobsOf[cmd[p]]
        /\ handle[p] # "none" /\ handle[p] \in {"none", "live", "orphan"}
    BY <1>1, <2>1, WithOpen DEF IInv, TypeOK
  <2>3. cmd[p] \notin Given \union {"init force"}
    BY <1>1 DEF Given
  <2>4. Kept(p) /\ mine[p] # NoHeight
    BY <1>1, <2>1 DEF IInv, Good, Fits, At
  <2>5. mine[p] \in db /\ handle[p] # "orphan"
    BY <1>1, <2>2, <2>3, <2>4 DEF Kept
  <2>. QED
    BY <2>2, <2>5 DEF Store
<1>2. IInv /\ [Next]_vars => [Shown]_vars
  BY <1>1
<1>. QED
  BY <1>2, Invariance, PTL DEF Spec, ShownHeaderIsStored
=============================================================================
