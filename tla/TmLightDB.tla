------------------------------ MODULE TmLightDB ------------------------------
(***************************************************************************)
(* The light-client database that the relayer keeps of the Cosmos chain:   *)
(* relayer/chains/tendermint/light.go, prover.go and cmd/light.go.         *)
(*                                                                         *)
(* Every use opens the goleveldb directory, which one process at a time    *)
(* can lock, and closes it again; most commands open it more than once.    *)
(* The relayer service and the operator's commands share the directory.    *)
(* "light delete" removes it without opening it, under the feet of a       *)
(* process that has it open: that process goes on with the removed files.  *)
(*                                                                         *)
(* A light block is named by its height; the node serves one honest chain, *)
(* so that hashes and signatures are left out.                             *)
(***************************************************************************)
EXTENDS Integers, FiniteSetsExt

CONSTANTS
  Procs,      \* relayer processes with the same home directory
  Nobody,     \* no process
  Attempts,   \* rtyAtt: attempts to open the database
  MaxTip,     \* bound: height of the Cosmos chain
  MaxDeletes  \* bound: how often the database is deleted

ASSUME LightAssumption ==
  /\ Nobody \notin Procs
  /\ Attempts \in Nat \ {0} /\ MaxTip \in Nat \ {0} /\ MaxDeletes \in Nat

VARIABLES
  tip,      \* latest height of the node
  db,       \* heights of the trusted light blocks in the directory
  owner,    \* the process that holds the directory's lock
  handle,   \* what each process has open
  orphan,   \* the blocks in the removed files that a process has open
  pc,       \* where each process is
  cmd,      \* its command
  job,      \* what the database is (to be) open for
  tries,    \* failed attempts to open it
  mine,     \* the height the command works with
  dsth,     \* the second height a relay command has read
  floor,    \* the last trusted height when the command began (history)
  rewound,  \* the database has gone back or away since (history)
  deletes

files == <<db, owner, handle, orphan>>
command == <<cmd, mine, dsth, floor>>
vars == <<tip, files, pc, command, job, tries, rewound, deletes>>

-----------------------------------------------------------------------------
Heights == 1 .. MaxTip
NoHeight == -1

Commands ==
  {"init force", "init trust", "update", "header", "header 0", "header at", "relay"}

\* The commands that are given a height.
Given == {"init trust", "header at"}
Jobs == {"force", "forceAt", "trust", "read", "update", "height", "show"}
None == "none"

FirstJob ==
  [c \in Commands |->
     CASE c = "init force" -> "force"
       [] c = "init trust" -> "trust"
       [] c \in {"update", "header"} -> "read"
       [] c = "header 0" -> "height"
       [] c = "header at" -> "show"
       [] c = "relay" -> "update"]

\* LastTrustedHeight
Last(S) == IF S = {} THEN NoHeight ELSE Max(S)

Store(p) == IF handle[p] = "live" THEN db ELSE orphan[p]

-----------------------------------------------------------------------------
(* Opening and closing *)

Begin(p) ==
  /\ pc[p] = "idle"
  /\ \E c \in Commands :
       /\ cmd' = [cmd EXCEPT ![p] = c]
       /\ job' = [job EXCEPT ![p] = FirstJob[c]]
       /\ \E h \in IF c \in Given THEN Heights ELSE {NoHeight} :
            mine' = [mine EXCEPT ![p] = h]
  /\ pc' = [pc EXCEPT ![p] = "opening"]
  /\ floor' = [floor EXCEPT ![p] = Last(db)]
  /\ UNCHANGED <<tip, files, tries, dsth, rewound, deletes>>

\* NewLightDB gets the lock.
OpenDB(p) ==
  /\ pc[p] = "opening" /\ owner = Nobody
  /\ owner' = p
  /\ handle' = [handle EXCEPT ![p] = "live"]
  /\ pc' = [pc EXCEPT ![p] = "open"]
  /\ tries' = [tries EXCEPT ![p] = 0]
  /\ UNCHANGED <<tip, db, orphan, command, job, rewound, deletes>>

Close_Open(p) ==   \* Bug: df is not deferred
  UNCHANGED <<owner, handle, orphan>>

\* The deferred df.
Close(p) ==
  /\ owner' = IF owner = p THEN Nobody ELSE owner
  /\ handle' = [handle EXCEPT ![p] = "none"]
  /\ orphan' = [orphan EXCEPT ![p] = {}]

\* The commands that run on learn that the database was set back (history).
Watch(over) ==
  rewound' = [q \in Procs |-> /\ q # over /\ pc[q] # "idle"
                              /\ rewound[q] \/ Last(db') < Last(db)]

\* The command is over, and the process with it: what it has open is closed.
Exit(p) ==
  /\ Close(p) /\ Watch(p)
  /\ pc' = [pc EXCEPT ![p] = "idle"]
  /\ cmd' = [cmd EXCEPT ![p] = None] /\ job' = [job EXCEPT ![p] = None]
  /\ tries' = [tries EXCEPT ![p] = 0]
  /\ mine' = [mine EXCEPT ![p] = NoHeight] /\ dsth' = [dsth EXCEPT ![p] = NoHeight]
  /\ floor' = [floor EXCEPT ![p] = NoHeight]

\* The function that opened the database returns, and the command opens it again
\* for another job, or goes on without it.
GoOn(p, l, j) ==
  /\ Close(p) /\ Watch(Nobody)
  /\ pc' = [pc EXCEPT ![p] = l]
  /\ job' = [job EXCEPT ![p] = j]
  /\ UNCHANGED <<cmd, tries, floor>>

OpenRetry_Forever(p) ==   \* Bug: no limit to the attempts
  /\ pc[p] = "opening" /\ owner # Nobody
  /\ tries' = [tries EXCEPT ![p] = 1 - @]
  /\ UNCHANGED <<tip, files, pc, command, job, rewound, deletes>>

OpenRetry_OnceMore(p) ==   \* Bug: one attempt too many
  /\ pc[p] = "opening" /\ owner # Nobody
  /\ tries' = [tries EXCEPT ![p] = @ + 1]
  /\ tries[p] < Attempts
  /\ UNCHANGED <<tip, files, pc, command, job, rewound, deletes>>

\* NewLightDB finds it locked and tries again, a limited number of times.
OpenRetry(p) ==
  /\ pc[p] = "opening" /\ owner # Nobody
  /\ \/ /\ tries[p] + 1 < Attempts
        /\ tries' = [tries EXCEPT ![p] = @ + 1]
        /\ UNCHANGED <<files, pc, command, job, rewound>>
     \/ tries[p] + 1 = Attempts /\ UNCHANGED db /\ Exit(p)
  /\ UNCHANGED <<tip, deletes>>

At(p, j) == pc[p] = "open" /\ job[p] = j

-----------------------------------------------------------------------------
(* Jobs *)

Write_Once(p, S) ==   \* Bug: a block is only stored if there is none
  db' = IF handle[p] = "live" /\ db = {} THEN S ELSE db

\* The files that the process has open, which may have been removed.
Write(p, S) == db' = IF handle[p] = "live" THEN S ELSE db

\* LightClientWithoutTrust asks the node for its latest height ...
ForceTip(p) ==
  /\ At(p, "force")
  /\ mine' = [mine EXCEPT ![p] = tip]
  /\ job' = [job EXCEPT ![p] = "forceAt"]
  /\ UNCHANGED <<tip, files, pc, cmd, tries, dsth, floor, rewound, deletes>>

\* light.NewClient with trust in a height (external): later blocks are dropped.
Trusting(S, h) == {x \in S : x < h} \union {h}

\* ... and trusts the block of that height.
ForceInit(p) ==
  /\ At(p, "forceAt")
  /\ Write(p, Trusting(Store(p), mine[p]))
  /\ Exit(p)
  /\ UNCHANGED <<tip, deletes>>

\* LightClientWithTrust; the node must have the block of the height given.
TrustInit(p) ==
  /\ At(p, "trust")
  /\ IF mine[p] <= tip THEN Write(p, Trusting(Store(p), mine[p])) ELSE UNCHANGED db
  /\ Exit(p)
  /\ UNCHANGED <<tip, deletes>>

\* GetLatestLightHeader, for "light header" and at the start of "light update".
ReadLast(p) ==
  /\ At(p, "read")
  /\ UNCHANGED <<tip, db, deletes>>
  /\ IF cmd[p] = "update" /\ Store(p) # {}
     THEN GoOn(p, "opening", "update") /\ UNCHANGED <<mine, dsth>>
     ELSE Exit(p)

Updated_Prune(S) == IF S # {} THEN {tip} ELSE S   \* Bug: only the newest is kept

Updated_Trusting(S) == {tip}   \* Bug: an empty store trusts the node

\* client.Update (external) verifies and stores the node's latest block if it is
\* newer than the last trusted one; without a trusted one it does nothing.
Updated(S) == IF S # {} /\ tip > Last(S) THEN S \union {tip} ELSE S

Returned_First(S) == Min(S)   \* Bug: FirstTrustedHeight

\* The block of the header that UpdateLightWithHeader returns: the one just
\* stored or else TrustedLightBlock(0).
Returned(S) == Last(S)

\* UpdateLightWithHeader, an error if nothing is trusted.  "light update" then
\* panics when it prints the header; a relay command opens the database again.
UpdateLight(p) ==
  /\ At(p, "update")
  /\ LET S == Updated(Store(p))
     IN /\ Write(p, S)
        /\ IF S = {}
           THEN Exit(p)
           ELSE /\ mine' = [mine EXCEPT ![p] = Returned(S)] /\ UNCHANGED dsth
                /\ IF cmd[p] = "relay"
                   THEN GoOn(p, "opening", "height") ELSE GoOn(p, "panicked", None)
  /\ UNCHANGED <<tip, deletes>>

\* GetLatestLightHeight, in SetupHeader of the other chain's prover, which goes on
\* with whatever it is, and in "light header [chain-id] 0".
LatestHeight(p) ==
  /\ At(p, "height")
  /\ UNCHANGED <<tip, db, deletes>>
  /\ LET h == Last(Store(p))
     IN IF cmd[p] = "relay"
        THEN dsth' = [dsth EXCEPT ![p] = h] /\ UNCHANGED mine /\ GoOn(p, "relayed", None)
        ELSE IF h = NoHeight THEN Exit(p)
        ELSE mine' = [mine EXCEPT ![p] = h] /\ UNCHANGED dsth /\ GoOn(p, "opening", "show")

\* GetLightSignedHeaderAtHeight of the height given or just read: an error if the
\* block is not, or no longer, there.
ShowHeader(p) ==
  /\ At(p, "show")
  /\ UNCHANGED <<tip, db, deletes>>
  /\ Exit(p)

\* The relay command has sent its messages, or the panicked process is gone.
End(p) ==
  /\ pc[p] \in {"relayed", "panicked"}
  /\ UNCHANGED <<tip, db, deletes>>
  /\ Exit(p)

-----------------------------------------------------------------------------
(* The environment *)

\* "light delete": os.RemoveAll, whoever has the database open.
DeleteLightDB ==
  /\ deletes < MaxDeletes
  /\ db' = {}
  /\ orphan' = [p \in Procs |-> IF handle[p] = "live" THEN db ELSE orphan[p]]
  /\ handle' = [p \in Procs |-> IF handle[p] = "live" THEN "orphan" ELSE handle[p]]
  /\ owner' = Nobody
  /\ Watch(Nobody)
  /\ deletes' = deletes + 1
  /\ UNCHANGED <<tip, pc, command, job, tries>>

\* The node, or the files, fail, or the process is killed; its lock is freed.
Fail(p) ==
  /\ pc[p] \in {"opening", "open"}
  /\ UNCHANGED <<tip, db, deletes>>
  /\ Exit(p)

Grow ==
  /\ tip < MaxTip
  /\ tip' = tip + 1
  /\ UNCHANGED <<files, pc, command, job, tries, rewound, deletes>>

-----------------------------------------------------------------------------
Init ==
  /\ tip = 1 /\ db = {} /\ owner = Nobody
  /\ handle = [p \in Procs |-> "none"] /\ orphan = [p \in Procs |-> {}]
  /\ pc = [p \in Procs |-> "idle"] /\ cmd = [p \in Procs |-> None]
  /\ job = [p \in Procs |-> None] /\ tries = [p \in Procs |-> 0]
  /\ mine = [p \in Procs |-> NoHeight] /\ dsth = [p \in Procs |-> NoHeight]
  /\ floor = [p \in Procs |-> NoHeight] /\ rewound = [p \in Procs |-> FALSE]
  /\ deletes = 0

\* A command that has begun.
Step(p) ==
  \/ OpenDB(p) \/ OpenRetry(p) \/ ForceTip(p) \/ ForceInit(p) \/ TrustInit(p)
  \/ ReadLast(p) \/ UpdateLight(p) \/ LatestHeight(p) \/ ShowHeader(p) \/ End(p)

Next ==
  \/ \E p \in Procs : Begin(p) \/ Step(p) \/ Fail(p)
  \/ DeleteLightDB \/ Grow

Spec == Init /\ [][Next]_vars

\* A command that has begun keeps running; nobody need begin one.
FairSpec == Spec /\ \A p \in Procs : WF_vars(Step(p))

-----------------------------------------------------------------------------
(* Properties *)

TypeOK ==
  /\ tip \in Heights /\ db \subseteq Heights /\ owner \in Procs \union {Nobody}
  /\ handle \in [Procs -> {"none", "live", "orphan"}]
  /\ orphan \in [Procs -> SUBSET Heights]
  /\ pc \in [Procs -> {"idle", "opening", "open", "relayed", "panicked"}]
  /\ cmd \in [Procs -> Commands \union {None}] /\ job \in [Procs -> Jobs \union {None}]
  /\ tries \in [Procs -> 0 .. Attempts - 1]
  /\ mine \in [Procs -> Heights \union {NoHeight}]
  /\ dsth \in [Procs -> Heights \union {NoHeight}]
  /\ floor \in [Procs -> Heights \union {NoHeight}]
  /\ rewound \in [Procs -> BOOLEAN] /\ deletes \in 0 .. MaxDeletes

\* The lock is held exactly by the process that has the directory's files open,
\* and by no command that is over, also when one fails half way or the directory
\* is deleted and made again (NewLightDB's df, always deferred).
LockHeldWhileOpen ==
  \A p \in Procs : /\ owner = p <=> handle[p] = "live"
                   /\ handle[p] # "none" <=> pc[p] = "open"

Synced(p) == cmd[p] = "relay" /\ mine[p] # NoHeight

\* What a relay command works with is at least as new as anything that was
\* trusted when it began, whichever processes update in between, unless the
\* operator has set the database back.
RelaysTheNewest ==
  \A p \in Procs : Synced(p) /\ ~ rewound[p] => mine[p] >= floor[p] /\ mine[p] <= tip

\* The height that SetupHeader reads from the reopened database is not behind the
\* header of the same command, so the client state queried at it is not older.
SetupNotBehind ==
  \A p \in Procs : Synced(p) /\ dsth[p] # NoHeight /\ ~ rewound[p] => dsth[p] >= mine[p]

\* "wipe the light client database, forcing re-initialzation on the next run"
\* (cmd/light.go:185): only an init command puts a block into an empty database,
\* whatever was running when it was deleted.
DeleteForcesInit ==
  [][(db = {} /\ db' # {}) => \E p \in Procs : ForceInit(p) \/ TrustInit(p)]_vars

\* "light header [chain-id] 0" (cmd/light.go:144-158) closes the database between
\* reading the last height and reading the header: whatever is updated meanwhile,
\* the header is still there unless the operator has set the database back.
ShownHeaderIsStored ==
  [][\A p \in Procs : (ShowHeader(p) /\ cmd[p] = "header 0" /\ ~ rewound[p])
                      => mine[p] \in Store(p)]_vars

\* Two processes that keep finding the database locked do not wait for ever.
EveryCommandEnds == \A p \in Procs : (pc[p] # "idle") ~> (pc[p] = "idle")

\* "Update the light client to latest header from configured node" (cmd/light.go:
\* 93): the command reports what it did.
UpdateReports == \A p \in Procs : pc[p] # "panicked"
=============================================================================
