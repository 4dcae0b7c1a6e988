------------------------------- MODULE Commands -------------------------------
(***************************************************************************)
(* What sending with one account promises to those who run commands.  A    *)
(* command that is answered with code 0 took effect as a whole, at that    *)
(* moment; one answered with another code has none and never will.  Only   *)
(* an error leaves that open: its work may still be done, once and as a    *)
(* whole, and at most one command at a time is left over in this way.      *)
(* There is no account, sequence or mempool here.                          *)
(***************************************************************************)
CONSTANTS Procs, Work

VARIABLES
  running,   \* the processes whose command runs
  batch,     \* the work of each process's current or last command
  response,  \* what came of it
  late,      \* commands that ended with an error and may still take effect
  done       \* the work done

vars == <<running, batch, response, late, done>>

Fresh(w) == w \cap done = {}

Init ==
  /\ running = {} /\ late = {} /\ done = {}
  /\ batch = [p \in Procs |-> {}]
  /\ response = [p \in Procs |-> "none"]

\* A command takes on what is not done.
Begin(p) ==
  /\ p \notin running /\ Work \ done # {}
  /\ running' = running \union {p}
  /\ batch' = [batch EXCEPT ![p] = Work \ done]
  /\ response' = [response EXCEPT ![p] = "none"]
  /\ UNCHANGED <<late, done>>

End(p, r) ==
  /\ p \in running
  /\ running' = running \ {p}
  /\ response' = [response EXCEPT ![p] = r]
  /\ UNCHANGED batch

\* Nothing is left over from which the work might be done again.
Succeed(p) ==
  /\ End(p, "code 0")
  /\ late = {} /\ Fresh(batch[p])
  /\ done' = done \union batch[p]
  /\ UNCHANGED late

Refuse(p) ==
  /\ End(p, "other code")
  /\ \A x \in late : x.owner # p
  /\ UNCHANGED <<late, done>>

Err(p) ==
  /\ End(p, "error")
  /\ \/ UNCHANGED late
     \/ late = {} /\ late' = {[owner |-> p, batch |-> batch[p]]}
  /\ UNCHANGED done

\* What was left over takes effect, or never will.
Settle ==
  /\ \E x \in late :
       /\ late' = late \ {x}
       /\ \/ UNCHANGED done
          \/ Fresh(x.batch) /\ done' = done \union x.batch
  /\ UNCHANGED <<running, batch, response>>

DoneByOther ==
  /\ \E w \in Work \ done : done' = done \union {w}
  /\ UNCHANGED <<running, batch, response, late>>

\* There is new work, under a name that is not in use.
NewWork ==
  /\ \E w \in done :
       /\ \A p \in running : w \notin batch[p]
       /\ \A x \in late : w \notin x.batch
       /\ done' = done \ {w}
       /\ batch' = [p \in Procs |-> batch[p] \ {w}]
  /\ UNCHANGED <<running, response, late>>

Next ==
  \/ \E p \in Procs : Begin(p) \/ Succeed(p) \/ Refuse(p) \/ Err(p)
  \/ Settle \/ DoneByOther \/ NewWork

Spec == Init /\ [][Next]_vars
=============================================================================
