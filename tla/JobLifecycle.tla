---------------------------- MODULE JobLifecycle ----------------------------
(***************************************************************************)
(* What the ingest queue promises about its jobs, whatever tables and      *)
(* leases it is built from: a waiting job is taken by one worker at a      *)
(* time; a job whose worker died is given back or, once it has been lost   *)
(* MaxLosses times since it last made progress, given up; a finished job   *)
(* stays finished until it is forgotten.                                   *)
(***************************************************************************)
EXTENDS Naturals

CONSTANTS Jobs, Workers, MaxLosses

VARIABLES
  phase,    \* where each job stands
  owners,   \* the worker a held job belongs to, as a set; empty for any other
  losses    \* workers lost with the job since it last made progress

vars == <<phase, owners, losses>>

Phases == {"unknown", "waiting", "held", "lost", "done", "failed"}

TypeOK ==
  /\ phase \in [Jobs -> Phases]
  /\ owners \in [Jobs -> SUBSET Workers]
  /\ losses \in [Jobs -> 0..MaxLosses]

Init ==
  /\ phase = [j \in Jobs |-> "unknown"]
  /\ owners = [j \in Jobs |-> {}]
  /\ losses = [j \in Jobs |-> 0]

Submit(j) ==
  /\ phase[j] = "unknown"
  /\ phase' = [phase EXCEPT ![j] = "waiting"]
  /\ UNCHANGED <<owners, losses>>

Take(w, j) ==
  /\ phase[j] = "waiting"
  /\ phase' = [phase EXCEPT ![j] = "held"]
  /\ owners' = [owners EXCEPT ![j] = {w}]
  /\ UNCHANGED losses

\* The worker reached the end of its time and hands the job back with progress.
Yield(j) ==
  /\ phase[j] = "held"
  /\ phase' = [phase EXCEPT ![j] = "waiting"]
  /\ owners' = [owners EXCEPT ![j] = {}]
  /\ losses' = [losses EXCEPT ![j] = 0]

Finish(j) ==
  /\ phase[j] = "held"
  /\ \E end \in {"done", "failed"} : phase' = [phase EXCEPT ![j] = end]
  /\ owners' = [owners EXCEPT ![j] = {}]
  /\ UNCHANGED losses

\* The worker dies.
Lose(j) ==
  /\ phase[j] = "held"
  /\ phase' = [phase EXCEPT ![j] = "lost"]
  /\ owners' = [owners EXCEPT ![j] = {}]
  /\ losses' = [losses EXCEPT ![j] = @ + 1]

\* Lost jobs are found: those lost too often are given up, others wait again.
Recover(found) ==
  /\ \A j \in found : phase[j] = "lost" /\ losses[j] < MaxLosses
  /\ phase' = [j \in Jobs |-> IF j \in found THEN "waiting" ELSE phase[j]]
  /\ UNCHANGED <<owners, losses>>

GiveUp(found) ==
  /\ \A j \in found : phase[j] = "lost" /\ losses[j] = MaxLosses
  /\ phase' = [j \in Jobs |-> IF j \in found THEN "failed" ELSE phase[j]]
  /\ UNCHANGED <<owners, losses>>

Forget(old) ==
  /\ \A j \in old : phase[j] \in {"done", "failed"}
  /\ phase' = [j \in Jobs |-> IF j \in old THEN "unknown" ELSE phase[j]]
  /\ UNCHANGED <<owners, losses>>

Next ==
  \/ \E j \in Jobs : Submit(j) \/ Yield(j) \/ Finish(j) \/ Lose(j)
  \/ \E w \in Workers, j \in Jobs : Take(w, j)
  \/ \E found \in SUBSET Jobs : Recover(found) \/ GiveUp(found) \/ Forget(found)

Spec == Init /\ [][Next]_vars

=============================================================================
