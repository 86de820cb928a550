------------------------------ MODULE MCRotation ------------------------------
(***************************************************************************)
(* Rotation under two configurations, one of which a behaviour chooses at  *)
(* its start.  "manual": Rotation with the constants of the cfg, a runtime *)
(* started by hand before the supervisor and a fault of any kind; no       *)
(* fairness is assumed of it.  "cold": the supervisor launches every       *)
(* runtime itself, no process dies, and both the supervisor and the        *)
(* runtimes go on.                                                         *)
(***************************************************************************)
EXTENDS Rotation

VARIABLE configuration

Cold == INSTANCE Rotation WITH
  Manual <- FALSE, Faults <- {"start fails", "heartbeat stalls"}, MaxRuns <- 4

MCInit ==
  \/ configuration = "manual" /\ Init
  \/ configuration = "cold" /\ Cold!Init

MCNext ==
  /\ UNCHANGED configuration
  /\ \/ configuration = "manual" /\ Next
     \/ configuration = "cold" /\ Cold!Next

MCSpec ==
  /\ MCInit /\ [][MCNext]_<<configuration, vars>>
  /\ WF_vars(configuration = "cold" /\ Cold!Supervisor)
  /\ \A p \in Pair : WF_vars(configuration = "cold" /\ Cold!Runtime(p))

\* Without a death, the drain of a flat runtime ends (Rotation's DrainEnds).
ColdDrainEnds == configuration = "cold" => DrainEnds
===============================================================================
