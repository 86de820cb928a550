------------------------------ MODULE MCServices ------------------------------
(***************************************************************************)
(* The smaller components, each with constants small enough for TLC. They  *)
(* share no state: a behaviour belongs to one service, chosen at the       *)
(* start, while the variables of the others keep their initial values. So  *)
(* what TLC explores is the disjoint union of the state spaces, and a      *)
(* property is asked of all the behaviours of its own service.             *)
(***************************************************************************)
EXTENDS
  RateLimiter, WtiGate, AccountRisk, TelegramQueue, RiskWatchdog, GradientPilot, CommandBridge,
  EthInventory, Integers, TLC

CONSTANTS
  \* RiskBackup
  Beats, BackupOutcomes, BackupAttempts, BackupPhone, MaxBeats, MaxMutes

VARIABLES
  service,
  \* RiskBackup
  envelope, aged, active, muted, beats, mutes

-----------------------------------------------------------------------------
(* RateLimiter: a reserve of one request, a category below every limit. The *)
(* gate of WtiGate, which this module extends too: a read that may be        *)
(* repeated once, two troubles and a death (the cfg). And AccountRisk: room  *)
(* for two lots, one of which fits an order, and two changes of the account  *)
(* or deaths of the runtime (the cfg). And CommandBridge as the WTI gateway  *)
(* uses it, which asks for one order after the other, and as a lane of the   *)
(* ETH runtime does (the cfg).                                               *)

MCLimits == [entry_rfq |-> 1, emergency_exit |-> 3]

(* TelegramQueue: two kinds of alert, a queue that one message fills, four  *)
(* offers (the cfg).                                                        *)

(* RiskWatchdog: nothing wrong; an ETH runtime that died with a position;   *)
(* WTI account reads that fail; the permanent lock with reads that fail     *)
(* behind it. The phone never answers, Telegram now and then.               *)

Calm == [up |-> TRUE, lots |-> FALSE, pending |-> "none", review |-> "none",
         unreconciled |-> FALSE, fresh |-> TRUE, action |-> "normal",
         reason |-> "normal", feed |-> "ok"]
WtiCalm == Calm @@ [revoked |-> FALSE, recovering |-> FALSE, market |-> TRUE,
                    reconciled |-> TRUE]
NothingWrong == [eth |-> Calm, wti |-> WtiCalm, monitored |-> TRUE]
MCViews ==
  {NothingWrong,
   [NothingWrong EXCEPT !.eth.lots = TRUE, !.eth.up = FALSE],
   [NothingWrong EXCEPT !.wti.recovering = TRUE],
   [NothingWrong EXCEPT !.wti.revoked = TRUE, !.wti.recovering = TRUE]}
MCChannels == {{"telegram", "message"}, {"message", "bark"}}

(* RiskBackup: heartbeats with and without an incident whose phone call     *)
(* failed, under no silence, one with an end and one without.               *)

Missed == [name |-> "i", critical |-> TRUE, acked |-> FALSE,
           bark |-> "none", message |-> "sent", phone |-> "failed"]
Beat(incidents, silence) == [incidents |-> incidents, silence |-> silence]
MCBeats == {Beat({}, "none"), Beat({Missed}, "none"), Beat({Missed}, "timed"), Beat({}, "forever")}
MCBackupChannels == {{"telegram", "message", "phone", "bark"}, {"message"}, {}}

Backup == INSTANCE RiskBackup WITH
  Outcomes <- BackupOutcomes, MaxAttempts <- BackupAttempts, MaxPhone <- BackupPhone

(* GradientPilot: two tiers, an edge at the first and one at the second     *)
(* threshold, and one that is at the first of the other direction. Four     *)
(* orders: two layers, the close of one, and that tier again or the rest.   *)

MCEdges == {-1, 2, 3}

(* The bounded trial, with the orders of two rounds, and a death of the       *)
(* runtime; it may be adopted as a continuous session.                      *)

Trial == INSTANCE GradientPilot WITH
  MaxTier <- 1, Edges <- {0, 2}, MaxDeaths <- 1

(* EthInventory: two entries, and one fault of each kind under which the    *)
(* books of memory can be trusted (the cfg).                                *)

MCFaults ==
  {<<"lost", "var", "event">>, <<"crash", "process", "any">>}
  \cup {<<what, "var", "entry">> : what \in {"refused", "unknown", "rejected", "slow"}}
  \cup {<<what, "lighter", "entry">> : what \in {"refused", "canceled", "slow", "breach"}}
  \cup {<<what, "var", "exit">> : what \in {"unknown", "refused"}}
  \cup {<<what, "lighter", "exit">> : what \in {"refused", "canceled", "slow"}}
  \cup {<<"refused", "var", "unwind">>, <<"refused", "both", "close">>}

ASSUME FaultsAssumption

-----------------------------------------------------------------------------
ServicesInit ==
  /\ service \in {"limiter", "queue", "watchdog", "backup", "pilot", "trial", "inventory", "gate",
                 "risk", "bridge"}
  /\ LimiterInit /\ QueueInit /\ WatchdogInit /\ Backup!Init /\ InventoryInit /\ Init
  /\ AccountInit /\ BridgeInit /\ (service # "bridge" => reader = "wti")
  /\ IF service = "trial" THEN Trial!PilotInit ELSE PilotInit

backupVars == <<envelope, aged, active, muted, beats, mutes>>

OnlyLimiter ==
  UNCHANGED <<service, queueVars, watchdogVars, backupVars, pilotVars,
              inventoryVars, vars, accountVars, bridgeVars>>
OnlyQueue ==
  UNCHANGED <<service, limiterVars, watchdogVars, backupVars, pilotVars,
              inventoryVars, vars, accountVars, bridgeVars>>
OnlyWatchdog ==
  UNCHANGED <<service, limiterVars, queueVars, backupVars, pilotVars,
              inventoryVars, vars, accountVars, bridgeVars>>
OnlyBackup ==
  UNCHANGED <<service, limiterVars, queueVars, watchdogVars, pilotVars,
              inventoryVars, vars, accountVars, bridgeVars>>
OnlyPilot ==
  UNCHANGED <<service, limiterVars, queueVars, watchdogVars, backupVars,
              inventoryVars, vars, accountVars, bridgeVars>>
OnlyInventory ==
  UNCHANGED <<service, limiterVars, queueVars, watchdogVars, backupVars,
              pilotVars, vars, accountVars, bridgeVars>>
OnlyGate ==
  UNCHANGED <<service, limiterVars, queueVars, watchdogVars, backupVars,
              pilotVars, inventoryVars, accountVars, bridgeVars>>
OnlyRisk ==
  UNCHANGED <<service, limiterVars, queueVars, watchdogVars, backupVars,
              pilotVars, inventoryVars, vars, bridgeVars>>
OnlyBridge ==
  UNCHANGED <<service, limiterVars, queueVars, watchdogVars, backupVars,
              pilotVars, inventoryVars, vars, accountVars>>

\* Bound: a lane asks for one order, the gateway for two over one socket or for
\* one over two.
OneOrder == reader = "eth" \/ opened' = 2 => \A c \in Commands \ {1} : verdict'[c] = "idle"

ServicesNext ==
  \/ service = "limiter" /\ OnlyLimiter /\ LimiterNext
  \/ service = "queue" /\ OnlyQueue /\ QueueNext
  \/ service = "watchdog" /\ OnlyWatchdog /\ WatchdogNext
  \/ service = "backup" /\ OnlyBackup /\ Backup!Next
  \/ service = "pilot" /\ OnlyPilot /\ PilotNext
  \/ service = "trial" /\ OnlyPilot /\ Trial!PilotNext
  \/ service = "inventory" /\ OnlyInventory /\ InventoryNext
  \/ service = "gate" /\ OnlyGate /\ Next
  \/ service = "risk" /\ OnlyRisk /\ AccountNext
  \/ service = "bridge" /\ OnlyBridge /\ BridgeNext /\ OneOrder

allVars ==
  <<service, limiterVars, queueVars, watchdogVars, backupVars, pilotVars, inventoryVars, vars,
    accountVars, bridgeVars>>

Services == ServicesInit /\ [][ServicesNext]_allVars

Lane(A) == service = "bridge" /\ reader = "eth" /\ A

\* What each module assumes of its service, of the behaviours that are its own. What
\* it assumes of strong fairness is a premise of the one property that needs it.
\* Of a lane: every wait has a timeout, and the broker reads its sockets.
FairServices ==
  /\ Services
  /\ WF_backupVars(service = "backup" /\ Backup!Poll)
  /\ WF_backupVars(service = "backup" /\ Backup!MuteRunsOut)
  /\ WF_backupVars(service = "backup" /\ Backup!SilenceRunsOut)
  /\ WF_pilotVars(service = "trial" /\ Trial!PilotCycle)
  /\ WF_inventoryVars(service = "inventory" /\ Venue)
  /\ WF_inventoryVars(service = "inventory" /\ Strategic)
  /\ WF_inventoryVars(service = "inventory" /\ Callback)
  /\ WF_inventoryVars(service = "inventory" /\ Drain)
  /\ WF_vars(service = "gate" /\ Run)
  /\ WF_accountVars(service = "risk" /\ RiskLoop)
  /\ WF_accountVars(service = "risk" /\ SampleLoop)
  /\ WF_accountVars(service = "risk" /\ CostKnown)
  /\ WF_moving(Lane(GiveUp(1)))
  /\ WF_moving(Lane(Forward(1)))
  /\ WF_moving(Lane(Forget(1)))

-----------------------------------------------------------------------------
(* The properties, by the names they have in their modules: by EXTENDS      *)
(* those of the modules above, these of the instances, and those that need  *)
(* the fairness of one service. A service never changes: what holds of it    *)
(* for ever at some time is asked of its behaviours and of no others.        *)

TypesOK ==
  /\ TokensOK /\ QueueTypeOK /\ WatchdogTypeOK /\ Backup!TypeOK /\ InventoryTypeOK
  /\ TypeOK /\ AccountTypeOK /\ BridgeTypeOK
  /\ IF service = "trial" THEN Trial!PilotTypeOK ELSE PilotTypeOK

DeadWatchdogIsReported == <>[](service = "backup") => Backup!DeadWatchdogIsReported
\* As in FairPilot: a candidate that comes up again and again passes the other gates.
BoundedTrialIsEntered ==
  <>[](service = "trial") /\ SF_pilotVars(\E d \in {"long", "short"} : Trial!EnterTier(d))
    => Trial!TrialRoundsAreEntered
GateEntriesReturn == <>[](service = "gate") => BlockedEntriesReturn
GateExposureDrains == <>[](service = "gate") => GapExposureDrains
AccountEntriesReturn == <>[](service = "risk") => EntriesReturn
\* Of a lane, and of its one order: the WTI client keeps its socket, and with it
\* what it asked.
LaneRequestsAreForgotten == <>[](service = "bridge" /\ reader = "eth") => RequestIsForgotten(1)
\* As in FairAccount: a forced exit that is tried again and again finds depth.
AccountEmergencyEnds ==
  <>[](service = "risk") /\ SF_accountVars(ForcedExit) => EmergencyWithoutSignalEnds
===============================================================================
