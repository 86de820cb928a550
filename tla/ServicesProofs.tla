--------------------------- MODULE ServicesProofs ---------------------------
(***************************************************************************)
(* Proofs about the backup alarm, for any heartbeats, channels and limits, *)
(* and about the composition of MCServices, for any constants: what it     *)
(* does is what one of its services does, so that each of the properties   *)
(* proved of a service is one of the composition.                          *)
(***************************************************************************)
EXTENDS
  MCServices, RequestProofs, GateProofs, AlertProofs, GradientPilotProofs, EthInventoryProofs

-----------------------------------------------------------------------------
(* The backup alarm: how often it may try. *)

\* A heartbeat names a silence the control file knows; the limits are numbers.
BackupAssumption ==
    /\ {BackupAttempts, BackupPhone, MaxBeats, MaxMutes} \subseteq Nat
    /\ \A b \in Beats : b.silence \in {"none", "timed", "forever"}

Fates == {"none", "sent", "failed"}
BackupRecords ==
    [telegram : Fates, telegrams : 0..BackupAttempts, message : Fates, messages : 0..BackupAttempts,
     phone : Fates, calls : 0..BackupPhone, bark : Fates, barks : 0..BackupAttempts, acked : BOOLEAN]
Heartbeat(e) ==
    \E i : \E s \in {"none", "timed", "forever"} : \E b \in BOOLEAN :
        e = [incidents |-> i, silence |-> s, seen |-> b]

BackupInv ==
    /\ Heartbeat(envelope)
    /\ aged \in BOOLEAN /\ muted \in {"no", "timed"} /\ beats \in 0..MaxBeats /\ mutes \in 0..MaxMutes
    /\ \A n \in DOMAIN active : active[n] \in BackupRecords

\* An attempt is only made below its limit.
LEMMA DeliveryCounts ==
    ASSUME BackupAssumption, NEW r \in BackupRecords, NEW channels, NEW accepting, NEW due
    PROVE  Backup!Deliver(r, channels, accepting, due) \in BackupRecords
<1>1. BackupAttempts \in Nat /\ BackupPhone \in Nat
  BY DEF BackupAssumption
<1> DEFINE answer(channel) == IF channel \in accepting THEN "sent" ELSE "failed"
           count(n, tried) == IF tried THEN n + 1 ELSE n
           barks == "bark" \in channels /\ Backup!Attempt(r.bark, r.barks, BackupAttempts, "bark", due)
           messages == "feishu" \in channels /\ Backup!Attempt(r.message, r.messages, BackupAttempts, "message", due)
           message == IF messages THEN answer("message") ELSE r.message
           calls == "feishu" \in channels /\ message = "sent" /\ Backup!Attempt(r.phone, r.calls, BackupPhone, "phone", due)
           telegrams == "telegram" \in channels /\ Backup!Attempt(r.telegram, r.telegrams, BackupAttempts, "telegram", due)
<1>2. count(r.barks, barks) \in 0..BackupAttempts /\ count(r.messages, messages) \in 0..BackupAttempts
  BY <1>1 DEF Backup!Attempt, BackupRecords
<1>3. count(r.telegrams, telegrams) \in 0..BackupAttempts /\ count(r.calls, calls) \in 0..BackupPhone
  BY <1>1 DEF Backup!Attempt, BackupRecords
<1>4. message \in Fates /\ \A c : answer(c) \in Fates
  BY DEF Fates, BackupRecords
<1>5. Backup!Deliver(r, channels, accepting, due) =
        [r EXCEPT !.bark = IF barks THEN answer("bark") ELSE @, !.barks = count(@, barks),
                  !.message = message, !.messages = count(@, messages),
                  !.phone = IF calls THEN answer("phone") ELSE @, !.calls = count(@, calls),
                  !.telegram = IF telegrams THEN answer("telegram") ELSE @,
                  !.telegrams = count(@, telegrams)]
  BY DEF Backup!Deliver
<1> HIDE DEF barks, messages, message, calls, telegrams, answer
<1>6. /\ (IF barks THEN answer("bark") ELSE r.bark) \in Fates
      /\ (IF calls THEN answer("phone") ELSE r.phone) \in Fates
      /\ (IF telegrams THEN answer("telegram") ELSE r.telegram) \in Fates
  BY <1>4 DEF BackupRecords
<1> HIDE DEF Fates
<1> QED BY <1>2, <1>3, <1>4, <1>5, <1>6 DEF BackupRecords

\* A record stays one when a button answers it, and when a poll delivers for it.
LEMMA PollKeepsRecords ==
    ASSUME BackupAssumption, BackupInv, Backup!Poll
    PROVE  \A n \in DOMAIN active' : active'[n] \in BackupRecords
<1> DEFINE Known(answered) == [n \in DOMAIN active |-> [active[n] EXCEPT !.acked = @ \/ n \in answered]]
           Patients(desired, records) ==
             SUBSET {d.name : d \in {e \in desired : e.name # Backup!Lost
                     /\ (e.name \in DOMAIN records => records[e.name] = Backup!NewRecord)}}
           Moves(accepting, due, desired, answered, records, patient) ==
             LET before(n) == IF n \in DOMAIN records THEN records[n] ELSE Backup!NewRecord
                 channels(n) == (CHOOSE d \in desired : d.name = n).channels
             IN  /\ "telegram" \in accepting \/ answered = {}
                 /\ active' = [n \in {d.name : d \in desired} |->
                                 IF before(n).acked \/ n \in patient THEN before(n)
                                 ELSE Backup!Deliver(before(n), channels(n), accepting, due)]
                 /\ UNCHANGED <<envelope, aged, muted, beats, mutes>>
<1>1. PICK accepting \in BackupOutcomes, due \in SUBSET Backup!Overdue, desired \in {Backup!Desired},
           answered \in SUBSET {n \in DOMAIN active : active[n].telegram = "sent"} :
        \E records \in {Known(answered)} : \E patient \in Patients(desired, records) :
          Moves(accepting, due, desired, answered, records, patient)
  BY Zenon DEF Backup!Poll
<1>2. PICK records \in {Known(answered)} : \E patient \in Patients(desired, records) :
        Moves(accepting, due, desired, answered, records, patient)
  BY <1>1, Zenon
<1>3. PICK patient \in Patients(desired, records) : Moves(accepting, due, desired, answered, records, patient)
  BY <1>2, Zenon
<1> DEFINE before(n) == IF n \in DOMAIN records THEN records[n] ELSE Backup!NewRecord
<1>4. Backup!NewRecord \in BackupRecords
  BY DEF Backup!NewRecord, BackupRecords, Fates, BackupAssumption
<1>5. ASSUME NEW n \in DOMAIN records PROVE records[n] \in BackupRecords
  <2>1. n \in DOMAIN active /\ records[n] = [active[n] EXCEPT !.acked = @ \/ n \in answered]
    OBVIOUS
  <2>2. active[n] \in BackupRecords
    BY <2>1 DEF BackupInv
  <2>3. (active[n].acked \/ n \in answered) \in BOOLEAN
    BY <2>2 DEF BackupRecords
  <2> QED BY <2>1, <2>2, <2>3 DEF BackupRecords
<1>6. \A n : before(n) \in BackupRecords
  BY <1>4, <1>5
<1>7. \A n \in DOMAIN active' :
        \/ active'[n] = before(n)
        \/ active'[n] = Backup!Deliver(before(n), (CHOOSE d \in desired : d.name = n).channels, accepting, due)
  BY <1>3, Zenon
<1>8. ASSUME NEW n \in DOMAIN active' PROVE active'[n] \in BackupRecords
  <2>1. CASE active'[n] = before(n)
    BY <1>6, <2>1, Zenon
  <2>2. CASE active'[n] = Backup!Deliver(before(n), (CHOOSE d \in desired : d.name = n).channels, accepting, due)
    <3> DEFINE answer == Backup!Deliver(before(n), (CHOOSE d \in desired : d.name = n).channels, accepting, due)
    <3>1. before(n) \in BackupRecords
      BY <1>6, Zenon
    <3>2. answer \in BackupRecords
      BY <3>1, DeliveryCounts
    <3>3. active'[n] = answer
      BY <2>2, Zenon
    <3> HIDE DEF answer
    <3> QED BY <3>2, <3>3
  <2> QED BY <1>7, <2>1, <2>2, Zenon
<1> QED BY <1>8

LEMMA BackupNext ==
    ASSUME BackupAssumption, BackupInv, [Backup!Next]_(Backup!vars)
    PROVE  BackupInv'
<1>1. MaxBeats \in Nat /\ MaxMutes \in Nat
  BY DEF BackupAssumption
<1>2. CASE Backup!Poll
  <2>1. UNCHANGED <<envelope, aged, muted, beats, mutes>>
    BY <1>2 DEF Backup!Poll
  <2>2. \A n \in DOMAIN active' : active'[n] \in BackupRecords
    BY <1>2, PollKeepsRecords
  <2> QED BY <2>1, <2>2 DEF BackupInv, Heartbeat
<1>3. CASE Backup!Age
  BY <1>3 DEF Backup!Age, BackupInv, Heartbeat
<1>4. CASE Backup!Mute
  <2>1. mutes < MaxMutes /\ muted' = "timed" /\ mutes' = mutes + 1 /\ UNCHANGED <<envelope, aged, active, beats>>
    BY <1>4 DEF Backup!Mute
  <2>2. mutes' \in 0..MaxMutes
    BY <1>1, <2>1 DEF BackupInv
  <2> QED BY <2>1, <2>2 DEF BackupInv
<1>5. CASE Backup!MuteRunsOut
  BY <1>5 DEF Backup!MuteRunsOut, BackupInv, Heartbeat
<1>6. CASE Backup!SilenceRunsOut
  <2>1. envelope' = [envelope EXCEPT !.silence = "none"] /\ UNCHANGED <<aged, active, muted, beats, mutes>>
    BY <1>6 DEF Backup!SilenceRunsOut
  <2>2. PICK i, s, b : b \in BOOLEAN /\ envelope = [incidents |-> i, silence |-> s, seen |-> b]
    BY DEF BackupInv, Heartbeat
  <2>3. envelope' = [incidents |-> i, silence |-> "none", seen |-> b]
    BY <2>1, <2>2
  <2> QED BY <2>1, <2>3 DEF BackupInv, Heartbeat
<1>7. CASE \E beat \in Beats : Backup!Receive(beat)
  <2>1. PICK beat \in Beats : Backup!Receive(beat)
    BY <1>7
  <2>2. /\ beats < MaxBeats /\ beats' = beats + 1 /\ aged' = FALSE /\ UNCHANGED <<active, muted, mutes>>
        /\ envelope' = [incidents |-> beat.incidents, silence |-> beat.silence, seen |-> TRUE]
    BY <2>1 DEF Backup!Receive
  <2>3. Heartbeat(envelope')
    BY <2>1, <2>2 DEF Heartbeat, BackupAssumption
  <2>4. beats' \in 0..MaxBeats
    BY <1>1, <2>2 DEF BackupInv
  <2> QED BY <2>2, <2>3, <2>4 DEF BackupInv
<1>8. CASE UNCHANGED Backup!vars
  BY <1>8 DEF Backup!vars, BackupInv, Heartbeat
<1> QED BY <1>2, <1>3, <1>4, <1>5, <1>6, <1>7, <1>8 DEF Backup!Next

\* The backup never tries a channel more often than its limit, whatever heartbeats it is sent,
\* however its polls end and however often it is muted (_deliver_due, run_once).
THEOREM BackupTypes == ASSUME BackupAssumption PROVE Backup!Spec => []Backup!TypeOK
<1>1. Backup!Init => BackupInv
  <2> SUFFICES ASSUME Backup!Init PROVE BackupInv
    OBVIOUS
  <2>1. Heartbeat(envelope)
    BY DEF Backup!Init, Backup!NoEnvelope, Heartbeat
  <2>2. DOMAIN active = {}
    BY DEF Backup!Init
  <2>3. aged \in BOOLEAN /\ muted \in {"no", "timed"} /\ beats \in 0..MaxBeats /\ mutes \in 0..MaxMutes
    <3>1. aged = FALSE /\ muted = "no" /\ beats = 0 /\ mutes = 0
      BY DEF Backup!Init
    <3>2. MaxBeats \in Nat /\ MaxMutes \in Nat
      BY DEF BackupAssumption
    <3>3. aged \in BOOLEAN
      BY <3>1, Zenon
    <3>4. muted \in {"no", "timed"} /\ beats \in 0..MaxBeats /\ mutes \in 0..MaxMutes
      BY <3>1, <3>2
    <3> QED BY <3>3, <3>4
  <2> QED BY <2>1, <2>2, <2>3, Zenon DEF BackupInv
<1>2. BackupInv /\ [Backup!Next]_(Backup!vars) => BackupInv'
  BY BackupNext
<1>3. BackupInv => Backup!TypeOK
  BY DEF BackupInv, BackupRecords, Heartbeat, Backup!TypeOK
<1> QED BY <1>1, <1>2, <1>3, PTL DEF Backup!Spec

-----------------------------------------------------------------------------
(* The bounded trial is the pilot with constants of its own. *)

TrialTheory == INSTANCE GradientPilotProofs WITH MaxTier <- 1, Edges <- {0, 2}, MaxDeaths <- 1

\* What is proved of the pilot with these constants is proved of the trial: its
\* definitions are those of the same module.
LEMMA SameTrial ==
    /\ TrialTheory!PilotInit = Trial!PilotInit
    /\ TrialTheory!PilotNext = Trial!PilotNext
    /\ (UNCHANGED TrialTheory!pilotVars) = (UNCHANGED Trial!pilotVars)
    /\ TrialTheory!PilotTypeOK = Trial!PilotTypeOK
<1>1. TrialTheory!PilotInit = Trial!PilotInit
  BY DEF TrialTheory!Tiers, Trial!Tiers, TrialTheory!Directions, Trial!Directions,
    TrialTheory!NoPosition, Trial!NoPosition, TrialTheory!NoAction, Trial!NoAction,
    TrialTheory!NoRearm, Trial!NoRearm, TrialTheory!AllArmed, Trial!AllArmed,
    TrialTheory!NewPilot, Trial!NewPilot, TrialTheory!NoTrial, Trial!NoTrial,
    TrialTheory!PilotInit, Trial!PilotInit
<1>2. TrialTheory!PilotNext = Trial!PilotNext
  BY DEF TrialTheory!stateFile, Trial!stateFile, TrialTheory!Tiers, Trial!Tiers,
    TrialTheory!Directions, Trial!Directions, TrialTheory!Opposite, Trial!Opposite,
    TrialTheory!Edge, Trial!Edge, TrialTheory!Threshold, Trial!Threshold, TrialTheory!Buffer,
    Trial!Buffer, TrialTheory!RawTier, Trial!RawTier, TrialTheory!Signed, Trial!Signed,
    TrialTheory!TierIn, Trial!TierIn, TrialTheory!ConfirmedBy, Trial!ConfirmedBy,
    TrialTheory!ConfirmedTiers, Trial!ConfirmedTiers, TrialTheory!NoPosition, Trial!NoPosition,
    TrialTheory!NoAction, Trial!NoAction, TrialTheory!NoRearm, Trial!NoRearm,
    TrialTheory!AllArmed, Trial!AllArmed, TrialTheory!NewPilot, Trial!NewPilot,
    TrialTheory!NoTrial, Trial!NoTrial, TrialTheory!Flat, Trial!Flat, TrialTheory!Resolved,
    Trial!Resolved, TrialTheory!TiersOf, Trial!TiersOf, TrialTheory!IdsOf, Trial!IdsOf,
    TrialTheory!TiersInOrder, Trial!TiersInOrder, TrialTheory!Root, Trial!Root,
    TrialTheory!ChainHolds, Trial!ChainHolds, TrialTheory!TrialAccepted, Trial!TrialAccepted,
    TrialTheory!EnsuredTrial, Trial!EnsuredTrial, TrialTheory!EnsureTrial, Trial!EnsureTrial,
    TrialTheory!Terminal, Trial!Terminal, TrialTheory!MayFollow, Trial!MayFollow,
    TrialTheory!Successor, Trial!Successor, TrialTheory!Boot, Trial!Boot, TrialTheory!RuntimeDies,
    Trial!RuntimeDies, TrialTheory!Adopt, Trial!Adopt, TrialTheory!AfterAdvance,
    Trial!AfterAdvance, TrialTheory!StayInRound, Trial!StayInRound, TrialTheory!CountRound,
    Trial!CountRound, TrialTheory!EnsureContinuous, Trial!EnsureContinuous,
    TrialTheory!CreateSuccessor, Trial!CreateSuccessor, TrialTheory!LinkSuccessor,
    Trial!LinkSuccessor, TrialTheory!RearmTier, Trial!RearmTier, TrialTheory!RearmRound,
    Trial!RearmRound, TrialTheory!Observe, Trial!Observe, TrialTheory!Activated, Trial!Activated,
    TrialTheory!EntryTiers, Trial!EntryTiers, TrialTheory!Budget, Trial!Budget,
    TrialTheory!EnterTier, Trial!EnterTier, TrialTheory!CloseLayers, Trial!CloseLayers,
    TrialTheory!CloseTier, Trial!CloseTier, TrialTheory!HoldPosition, Trial!HoldPosition,
    TrialTheory!EntryFits, Trial!EntryFits, TrialTheory!SettleOpen, Trial!SettleOpen,
    TrialTheory!Remaining, Trial!Remaining, TrialTheory!CloseFits, Trial!CloseFits,
    TrialTheory!Disarmed, Trial!Disarmed, TrialTheory!StillOpened, Trial!StillOpened,
    TrialTheory!SettleClose, Trial!SettleClose, TrialTheory!CloseNotFilled, Trial!CloseNotFilled,
    TrialTheory!Advance, Trial!Advance, TrialTheory!Settle, Trial!Settle, TrialTheory!CloseSome,
    Trial!CloseSome, TrialTheory!PilotNext, Trial!PilotNext, TrialTheory!Last, Trial!Last,
    TrialTheory!IsPrefix, Trial!IsPrefix, TrialTheory!IsInjective, Trial!IsInjective,
    TrialTheory!ToSet, Trial!ToSet, TrialTheory!Cardinality, Trial!Cardinality
<1>3. (UNCHANGED TrialTheory!pilotVars) = (UNCHANGED Trial!pilotVars)
  BY DEF TrialTheory!stateFile, Trial!stateFile, TrialTheory!pilotVars, Trial!pilotVars
<1>4. TrialTheory!PilotTypeOK = Trial!PilotTypeOK
  BY DEF TrialTheory!Tiers, Trial!Tiers, TrialTheory!Directions, Trial!Directions,
    TrialTheory!NoAction, Trial!NoAction, TrialTheory!PendingActions, Trial!PendingActions,
    TrialTheory!PilotTypeOK, Trial!PilotTypeOK
<1> QED BY <1>1, <1>2, <1>3, <1>4

LEMMA TrialTypes == ASSUME PilotAssumption PROVE Trial!PilotSpec => []Trial!PilotTypeOK
<1>1. TrialTheory!PilotAssumption
  BY DEF PilotAssumption, TrialTheory!PilotAssumption
<1>2. TrialTheory!PilotSpec => []TrialTheory!PilotTypeOK
  BY <1>1, TrialTheory!PilotTypes
<1>3. (TrialTheory!PilotInit <=> Trial!PilotInit) /\ (TrialTheory!PilotTypeOK <=> Trial!PilotTypeOK)
  BY SameTrial
<1>4. [Trial!PilotNext]_(Trial!pilotVars) => [TrialTheory!PilotNext]_(TrialTheory!pilotVars)
  BY SameTrial
<1> QED BY <1>2, <1>3, <1>4, PTL DEF TrialTheory!PilotSpec, Trial!PilotSpec

-----------------------------------------------------------------------------
(* The composition. *)

\* The constants of the services, as their theorems need them.
ServicesAssumption ==
    /\ BackupAssumption /\ FaultsAssumption /\ PilotAssumption /\ CountsAreNatural /\ BoundsAreNatural
    /\ {MaxIntents, MaxCommands, MaxSockets} \subseteq Nat

\* A behaviour stays with the service it began with.
LEMMA ServiceStays ==
    /\ service = "trial" /\ [ServicesNext]_allVars => (service = "trial")'
    /\ service # "trial" /\ [ServicesNext]_allVars => (service # "trial")'
BY DEF ServicesNext, allVars, OnlyLimiter, OnlyQueue,
       OnlyWatchdog, OnlyBackup, OnlyPilot, OnlyInventory, OnlyGate, OnlyRisk, OnlyBridge

\* Whatever service a behaviour belongs to, it is a behaviour of every one of them: of
\* the others, one in which nothing happens. So nothing a run of the composition finds is
\* owed to the composition.
THEOREM ServicesAreTheirOwn ==
    Services =>
        /\ Limiter
        /\ QueueSpec
        /\ WatchdogSpec
        /\ Backup!Spec
        /\ InventorySpec
        /\ Spec
        /\ AccountSpec
        /\ BridgeSpec
        /\ service = "trial" => Trial!PilotSpec
        /\ service # "trial" => PilotSpec
<1>1. Services => Limiter
  <2>1. ServicesInit => LimiterInit
    BY DEF ServicesInit
  <2>2. [ServicesNext]_allVars => [LimiterNext]_limiterVars
    BY Zenon DEF ServicesNext, allVars, backupVars, Backup!vars, OnlyLimiter, OnlyQueue,
           OnlyWatchdog, OnlyBackup, OnlyPilot, OnlyInventory, OnlyGate, OnlyRisk, OnlyBridge
  <2> QED BY <2>1, <2>2, PTL DEF Services, Limiter
<1>2. Services => QueueSpec
  <2>1. ServicesInit => QueueInit
    BY DEF ServicesInit
  <2>2. [ServicesNext]_allVars => [QueueNext]_queueVars
    BY Zenon DEF ServicesNext, allVars, backupVars, Backup!vars, OnlyLimiter, OnlyQueue,
           OnlyWatchdog, OnlyBackup, OnlyPilot, OnlyInventory, OnlyGate, OnlyRisk, OnlyBridge
  <2> QED BY <2>1, <2>2, PTL DEF Services, QueueSpec
<1>3. Services => WatchdogSpec
  <2>1. ServicesInit => WatchdogInit
    BY DEF ServicesInit
  <2>2. [ServicesNext]_allVars => [WatchdogNext]_watchdogVars
    BY Zenon DEF ServicesNext, allVars, backupVars, Backup!vars, OnlyLimiter, OnlyQueue,
           OnlyWatchdog, OnlyBackup, OnlyPilot, OnlyInventory, OnlyGate, OnlyRisk, OnlyBridge
  <2> QED BY <2>1, <2>2, PTL DEF Services, WatchdogSpec
<1>4. Services => Backup!Spec
  <2>1. ServicesInit => Backup!Init
    BY DEF ServicesInit
  <2>2. [ServicesNext]_allVars => [Backup!Next]_(Backup!vars)
    BY Zenon DEF ServicesNext, allVars, backupVars, Backup!vars, OnlyLimiter, OnlyQueue,
           OnlyWatchdog, OnlyBackup, OnlyPilot, OnlyInventory, OnlyGate, OnlyRisk, OnlyBridge
  <2> QED BY <2>1, <2>2, PTL DEF Services, Backup!Spec
<1>5. Services => InventorySpec
  <2>1. ServicesInit => InventoryInit
    BY DEF ServicesInit
  <2>2. [ServicesNext]_allVars => [InventoryNext]_inventoryVars
    BY Zenon DEF ServicesNext, allVars, backupVars, Backup!vars, OnlyLimiter, OnlyQueue,
           OnlyWatchdog, OnlyBackup, OnlyPilot, OnlyInventory, OnlyGate, OnlyRisk, OnlyBridge
  <2> QED BY <2>1, <2>2, PTL DEF Services, InventorySpec
<1>6. Services => Spec
  <2>1. ServicesInit => Init
    BY DEF ServicesInit
  <2>2. [ServicesNext]_allVars => [Next]_vars
    BY Zenon DEF ServicesNext, allVars, backupVars, Backup!vars, OnlyLimiter, OnlyQueue,
           OnlyWatchdog, OnlyBackup, OnlyPilot, OnlyInventory, OnlyGate, OnlyRisk, OnlyBridge
  <2> QED BY <2>1, <2>2, PTL DEF Services, Spec
<1>7. Services => AccountSpec
  <2>1. ServicesInit => AccountInit
    BY DEF ServicesInit
  <2>2. [ServicesNext]_allVars => [AccountNext]_accountVars
    BY Zenon DEF ServicesNext, allVars, backupVars, Backup!vars, OnlyLimiter, OnlyQueue,
           OnlyWatchdog, OnlyBackup, OnlyPilot, OnlyInventory, OnlyGate, OnlyRisk, OnlyBridge
  <2> QED BY <2>1, <2>2, PTL DEF Services, AccountSpec
<1>8. Services => BridgeSpec
  <2>1. ServicesInit => BridgeInit
    BY DEF ServicesInit
  <2>2. [ServicesNext]_allVars => [BridgeNext]_bridgeVars
    BY Zenon DEF ServicesNext, allVars, backupVars, Backup!vars, OnlyLimiter, OnlyQueue,
           OnlyWatchdog, OnlyBackup, OnlyPilot, OnlyInventory, OnlyGate, OnlyRisk, OnlyBridge
  <2> QED BY <2>1, <2>2, PTL DEF Services, BridgeSpec
<1>9. Services /\ service = "trial" => Trial!PilotSpec
  <2>1. ServicesInit /\ service = "trial" => Trial!PilotInit
    BY DEF ServicesInit
  <2>2. service = "trial" /\ [ServicesNext]_allVars => (service = "trial")'
    BY ServiceStays
  <2>3. service = "trial" /\ [ServicesNext]_allVars => [Trial!PilotNext]_(Trial!pilotVars)
    BY DEF ServicesNext, allVars, backupVars, Backup!vars, OnlyLimiter, OnlyQueue,
           OnlyWatchdog, OnlyBackup, OnlyPilot, OnlyInventory, OnlyGate, OnlyRisk, OnlyBridge,
           Trial!pilotVars, Trial!stateFile, pilotVars, stateFile
  <2> QED BY <2>1, <2>2, <2>3, PTL DEF Services, Trial!PilotSpec
<1>10. Services /\ service # "trial" => PilotSpec
  <2>1. ServicesInit /\ service # "trial" => PilotInit
    BY DEF ServicesInit
  <2>2. service # "trial" /\ [ServicesNext]_allVars => (service # "trial")'
    BY ServiceStays
  <2>3. service # "trial" /\ [ServicesNext]_allVars => [PilotNext]_pilotVars
    BY DEF ServicesNext, allVars, backupVars, Backup!vars, OnlyLimiter, OnlyQueue,
           OnlyWatchdog, OnlyBackup, OnlyPilot, OnlyInventory, OnlyGate, OnlyRisk, OnlyBridge
  <2> QED BY <2>1, <2>2, <2>3, PTL DEF Services, PilotSpec
<1> QED BY <1>1, <1>2, <1>3, <1>4, <1>5, <1>6, <1>7, <1>8, <1>9, <1>10, PTL

\* Every variable of every service keeps its kind, and every counter its bound, for all
\* the constants the services allow.
THEOREM ServicesTypes == ASSUME ServicesAssumption PROVE Services => []TypesOK
<1>1. /\ BackupAssumption /\ FaultsAssumption /\ PilotAssumption /\ CountsAreNatural /\ BoundsAreNatural
      /\ MaxIntents \in Nat /\ MaxCommands \in Nat /\ MaxSockets \in Nat
  BY DEF ServicesAssumption
<1>2. Limiter => []TokensOK
  <2>1. LimiterInv => TokensOK
    BY DEF LimiterInv
  <2> QED BY <2>1, LimiterInvariant, PTL
<1>3. QueueSpec => []QueueTypeOK
  BY QueueTypes
<1>4. WatchdogSpec => []WatchdogTypeOK
  BY WatchdogTypes
<1>5. Backup!Spec => []Backup!TypeOK
  BY <1>1, BackupTypes
<1>6. InventorySpec => []InventoryTypeOK
  BY <1>1, InventoryTypes
<1>7. Spec => []TypeOK
  BY <1>1, GateTypes
<1>8. AccountSpec => []AccountTypeOK
  BY <1>1, AccountTypes
<1>9. BridgeSpec => []BridgeTypeOK
  BY <1>1, BridgeTypes
<1>10. Services => [](IF service = "trial" THEN Trial!PilotTypeOK ELSE PilotTypeOK)
  <2>1. Trial!PilotSpec => []Trial!PilotTypeOK
    BY <1>1, TrialTypes
  <2>2. PilotSpec => []PilotTypeOK
    BY <1>1, PilotTypes
  <2>3. service = "trial" /\ Trial!PilotTypeOK => IF service = "trial" THEN Trial!PilotTypeOK ELSE PilotTypeOK
    OBVIOUS
  <2>4. service # "trial" /\ PilotTypeOK => IF service = "trial" THEN Trial!PilotTypeOK ELSE PilotTypeOK
    OBVIOUS
  <2>5. service = "trial" \/ service # "trial"
    OBVIOUS
  <2> QED BY <2>1, <2>2, <2>3, <2>4, <2>5, ServiceStays, ServicesAreTheirOwn, PTL DEF Services
<1>11. TokensOK /\ QueueTypeOK /\ WatchdogTypeOK /\ Backup!TypeOK /\ InventoryTypeOK
         /\ TypeOK /\ AccountTypeOK /\ BridgeTypeOK
         /\ (IF service = "trial" THEN Trial!PilotTypeOK ELSE PilotTypeOK)
       => TypesOK
  BY DEF TypesOK
<1> QED BY <1>2, <1>3, <1>4, <1>5, <1>6, <1>7, <1>8, <1>9, <1>10, <1>11, ServicesAreTheirOwn, PTL
=============================================================================
