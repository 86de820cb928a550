---------------------------- MODULE GradientPilot ----------------------------
(***************************************************************************)
(* The budget of a WTI gradient: a pilot is one round, it opens layers in  *)
(* tiers and ends when the last layer is closed. A bounded trial grants a  *)
(* number of rounds; a continuous session, adopted by an operator, follows *)
(* a finished round with a successor, and takes a closed tier again only   *)
(* after its edge fell back. The link from a round to the next is several  *)
(* saves of the state file, and the runtime can die between any two.       *)
(*                                                                         *)
(* The legs of an action are the business of PairExecutor: here an action  *)
(* is pending until Settle archives it. Edges are whole steps: tier t      *)
(* needs t + 1, the two directions' edges add up to 1 (the spread), and a  *)
(* round rearms Buffer below tier 1. Left out: the strong single probe,    *)
(* amounts, the single-round pilot, the rotation's session.                *)
(***************************************************************************)
EXTENDS Integers, Sequences, FiniteSets, SequencesExt

CONSTANTS MaxTier, Edges, Rearm, MaxRounds, \* tiers, edges of a sample, samples that rearm, rounds
          MaxActions, MaxDeaths            \* bounds on the orders and on the deaths of the runtime

VARIABLES
  mode,      \* the runtime's command line: "trial" or "continuous"
  pilot,     \* the round the state file holds
  position,  \* [dir, layers] of the open position; layers are [id, tier], in the order of their ids
  pending_action,   \* the pending action
  trial,     \* the record of the bounded trial
  session,   \* the record of the continuous session: its last pilot, 0 before the adoption
  step,      \* what the runtime does next
  recent,    \* the confirmation window: signed tiers of the last samples
  managing,  \* manage_existing_only, or the authorization was revoked
  actions, deaths,
  undipped   \* history: tiers closed in the session whose edge has not been below since

stateFile == <<pilot, position, pending_action, trial, session>>
pilotVars == <<mode, stateFile, step, recent, managing, actions, deaths, undipped>>

Tiers == 1..MaxTier
Directions == {"long", "short"}
Opposite(d) == CHOOSE o \in Directions : o # d

Edge(d, e) == IF d = "long" THEN e ELSE 1 - e
Threshold(t) == t + 1
Buffer == 2

\* How many thresholds an edge passes, and what the confirmation window keeps of a sample.
RawTier(d, e) == Cardinality({t \in Tiers : Edge(d, e) >= Threshold(t)})
Signed(e) == RawTier("long", e) - RawTier("short", e)
TierIn(d, s) == IF d = "long" THEN s ELSE 0 - s

\* The highest tier the newest sample passes and two of the last three do.
ConfirmedBy(window, d) ==
  LET agreed == {t \in Tiers : /\ window # <<>> /\ TierIn(d, Last(window)) >= t
                               /\ Cardinality({i \in DOMAIN window : TierIn(d, window[i]) >= t}) >= 2}
  IN  IF agreed = {} THEN 0 ELSE CHOOSE t \in agreed : \A u \in agreed : u <= t
ConfirmedTiers(d) == ConfirmedBy(recent, d)

-----------------------------------------------------------------------------
(* The records of the state file. *)

NoPosition == [dir |-> "none", layers |-> {}]
NoAction == [kind |-> "none"]
NoRearm == [required |-> FALSE, armed |-> TRUE, dir |-> "none", count |-> 0]
AllArmed == [d \in Directions |-> [t \in Tiers |-> "armed"]]

NewPilot(id, previous, manual, equity) ==
  [id |-> id, previous |-> previous, manual |-> manual, equity |-> equity, status |-> "available",
   opened |-> {}, exhausted |-> {}, tier |-> AllArmed, round |-> NoRearm, done |-> 0,
   reserved |-> 0]
NoTrial == [status |-> "none", rounds |-> <<>>, completed |-> <<>>, from |-> 0]

Flat == position = NoPosition /\ pending_action = NoAction
Resolved == pending_action = NoAction
TiersOf(layers) == {l.tier : l \in layers}
IdsOf(layers) == {l.id : l \in layers}
TiersInOrder(layers) ==
  [n \in 1..Cardinality(layers) |->
     (CHOOSE l \in layers : Cardinality({m \in layers : m.id < l.id}) = n - 1).tier]

PendingActions ==
  {NoAction} \cup [kind : {"open"}, id : 1..MaxActions, tier : Tiers, dir : Directions,
                   confirmed : BOOLEAN, previous : {position}]
             \cup [kind : {"close"}, id : 1..MaxActions, closing : SUBSET position.layers]

PilotTypeOK ==
  /\ mode \in {"trial", "continuous"} /\ managing \in BOOLEAN
  /\ pilot.id \in Nat \ {0} /\ pilot.previous \in 0..(pilot.id - 1)
  /\ pilot.status \in {"available", "entry_pending", "in_position", "completed", "exhausted"}
  /\ pilot.tier \in [Directions -> [Tiers -> {"armed", "closed", "dipped"}]]
  /\ pilot.round.count \in 0..Rearm
  /\ pending_action \in PendingActions
  /\ trial.status \in {"none", "active", "completed", "superseded"}
  /\ session \in 0..pilot.id
  /\ step \in {"down", "settle", "advance", "intended", "created", "createdAgain", "sample", "again", "decide"}
  /\ recent \in UNION {[1..n -> -MaxTier..MaxTier] : n \in 0..3}
  /\ undipped \in [Directions -> SUBSET Tiers]

PilotInit ==
  /\ mode = "trial" /\ pilot = NewPilot(1, 0, FALSE, FALSE)
  /\ position = NoPosition /\ pending_action = NoAction /\ trial = NoTrial /\ session = 0
  /\ step = "down" /\ recent = <<>> /\ managing = FALSE /\ actions = 0 /\ deaths = 0
  /\ undipped = [d \in Directions |-> {}]

-----------------------------------------------------------------------------
(* The trial's record. ensure_trial binds it once and finishes a link that a *)
(* death interrupted; every start and every advance goes through it.        *)

Root == 1

ChainHolds ==
  LET ids == trial.rounds IN
  /\ ids # <<>> /\ ids[1] = Root /\ IsInjective(ids) /\ Len(ids) <= MaxRounds
  /\ IsPrefix(trial.completed, ids)
  /\ trial.status \in {"active", "completed"}
  /\ \/ pilot.id = Last(ids) /\ trial.from \in {0, pilot.id}
     \/ /\ pilot.id # Last(ids) /\ trial.status = "active" /\ trial.from = Last(ids)
        /\ trial.completed = ids /\ Len(ids) < MaxRounds
        /\ pilot.previous = trial.from /\ pilot.manual

TrialAccepted ==
  \/ ChainHolds
  \/ /\ trial = NoTrial /\ Flat /\ pilot.id = Root
     /\ pilot.status = "available" /\ pilot.opened = {} /\ pilot.done = 0

EnsuredTrial ==
  IF trial = NoTrial THEN [NoTrial EXCEPT !.status = "active", !.rounds = <<Root>>]
  ELSE IF pilot.id = Last(trial.rounds) THEN trial
  ELSE [trial EXCEPT !.rounds = Append(@, pilot.id), !.from = 0]

EnsureTrial == TrialAccepted /\ trial' = EnsuredTrial

\* A round may be followed: it is over, nothing is open, and it may be taken up again.
Terminal ==
  \/ pilot.status = "completed" /\ pilot.done = 1
  \/ pilot.status = "exhausted" /\ pilot.done = 0 /\ pilot.opened = {}
MayFollow == Flat /\ Terminal /\ (pilot.round.required => pilot.round.armed)

\* initialize_gradient_pilot(manual_new_pilot_after = the pilot): one save.
SuccessorUnlinked == NewPilot(pilot.id + 1, 0, TRUE, pilot.equity)   \* mutant
Successor == NewPilot(pilot.id + 1, pilot.id, TRUE, pilot.equity)

-----------------------------------------------------------------------------
(* Start and death of the runtime. *)

\* The process starts: a trial's record is checked first, and what is pending
\* is reconciled before anything else.
Boot ==
  /\ step = "down"
  /\ IF mode = "trial" THEN EnsureTrial ELSE UNCHANGED trial
  /\ managing' \in BOOLEAN
  /\ step' = IF Resolved THEN "advance" ELSE "settle"
  /\ recent' = <<>>
  /\ UNCHANGED <<mode, pilot, position, pending_action, session, actions, deaths, undipped>>

RuntimeDies ==
  /\ step # "down" /\ deaths < MaxDeaths
  /\ step' = "down" /\ recent' = <<>> /\ managing' = FALSE /\ deaths' = deaths + 1
  /\ UNCHANGED <<mode, stateFile, actions, undipped>>

\* An operator starts the next process as a continuous session.
Adopt ==
  /\ step = "down" /\ mode = "trial"
  /\ mode' = "continuous"
  /\ UNCHANGED <<stateFile, step, recent, managing, actions, deaths, undipped>>

-----------------------------------------------------------------------------
(* From one round to the next. Each of these is one save of the state file. *)

\* The advance is over: the sample is next, or the decision when a sample was taken.
AfterAdvance == IF step \in {"again", "createdAgain"} THEN "decide" ELSE "sample"

StayInRound ==
  /\ \/ step = "advance" /\ mode = "trial" /\ (managing \/ trial.status = "completed" \/
                                              pilot.status # "completed" \/ ~Flat)
     \/ step \in {"advance", "again"} /\ mode = "continuous" /\ managing
     \/ /\ step \in {"advance", "again"} /\ mode = "continuous" /\ ~managing
        /\ session = pilot.id /\ ~MayFollow
  /\ step' = AfterAdvance
  /\ UNCHANGED <<mode, stateFile, recent, managing, actions, deaths, undipped>>

\* advance_trial up to its intent: the round is counted, and the trial ends
\* or remembers which round it advances from.
CountRound ==
  /\ step = "advance" /\ mode = "trial" /\ ~managing /\ trial.status # "completed"
  /\ Flat /\ pilot.status = "completed" /\ TrialAccepted
  /\ \E ensured \in {EnsuredTrial} :
     \E counted \in {IF pilot.id \in ToSet(ensured.completed) THEN ensured.completed
                     ELSE Append(ensured.completed, pilot.id)} :
       IF Len(counted) >= MaxRounds
       THEN /\ trial' = [ensured EXCEPT !.completed = counted, !.status = "completed", !.from = 0]
            /\ step' = "sample"
       ELSE /\ trial' = [ensured EXCEPT !.completed = counted, !.from = pilot.id]
            /\ step' = "intended"
  /\ UNCHANGED <<mode, pilot, position, pending_action, session, recent, managing, actions, deaths, undipped>>

\* ensure_continuous: the first call adopts the pilot and its position, a later
\* one takes the successor into the chain.
EnsureContinuous ==
  /\ step \in {"advance", "again"} /\ mode = "continuous" /\ ~managing /\ session # pilot.id
  /\ Resolved
  /\ IF session = 0
     THEN /\ pilot' = [pilot EXCEPT !.equity = TRUE]
          /\ trial' = IF trial = NoTrial THEN trial ELSE [trial EXCEPT !.status = "superseded"]
     ELSE /\ pilot.previous = session /\ pilot.manual /\ pilot.equity
          /\ UNCHANGED <<pilot, trial>>
  /\ session' = pilot.id
  /\ UNCHANGED <<mode, position, pending_action, step, recent, managing, actions, deaths, undipped>>

CreateSuccessor ==
  /\ \/ step = "intended" /\ mode = "trial"
     \/ step \in {"advance", "again"} /\ mode = "continuous" /\ ~managing /\ session = pilot.id
  /\ MayFollow
  /\ pilot' = Successor
  /\ step' = IF step = "again" THEN "createdAgain" ELSE "created"
  /\ UNCHANGED <<mode, position, pending_action, trial, session, recent, managing, actions, deaths, undipped>>

\* The second ensure: the successor joins the record, the confirmation window starts afresh.
LinkSuccessor ==
  /\ step \in {"created", "createdAgain"}
  /\ IF mode = "trial" THEN EnsureTrial /\ UNCHANGED session
     ELSE session' = pilot.id /\ UNCHANGED trial
  /\ step' = AfterAdvance
  /\ recent' = <<>>
  /\ UNCHANGED <<mode, pilot, position, pending_action, managing, actions, deaths, undipped>>

-----------------------------------------------------------------------------
(* A sample: the confirmation window, and what waits for an edge to fall back. *)

\* A closed tier is armed again once its edge was seen below its threshold and
\* the tier is confirmed anew; a gap in the samples forgets that it was seen.
RearmTier(d, t, was, e, gap, confirmed) ==
  IF was = "armed" THEN was
  ELSE LET kept == IF gap THEN "closed" ELSE was
           seen == IF Edge(d, e) < Threshold(t) THEN "dipped" ELSE kept
       IN  IF seen = "dipped" /\ confirmed >= t THEN "armed" ELSE seen

\* A finished round is armed again by Rearm samples well below tier 1, or, when
\* nothing is held, by a confirmed signal of the other direction.
RearmRoundLate(r, e, gap, flat, opposite) ==   \* mutant: one sample more than asked for
  IF r.armed THEN r
  ELSE [r EXCEPT !.count = @ + 1, !.armed = r.count >= Rearm]
RearmRound(r, e, gap, flat, opposite) ==
  IF r.armed THEN r
  ELSE IF flat /\ opposite >= 1 THEN [r EXCEPT !.armed = TRUE, !.count = 0]
  ELSE LET counted == IF Edge(r.dir, e) > Threshold(1) - Buffer THEN 0
                      ELSE (IF gap THEN 0 ELSE r.count) + 1
       IN  [r EXCEPT !.count = counted, !.armed = counted >= Rearm]

Observe(e, gap) ==
  /\ step = "sample" /\ Resolved
  /\ \E window \in {LET all == Append(recent, Signed(e)) IN IF Len(all) > 3 THEN Tail(all) ELSE all} :
       /\ recent' = window
       /\ IF mode = "continuous"
          THEN /\ pilot' = [pilot EXCEPT
                   !.tier = [d \in Directions |-> [t \in Tiers |->
                     RearmTier(d, t, pilot.tier[d][t], e, gap, ConfirmedBy(window, d))]],
                   !.round = IF ~pilot.round.required THEN pilot.round
                             ELSE RearmRound(pilot.round, e, gap, Flat,
                                             ConfirmedBy(window, Opposite(pilot.round.dir)))]
               /\ step' = "again"
          ELSE UNCHANGED pilot /\ step' = "decide"
  /\ undipped' = [d \in Directions |-> {t \in undipped[d] : Edge(d, e) >= Threshold(t)}]
  /\ UNCHANGED <<mode, position, pending_action, trial, session, managing, actions, deaths>>

-----------------------------------------------------------------------------
(* The decision and the preflight of the coordinator. *)

\* The runtime clears the confirmed tiers of a pilot that followed another in
\* the continuous mode: meant for a round that was just armed, but the pilot
\* keeps the mark for good (wti_live.py:3028).
NeverActivated(d) == IF pilot.manual THEN 0 ELSE ConfirmedTiers(d)   \* mutant: in every mode
Activated(d) == IF mode = "continuous" /\ pilot.manual THEN 0 ELSE ConfirmedTiers(d)

\* signal_tier: the highest confirmed tier that is armed.
EntryTiers(d) == {t \in 1..Activated(d) : pilot.tier[d][t] = "armed"}

Budget(d, t) ==
  /\ pilot.done = 0 /\ t \notin pilot.exhausted /\ pilot.tier[d][t] = "armed"
  /\ pilot.round.required => pilot.round.armed
  /\ IF position = NoPosition THEN pilot.status = "available" /\ pilot.opened = {}
     ELSE pilot.status = "in_position" /\ pilot.opened # {} /\ position.dir = d

EnterTier(d) ==
  /\ step = "decide" /\ Resolved /\ ~managing /\ actions < MaxActions
  /\ EntryTiers(d) # {}
  /\ \E t \in {CHOOSE c \in EntryTiers(d) : \A o \in EntryTiers(d) : o <= c} :
       /\ Budget(d, t)
       /\ pending_action' = [kind |-> "open", id |-> actions + 1, tier |-> t, dir |-> d,
                      confirmed |-> Activated(d) = t, previous |-> position]
       /\ pilot' = [pilot EXCEPT !.status = "entry_pending", !.reserved = actions + 1]
  /\ actions' = actions + 1 /\ step' = "settle"
  /\ UNCHANGED <<mode, position, trial, session, recent, managing, deaths, undipped>>

\* A risk, session or time exit closes everything; a profit exit of the
\* continuous mode closes the layers of one tier.
CloseLayers(layers) ==
  /\ step = "decide" /\ Resolved /\ position # NoPosition /\ actions < MaxActions
  /\ pending_action' = [kind |-> "close", id |-> actions + 1, closing |-> layers]
  /\ actions' = actions + 1 /\ step' = "settle"
  /\ UNCHANGED <<mode, pilot, position, trial, session, recent, managing, deaths, undipped>>

CloseTier(t) == /\ pilot.equity /\ t \in TiersOf(position.layers)
                /\ CloseLayers({l \in position.layers : l.tier = t})

\* Any other gate (risk, session, capacity, depth) holds the decision back.
HoldPosition ==
  /\ step = "decide" /\ step' = "advance"
  /\ UNCHANGED <<mode, stateFile, recent, managing, actions, deaths, undipped>>

-----------------------------------------------------------------------------
(* The end of an action, when its legs are settled or reconciled. *)

\* _archive_execution: whether the pilot's record fits the entry.
EntryFits ==
  LET prior == TiersOf(pilot.opened) IN
  /\ pilot.status = "entry_pending" /\ pending_action.tier <= MaxTier
  /\ \/ /\ pilot.equity \/ pending_action.confirmed
        /\ (pending_action.previous = NoPosition) <=> (prior = {})
     \/ pending_action.tier = 1 /\ prior = {} /\ pending_action.previous = NoPosition
     \/ /\ pending_action.previous # NoPosition /\ prior # {}
        /\ \E m \in prior : (\A o \in prior : o <= m) /\ pending_action.tier \in {m, m + 1}
  /\ pilot.equity => pilot.reserved = pending_action.id

SettleOpen(filled) ==
  /\ step = "settle" /\ pending_action.kind = "open" /\ EntryFits
  /\ \E layer \in {[id |-> pending_action.id, tier |-> pending_action.tier]} :
       IF filled
       THEN /\ pilot' = [pilot EXCEPT !.status = "in_position", !.opened = @ \cup {layer}]
            /\ position' = [dir |-> pending_action.dir, layers |-> pending_action.previous.layers \cup {layer}]
       ELSE /\ pilot' = [pilot EXCEPT !.exhausted = @ \cup {pending_action.tier},
                           !.status = IF pending_action.previous = NoPosition THEN "exhausted" ELSE "in_position"]
            /\ position' = pending_action.previous
  /\ pending_action' = NoAction /\ step' = "advance"
  /\ UNCHANGED <<mode, trial, session, recent, managing, actions, deaths, undipped>>

\* _complete_gradient_pilot: whether the pilot's layers are those of the position.
Remaining == {l \in position.layers : l.id \notin IdsOf(pending_action.closing)}
CloseFits ==
  IF Remaining # {} /\ pilot.equity
  THEN IdsOf(pending_action.closing) \cup IdsOf(Remaining) = IdsOf(pilot.opened)
  ELSE /\ pilot.status = "in_position" /\ pilot.done = 0
       /\ TiersInOrder(pending_action.closing) = TiersInOrder(pilot.opened)

StaysArmed == pilot.tier   \* mutant
Disarmed == [pilot.tier EXCEPT ![position.dir] =
               [t \in Tiers |-> IF t \in TiersOf(pending_action.closing) THEN "closed" ELSE @[t]]]

AllOpened == pilot.opened   \* mutant
StillOpened == {l \in pilot.opened : l.id \in IdsOf(Remaining)}

SettleClose ==
  /\ step = "settle" /\ pending_action.kind = "close" /\ CloseFits
  /\ IF Remaining # {}
     THEN /\ pilot' = [pilot EXCEPT !.opened = StillOpened,
                                    !.tier = Disarmed, !.status = "in_position"]
          /\ position' = [position EXCEPT !.layers = Remaining]
     ELSE /\ pilot' = [pilot EXCEPT !.status = "completed", !.done = 1,
                         !.tier = IF pilot.equity THEN Disarmed ELSE @,
                         !.round = IF pilot.equity
                                   THEN [required |-> TRUE, armed |-> FALSE, dir |-> position.dir, count |-> 0]
                                   ELSE @]
          /\ position' = NoPosition
  /\ undipped' = IF pilot.equity
                 THEN [undipped EXCEPT ![position.dir] = @ \cup TiersOf(pending_action.closing)] ELSE undipped
  /\ pending_action' = NoAction /\ step' = "advance"
  /\ UNCHANGED <<mode, trial, session, recent, managing, actions, deaths>>

\* A close that did not trade leaves the position as it was.
CloseNotFilled ==
  /\ step = "settle" /\ pending_action.kind = "close"
  /\ pending_action' = NoAction /\ step' = "advance"
  /\ UNCHANGED <<mode, pilot, position, trial, session, recent, managing, actions, deaths, undipped>>

-----------------------------------------------------------------------------
Advance == StayInRound \/ CountRound \/ EnsureContinuous \/ CreateSuccessor \/ LinkSuccessor
Settle == SettleClose \/ CloseNotFilled \/ \E filled \in BOOLEAN : SettleOpen(filled)
CloseSome == CloseLayers(position.layers) \/ \E t \in Tiers : CloseTier(t)

PilotNext ==
  \/ Boot \/ RuntimeDies \/ Adopt \/ Advance \/ Settle \/ HoldPosition \/ CloseSome
  \/ \E e \in Edges, gap \in BOOLEAN : Observe(e, gap)
  \/ \E d \in Directions : EnterTier(d)

PilotSpec == PilotInit /\ [][PilotNext]_pilotVars

\* A runtime that lives goes through its loop; a candidate that comes up again
\* and again passes the other gates in the end.
PilotCycle == Boot \/ Advance \/ Settle \/ HoldPosition \/ \E e \in Edges, gap \in BOOLEAN : Observe(e, gap)
FairPilot == PilotSpec /\ WF_pilotVars(PilotCycle) /\ SF_pilotVars(\E d \in Directions : EnterTier(d))

-----------------------------------------------------------------------------
(* Properties. *)

\* The record of the pilot always fits the action that is pending: archiving
\* never refuses, which after both fills would leave the file pending for good.
ArchiveNeverRefuses ==
  /\ pending_action.kind = "open" => EntryFits
  /\ pending_action.kind = "close" => CloseFits

\* Wherever the runtime dies between the saves of an advance, the next start
\* and the next advance accept the chain of rounds they find.
ChainIsVerifiable ==
  /\ mode = "trial" => TrialAccepted
  /\ session \notin {0, pilot.id} => pilot.previous = session /\ pilot.manual /\ pilot.equity

\* In a continuous session no order goes to a tier that was closed and whose
\* edge has not been below its threshold since, in whichever round.
ReentryNeedsDip == pending_action.kind = "open" => pending_action.tier \notin undipped[pending_action.dir]

\* A round that waits while its signal is confirmed again and again is entered.
RoundWaits == pilot.status = "available" /\ ~managing /\ actions < MaxActions
Signalled == step = "decide" /\ \E d \in Directions : ConfirmedTiers(d) > 0
RoundsAreEntered == <>[]RoundWaits => ~[]<>Signalled
TrialRoundsAreEntered == <>[](RoundWaits /\ mode = "trial") => ~[]<>Signalled

=============================================================================
