------------------------ MODULE GradientPilotProofs ------------------------
(***************************************************************************)
(* For every number of tiers and rounds and every set of edges, and any    *)
(* number of orders and deaths of the runtime: the pilot's record fits     *)
(* every action that is archived, the chain of rounds is accepted wherever *)
(* the runtime died, and no closed tier is taken again before its edge     *)
(* fell back.                                                              *)
(***************************************************************************)
EXTENDS GradientPilot, FiniteSetTheorems, WellFoundedInduction, TLAPS

\* What the configuration file promises, and the bounds.
PilotAssumption ==
  /\ MaxTier \in Nat /\ Edges \subseteq Int /\ Rearm \in Nat \ {0} /\ MaxRounds \in Nat \ {0}
  /\ MaxActions \in Nat /\ MaxDeaths \in Nat

-----------------------------------------------------------------------------
(* The inductive invariant.                                                *)

Layer == [id : 1..MaxActions, tier : Tiers]
PilotStatuses == {"available", "entry_pending", "in_position", "completed", "exhausted"}
Rounds == [required : BOOLEAN, armed : BOOLEAN, dir : Directions \cup {"none"}, count : 0..Rearm]
Pilots ==
  [id : Nat \ {0}, previous : Nat, manual : BOOLEAN, equity : BOOLEAN, status : PilotStatuses,
   opened : SUBSET Layer, exhausted : SUBSET Tiers,
   tier : [Directions -> [Tiers -> {"armed", "closed", "dipped"}]], round : Rounds, done : {0, 1},
   reserved : 0..MaxActions]
Positions == {NoPosition} \cup [dir : Directions, layers : (SUBSET Layer) \ {{}}]
Trials ==
  [status : {"none", "active", "completed", "superseded"}, rounds : Seq(Nat \ {0}),
   completed : Seq(Nat \ {0}), from : Nat]

\* The records have their fields, and a round that waits counts up to Rearm.
TierRecordsOK ==
  /\ pilot \in Pilots /\ position \in Positions /\ trial \in Trials /\ actions \in 0..MaxActions
  /\ pilot.round.armed \/ pilot.round.count < Rearm

\* An action is pending exactly while the runtime settles it, or died over it;
\* a continuous session links a successor only when it has adopted a pilot.
LoopHolds ==
  /\ step = "settle" => pending_action # NoAction
  /\ pending_action # NoAction => step \in {"settle", "down"}
  /\ step = "intended" => mode = "trial"
  /\ step \in {"again", "createdAgain"} => mode = "continuous"
  /\ step \in {"created", "createdAgain"} => mode = "trial" \/ session # 0

\* The pilot of a round that is not over lists the layers of the position,
\* whose ids are those of their actions; what is pending comes after them.
TierBooksMatch ==
  /\ pilot.done = 0 => pilot.opened = position.layers
  /\ position # NoPosition =>
        pilot.done = 0 /\ (pending_action.kind # "open" => pilot.status = "in_position")
  /\ \A l \in position.layers : l.id <= actions
  /\ \A l, m \in position.layers : l.id = m.id => l = m
  /\ pending_action.kind = "open" =>
        pilot.done = 0 /\ pending_action.id = actions /\ \A l \in position.layers : l.id < actions
  /\ pending_action.kind = "close" =>
        position # NoPosition /\ (~pilot.equity => pending_action.closing = position.layers)
  /\ ~pilot.equity => pilot.tier = AllArmed

\* A continuous session has adopted its pilot and never returns to a trial.
SessionHolds ==
  /\ mode = "trial" => session = 0 /\ ~pilot.equity
  /\ session # 0 => pilot.equity

\* In a trial that was started the last round is the newest and the others are
\* counted, a running process has linked its pilot, and one that means to
\* advance has counted all.
TrialHolds ==
  mode = "trial" =>
    /\ trial = NoTrial => step = "down"
    /\ trial # NoTrial => /\ Len(trial.rounds) <= Len(trial.completed) + 1
                          /\ \A i \in DOMAIN trial.rounds : trial.rounds[i] <= Last(trial.rounds)
    /\ step \notin {"down", "created"} => pilot.id = Last(trial.rounds)
    /\ step = "intended" => /\ trial.status = "active" /\ trial.from = pilot.id
                            /\ trial.completed = trial.rounds /\ Len(trial.rounds) < MaxRounds

\* A tier that was closed and has not been below its edge since is still
\* closed, unless the pilot is a successor, whose tiers are never confirmed.
DipsAwaited ==
  \A d \in Directions : \A t \in undipped[d] :
    pilot.equity /\ (pilot.tier[d][t] = "closed" \/ pilot.manual)

PilotInv ==
  /\ PilotTypeOK /\ TierRecordsOK /\ LoopHolds /\ TierBooksMatch /\ SessionHolds /\ TrialHolds /\ DipsAwaited
  /\ ArchiveNeverRefuses /\ ChainIsVerifiable /\ ReentryNeedsDip

-----------------------------------------------------------------------------
(* Lemmas about the operators.                                             *)

\* Every set of naturals has a least member, and a bounded one a greatest.
LEMMA LeastOf ==
  ASSUME NEW T \in SUBSET Nat, T # {}
  PROVE  \E x \in T : \A y \in T : x <= y
<1>1. IsWellFoundedOn(OpToRel(<, Nat), Nat)
  BY NatLessThanWellFounded
<1>2. PICK x \in T : \A y \in T : ~ (<<y, x>> \in OpToRel(<, Nat))
  BY <1>1, WFMin
<1>3. \A y \in T : ~ (y < x)
  BY <1>2 DEF OpToRel
<1> QED BY <1>3

LEMMA GreatestOf ==
  ASSUME NEW n \in Nat, NEW T \in SUBSET (1..n), T # {}
  PROVE  \E x \in T : \A y \in T : y <= x
<1> DEFINE Rest == {n - t : t \in T}
<1>1. Rest \in SUBSET Nat /\ Rest # {}
  <2>1. \A t \in T : n - t \in Nat
    OBVIOUS
  <2>2. PICK t \in T : TRUE
    OBVIOUS
  <2>3. n - t \in Rest
    OBVIOUS
  <2> QED BY <2>1, <2>3
<1>2. PICK r \in Rest : \A s \in Rest : r <= s
  <2> HIDE DEF Rest
  <2> QED BY <1>1, LeastOf
<1>3. PICK x \in T : r = n - x
  BY <1>2
<1>4. \A y \in T : n - x <= n - y
  BY <1>2, <1>3
<1>5. \A y \in T : y \in 1..n
  OBVIOUS
<1> QED BY <1>4, <1>5

\* A confirmed tier is a tier, or none is confirmed.
LEMMA ConfirmedIsTier ==
  ASSUME PilotAssumption, NEW window, NEW d
  PROVE  ConfirmedBy(window, d) \in 0..MaxTier
<1> DEFINE agreed == {t \in Tiers : /\ window # <<>> /\ TierIn(d, Last(window)) >= t
                                    /\ Cardinality({i \in DOMAIN window : TierIn(d, window[i]) >= t}) >= 2}
<1>1. agreed \in SUBSET (1..MaxTier) /\ MaxTier \in Nat
  BY DEF Tiers, PilotAssumption
<1>2. ConfirmedBy(window, d) = IF agreed = {} THEN 0 ELSE CHOOSE t \in agreed : \A u \in agreed : u <= t
  BY DEF ConfirmedBy
<1> HIDE DEF agreed
<1>3. CASE agreed = {}
  BY <1>1, <1>2, <1>3
<1>4. CASE agreed # {}
  <2>1. \E t \in agreed : \A u \in agreed : u <= t
    BY <1>1, <1>4, GreatestOf
  <2>2. ConfirmedBy(window, d) \in agreed
    BY <1>2, <1>4, <2>1
  <2>3. \A t \in agreed : t \in 0..MaxTier
    BY <1>1
  <2> QED BY <2>2, <2>3
<1> QED BY <1>3, <1>4

\* The sign and the tier of a sample stay within the tiers.
LEMMA SignedIsTier ==
  ASSUME PilotAssumption, NEW e
  PROVE  Signed(e) \in -MaxTier..MaxTier
<1>1. ASSUME NEW d PROVE RawTier(d, e) \in 0..MaxTier
  <2>1. IsFiniteSet(1..MaxTier) /\ Cardinality(1..MaxTier) = MaxTier /\ MaxTier \in Nat
    BY FS_Interval DEF PilotAssumption
  <2>2. {t \in Tiers : Edge(d, e) >= Threshold(t)} \in SUBSET (1..MaxTier)
    BY DEF Tiers
  <2>3. /\ Cardinality({t \in Tiers : Edge(d, e) >= Threshold(t)}) \in Nat
        /\ Cardinality({t \in Tiers : Edge(d, e) >= Threshold(t)}) <= MaxTier
    BY <2>1, <2>2, FS_Subset, FS_CardinalityType
  <2> QED BY <2>1, <2>3 DEF RawTier
<1>2. RawTier("long", e) \in 0..MaxTier /\ RawTier("short", e) \in 0..MaxTier
  BY <1>1
<1> QED BY <1>2 DEF Signed, PilotAssumption

\* What a pending action is.
LEMMA PendingKinds ==
  ASSUME pending_action \in PendingActions
  PROVE  /\ pending_action.kind \in {"none", "open", "close"}
         /\ pending_action = NoAction <=> pending_action.kind = "none"
         /\ pending_action.kind = "open" =>
              /\ pending_action.id \in 1..MaxActions /\ pending_action.tier \in Tiers
              /\ pending_action.dir \in Directions /\ pending_action.confirmed \in BOOLEAN
              /\ pending_action.previous = position
         /\ pending_action.kind = "close" =>
              pending_action.id \in 1..MaxActions /\ pending_action.closing \subseteq position.layers
BY DEF PendingActions, NoAction

LEMMA PilotInvInit == ASSUME PilotAssumption PROVE PilotInit => PilotInv
<1> SUFFICES ASSUME PilotInit PROVE PilotInv
  OBVIOUS
<1> USE DEF PilotInit, NewPilot, NoPosition, NoAction, NoTrial, NoRearm, Directions
<1>1. pilot \in Pilots
  BY DEF Pilots, PilotStatuses, Rounds, AllArmed, PilotAssumption
<1>2. PilotTypeOK
  <2>1. recent \in UNION {[1..n -> -MaxTier..MaxTier] : n \in 0..3}
    <3>1. recent \in [1..0 -> -MaxTier..MaxTier]
      OBVIOUS
    <3> QED BY <3>1
  <2>2. pilot.tier \in [Directions -> [Tiers -> {"armed", "closed", "dipped"}]]
    BY DEF AllArmed
  <2>3. pending_action \in PendingActions
    BY DEF PendingActions
  <2>4. undipped \in [Directions -> SUBSET Tiers]
    OBVIOUS
  <2>5. pilot.id = 1 /\ pilot.previous = 0 /\ pilot.round.count = 0 /\ pilot.status = "available"
    OBVIOUS
  <2>6. mode = "trial" /\ trial.status = "none" /\ session = 0 /\ step = "down"
    OBVIOUS
  <2>7. managing \in BOOLEAN
    OBVIOUS
  <2>8. pilot.id \in Nat \ {0} /\ pilot.previous \in 0..(pilot.id - 1) /\ session \in 0..pilot.id
    BY <2>5, <2>6
  <2>9. pilot.round.count \in 0..Rearm
    BY <2>5 DEF PilotAssumption
  <2> HIDE DEF PilotInit, NewPilot, NoPosition, NoAction, NoTrial, NoRearm, Directions
  <2> QED BY <2>1, <2>2, <2>3, <2>4, <2>5, <2>6, <2>7, <2>8, <2>9 DEF PilotTypeOK
<1>3. TierRecordsOK
  BY <1>1 DEF TierRecordsOK, Positions, Trials, PilotAssumption
<1>4. LoopHolds /\ TierBooksMatch /\ SessionHolds
  BY DEF LoopHolds, TierBooksMatch, SessionHolds
<1>5. TrialHolds
  BY DEF TrialHolds
<1>6. DipsAwaited /\ ArchiveNeverRefuses /\ ReentryNeedsDip
  BY DEF DipsAwaited, ArchiveNeverRefuses, ReentryNeedsDip
<1>7. ChainIsVerifiable
  BY DEF ChainIsVerifiable, TrialAccepted, Flat, Root
<1> QED BY <1>2, <1>3, <1>4, <1>5, <1>6, <1>7 DEF PilotInv

-----------------------------------------------------------------------------
(* What an action keeps by leaving variables alone.                        *)

Steps == {"down", "settle", "advance", "intended", "created", "createdAgain", "sample", "again", "decide"}
SampleWindows == UNION {[1..n -> -MaxTier..MaxTier] : n \in 0..3}

\* The pilot, the position and what is pending belong together.
LEMMA BooksKept ==
  ASSUME PilotInv, UNCHANGED <<pilot, position, pending_action, actions>>
  PROVE  /\ TierBooksMatch' /\ ArchiveNeverRefuses' /\ pending_action' \in PendingActions'
         /\ pilot' \in Pilots /\ position' \in Positions /\ actions' \in 0..MaxActions
         /\ (pilot.round.armed \/ pilot.round.count < Rearm)'
<1>1. TierBooksMatch'
  BY DEF PilotInv, TierBooksMatch
<1>2. ArchiveNeverRefuses'
  <2>1. EntryFits' <=> EntryFits
    BY DEF EntryFits
  <2>2. CloseFits' <=> CloseFits
    <3>1. Remaining' = Remaining
      BY DEF Remaining
    <3> QED BY <3>1 DEF CloseFits
  <2> QED BY <2>1, <2>2 DEF PilotInv, ArchiveNeverRefuses
<1>3. pending_action' \in PendingActions'
  <2>1. PendingActions' = PendingActions
    BY DEF PendingActions
  <2> QED BY <2>1 DEF PilotInv, PilotTypeOK
<1> QED BY <1>1, <1>2, <1>3 DEF PilotInv, TierRecordsOK

\* So do the pilot's tiers and the history of the closed ones.
LEMMA DipsKept ==
  ASSUME PilotInv, UNCHANGED <<pilot, pending_action, undipped>>
  PROVE  DipsAwaited' /\ ReentryNeedsDip'
BY DEF PilotInv, DipsAwaited, ReentryNeedsDip

\* The trial's record of a process that runs, when the pilot stays.
LEMMA RecordKept ==
  ASSUME PilotInv, mode = "trial", step # "down", trial' = trial,
         pilot'.id = pilot.id, pilot'.previous = pilot.previous, pilot'.manual = pilot.manual
  PROVE  /\ TrialAccepted' /\ trial' # NoTrial
         /\ Len(trial'.rounds) <= Len(trial'.completed) + 1
         /\ \A i \in DOMAIN trial'.rounds : trial'.rounds[i] <= Last(trial'.rounds)
         /\ pilot.id = Last(trial.rounds) => pilot'.id = Last(trial'.rounds)
<1>1. trial # NoTrial /\ TrialAccepted
  BY DEF PilotInv, TrialHolds, ChainIsVerifiable
<1>2. ChainHolds
  BY <1>1 DEF TrialAccepted
<1>3. ChainHolds'
  BY <1>2 DEF ChainHolds
<1> QED BY <1>1, <1>3 DEF TrialAccepted, PilotInv, TrialHolds

\* The types, when the records keep theirs.
LEMMA TypesKept ==
  ASSUME PilotTypeOK, pilot' \in Pilots, pilot'.previous < pilot'.id, trial' \in Trials,
         pending_action' \in PendingActions', mode' \in {"trial", "continuous"}, managing' \in BOOLEAN,
         session' \in 0..pilot'.id, step' \in Steps, recent' \in SampleWindows,
         undipped' \in [Directions -> SUBSET Tiers]
  PROVE  PilotTypeOK'
<1>1. /\ pilot'.id \in Nat \ {0} /\ pilot'.previous \in Nat
      /\ pilot'.status \in PilotStatuses
      /\ pilot'.tier \in [Directions -> [Tiers -> {"armed", "closed", "dipped"}]]
      /\ pilot'.round \in Rounds
  BY DEF Pilots
<1>2. pilot'.previous \in 0..(pilot'.id - 1)
  BY <1>1
<1>3. pilot'.round.count \in 0..Rearm
  BY <1>1 DEF Rounds
<1>4. trial'.status \in {"none", "active", "completed", "superseded"}
  BY DEF Trials
<1> QED BY <1>1, <1>2, <1>3, <1>4 DEF PilotTypeOK, PilotStatuses, Steps, SampleWindows

\* The types of a state, in the form the other lemmas ask for.
LEMMA TypesOf ==
  ASSUME PilotInv
  PROVE  /\ pilot \in Pilots /\ pilot.previous < pilot.id /\ trial \in Trials /\ position \in Positions
         /\ pending_action \in PendingActions /\ mode \in {"trial", "continuous"} /\ managing \in BOOLEAN
         /\ session \in 0..pilot.id /\ step \in Steps /\ recent \in SampleWindows
         /\ undipped \in [Directions -> SUBSET Tiers] /\ actions \in 0..MaxActions
         /\ pilot.id \in Nat \ {0} /\ pilot.previous \in Nat /\ session \in Nat
<1>1. pilot \in Pilots /\ trial \in Trials /\ position \in Positions /\ actions \in 0..MaxActions
  BY DEF PilotInv, TierRecordsOK
<1>2. pilot.id \in Nat \ {0} /\ pilot.previous \in 0..(pilot.id - 1) /\ session \in 0..pilot.id
  BY DEF PilotInv, PilotTypeOK
<1>3. /\ pending_action \in PendingActions /\ mode \in {"trial", "continuous"} /\ managing \in BOOLEAN
      /\ step \in Steps /\ recent \in SampleWindows /\ undipped \in [Directions -> SUBSET Tiers]
  BY DEF PilotInv, PilotTypeOK, Steps, SampleWindows
<1> QED BY <1>1, <1>2, <1>3

LEMMA NoSamples == <<>> \in SampleWindows
<1>1. <<>> \in [1..0 -> -MaxTier..MaxTier]
  OBVIOUS
<1> QED BY <1>1 DEF SampleWindows

\* An action that moves the runtime alone keeps everything but the trial's part.
LEMMA LoopMoves ==
  ASSUME PilotInv, UNCHANGED <<pilot, position, pending_action, actions, session, undipped>>,
         trial' \in Trials, mode' \in {"trial", "continuous"}, managing' \in BOOLEAN,
         mode' = mode \/ mode' = "continuous",
         step' \in Steps, recent' \in SampleWindows
  PROVE  /\ PilotTypeOK' /\ TierRecordsOK' /\ TierBooksMatch' /\ SessionHolds' /\ DipsAwaited'
         /\ ArchiveNeverRefuses' /\ ReentryNeedsDip'
         /\ session' \notin {0, pilot'.id} => pilot'.previous = session' /\ pilot'.manual /\ pilot'.equity
<1>1. PilotTypeOK' /\ TierRecordsOK'
  BY TypesOf, TypesKept, BooksKept DEF TierRecordsOK, PilotInv
<1>2. SessionHolds'
  BY DEF SessionHolds, PilotInv
<1>3. session' \notin {0, pilot'.id} => pilot'.previous = session' /\ pilot'.manual /\ pilot'.equity
  BY DEF PilotInv, ChainIsVerifiable
<1> QED BY <1>1, <1>2, <1>3, BooksKept, DipsKept

-----------------------------------------------------------------------------
(* The trial's chain.                                                      *)

\* A chain whose last round is the pilot: what ensure_trial leaves.
Linked(t, id) ==
  /\ t \in Trials
  /\ t.rounds # <<>> /\ t.rounds[1] = Root /\ IsInjective(t.rounds) /\ Len(t.rounds) <= MaxRounds
  /\ IsPrefix(t.completed, t.rounds) /\ Len(t.rounds) <= Len(t.completed) + 1
  /\ t.status \in {"active", "completed"}
  /\ id = Last(t.rounds) /\ t.from \in {0, id}
  /\ \A i \in DOMAIN t.rounds : t.rounds[i] <= id

LEMMA PrefixIs ==
  ASSUME NEW S, NEW s \in Seq(S), NEW t \in Seq(S)
  PROVE  IsPrefix(s, t) <=> Len(s) <= Len(t) /\ \A i \in 1..Len(s) : s[i] = t[i]
<1>1. SUFFICES ASSUME Len(s) <= Len(t)
               PROVE  SubSeq(s, 1, Len(s)) = SubSeq(t, 1, Len(s)) <=> \A i \in 1..Len(s) : s[i] = t[i]
  BY DEF IsPrefix
<1>2. SubSeq(s, 1, Len(s)) = [i \in 1..Len(s) |-> s[i]]
  OBVIOUS
<1>3. SubSeq(t, 1, Len(s)) = [i \in 1..Len(s) |-> t[i]]
  BY <1>1
<1> QED BY <1>2, <1>3

LEMMA SameSequence ==
  ASSUME NEW S, NEW s \in Seq(S), NEW t \in Seq(S), Len(s) = Len(t), \A i \in 1..Len(s) : s[i] = t[i]
  PROVE  s = t
<1>1. s = [i \in 1..Len(s) |-> s[i]] /\ t = [i \in 1..Len(t) |-> t[i]]
  OBVIOUS
<1> QED BY <1>1

\* ensure_trial leaves a linked chain, of a new trial, of one whose pilot is
\* its last round, and of one that a death left with its successor unlinked.
LEMMA EnsuredIsLinked ==
  ASSUME PilotAssumption, PilotInv, mode = "trial"
  PROVE  Linked(EnsuredTrial, pilot.id) /\ EnsuredTrial # NoTrial
<1>1. /\ TrialAccepted /\ trial \in Trials /\ pilot.id \in Nat \ {0}
      /\ trial # NoTrial => /\ Len(trial.rounds) <= Len(trial.completed) + 1
                            /\ \A i \in DOMAIN trial.rounds : trial.rounds[i] <= Last(trial.rounds)
      /\ pilot.previous < pilot.id /\ pilot.previous \in Nat
  BY TypesOf DEF PilotInv, ChainIsVerifiable, TrialHolds
<1>2. trial.rounds \in Seq(Nat \ {0}) /\ trial.completed \in Seq(Nat \ {0})
  BY <1>1 DEF Trials
<1>3. CASE trial = NoTrial
  <2>1. ~ChainHolds
    BY <1>3 DEF ChainHolds, NoTrial
  <2>2. pilot.id = 1
    BY <1>1, <2>1 DEF TrialAccepted, Root
  <2>3. EnsuredTrial = [status |-> "active", rounds |-> <<1>>, completed |-> <<>>, from |-> 0]
    BY <1>3 DEF EnsuredTrial, NoTrial, Root
  <2>4. EnsuredTrial \in Trials
    BY <2>3 DEF Trials
  <2>5. IsPrefix(<<>>, <<1>>)
    <3>1. <<>> \in Seq(Nat) /\ <<1>> \in Seq(Nat) /\ Len(<<>>) = 0 /\ Len(<<1>>) = 1
      OBVIOUS
    <3>2. Len(<<>>) <= Len(<<1>>) /\ \A i \in 1..Len(<<>>) : <<>>[i] = <<1>>[i]
      BY <3>1
    <3> QED BY <3>1, <3>2, PrefixIs
  <2>6. IsInjective(<<1>>)
    BY DEF IsInjective
  <2>7. Len(<<1>>) <= MaxRounds
    BY DEF PilotAssumption
  <2> QED BY <2>2, <2>3, <2>4, <2>5, <2>6, <2>7 DEF Linked, Root, Last, NoTrial
<1>4. CASE trial # NoTrial
  <2>1. ChainHolds
    BY <1>1, <1>4 DEF TrialAccepted
  <2>2. CASE pilot.id = Last(trial.rounds)
    <3>1. EnsuredTrial = trial
      BY <1>4, <2>2 DEF EnsuredTrial
    <3> QED BY <1>1, <1>4, <2>1, <2>2, <3>1 DEF Linked, ChainHolds
  <2>3. CASE pilot.id # Last(trial.rounds)
    <3> DEFINE ids == trial.rounds
               longer == Append(ids, pilot.id)
    <3>1. /\ ids # <<>> /\ ids[1] = Root /\ IsInjective(ids) /\ Len(ids) < MaxRounds
          /\ pilot.previous = Last(ids) /\ trial.status = "active" /\ trial.completed = ids
      BY <2>1, <2>3 DEF ChainHolds
    <3>2. EnsuredTrial = [trial EXCEPT !.rounds = longer, !.from = 0]
      BY <1>4, <2>3 DEF EnsuredTrial
    <3>3. /\ longer \in Seq(Nat \ {0}) /\ Len(longer) = Len(ids) + 1 /\ longer[Len(ids) + 1] = pilot.id
          /\ \A i \in 1..Len(ids) : longer[i] = ids[i]
          /\ Len(ids) \in Nat \ {0} /\ DOMAIN ids = 1..Len(ids) /\ DOMAIN longer = 1..(Len(ids) + 1)
      BY <1>1, <1>2, <3>1
    <3> HIDE DEF longer
    <3>4. /\ EnsuredTrial.rounds = longer /\ EnsuredTrial.completed = ids
          /\ EnsuredTrial.status = "active" /\ EnsuredTrial.from = 0
          /\ EnsuredTrial \in Trials
      BY <1>1, <3>1, <3>2, <3>3 DEF Trials
    <3>5. IsPrefix(ids, longer)
      <4>1. Len(ids) <= Len(longer)
        BY <3>3
      <4> QED BY <1>2, <3>3, <4>1, PrefixIs
    <3>6. \A i \in 1..Len(ids) : ids[i] \in Nat /\ ids[i] < pilot.id
      <4>1. ASSUME NEW i \in 1..Len(ids) PROVE ids[i] \in Nat /\ ids[i] < pilot.id
        <5>1. ids[i] \in Nat
          BY <1>2, <3>3
        <5>2. ids[i] <= Last(ids)
          BY <1>1, <1>4, <3>3
        <5> QED BY <1>1, <3>1, <5>1, <5>2
      <4> QED BY <4>1
    <3>7. IsInjective(longer)
      <4> SUFFICES ASSUME NEW a \in 1..(Len(ids) + 1), NEW b \in 1..(Len(ids) + 1), longer[a] = longer[b]
                   PROVE  a = b
        BY <3>3 DEF IsInjective
      <4>1. ASSUME NEW i \in 1..(Len(ids) + 1) PROVE i = Len(ids) + 1 \/ i \in 1..Len(ids)
        BY <3>3
      <4>2. CASE a \in 1..Len(ids) /\ b \in 1..Len(ids)
        BY <3>1, <3>3, <4>2 DEF IsInjective
      <4>3. CASE a = Len(ids) + 1 /\ b \in 1..Len(ids)
        BY <1>1, <3>3, <3>6, <4>3
      <4>4. CASE b = Len(ids) + 1 /\ a \in 1..Len(ids)
        BY <1>1, <3>3, <3>6, <4>4
      <4> QED BY <4>1, <4>2, <4>3, <4>4
    <3>8. Last(longer) = pilot.id /\ \A i \in DOMAIN longer : longer[i] <= Last(longer)
      <4>1. Last(longer) = pilot.id
        BY <3>3 DEF Last
      <4>2. ASSUME NEW i \in 1..(Len(ids) + 1) PROVE longer[i] <= pilot.id
        <5>1. i = Len(ids) + 1 \/ i \in 1..Len(ids)
          BY <3>3
        <5> QED BY <1>1, <3>3, <3>6, <5>1
      <4> QED BY <3>3, <4>1, <4>2
    <3>9. longer # <<>> /\ longer[1] = Root /\ Len(longer) <= MaxRounds
      BY <3>1, <3>3 DEF PilotAssumption
    <3>10. EnsuredTrial # NoTrial
      BY <3>4 DEF NoTrial
    <3> QED BY <3>3, <3>4, <3>5, <3>7, <3>8, <3>9, <3>10 DEF Linked
  <2> QED BY <2>2, <2>3
<1> QED BY <1>3, <1>4

LEMMA LinkedIsAccepted ==
  ASSUME Linked(trial', pilot'.id)
  PROVE  /\ TrialAccepted' /\ trial' # NoTrial
         /\ Len(trial'.rounds) <= Len(trial'.completed) + 1
         /\ \A i \in DOMAIN trial'.rounds : trial'.rounds[i] <= Last(trial'.rounds)
         /\ pilot'.id = Last(trial'.rounds)
<1>1. ChainHolds'
  BY DEF Linked, ChainHolds
<1>2. trial' # NoTrial
  BY DEF Linked, NoTrial
<1> QED BY <1>1, <1>2 DEF TrialAccepted, Linked

-----------------------------------------------------------------------------
(* The actions, one by one.                                                *)

LEMMA BootKeeps == ASSUME PilotAssumption, PilotInv, Boot PROVE PilotInv'
<1>1. /\ UNCHANGED <<mode, pilot, position, pending_action, session, actions, undipped>>
      /\ step = "down" /\ recent' = <<>> /\ managing' \in BOOLEAN
      /\ step' = IF Resolved THEN "advance" ELSE "settle"
      /\ IF mode = "trial" THEN trial' = EnsuredTrial ELSE trial' = trial
  BY DEF Boot, EnsureTrial
<1>2. mode = "trial" => Linked(trial', pilot'.id)
  BY <1>1, EnsuredIsLinked
<1>3. trial' \in Trials
  BY <1>1, <1>2, TypesOf DEF Linked
<1>4. step' \in Steps /\ recent' \in SampleWindows /\ mode' \in {"trial", "continuous"}
  BY <1>1, NoSamples, TypesOf DEF Steps
<1>5. /\ PilotTypeOK' /\ TierRecordsOK' /\ TierBooksMatch' /\ SessionHolds' /\ DipsAwaited'
      /\ ArchiveNeverRefuses' /\ ReentryNeedsDip'
      /\ session' \notin {0, pilot'.id} => pilot'.previous = session' /\ pilot'.manual /\ pilot'.equity
  BY <1>1, <1>3, <1>4, LoopMoves
<1>6. LoopHolds'
  BY <1>1 DEF LoopHolds, Resolved, PilotInv
<1>7. TrialHolds' /\ (mode' = "trial" => TrialAccepted')
  BY <1>1, <1>2, LinkedIsAccepted DEF TrialHolds
<1> QED BY <1>5, <1>6, <1>7 DEF PilotInv, ChainIsVerifiable

LEMMA AdoptKeeps == ASSUME PilotAssumption, PilotInv, Adopt PROVE PilotInv'
<1>1. /\ UNCHANGED <<pilot, position, pending_action, trial, session, step, recent, managing, actions, undipped>>
      /\ step = "down" /\ mode' = "continuous"
  BY DEF Adopt, stateFile
<1>2. /\ PilotTypeOK' /\ TierRecordsOK' /\ TierBooksMatch' /\ SessionHolds' /\ DipsAwaited'
      /\ ArchiveNeverRefuses' /\ ReentryNeedsDip'
      /\ session' \notin {0, pilot'.id} => pilot'.previous = session' /\ pilot'.manual /\ pilot'.equity
  BY <1>1, TypesOf, LoopMoves
<1>3. LoopHolds' /\ TrialHolds'
  BY <1>1 DEF LoopHolds, TrialHolds, PilotInv
<1> QED BY <1>1, <1>2, <1>3 DEF PilotInv, ChainIsVerifiable

\* A death, or a step of the loop that writes nothing.
LEMMA NothingWritten ==
  ASSUME PilotAssumption, PilotInv, UNCHANGED <<mode, stateFile, actions, undipped>>, step # "down",
         recent' \in SampleWindows, managing' \in BOOLEAN,
         \/ step' = "down"
         \/ step' \in {"advance", "sample", "decide"} /\ pending_action = NoAction /\ step # "created"
  PROVE  PilotInv'
<1>1. UNCHANGED <<pilot, position, pending_action, trial, session>> /\ step' \in Steps
  BY DEF stateFile, Steps
<1>2. /\ PilotTypeOK' /\ TierRecordsOK' /\ TierBooksMatch' /\ SessionHolds' /\ DipsAwaited'
      /\ ArchiveNeverRefuses' /\ ReentryNeedsDip'
      /\ session' \notin {0, pilot'.id} => pilot'.previous = session' /\ pilot'.manual /\ pilot'.equity
  BY <1>1, TypesOf, LoopMoves
<1>3. LoopHolds'
  BY <1>1 DEF LoopHolds
<1>4. TrialHolds' /\ (mode' = "trial" => TrialAccepted')
  <2> SUFFICES ASSUME mode' = "trial" PROVE TrialHolds' /\ TrialAccepted'
    BY DEF TrialHolds
  <2>1. /\ TrialAccepted' /\ trial' # NoTrial
        /\ Len(trial'.rounds) <= Len(trial'.completed) + 1
        /\ \A i \in DOMAIN trial'.rounds : trial'.rounds[i] <= Last(trial'.rounds)
        /\ pilot.id = Last(trial.rounds) => pilot'.id = Last(trial'.rounds)
    BY <1>1, RecordKept
  <2>2. step # "created" => pilot.id = Last(trial.rounds)
    BY DEF PilotInv, TrialHolds
  <2> QED BY <2>1, <2>2 DEF TrialHolds
<1> QED BY <1>1, <1>2, <1>3, <1>4 DEF PilotInv, ChainIsVerifiable

LEMMA CrashKeeps == ASSUME PilotAssumption, PilotInv, RuntimeDies PROVE PilotInv'
BY NoSamples, NothingWritten DEF RuntimeDies

LEMMA HoldKeeps == ASSUME PilotAssumption, PilotInv, HoldPosition PROVE PilotInv'
<1>1. pending_action = NoAction
  BY DEF HoldPosition, PilotInv, LoopHolds
<1> QED BY <1>1, TypesOf, NothingWritten DEF HoldPosition

LEMMA StayKeeps == ASSUME PilotAssumption, PilotInv, StayInRound PROVE PilotInv'
<1>1. step \in {"advance", "again"} /\ UNCHANGED <<mode, stateFile, recent, managing, actions, undipped>>
      /\ step' = AfterAdvance
  BY DEF StayInRound
<1>2. pending_action = NoAction /\ step' \in {"sample", "decide"}
  BY <1>1 DEF PilotInv, LoopHolds, AfterAdvance
<1> QED BY <1>1, <1>2, TypesOf, NothingWritten

LEMMA CountKeeps == ASSUME PilotAssumption, PilotInv, CountRound PROVE PilotInv'
<1> DEFINE ens == EnsuredTrial
<1>1. /\ UNCHANGED <<mode, pilot, position, pending_action, session, recent, managing, actions, undipped>>
      /\ step = "advance" /\ mode = "trial"
  BY DEF CountRound
<1>2. Linked(ens, pilot.id)
  BY <1>1, EnsuredIsLinked
<1>3. PICK counted \in {IF pilot.id \in ToSet(ens.completed) THEN ens.completed
                        ELSE Append(ens.completed, pilot.id)} :
         IF Len(counted) >= MaxRounds
         THEN /\ trial' = [ens EXCEPT !.completed = counted, !.status = "completed", !.from = 0]
              /\ step' = "sample"
         ELSE /\ trial' = [ens EXCEPT !.completed = counted, !.from = pilot.id]
              /\ step' = "intended"
  BY DEF CountRound
<1> DEFINE ids == ens.rounds
           done == ens.completed
<1> HIDE DEF ens
<1>4. /\ ens \in Trials /\ ids \in Seq(Nat \ {0}) /\ done \in Seq(Nat \ {0})
      /\ pilot.id \in Nat \ {0}
  BY <1>2, TypesOf DEF Linked, Trials
<1>5. counted = ids
  <2>1. /\ Len(done) <= Len(ids) /\ Len(ids) <= Len(done) + 1 /\ Len(ids) > 0
        /\ \A i \in 1..Len(done) : done[i] = ids[i]
        /\ pilot.id = ids[Len(ids)]
        /\ \A a, b \in 1..Len(ids) : ids[a] = ids[b] => a = b
        /\ Len(ids) \in Nat /\ Len(done) \in Nat
        /\ DOMAIN ids = 1..Len(ids) /\ DOMAIN done = 1..Len(done)
    <3>1. /\ Len(ids) \in Nat /\ Len(done) \in Nat
          /\ DOMAIN ids = 1..Len(ids) /\ DOMAIN done = 1..Len(done)
      BY <1>4
    <3>2. /\ IsPrefix(done, ids) /\ Len(ids) <= Len(done) + 1 /\ ids # <<>>
          /\ pilot.id = Last(ids) /\ IsInjective(ids)
      BY <1>2 DEF Linked
    <3>3. Len(done) <= Len(ids) /\ \A i \in 1..Len(done) : done[i] = ids[i]
      BY <1>4, <3>2, PrefixIs
    <3>4. Len(ids) > 0
      BY <1>4, <3>2
    <3>5. \A a, b \in 1..Len(ids) : ids[a] = ids[b] => a = b
      BY <3>1, <3>2 DEF IsInjective
    <3> QED BY <3>1, <3>2, <3>3, <3>4, <3>5 DEF Last
  <2>2. CASE pilot.id \in ToSet(done)
    <3>1. PICK k \in 1..Len(done) : done[k] = pilot.id
      BY <2>1, <2>2 DEF ToSet
    <3>2. k = Len(ids)
      BY <2>1, <3>1
    <3>3. Len(done) = Len(ids) /\ counted = done
      BY <1>3, <2>1, <2>2, <3>2
    <3> QED BY <1>4, <2>1, <3>3, SameSequence
  <2>3. CASE pilot.id \notin ToSet(done)
    <3>1. counted = Append(done, pilot.id)
      BY <1>3, <2>3
    <3>2. Len(done) # Len(ids)
      <4> SUFFICES ASSUME Len(done) = Len(ids) PROVE FALSE
        OBVIOUS
      <4>1. done[Len(ids)] = pilot.id /\ Len(ids) \in DOMAIN done
        BY <2>1
      <4> QED BY <2>3, <4>1 DEF ToSet
    <3>3. Len(ids) = Len(done) + 1
      BY <2>1, <3>2
    <3>4. /\ counted \in Seq(Nat \ {0}) /\ Len(counted) = Len(ids)
          /\ \A i \in 1..Len(ids) : counted[i] = ids[i]
      BY <1>4, <2>1, <3>1, <3>3
    <3> QED BY <1>4, <3>4, SameSequence
  <2> QED BY <2>2, <2>3
<1>6. IsPrefix(ids, ids)
  BY <1>4, PrefixIs
<1> DEFINE Advances ==
      /\ trial' \in Trials /\ Linked(trial', pilot'.id) /\ step' \in {"sample", "intended"}
      /\ step' = "intended" => /\ trial'.status = "active" /\ trial'.from = pilot'.id
                               /\ trial'.completed = trial'.rounds /\ Len(trial'.rounds) < MaxRounds
<1>7. ASSUME Len(ids) >= MaxRounds PROVE Advances
  <2>1. trial' = [ens EXCEPT !.completed = ids, !.status = "completed", !.from = 0] /\ step' = "sample"
    BY <1>3, <1>5, <1>7
  <2>2. /\ trial' \in Trials /\ trial'.rounds = ids /\ trial'.completed = ids
        /\ trial'.status = "completed" /\ trial'.from = 0
    BY <1>4, <2>1 DEF Trials
  <2>3. Linked(trial', pilot'.id)
    BY <1>1, <1>2, <1>4, <1>6, <2>2 DEF Linked
  <2> QED BY <2>1, <2>2, <2>3
<1>8. ASSUME ~(Len(ids) >= MaxRounds) PROVE Advances
  <2>1. trial' = [ens EXCEPT !.completed = ids, !.from = pilot.id] /\ step' = "intended"
    BY <1>3, <1>5, <1>8
  <2>2. /\ trial' \in Trials /\ trial'.rounds = ids /\ trial'.completed = ids
        /\ trial'.status = ens.status /\ trial'.from = pilot.id
    BY <1>4, <2>1 DEF Trials
  <2>3. Linked(trial', pilot'.id)
    BY <1>1, <1>2, <1>4, <1>6, <2>2 DEF Linked
  <2>4. trial'.status = "active"
    <3>1. trial.status # "completed" /\ ens = EnsuredTrial
      BY DEF CountRound, ens
    <3>2. ens.status # "completed"
      BY <3>1, TypesOf DEF EnsuredTrial, NoTrial, Trials
    <3> QED BY <1>2, <2>2, <3>2 DEF Linked
  <2>5. Len(ids) < MaxRounds
    BY <1>4, <1>8 DEF PilotAssumption
  <2> QED BY <1>1, <2>1, <2>2, <2>3, <2>4, <2>5
<1>9. Advances
  BY <1>1, <1>7, <1>8
<1>10. /\ PilotTypeOK' /\ TierRecordsOK' /\ TierBooksMatch' /\ SessionHolds' /\ DipsAwaited'
       /\ ArchiveNeverRefuses' /\ ReentryNeedsDip'
       /\ session' \notin {0, pilot'.id} => pilot'.previous = session' /\ pilot'.manual /\ pilot'.equity
  <2>1. step' \in Steps /\ mode' = mode
    BY <1>1, <1>9 DEF Steps
  <2> QED BY <1>1, <1>9, <2>1, TypesOf, LoopMoves
<1>11. LoopHolds'
  BY <1>1, <1>9 DEF LoopHolds, PilotInv
<1>12. TrialHolds' /\ TrialAccepted'
  BY <1>1, <1>9, LinkedIsAccepted DEF TrialHolds
<1> QED BY <1>10, <1>11, <1>12 DEF PilotInv, ChainIsVerifiable

LEMMA NothingPending ==
  ASSUME pending_action' = NoAction
  PROVE  ArchiveNeverRefuses' /\ ReentryNeedsDip' /\ pending_action' \in PendingActions'
         /\ pending_action'.kind = "none"
BY DEF ArchiveNeverRefuses, ReentryNeedsDip, PendingActions, NoAction

LEMMA EnsureKeeps == ASSUME PilotAssumption, PilotInv, EnsureContinuous PROVE PilotInv'
<1>1. /\ UNCHANGED <<mode, position, pending_action, step, recent, managing, actions, undipped>>
      /\ mode = "continuous" /\ pending_action = NoAction /\ session' = pilot.id
      /\ step \in {"advance", "again"}
  BY DEF EnsureContinuous, Resolved
<1>2. \/ /\ pilot' = [pilot EXCEPT !.equity = TRUE]
         /\ trial' = trial \/ trial' = [trial EXCEPT !.status = "superseded"]
      \/ pilot' = pilot /\ trial' = trial /\ pilot.equity
  BY DEF EnsureContinuous
<1>3. /\ pilot' \in Pilots /\ pilot'.equity /\ pilot'.id = pilot.id /\ pilot'.previous = pilot.previous
      /\ pilot'.tier = pilot.tier /\ pilot'.manual = pilot.manual /\ pilot'.done = pilot.done
      /\ pilot'.opened = pilot.opened /\ pilot'.status = pilot.status /\ pilot'.round = pilot.round
  BY <1>2, TypesOf DEF Pilots
<1>4. trial' \in Trials
  BY <1>2, TypesOf DEF Trials
<1>5. /\ ArchiveNeverRefuses' /\ ReentryNeedsDip' /\ pending_action' \in PendingActions'
      /\ pending_action'.kind = "none" /\ pending_action' = NoAction
  BY <1>1, NothingPending
<1>6. PilotTypeOK' /\ TierRecordsOK'
  <2>1. session' \in 0..pilot'.id /\ pilot'.previous < pilot'.id
    BY <1>1, <1>3, TypesOf
  <2>2. PilotTypeOK'
    BY <1>1, <1>3, <1>4, <1>5, <2>1, TypesOf, TypesKept DEF PilotInv
  <2> QED BY <1>1, <1>3, <1>4, <2>2 DEF TierRecordsOK, PilotInv
<1>7. TierBooksMatch'
  BY <1>1, <1>3, <1>5 DEF TierBooksMatch, PilotInv
<1>8. LoopHolds' /\ SessionHolds' /\ TrialHolds'
  BY <1>1, <1>3 DEF LoopHolds, SessionHolds, TrialHolds, PilotInv
<1>9. DipsAwaited'
  BY <1>1, <1>3 DEF DipsAwaited, PilotInv
<1>10. ChainIsVerifiable'
  BY <1>1, <1>3 DEF ChainIsVerifiable
<1> QED BY <1>5, <1>6, <1>7, <1>8, <1>9, <1>10 DEF PilotInv

LEMMA CreateKeeps == ASSUME PilotAssumption, PilotInv, CreateSuccessor PROVE PilotInv'
<1>1. /\ UNCHANGED <<mode, position, pending_action, trial, session, recent, managing, actions, undipped>>
      /\ pilot' = Successor /\ step' = IF step = "again" THEN "createdAgain" ELSE "created"
      /\ \/ step = "intended" /\ mode = "trial"
         \/ step \in {"advance", "again"} /\ mode = "continuous" /\ session = pilot.id
      /\ position = NoPosition /\ pending_action = NoAction
  BY DEF CreateSuccessor, MayFollow, Flat
<1>2. /\ pilot'.id = pilot.id + 1 /\ pilot'.previous = pilot.id /\ pilot'.manual
      /\ pilot'.equity = pilot.equity /\ pilot'.opened = {} /\ pilot'.done = 0
      /\ pilot'.tier = AllArmed /\ pilot'.round.armed
  BY <1>1 DEF Successor, NewPilot, NoRearm
<1>3. pilot' \in Pilots
  <2>1. pilot.id \in Nat \ {0} /\ pilot.equity \in BOOLEAN
    BY TypesOf DEF Pilots
  <2>2. AllArmed \in [Directions -> [Tiers -> {"armed", "closed", "dipped"}]]
    BY DEF AllArmed
  <2>3. NoRearm \in Rounds
    BY DEF NoRearm, Rounds, PilotAssumption
  <2>4. 0 \in 0..MaxActions
    BY DEF PilotAssumption
  <2> QED BY <1>1, <2>1, <2>2, <2>3, <2>4 DEF Pilots, Successor, NewPilot, PilotStatuses
<1>4. /\ ArchiveNeverRefuses' /\ ReentryNeedsDip' /\ pending_action' \in PendingActions'
      /\ pending_action'.kind = "none" /\ pending_action' = NoAction
  BY <1>1, NothingPending
<1>5. PilotTypeOK' /\ TierRecordsOK'
  <2>1. session' \in 0..pilot'.id /\ pilot'.previous < pilot'.id
    BY <1>1, <1>2, TypesOf
  <2>2. step' \in Steps
    BY <1>1 DEF Steps
  <2>3. PilotTypeOK'
    BY <1>1, <1>3, <1>4, <2>1, <2>2, TypesOf, TypesKept DEF PilotInv
  <2> QED BY <1>1, <1>2, <1>3, <2>3, TypesOf DEF TierRecordsOK
<1>6. TierBooksMatch'
  BY <1>1, <1>2, <1>4 DEF TierBooksMatch, NoPosition
<1>7. LoopHolds' /\ SessionHolds'
  BY <1>1, <1>2, <1>4, TypesOf DEF LoopHolds, SessionHolds, PilotInv
<1>8. DipsAwaited'
  BY <1>1, <1>2 DEF DipsAwaited, PilotInv
<1>9. TrialHolds' /\ (mode' = "trial" => TrialAccepted')
  <2> SUFFICES ASSUME mode = "trial" PROVE TrialHolds' /\ TrialAccepted'
    BY <1>1 DEF TrialHolds
  <2>1. /\ step = "intended" /\ trial # NoTrial /\ ChainHolds /\ step' = "created"
        /\ trial.status = "active" /\ trial.from = pilot.id /\ trial.completed = trial.rounds
        /\ Len(trial.rounds) < MaxRounds /\ pilot.id = Last(trial.rounds)
    BY <1>1 DEF PilotInv, TrialHolds, ChainIsVerifiable, TrialAccepted
  <2>2. ChainHolds'
    <3>1. pilot'.id # Last(trial.rounds)
      BY <1>2, <2>1, TypesOf
    <3> QED BY <1>1, <1>2, <2>1, <3>1 DEF ChainHolds
  <2> QED BY <1>1, <2>1, <2>2 DEF TrialAccepted, TrialHolds, PilotInv
<1>10. ChainIsVerifiable'
  <2>1. session' \notin {0, pilot'.id} => pilot'.previous = session' /\ pilot'.manual /\ pilot'.equity
    BY <1>1, <1>2 DEF PilotInv, SessionHolds
  <2> QED BY <1>9, <2>1 DEF ChainIsVerifiable
<1> QED BY <1>4, <1>5, <1>6, <1>7, <1>8, <1>9, <1>10 DEF PilotInv

LEMMA LinkKeeps == ASSUME PilotAssumption, PilotInv, LinkSuccessor PROVE PilotInv'
<1>1. /\ UNCHANGED <<mode, pilot, position, pending_action, managing, actions, undipped>>
      /\ step \in {"created", "createdAgain"} /\ step' = AfterAdvance /\ recent' = <<>>
      /\ IF mode = "trial" THEN trial' = EnsuredTrial /\ session' = session
         ELSE session' = pilot.id /\ trial' = trial
  BY DEF LinkSuccessor, EnsureTrial
<1>2. mode = "trial" => Linked(trial', pilot'.id)
  BY <1>1, EnsuredIsLinked
<1>3. trial' \in Trials /\ session' \in 0..pilot'.id /\ step' \in {"sample", "decide"}
  BY <1>1, <1>2, TypesOf DEF Linked, AfterAdvance
<1>4. pending_action = NoAction
  BY <1>1 DEF PilotInv, LoopHolds
<1>5. PilotTypeOK' /\ TierRecordsOK' /\ TierBooksMatch' /\ ArchiveNeverRefuses'
  <2>1. step' \in Steps
    BY <1>3 DEF Steps
  <2> QED BY <1>1, <1>3, <2>1, TypesOf, NoSamples, TypesKept, BooksKept DEF PilotInv, TierRecordsOK
<1>6. LoopHolds'
  BY <1>1, <1>3, <1>4 DEF LoopHolds
<1>7. SessionHolds'
  <2>1. mode # "trial" => pilot.equity
    BY <1>1 DEF PilotInv, LoopHolds, SessionHolds
  <2> QED BY <1>1, <2>1 DEF SessionHolds, PilotInv
<1>8. DipsAwaited' /\ ReentryNeedsDip'
  BY <1>1, DipsKept
<1>9. TrialHolds' /\ (mode' = "trial" => TrialAccepted')
  BY <1>1, <1>2, <1>3, LinkedIsAccepted DEF TrialHolds
<1>10. session' \notin {0, pilot'.id} => pilot'.previous = session' /\ pilot'.manual /\ pilot'.equity
  BY <1>1 DEF PilotInv, ChainIsVerifiable
<1> QED BY <1>5, <1>6, <1>7, <1>8, <1>9, <1>10 DEF PilotInv, ChainIsVerifiable

\* The trial's part of an action of the running process that leaves its record
\* and the identity of its pilot alone.
LEMMA TrialKept ==
  ASSUME PilotInv, step \notin {"down", "created"}, mode' = mode, trial' = trial, session' = session,
         pilot'.id = pilot.id, pilot'.previous = pilot.previous, pilot'.manual = pilot.manual,
         pilot'.equity = pilot.equity, step' # "intended"
  PROVE  TrialHolds' /\ ChainIsVerifiable' /\ SessionHolds'
<1>1. mode = "trial" => TrialHolds' /\ TrialAccepted'
  BY RecordKept DEF TrialHolds, PilotInv
<1>2. mode # "trial" => TrialHolds'
  BY DEF TrialHolds
<1>3. session' \notin {0, pilot'.id} => pilot'.previous = session' /\ pilot'.manual /\ pilot'.equity
  BY DEF PilotInv, ChainIsVerifiable
<1>4. SessionHolds'
  BY DEF SessionHolds, PilotInv
<1> QED BY <1>1, <1>2, <1>3, <1>4 DEF ChainIsVerifiable

\* A round counts a sample below Rearm, and is armed when it has them all.
LEMMA RearmCounts ==
  ASSUME PilotAssumption, NEW r \in Rounds, r.armed \/ r.count < Rearm,
         NEW e, NEW gap \in BOOLEAN, NEW flat \in BOOLEAN, NEW opposite
  PROVE  LET q == RearmRound(r, e, gap, flat, opposite) IN
         q \in Rounds /\ (q.armed \/ q.count < Rearm)
<1> DEFINE q == RearmRound(r, e, gap, flat, opposite)
           counted == IF Edge(r.dir, e) > Threshold(1) - Buffer THEN 0
                      ELSE (IF gap THEN 0 ELSE r.count) + 1
<1>1. CASE r.armed
  BY <1>1 DEF RearmRound
<1>2. CASE ~r.armed /\ flat /\ opposite >= 1
  <2>1. q = [r EXCEPT !.armed = TRUE, !.count = 0]
    BY <1>2 DEF RearmRound
  <2>2. 0 \in 0..Rearm
    BY DEF PilotAssumption
  <2> HIDE DEF q
  <2>3. q \in Rounds /\ q.armed = TRUE
    BY <2>1, <2>2 DEF Rounds
  <2> QED BY <2>3 DEF q
<1>3. CASE ~r.armed /\ ~(flat /\ opposite >= 1)
  <2>1. q = [r EXCEPT !.count = counted, !.armed = counted >= Rearm]
    BY <1>3 DEF RearmRound
  <2>2. counted \in 0..Rearm /\ (counted >= Rearm) \in BOOLEAN
    BY <1>3 DEF Rounds, PilotAssumption
  <2> HIDE DEF counted, q
  <2>3. q \in Rounds /\ q.armed = (counted >= Rearm) /\ q.count = counted
    BY <2>1, <2>2 DEF Rounds
  <2>4. q.armed \/ q.count < Rearm
    <3>1. CASE counted >= Rearm
      BY <2>3, <3>1
    <3>2. CASE ~(counted >= Rearm)
      BY <2>2, <2>3, <3>2 DEF PilotAssumption
    <3> QED BY <3>1, <3>2
  <2> QED BY <2>3, <2>4 DEF q
<1> QED BY <1>1, <1>2, <1>3

LEMMA ObserveKeeps ==
  ASSUME PilotAssumption, PilotInv, NEW e \in Edges, NEW gap \in BOOLEAN, Observe(e, gap)
  PROVE  PilotInv'
<1> DEFINE grown == Append(recent, Signed(e))
           window == IF Len(grown) > 3 THEN Tail(grown) ELSE grown
<1> HIDE DEF window
<1>0. \E w \in {window} :
        /\ recent' = w
        /\ IF mode = "continuous"
           THEN /\ pilot' = [pilot EXCEPT
                    !.tier = [d \in Directions |-> [t \in Tiers |->
                      RearmTier(d, t, pilot.tier[d][t], e, gap, ConfirmedBy(w, d))]],
                    !.round = IF ~pilot.round.required THEN pilot.round
                              ELSE RearmRound(pilot.round, e, gap, Flat,
                                              ConfirmedBy(w, Opposite(pilot.round.dir)))]
                /\ step' = "again"
           ELSE pilot' = pilot /\ step' = "decide"
  BY DEF Observe, window
<1>1. /\ UNCHANGED <<mode, position, pending_action, trial, session, managing, actions>>
      /\ step = "sample" /\ pending_action = NoAction /\ recent' = window
      /\ step' = IF mode = "continuous" THEN "again" ELSE "decide"
      /\ undipped' = [d \in Directions |-> {t \in undipped[d] : Edge(d, e) >= Threshold(t)}]
  BY <1>0 DEF Observe, Resolved
<1>2. mode # "continuous" => pilot' = pilot
  BY <1>0
<1>3. mode = "continuous" =>
        pilot' = [pilot EXCEPT
                   !.tier = [d \in Directions |-> [t \in Tiers |->
                     RearmTier(d, t, pilot.tier[d][t], e, gap, ConfirmedBy(window, d))]],
                   !.round = IF ~pilot.round.required THEN pilot.round
                             ELSE RearmRound(pilot.round, e, gap, Flat,
                                             ConfirmedBy(window, Opposite(pilot.round.dir)))]
  BY <1>0
<1>4. recent' \in SampleWindows
  <2>1. PICK n \in 0..3 : recent \in [1..n -> -MaxTier..MaxTier]
    BY TypesOf DEF SampleWindows
  <2>2. Signed(e) \in -MaxTier..MaxTier
    BY SignedIsTier
  <2> DEFINE S == -MaxTier..MaxTier
  <2> HIDE DEF S
  <2>3. recent \in Seq(S) /\ Len(recent) = n
    <3>1. n \in Nat
      OBVIOUS
    <3>2. recent \in [1..n -> S]
      BY <2>1 DEF S
    <3> QED BY <3>1, <3>2
  <2>4. grown \in Seq(S) /\ Len(grown) = n + 1
    BY <2>2, <2>3 DEF S
  <2> HIDE DEF grown
  <2>5. window \in Seq(S) /\ Len(window) \in 0..3
    BY <2>4 DEF window
  <2>6. window \in [1..Len(window) -> S]
    BY <2>5
  <2> QED BY <1>1, <2>5, <2>6 DEF SampleWindows, S
<1> HIDE DEF window, grown
<1>5. \A d \in Directions : \A t \in Tiers :
        RearmTier(d, t, pilot.tier[d][t], e, gap, ConfirmedBy(window, d)) \in {"armed", "closed", "dipped"}
  <2>1. pilot.tier \in [Directions -> [Tiers -> {"armed", "closed", "dipped"}]]
    BY TypesOf DEF Pilots
  <2> QED BY <2>1 DEF RearmTier
<1>6. /\ pilot' \in Pilots /\ (pilot'.round.armed \/ pilot'.round.count < Rearm)
      /\ pilot'.id = pilot.id /\ pilot'.previous = pilot.previous /\ pilot'.manual = pilot.manual
      /\ pilot'.equity = pilot.equity /\ pilot'.done = pilot.done /\ pilot'.opened = pilot.opened
      /\ pilot'.status = pilot.status
      /\ mode = "continuous" => pilot'.tier = [d \in Directions |-> [t \in Tiers |->
             RearmTier(d, t, pilot.tier[d][t], e, gap, ConfirmedBy(window, d))]]
  <2>1. CASE mode # "continuous"
    BY <1>2, <2>1 DEF PilotInv, TierRecordsOK
  <2>2. CASE mode = "continuous"
    <3> DEFINE tier == [d \in Directions |-> [t \in Tiers |->
                          RearmTier(d, t, pilot.tier[d][t], e, gap, ConfirmedBy(window, d))]]
               round == IF ~pilot.round.required THEN pilot.round
                        ELSE RearmRound(pilot.round, e, gap, Flat,
                                        ConfirmedBy(window, Opposite(pilot.round.dir)))
    <3>1. tier \in [Directions -> [Tiers -> {"armed", "closed", "dipped"}]]
      BY <1>5
    <3>2. pilot \in Pilots /\ pilot.round \in Rounds /\ (pilot.round.armed \/ pilot.round.count < Rearm)
      BY DEF PilotInv, TierRecordsOK, Pilots
    <3>3. round \in Rounds /\ (round.armed \/ round.count < Rearm)
      <4>1. Flat \in BOOLEAN
        BY DEF Flat
      <4> QED BY <3>2, <4>1, RearmCounts
    <3>4. pilot' = [pilot EXCEPT !.tier = tier, !.round = round]
      BY <1>3, <2>2
    <3> HIDE DEF tier, round
    <3>5. /\ pilot' \in Pilots /\ pilot'.tier = tier /\ pilot'.round = round
          /\ pilot'.id = pilot.id /\ pilot'.previous = pilot.previous /\ pilot'.manual = pilot.manual
          /\ pilot'.equity = pilot.equity /\ pilot'.done = pilot.done /\ pilot'.opened = pilot.opened
          /\ pilot'.status = pilot.status
      BY <3>1, <3>2, <3>3, <3>4 DEF Pilots
    <3> QED BY <3>3, <3>5 DEF tier
  <2> QED BY <2>1, <2>2
<1>7. undipped' \in [Directions -> SUBSET Tiers]
  BY <1>1, TypesOf
<1>8. /\ ArchiveNeverRefuses' /\ ReentryNeedsDip' /\ pending_action' \in PendingActions'
      /\ pending_action'.kind = "none" /\ pending_action' = NoAction
  BY <1>1, NothingPending
<1>9. PilotTypeOK' /\ TierRecordsOK'
  <2>1. step' \in Steps /\ session' \in 0..pilot'.id /\ pilot'.previous < pilot'.id
    BY <1>1, <1>6, TypesOf DEF Steps
  <2>2. PilotTypeOK'
    BY <1>1, <1>4, <1>6, <1>7, <1>8, <2>1, TypesOf, TypesKept DEF PilotInv
  <2> QED BY <1>1, <1>6, <2>2, TypesOf DEF TierRecordsOK
<1>10. DipsAwaited'
  <2> SUFFICES ASSUME NEW d \in Directions, NEW t \in undipped'[d]
               PROVE  pilot'.equity /\ (pilot'.tier[d][t] = "closed" \/ pilot'.manual)
    BY DEF DipsAwaited
  <2>1. t \in undipped[d] /\ Edge(d, e) >= Threshold(t) /\ t \in Tiers
    BY <1>1, TypesOf
  <2>2. pilot.equity /\ (pilot.tier[d][t] = "closed" \/ pilot.manual)
    BY <2>1 DEF PilotInv, DipsAwaited
  <2>3. mode = "continuous"
    BY <2>2, TypesOf DEF PilotInv, SessionHolds
  <2>4. pilot.tier[d][t] = "closed" => pilot'.tier[d][t] = "closed"
    <3> SUFFICES ASSUME pilot.tier[d][t] = "closed" PROVE pilot'.tier[d][t] = "closed"
      OBVIOUS
    <3>1. ~(Edge(d, e) < Threshold(t))
      <4>1. Edge(d, e) \in Int /\ Threshold(t) \in Int
        BY <2>1 DEF Edge, Threshold, Tiers, PilotAssumption
      <4> QED BY <2>1, <4>1
    <3>2. RearmTier(d, t, "closed", e, gap, ConfirmedBy(window, d)) = "closed"
      BY <3>1 DEF RearmTier
    <3> QED BY <1>6, <2>1, <2>3, <3>2
  <2> QED BY <1>6, <2>2, <2>4
<1>11. TierBooksMatch'
  <2>1. ~pilot.equity => pilot'.tier = AllArmed
    <3> SUFFICES ASSUME ~pilot.equity PROVE pilot'.tier = AllArmed
      OBVIOUS
    <3>1. pilot.tier = AllArmed
      BY DEF PilotInv, TierBooksMatch
    <3>2. CASE mode # "continuous"
      BY <1>2, <3>1, <3>2
    <3>3. CASE mode = "continuous"
      <4>1. \A d \in Directions : \A t \in Tiers : pilot.tier[d][t] = "armed"
        BY <3>1 DEF AllArmed
      <4>2. \A d \in Directions : \A t \in Tiers :
              RearmTier(d, t, pilot.tier[d][t], e, gap, ConfirmedBy(window, d)) = "armed"
        BY <4>1 DEF RearmTier
      <4> QED BY <1>6, <3>3, <4>2 DEF AllArmed
    <3> QED BY <3>2, <3>3
  <2> QED BY <1>1, <1>6, <1>8, <2>1 DEF TierBooksMatch, PilotInv
<1>12. LoopHolds'
  BY <1>1, <1>8, TypesOf DEF LoopHolds
<1>13. TrialHolds' /\ ChainIsVerifiable' /\ SessionHolds'
  BY <1>1, <1>6, TrialKept
<1> QED BY <1>8, <1>9, <1>10, <1>11, <1>12, <1>13 DEF PilotInv

LEMMA EnterKeeps ==
  ASSUME PilotAssumption, PilotInv, NEW d \in Directions, EnterTier(d)
  PROVE  PilotInv'
<1>1. PICK t \in {CHOOSE c \in EntryTiers(d) : \A o \in EntryTiers(d) : o <= c} :
        /\ Budget(d, t)
        /\ pending_action' = [kind |-> "open", id |-> actions + 1, tier |-> t, dir |-> d,
                       confirmed |-> Activated(d) = t, previous |-> position]
        /\ pilot' = [pilot EXCEPT !.status = "entry_pending", !.reserved = actions + 1]
  BY DEF EnterTier
<1>2. /\ UNCHANGED <<mode, position, trial, session, recent, managing, undipped>>
      /\ step = "decide" /\ pending_action = NoAction /\ step' = "settle" /\ actions' = actions + 1
      /\ actions < MaxActions /\ EntryTiers(d) # {}
  BY DEF EnterTier, Resolved
<1>3. Activated(d) \in 0..MaxTier /\ MaxTier \in Nat
  BY ConfirmedIsTier DEF Activated, ConfirmedTiers, PilotAssumption
<1>4. /\ t \in 1..Activated(d) /\ pilot.tier[d][t] = "armed" /\ t \in Tiers
      /\ \A o \in EntryTiers(d) : o <= t
  <2>1. EntryTiers(d) \in SUBSET (1..Activated(d)) /\ Activated(d) \in Nat
    BY <1>3 DEF EntryTiers
  <2>2. \E c \in EntryTiers(d) : \A o \in EntryTiers(d) : o <= c
    BY <1>2, <2>1, GreatestOf
  <2>3. t \in EntryTiers(d) /\ \A o \in EntryTiers(d) : o <= t
    BY <1>1, <2>2
  <2> QED BY <1>3, <2>3 DEF EntryTiers, Tiers
<1>5. /\ pending_action'.kind = "open" /\ pending_action'.id = actions + 1 /\ pending_action'.tier = t /\ pending_action'.dir = d
      /\ pending_action'.confirmed = (Activated(d) = t) /\ pending_action'.previous = position
      /\ pending_action' # NoAction
  BY <1>1 DEF NoAction
<1>6. /\ pilot' \in Pilots /\ pilot'.id = pilot.id /\ pilot'.previous = pilot.previous
      /\ pilot'.manual = pilot.manual /\ pilot'.equity = pilot.equity /\ pilot'.done = pilot.done
      /\ pilot'.opened = pilot.opened /\ pilot'.tier = pilot.tier /\ pilot'.round = pilot.round
      /\ pilot'.status = "entry_pending" /\ pilot'.reserved = actions + 1
  <2>1. actions + 1 \in 0..MaxActions
    BY <1>2, TypesOf DEF PilotAssumption
  <2> QED BY <1>1, <2>1, TypesOf DEF Pilots, PilotStatuses
<1>7. /\ pilot.done = 0
      /\ position = NoPosition => pilot.opened = {}
      /\ position # NoPosition => pilot.opened # {}
  BY <1>1 DEF Budget
<1>8. pending_action' \in PendingActions'
  <2>1. actions + 1 \in 1..MaxActions
    BY <1>2, TypesOf DEF PilotAssumption
  <2>2. (Activated(d) = t) \in BOOLEAN
    OBVIOUS
  <2> QED BY <1>1, <1>2, <1>4, <2>1, <2>2 DEF PendingActions
<1>9. PilotTypeOK' /\ TierRecordsOK'
  <2>1. step' \in Steps /\ session' \in 0..pilot'.id /\ pilot'.previous < pilot'.id
        /\ actions' \in 0..MaxActions
    BY <1>2, <1>6, TypesOf DEF Steps, PilotAssumption
  <2>2. PilotTypeOK'
    BY <1>2, <1>6, <1>8, <2>1, TypesOf, TypesKept DEF PilotInv
  <2> QED BY <1>2, <1>6, <2>1, <2>2, TypesOf DEF TierRecordsOK, PilotInv
<1>10. LoopHolds'
  BY <1>2, <1>5 DEF LoopHolds
<1>11. TierBooksMatch'
  <2>1. \A l \in position.layers : l.id <= actions /\ l.id \in Nat
    <3>1. position.layers \subseteq Layer
      BY TypesOf DEF Positions, NoPosition
    <3> QED BY <3>1 DEF PilotInv, TierBooksMatch, Layer
  <2>2. \A l \in position.layers : l.id < actions + 1
    BY <2>1, TypesOf
  <2> QED BY <1>2, <1>5, <1>6, <1>7, <2>1, <2>2, TypesOf DEF TierBooksMatch, PilotInv
<1>12. TrialHolds' /\ ChainIsVerifiable' /\ SessionHolds'
  BY <1>2, <1>6, TrialKept
<1>13. DipsAwaited'
  BY <1>2, <1>6 DEF DipsAwaited, PilotInv
<1>14. ReentryNeedsDip'
  <2> SUFFICES ASSUME t \in undipped[d] PROVE FALSE
    BY <1>2, <1>5 DEF ReentryNeedsDip
  <2>1. pilot.equity /\ (pilot.tier[d][t] = "closed" \/ pilot.manual)
    BY DEF PilotInv, DipsAwaited
  <2>2. pilot.manual
    BY <1>4, <2>1
  <2>3. mode = "continuous"
    BY <2>1, TypesOf DEF PilotInv, SessionHolds
  <2>4. Activated(d) = 0
    BY <2>2, <2>3 DEF Activated
  <2> QED BY <1>4, <2>4
<1>15. ArchiveNeverRefuses'
  <2>1. pilot.equity \/ pending_action'.confirmed
    <3> SUFFICES ASSUME ~pilot.equity PROVE pending_action'.confirmed
      OBVIOUS
    <3>1. pilot.tier = AllArmed
      BY DEF PilotInv, TierBooksMatch
    <3>2. Activated(d) \in EntryTiers(d)
      <4>1. Activated(d) \in 1..Activated(d) /\ Activated(d) \in Tiers
        BY <1>3, <1>4 DEF Tiers
      <4> QED BY <3>1, <4>1 DEF EntryTiers, AllArmed
    <3>3. Activated(d) = t
      BY <1>3, <1>4, <3>2
    <3> QED BY <1>5, <3>3
  <2>2. (position = NoPosition) <=> (TiersOf(pilot.opened) = {})
    BY <1>7 DEF TiersOf
  <2>3. t <= MaxTier
    BY <1>3, <1>4
  <2>4. EntryFits'
    BY <1>5, <1>6, <2>1, <2>2, <2>3 DEF EntryFits
  <2> QED BY <1>5, <2>4 DEF ArchiveNeverRefuses
<1> QED BY <1>9, <1>10, <1>11, <1>12, <1>13, <1>14, <1>15 DEF PilotInv

LEMMA CloseKeeps ==
  ASSUME PilotAssumption, PilotInv, NEW layers \in SUBSET position.layers, CloseLayers(layers),
         pilot.equity \/ layers = position.layers
  PROVE  PilotInv'
<1>1. /\ UNCHANGED <<mode, pilot, position, trial, session, recent, managing, undipped>>
      /\ step = "decide" /\ pending_action = NoAction /\ step' = "settle" /\ actions' = actions + 1
      /\ actions < MaxActions /\ position # NoPosition
      /\ pending_action' = [kind |-> "close", id |-> actions + 1, closing |-> layers]
  BY DEF CloseLayers, Resolved
<1>2. /\ pending_action'.kind = "close" /\ pending_action'.closing = layers /\ pending_action' # NoAction
  BY <1>1 DEF NoAction
<1>3. pending_action' \in PendingActions'
  <2>1. actions + 1 \in 1..MaxActions
    BY <1>1, TypesOf DEF PilotAssumption
  <2> QED BY <1>1, <2>1 DEF PendingActions
<1>4. PilotTypeOK' /\ TierRecordsOK'
  <2>1. step' \in Steps /\ actions' \in 0..MaxActions
    BY <1>1, TypesOf DEF Steps, PilotAssumption
  <2>2. PilotTypeOK'
    BY <1>1, <1>3, <2>1, TypesOf, TypesKept DEF PilotInv
  <2> QED BY <1>1, <2>1, <2>2, TypesOf DEF TierRecordsOK, PilotInv
<1>5. LoopHolds'
  BY <1>1, <1>2 DEF LoopHolds
<1>6. position.layers \subseteq Layer
  BY TypesOf DEF Positions, NoPosition
<1>7. pilot.status = "in_position" /\ pilot.done = 0 /\ pilot.opened = position.layers
  BY <1>1 DEF PilotInv, TierBooksMatch, NoAction
<1>8. TierBooksMatch'
  <2>1. \A l \in position.layers : l.id <= actions + 1
    BY <1>6, TypesOf DEF PilotInv, TierBooksMatch, Layer
  <2> QED BY <1>1, <1>2, <1>7, <2>1 DEF TierBooksMatch, PilotInv
<1>9. TrialHolds' /\ ChainIsVerifiable' /\ SessionHolds'
  BY <1>1, TrialKept
<1>10. DipsAwaited' /\ ReentryNeedsDip'
  BY <1>1, <1>2 DEF DipsAwaited, ReentryNeedsDip, PilotInv
<1>11. ArchiveNeverRefuses'
  <2>1. Remaining' = {l \in position.layers : l.id \notin IdsOf(layers)}
    BY <1>1, <1>2 DEF Remaining, IdsOf
  <2>2. CASE Remaining' # {} /\ pilot.equity
    <3>1. IdsOf(layers) \cup IdsOf(Remaining') = IdsOf(pilot.opened)
      BY <1>7, <2>1 DEF IdsOf
    <3>2. CloseFits'
      BY <1>1, <1>2, <2>2, <3>1 DEF CloseFits, IdsOf
    <3> QED BY <1>2, <3>2 DEF ArchiveNeverRefuses
  <2>3. CASE ~(Remaining' # {} /\ pilot.equity)
    <3>1. layers = position.layers
      <4> SUFFICES ASSUME layers # position.layers PROVE FALSE
        OBVIOUS
      <4>1. Remaining' = {}
        BY <2>3
      <4>2. \A l \in position.layers : \E m \in layers : m.id = l.id
        BY <2>1, <4>1 DEF IdsOf
      <4>3. \A l, m \in position.layers : l.id = m.id => l = m
        BY DEF PilotInv, TierBooksMatch
      <4> QED BY <4>2, <4>3
    <3>2. TiersInOrder(pending_action.closing)' = TiersInOrder(pilot.opened)'
      BY <1>1, <1>2, <1>7, <3>1
    <3>3. CloseFits'
      BY <1>1, <1>2, <1>7, <2>3, <3>2 DEF CloseFits
    <3> QED BY <1>2, <3>3 DEF ArchiveNeverRefuses
  <2> QED BY <2>2, <2>3
<1> QED BY <1>4, <1>5, <1>8, <1>9, <1>10, <1>11 DEF PilotInv

LEMMA CloseSomeKeeps == ASSUME PilotAssumption, PilotInv, CloseSome PROVE PilotInv'
<1>1. CASE CloseLayers(position.layers)
  BY <1>1, CloseKeeps
<1>2. ASSUME NEW t \in Tiers, CloseTier(t) PROVE PilotInv'
  <2>1. pilot.equity /\ CloseLayers({l \in position.layers : l.tier = t})
    BY <1>2 DEF CloseTier
  <2> QED BY <2>1, CloseKeeps
<1> QED BY <1>1, <1>2 DEF CloseSome

LEMMA SettleOpenKeeps ==
  ASSUME PilotAssumption, PilotInv, NEW filled \in BOOLEAN, SettleOpen(filled)
  PROVE  PilotInv'
<1> DEFINE layer == [id |-> pending_action.id, tier |-> pending_action.tier]
<1>1. /\ UNCHANGED <<mode, trial, session, recent, managing, actions, undipped>>
      /\ step = "settle" /\ pending_action.kind = "open" /\ EntryFits /\ pending_action' = NoAction /\ step' = "advance"
  BY DEF SettleOpen
<1>2. IF filled
      THEN /\ pilot' = [pilot EXCEPT !.status = "in_position", !.opened = @ \cup {layer}]
           /\ position' = [dir |-> pending_action.dir, layers |-> pending_action.previous.layers \cup {layer}]
      ELSE /\ pilot' = [pilot EXCEPT !.exhausted = @ \cup {pending_action.tier},
                          !.status = IF pending_action.previous = NoPosition THEN "exhausted" ELSE "in_position"]
           /\ position' = pending_action.previous
  BY DEF SettleOpen
<1>3. /\ pending_action.id \in 1..MaxActions /\ pending_action.tier \in Tiers /\ pending_action.dir \in Directions
      /\ pending_action.previous = position /\ pending_action.id = actions /\ pilot.done = 0
      /\ pilot.opened = position.layers /\ \A l \in position.layers : l.id < actions
      /\ \A l, m \in position.layers : l.id = m.id => l = m
  BY <1>1, TypesOf, PendingKinds DEF PilotInv, TierBooksMatch
<1>4. layer \in Layer /\ position.layers \subseteq Layer /\ layer.id = actions
  BY <1>3, TypesOf DEF Layer, Positions, NoPosition
<1> HIDE DEF layer
<1> DEFINE Archived ==
      /\ pilot' \in Pilots /\ pilot'.id = pilot.id /\ pilot'.previous = pilot.previous
      /\ pilot'.manual = pilot.manual /\ pilot'.equity = pilot.equity /\ pilot'.tier = pilot.tier
      /\ pilot'.round = pilot.round /\ position' \in Positions /\ TierBooksMatch'
<1>5. ASSUME filled PROVE Archived
  <2>1. /\ pilot' = [pilot EXCEPT !.status = "in_position", !.opened = @ \cup {layer}]
        /\ position' = [dir |-> pending_action.dir, layers |-> position.layers \cup {layer}]
    BY <1>2, <1>3, <1>5
  <2>2. /\ pilot' \in Pilots /\ pilot'.id = pilot.id /\ pilot'.previous = pilot.previous
        /\ pilot'.manual = pilot.manual /\ pilot'.equity = pilot.equity /\ pilot'.done = pilot.done
        /\ pilot'.opened = pilot.opened \cup {layer} /\ pilot'.tier = pilot.tier
        /\ pilot'.round = pilot.round /\ pilot'.status = "in_position"
    BY <1>4, <2>1, TypesOf DEF Pilots, PilotStatuses
  <2>3. position' \in Positions /\ position'.layers = position.layers \cup {layer}
    <3>1. position.layers \cup {layer} \in (SUBSET Layer) \ {{}}
      BY <1>4
    <3> QED BY <1>3, <2>1, <3>1 DEF Positions
  <2>4. TierBooksMatch'
    <3>1. \A l \in position'.layers : l.id <= actions
      BY <1>3, <1>4, <2>3, TypesOf DEF Layer
    <3>2. \A l, m \in position'.layers : l.id = m.id => l = m
      <4>1. \A l \in position.layers : l.id # layer.id
        BY <1>3, <1>4, TypesOf DEF Layer
      <4> QED BY <1>3, <2>3, <4>1
    <3> QED BY <1>1, <1>3, <2>2, <2>3, <3>1, <3>2, NothingPending DEF TierBooksMatch, PilotInv
  <2> QED BY <2>2, <2>3, <2>4
<1>6. ASSUME ~filled PROVE Archived
  <2>1. /\ pilot' = [pilot EXCEPT !.exhausted = @ \cup {pending_action.tier},
                       !.status = IF position = NoPosition THEN "exhausted" ELSE "in_position"]
        /\ position' = position
    BY <1>2, <1>3, <1>6
  <2>2. /\ pilot' \in Pilots /\ pilot'.id = pilot.id /\ pilot'.previous = pilot.previous
        /\ pilot'.manual = pilot.manual /\ pilot'.equity = pilot.equity /\ pilot'.done = pilot.done
        /\ pilot'.opened = pilot.opened /\ pilot'.tier = pilot.tier
        /\ pilot'.round = pilot.round
        /\ position # NoPosition => pilot'.status = "in_position"
    BY <1>3, <2>1, TypesOf DEF Pilots, PilotStatuses
  <2>3. position' \in Positions
    BY <2>1, TypesOf
  <2>4. TierBooksMatch'
    BY <1>1, <1>3, <2>1, <2>2, NothingPending DEF TierBooksMatch, PilotInv
  <2> QED BY <2>2, <2>3, <2>4
<1>7. Archived
  BY <1>5, <1>6
<1> HIDE DEF layer
<1>8. PilotTypeOK' /\ TierRecordsOK'
  <2>1. step' \in Steps /\ session' \in 0..pilot'.id /\ pilot'.previous < pilot'.id
        /\ pending_action' \in PendingActions'
    BY <1>1, <1>7, TypesOf, NothingPending DEF Steps
  <2>2. PilotTypeOK'
    BY <1>1, <1>7, <2>1, TypesOf, TypesKept DEF PilotInv
  <2> QED BY <1>1, <1>7, <2>2, TypesOf DEF TierRecordsOK, PilotInv
<1>9. LoopHolds'
  BY <1>1 DEF LoopHolds
<1>10. TrialHolds' /\ ChainIsVerifiable' /\ SessionHolds'
  BY <1>1, <1>7, TrialKept
<1>11. DipsAwaited'
  BY <1>1, <1>7 DEF DipsAwaited, PilotInv
<1> QED BY <1>1, <1>7, <1>8, <1>9, <1>10, <1>11, NothingPending DEF PilotInv

LEMMA SettleCloseKeeps == ASSUME PilotAssumption, PilotInv, SettleClose PROVE PilotInv'
<1>1. /\ UNCHANGED <<mode, trial, session, recent, managing, actions>>
      /\ step = "settle" /\ pending_action.kind = "close" /\ pending_action' = NoAction /\ step' = "advance"
      /\ undipped' = IF pilot.equity
                     THEN [undipped EXCEPT ![position.dir] = @ \cup TiersOf(pending_action.closing)] ELSE undipped
  BY DEF SettleClose
<1>2. /\ pending_action.closing \subseteq position.layers /\ position # NoPosition
      /\ ~pilot.equity => pending_action.closing = position.layers /\ pilot.tier = AllArmed
      /\ pilot.done = 0 /\ pilot.opened = position.layers /\ pilot.status = "in_position"
      /\ \A l \in position.layers : l.id <= actions
      /\ \A l, m \in position.layers : l.id = m.id => l = m
  BY <1>1, TypesOf, PendingKinds DEF PilotInv, TierBooksMatch
<1>3. /\ position.dir \in Directions /\ position.layers \subseteq Layer
      /\ position = [dir |-> position.dir, layers |-> position.layers]
  BY <1>2, TypesOf DEF Positions
<1>4. TiersOf(pending_action.closing) \subseteq Tiers
  BY <1>2, <1>3 DEF TiersOf, Layer
<1>5. pilot.tier \in [Directions -> [Tiers -> {"armed", "closed", "dipped"}]]
  BY TypesOf DEF Pilots
<1>6. /\ Disarmed \in [Directions -> [Tiers -> {"armed", "closed", "dipped"}]]
      /\ \A t \in Tiers : Disarmed[position.dir][t] =
            IF t \in TiersOf(pending_action.closing) THEN "closed" ELSE pilot.tier[position.dir][t]
      /\ \A d \in Directions : d # position.dir => Disarmed[d] = pilot.tier[d]
  BY <1>3, <1>5 DEF Disarmed
<1> DEFINE Archived ==
      /\ pilot' \in Pilots /\ pilot'.id = pilot.id /\ pilot'.previous = pilot.previous
      /\ pilot'.manual = pilot.manual /\ pilot'.equity = pilot.equity
      /\ pilot.equity => pilot'.tier = Disarmed
      /\ (pilot'.round.armed \/ pilot'.round.count < Rearm)
      /\ position' \in Positions /\ TierBooksMatch'
<1>7. ASSUME Remaining # {} PROVE Archived
  <2>1. /\ pilot' = [pilot EXCEPT !.opened = StillOpened, !.tier = Disarmed, !.status = "in_position"]
        /\ position' = [position EXCEPT !.layers = Remaining]
    BY <1>7 DEF SettleClose
  <2>2. StillOpened = Remaining /\ Remaining \subseteq position.layers
    BY <1>2 DEF StillOpened, Remaining, IdsOf
  <2>3. pilot.equity
    <3> SUFFICES ASSUME ~pilot.equity PROVE FALSE
      OBVIOUS
    <3> QED BY <1>2, <1>7 DEF Remaining, IdsOf
  <2>4. position' = [dir |-> position.dir, layers |-> Remaining] /\ position' \in Positions
        /\ position'.layers = Remaining
    BY <1>3, <1>7, <2>1, <2>2 DEF Positions
  <2>5. /\ pilot' \in Pilots /\ pilot'.id = pilot.id /\ pilot'.previous = pilot.previous
        /\ pilot'.manual = pilot.manual /\ pilot'.equity = pilot.equity /\ pilot'.tier = Disarmed
        /\ pilot'.opened = Remaining /\ pilot'.status = "in_position" /\ pilot'.done = pilot.done
        /\ pilot'.round = pilot.round
    BY <1>3, <1>6, <2>1, <2>2, TypesOf DEF Pilots, PilotStatuses
  <2>6. TierBooksMatch'
    BY <1>1, <1>2, <2>2, <2>3, <2>4, <2>5, NothingPending DEF TierBooksMatch
  <2> QED BY <2>4, <2>5, <2>6 DEF PilotInv, TierRecordsOK
<1>8. ASSUME ~(Remaining # {}) PROVE Archived
  <2> DEFINE waiting == [required |-> TRUE, armed |-> FALSE, dir |-> position.dir, count |-> 0]
  <2>1. /\ pilot' = [pilot EXCEPT !.status = "completed", !.done = 1,
                        !.tier = IF pilot.equity THEN Disarmed ELSE @,
                        !.round = IF pilot.equity THEN waiting ELSE @]
        /\ position' = NoPosition
    BY <1>8 DEF SettleClose
  <2>2. waiting \in Rounds /\ waiting.count < Rearm
    BY <1>3 DEF Rounds, PilotAssumption
  <2> HIDE DEF waiting
  <2>3. /\ pilot' \in Pilots /\ pilot'.id = pilot.id /\ pilot'.previous = pilot.previous
        /\ pilot'.manual = pilot.manual /\ pilot'.equity = pilot.equity /\ pilot'.done = 1
        /\ pilot.equity => pilot'.tier = Disarmed /\ pilot'.round = waiting
        /\ ~pilot.equity => pilot'.tier = pilot.tier /\ pilot'.round = pilot.round
    BY <1>6, <2>1, <2>2, TypesOf DEF Pilots, PilotStatuses
  <2>4. pilot'.round.armed \/ pilot'.round.count < Rearm
    BY <2>2, <2>3 DEF PilotInv, TierRecordsOK
  <2>5. TierBooksMatch'
    BY <1>1, <1>2, <2>1, <2>3, NothingPending DEF TierBooksMatch, NoPosition
  <2> QED BY <2>1, <2>3, <2>4, <2>5 DEF Positions
<1>9. Archived
  BY <1>7, <1>8
<1>10. undipped' \in [Directions -> SUBSET Tiers]
  BY <1>1, <1>3, <1>4, TypesOf
<1>11. PilotTypeOK' /\ TierRecordsOK'
  <2>1. step' \in Steps /\ session' \in 0..pilot'.id /\ pilot'.previous < pilot'.id
        /\ pending_action' \in PendingActions'
    BY <1>1, <1>9, TypesOf, NothingPending DEF Steps
  <2>2. PilotTypeOK'
    BY <1>1, <1>9, <1>10, <2>1, TypesOf, TypesKept DEF PilotInv
  <2> QED BY <1>1, <1>9, <2>2, TypesOf DEF TierRecordsOK
<1>12. LoopHolds'
  BY <1>1 DEF LoopHolds
<1>13. TrialHolds' /\ ChainIsVerifiable' /\ SessionHolds'
  BY <1>1, <1>9, TrialKept
<1>14. DipsAwaited'
  <2> SUFFICES ASSUME NEW d \in Directions, NEW t \in undipped'[d]
               PROVE  pilot'.equity /\ (pilot'.tier[d][t] = "closed" \/ pilot'.manual)
    BY DEF DipsAwaited
  <2>1. pilot.equity
    BY <1>1 DEF PilotInv, DipsAwaited
  <2>2. t \in Tiers
    BY <1>10
  <2>3. CASE d = position.dir /\ t \in TiersOf(pending_action.closing)
    BY <1>6, <1>9, <2>1, <2>2, <2>3
  <2>4. CASE ~(d = position.dir /\ t \in TiersOf(pending_action.closing))
    <3>1. t \in undipped[d]
      BY <1>1, <1>3, <2>1, <2>4, TypesOf
    <3>2. pilot.tier[d][t] = "closed" \/ pilot.manual
      BY <3>1 DEF PilotInv, DipsAwaited
    <3> QED BY <1>6, <1>9, <2>1, <2>2, <2>4, <3>2
  <2> QED BY <2>3, <2>4
<1> QED BY <1>1, <1>9, <1>11, <1>12, <1>13, <1>14, NothingPending DEF PilotInv

LEMMA CloseNotFilledKeeps == ASSUME PilotAssumption, PilotInv, CloseNotFilled PROVE PilotInv'
<1>1. /\ UNCHANGED <<mode, pilot, position, trial, session, recent, managing, actions, undipped>>
      /\ step = "settle" /\ pending_action.kind = "close" /\ pending_action' = NoAction /\ step' = "advance"
  BY DEF CloseNotFilled
<1>2. /\ ArchiveNeverRefuses' /\ ReentryNeedsDip' /\ pending_action' \in PendingActions'
      /\ pending_action'.kind = "none"
  BY <1>1, NothingPending
<1>3. PilotTypeOK' /\ TierRecordsOK'
  <2>1. step' \in Steps
    BY <1>1 DEF Steps
  <2>2. PilotTypeOK'
    BY <1>1, <1>2, <2>1, TypesOf, TypesKept DEF PilotInv
  <2> QED BY <1>1, <2>2 DEF TierRecordsOK, PilotInv
<1>4. LoopHolds' /\ TierBooksMatch' /\ DipsAwaited'
  BY <1>1, <1>2 DEF LoopHolds, TierBooksMatch, DipsAwaited, PilotInv
<1>5. TrialHolds' /\ ChainIsVerifiable' /\ SessionHolds'
  BY <1>1, TrialKept
<1> QED BY <1>2, <1>3, <1>4, <1>5 DEF PilotInv

-----------------------------------------------------------------------------
(* The theorems.                                                           *)

LEMMA PilotInvNext == ASSUME PilotAssumption PROVE PilotInv /\ [PilotNext]_pilotVars => PilotInv'
<1> SUFFICES ASSUME PilotInv, [PilotNext]_pilotVars PROVE PilotInv'
  OBVIOUS
<1>1. CASE UNCHANGED pilotVars
  <2>1. /\ UNCHANGED <<mode, pilot, position, pending_action, trial, session, step, recent, managing, actions,
                       undipped>>
    BY <1>1 DEF pilotVars, stateFile
  <2>2. PilotTypeOK' /\ TierRecordsOK' /\ TierBooksMatch' /\ ArchiveNeverRefuses'
    BY <2>1, TypesOf, TypesKept, BooksKept DEF PilotInv, TierRecordsOK
  <2>3. ChainIsVerifiable'
    BY <2>1 DEF PilotInv, ChainIsVerifiable, TrialAccepted, ChainHolds, Flat
  <2>4. LoopHolds' /\ SessionHolds' /\ TrialHolds'
    BY <2>1 DEF PilotInv, LoopHolds, SessionHolds, TrialHolds
  <2> QED BY <2>1, <2>2, <2>3, <2>4, DipsKept DEF PilotInv
<1>2. CASE Advance
  BY <1>2, StayKeeps, CountKeeps, EnsureKeeps, CreateKeeps, LinkKeeps DEF Advance
<1>3. CASE Settle
  BY <1>3, SettleCloseKeeps, CloseNotFilledKeeps, SettleOpenKeeps DEF Settle
<1>4. CASE \E e \in Edges, gap \in BOOLEAN : Observe(e, gap)
  BY <1>4, ObserveKeeps
<1>5. CASE \E d \in Directions : EnterTier(d)
  BY <1>5, EnterKeeps
<1> QED BY <1>1, <1>2, <1>3, <1>4, <1>5, BootKeeps, CrashKeeps, AdoptKeeps, HoldKeeps, CloseSomeKeeps
        DEF PilotNext

\* The records of the state file, the loop that writes them and the history
\* of closed tiers fit each other in every reachable state.
THEOREM PilotInvariant == ASSUME PilotAssumption PROVE PilotSpec => []PilotInv
BY PilotInvInit, PilotInvNext, PTL DEF PilotSpec

\* Every variable keeps its kind (the state file of the runtime, its window
\* of samples and its place in the loop), for all bounds.
THEOREM PilotTypes == ASSUME PilotAssumption PROVE PilotSpec => []PilotTypeOK
<1>1. PilotInv => PilotTypeOK
  BY DEF PilotInv
<1> QED BY <1>1, PilotInvariant, PTL

\* Archiving an entry or a close never refuses (_archive_execution and
\* _complete_gradient_pilot): no action stays pending behind its fills.
THEOREM ArchivesAlways == ASSUME PilotAssumption PROVE PilotSpec => []ArchiveNeverRefuses
<1>1. PilotInv => ArchiveNeverRefuses
  BY DEF PilotInv
<1> QED BY <1>1, PilotInvariant, PTL

\* ensure_trial and ensure_continuous accept the chain of rounds they find,
\* between whichever two saves the runtime died and however often.
THEOREM ChainStaysVerifiable == ASSUME PilotAssumption PROVE PilotSpec => []ChainIsVerifiable
<1>1. PilotInv => ChainIsVerifiable
  BY DEF PilotInv
<1> QED BY <1>1, PilotInvariant, PTL

\* advance_pilot_reactivation and signal_tier: a closed tier is taken again
\* only after its edge was seen below its threshold, for any number of tiers.
THEOREM ReentryFollowsDip == ASSUME PilotAssumption PROVE PilotSpec => []ReentryNeedsDip
<1>1. PilotInv => ReentryNeedsDip
  BY DEF PilotInv
<1> QED BY <1>1, PilotInvariant, PTL
=============================================================================
