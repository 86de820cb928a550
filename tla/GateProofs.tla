---------------------------- MODULE GateProofs ----------------------------
(***************************************************************************)
(* What must be answered before an entry. The locks of WtiGate: no entry   *)
(* before a failed read or a gap is answered, for any number of retries,   *)
(* troubles, entries and deaths. And the account checks of AccountRisk,    *)
(* for any number of confirmations, lots, changes of the account and       *)
(* deaths: what a start owes, and what ends the operator's alarm.          *)
(***************************************************************************)
EXTENDS WtiGate, AccountRisk, TLAPS

-----------------------------------------------------------------------------
(* The locks: the inductive invariant. *)

\* A read on its way knows how far the recovery is.
RecoverySteps ==
  /\ phase = "admitted" => cycle.tries <= Retries
  /\ phase = "recording" /\ ~cycle.again => cycle.tries <= Retries
  /\ phase = "failing" => mem.required /\ mem.verified = 0 /\ ~cycle.answered
  /\ phase = "clearing" => mem.required /\ mem.verified = Confirmed
  /\ phase # "clearing" => mem.verified < Confirmed

\* A confirmation that is owed is owed by the file, and by the process there is;
\* what the process has counted is not owed any more.
DoubtIsKept ==
  /\ doubt > 0 => state.recovering /\ (phase = "down" \/ mem.required)
  /\ mem.verified + doubt <= Confirmed

\* Between cycles nothing is remembered of one, and without a process nothing at all.
Fresh ==
  /\ phase \in {"down", "idle"} => cycle = NoCycle
  /\ phase = "down" => mem = NoProcess

\* A baseline is written down as soon as it is taken, and never forgotten.
BaselineIsKnown ==
  /\ phase # "down" /\ guard.known => mem.base
  /\ phase # "recording" /\ mem.base => guard.known
  /\ behind => guard.known

\* The gap is still ahead: it will be met with the next baseline, and until then
\* there is no signal to enter on.
Ahead == behind /\ phase # "recording" /\ ~mem.signals /\ ~cycle.signal

\* A gap that is not answered locks the file or lies ahead of it, and so in memory.
GapIsLocked ==
  proof.gap =>
    /\ guard.known /\ (guard.lock # "none" \/ behind)
    /\ phase = "down" \/ mem.lock # "none" \/ Ahead

\* The evidence the process counts was there.
EvidenceIsReal ==
  proof.gap =>
    /\ mem.near <= proof.near /\ mem.reads <= proof.reads
    /\ phase \in {"clearing", "read"} /\ cycle.answered /\ cycle.safe /\ state.status = "flat"
         => Least(mem.reads + 1, Confirmed) <= proof.reads
    /\ ~(proof.near = Continuous /\ proof.reads = Confirmed)

GateInv ==
  /\ TypeOK /\ RecoverySteps /\ DoubtIsKept /\ Fresh
  /\ BaselineIsKnown /\ GapIsLocked /\ EvidenceIsReal

CountsAreNatural ==
  Retries \in Nat /\ MaxFaults \in Nat /\ MaxEntries \in Nat /\ MaxCrashes \in Nat

-----------------------------------------------------------------------------
(* What the operators return. *)

Memory ==
  [lock : Locks, near : 0..Continuous, reads : 0..Confirmed, exit : BOOLEAN,
   owner : BOOLEAN, base : BOOLEAN, signals : BOOLEAN, required : BOOLEAN,
   verified : 0..Confirmed, reconciled : BOOLEAN]
Cycles ==
  [startup : BOOLEAN, signal : BOOLEAN, again : BOOLEAN, tries : 0..Retries + 1,
   answered : BOOLEAN, safe : BOOLEAN, blocked : BOOLEAN]
StateFiles == [status : Statuses, recovering : BOOLEAN]
GuardFiles == [lock : Locks, drain : BOOLEAN, owner : BOOLEAN, known : BOOLEAN]
Gaugings == [gap : BOOLEAN, near : 0..Continuous, reads : 0..Confirmed]
Phases ==
  {"down", "idle", "recording", "admitted", "failing", "clearing", "read", "ready",
   "executing", "saving"}

\* TypeOK, with its sets by their names.
Typed ==
  /\ phase \in Phases /\ mem \in Memory /\ cycle \in Cycles /\ state \in StateFiles
  /\ guard \in GuardFiles /\ behind \in BOOLEAN /\ proof \in Gaugings /\ doubt \in 0..Confirmed
  /\ faults \in 0..MaxFaults /\ entries \in 0..MaxEntries /\ crashes \in 0..MaxCrashes

LEMMA TypedIsTypeOK == TypeOK <=> Typed
  BY DEF TypeOK, Typed, Phases, Memory, Cycles, StateFiles, GuardFiles, Gaugings

LEMMA NothingIsMemory == NoProcess \in Memory
  BY DEF NoProcess, Memory, Locks, Continuous, Confirmed

LEMMA NoCycleIsCycle == CountsAreNatural => NoCycle \in Cycles
  BY DEF NoCycle, Cycles, CountsAreNatural

LEMMA Updates ==
  ASSUME NEW m \in Memory
  PROVE  /\ \A l \in Locks : [m EXCEPT !.lock = l] \in Memory
         /\ \A n \in 0..Continuous : [m EXCEPT !.near = n] \in Memory
         /\ \A r \in 0..Confirmed : [m EXCEPT !.reads = r] \in Memory
         /\ \A v \in 0..Confirmed : [m EXCEPT !.verified = v] \in Memory
         /\ \A b \in BOOLEAN :
              /\ [m EXCEPT !.exit = b] \in Memory /\ [m EXCEPT !.owner = b] \in Memory
              /\ [m EXCEPT !.base = b] \in Memory /\ [m EXCEPT !.signals = b] \in Memory
              /\ [m EXCEPT !.required = b] \in Memory
              /\ [m EXCEPT !.reconciled = b] \in Memory
  BY DEF Memory

LEMMA Zeros == 0 \in 0..Continuous /\ 0 \in 0..Confirmed
  BY DEF Continuous, Confirmed

LEMMA BrokenIsMemory ==
  ASSUME NEW m \in Memory PROVE [m EXCEPT !.near = 0, !.reads = 0] \in Memory
  BY Updates, Zeros

LEMMA DecidedIsMemory == Typed => Decided \in Memory
<1> SUFFICES ASSUME Typed PROVE Decided \in Memory
  OBVIOUS
<1>1. (mem.signals \/ (cycle.signal /\ ~cycle.blocked)) \in BOOLEAN
  OBVIOUS
<1>2. (mem.exit /\ state.status = "open") \in BOOLEAN
  OBVIOUS
<1>3. QED
  BY <1>1, <1>2, Updates DEF Decided, Typed

LEMMA WrittenIsGuard == ASSUME NEW m \in Memory PROVE Written(m) \in GuardFiles
<1>1. (m.exit /\ m.owner) \in BOOLEAN
  OBVIOUS
<1>2. ASSUME NEW d \in BOOLEAN
      PROVE  [lock |-> m.lock, drain |-> d, owner |-> m.owner, known |-> m.base] \in GuardFiles
  BY DEF Memory, GuardFiles
<1>3. QED
  BY <1>1, <1>2 DEF Written

LEMMA RestoredIsMemory == Typed => Restored \in Memory
<1> SUFFICES ASSUME Typed PROVE Restored \in Memory
  OBVIOUS
<1>1. RestoresDrain \in BOOLEAN
  BY DEF RestoresDrain
<1>2. ASSUME NEW e \in BOOLEAN
      PROVE  [NoProcess EXCEPT !.lock = guard.lock, !.exit = e, !.owner = guard.owner,
                               !.base = guard.known, !.required = state.recovering] \in Memory
  BY NothingIsMemory DEF Typed, Memory, GuardFiles, StateFiles
<1>3. QED
  BY <1>1, <1>2 DEF Restored

LEMMA RevokedIsMemory ==
  ASSUME NEW m \in Memory, NEW reason \in Locks PROVE Revoked(m, reason) \in Memory
  BY DEF Revoked, Memory

LEMMA RenewedIsMemory ==
  ASSUME NEW m \in Memory, NEW new \in BOOLEAN PROVE Renewed(m, new) \in Memory
<1>1. (m.owner /\ ~new) \in BOOLEAN
  OBVIOUS
<1>2. ASSUME NEW o \in BOOLEAN PROVE [m EXCEPT !.owner = o] \in Memory
  BY DEF Memory
<1>3. QED
  BY <1>1, <1>2 DEF Renewed

LEMMA RejectedIsMemory == Typed => Rejected \in Memory
<1> SUFFICES ASSUME Typed PROVE Rejected \in Memory
  OBVIOUS
<1>1. [mem EXCEPT !.near = 0, !.reads = 0] \in Memory
  BY BrokenIsMemory DEF Typed
<1>2. QED
  BY <1>1, Updates DEF Rejected

LEMMA RecordedIsMemory == ASSUME Typed, NEW kind \in Kinds PROVE Recorded(kind) \in Memory
<1>1. kind \in {"first", "near", "far", "gap", "back"}
  BY DEF Kinds
<1>2. (state.status \in Held) \in BOOLEAN
  OBVIOUS
<1> DEFINE m == [mem EXCEPT !.base = TRUE]
           broken == [m EXCEPT !.near = 0, !.reads = 0]
<1>3. m \in Memory /\ broken \in Memory
  <2>1. m \in Memory
    BY Updates DEF Typed
  <2>2. QED
    BY <2>1, BrokenIsMemory
<1>4. CASE kind = "first"
  BY <1>3, <1>4 DEF Recorded
<1>5. CASE kind = "near"
  <2>1. m.near \in 0..Continuous
    BY <1>3 DEF Memory
  <2>2. Least(m.near + 1, Continuous) \in 0..Continuous
    BY <2>1 DEF Least, Continuous
  <2> HIDE DEF m
  <2>3. [m EXCEPT !.near = Least(m.near + 1, Continuous)] \in Memory
    BY <1>3, <2>2, Updates
  <2>4. Recorded(kind) = [m EXCEPT !.near = Least(m.near + 1, Continuous)]
    BY <1>5 DEF Recorded, m
  <2>5. QED
    BY <2>3, <2>4
<1>6. CASE kind = "far"
  BY <1>3, <1>6 DEF Recorded
<1>7. CASE kind \in {"gap", "back"}
  <2> DEFINE o == state.status \in Held
             reason == IF kind = "gap" THEN "gap" ELSE "clock"
             drained == [broken EXCEPT !.signals = FALSE, !.exit = TRUE, !.owner = o]
  <2>1. o \in BOOLEAN /\ reason \in Locks
    BY DEF Locks
  <2> HIDE DEF broken, m, o, reason
  <2>2. drained \in Memory
    BY <1>3, <2>1, Updates
  <2> HIDE DEF drained
  <2>3. [drained EXCEPT !.lock = reason] \in Memory
    BY <2>1, <2>2, Updates
  <2>4. Recorded(kind) = [drained EXCEPT !.lock = reason]
    BY <1>7 DEF Recorded, Revoked, drained, broken, m, o, reason
  <2>5. QED
    BY <2>3, <2>4
<1>8. QED
  BY <1>1, <1>4, <1>5, <1>6, <1>7

LEMMA EvidenceIsMemory == Typed => Evidence \in Memory /\ Lifted \in Memory
<1> SUFFICES ASSUME Typed PROVE Evidence \in Memory /\ Lifted \in Memory
  OBVIOUS
<1> DEFINE r == Least(mem.reads + 1, Confirmed)
<1>1. mem \in Memory /\ mem.reads \in 0..Confirmed /\ "none" \in Locks
  BY DEF Typed, Memory, Locks
<1>2. r \in 0..Confirmed
  BY <1>1 DEF Least, Confirmed
<1> HIDE DEF r
<1>3. [mem EXCEPT !.lock = "none", !.exit = FALSE, !.signals = FALSE, !.reads = r] \in Memory
  <2>1. [mem EXCEPT !.lock = "none", !.exit = FALSE] \in Memory
    BY <1>1, Updates
  <2>2. QED
    BY <1>2, <2>1, Updates
<1>4. Lifted \in Memory
  BY <1>3 DEF Lifted, r
<1>5. [mem EXCEPT !.reads = r] \in Memory /\ [mem EXCEPT !.reads = 0] \in Memory
  BY <1>1, <1>2, Zeros, Updates
<1>6. QED
  BY <1>1, <1>4, <1>5 DEF Evidence, r

LEMMA AnsweredIsGauging == ASSUME NEW p \in Gaugings PROVE Answered(p) \in Gaugings
  BY DEF Answered, Gaugings, Proven, Continuous, Confirmed

LEMMA WatchedIsGauging == ASSUME Typed, NEW kind PROVE Watched(kind) \in Gaugings
<1>1. CASE kind = "gap"
  BY <1>1 DEF Watched, Gaugings, Continuous, Confirmed
<1>2. CASE kind = "near"
  <2>1. [proof EXCEPT !.near = Least(@ + 1, Continuous)] \in Gaugings
    BY DEF Typed, Gaugings, Least, Continuous
  <2>2. QED
    BY <1>2, <2>1, AnsweredIsGauging DEF Watched, Typed
<1>3. CASE kind \notin {"gap", "near"}
  <2>1. Watched(kind) = [proof EXCEPT !.near = 0, !.reads = 0]
    BY <1>3 DEF Watched
  <2>2. [proof EXCEPT !.near = 0, !.reads = 0] \in Gaugings
    <3>1. [proof EXCEPT !.near = 0] \in Gaugings
      BY Zeros DEF Typed, Gaugings
    <3>2. QED
      BY <3>1, Zeros DEF Gaugings
  <2>3. QED
    BY <2>1, <2>2
<1>4. QED
  BY <1>1, <1>2, <1>3

LEMMA CycleUpdates ==
  ASSUME NEW c \in Cycles
  PROVE  /\ \A n \in 0..Retries + 1 : [c EXCEPT !.tries = n] \in Cycles
         /\ \A b \in BOOLEAN :
              /\ [c EXCEPT !.startup = b] \in Cycles /\ [c EXCEPT !.signal = b] \in Cycles
              /\ [c EXCEPT !.again = b] \in Cycles /\ [c EXCEPT !.answered = b] \in Cycles
              /\ [c EXCEPT !.safe = b] \in Cycles /\ [c EXCEPT !.blocked = b] \in Cycles
  BY DEF Cycles

LEMMA FileUpdates ==
  /\ \A s \in StateFiles, w \in Statuses : [s EXCEPT !.status = w] \in StateFiles
  /\ \A s \in StateFiles, b \in BOOLEAN : [s EXCEPT !.recovering = b] \in StateFiles
  /\ \A g \in GuardFiles, b \in BOOLEAN : [g EXCEPT !.owner = b] \in GuardFiles
  BY DEF StateFiles, GuardFiles

LEMMA EndsAreStatuses == \A s \in Statuses : Ends(s) \subseteq Statuses
  BY DEF Ends, Statuses

LEMMA RenewsIsBoolean == \A s, w : Renews(s, w) \subseteq BOOLEAN
  BY DEF Renews

LEMMA GaugingUpdates ==
  ASSUME NEW p \in Gaugings
  PROVE  /\ \A n \in 0..Continuous : [p EXCEPT !.near = n] \in Gaugings
         /\ \A r \in 0..Confirmed : [p EXCEPT !.reads = r] \in Gaugings
  BY DEF Gaugings

LEMMA CostsAreCounted ==
  ASSUME CountsAreNatural, Typed, NEW n \in {0, 1}, Costs(n) PROVE faults' \in 0..MaxFaults
  BY DEF Typed, CountsAreNatural, Costs

LEMMA FailIsTyped ==
  ASSUME CountsAreNatural, Typed, NEW m \in Memory, NEW tries \in 0..Retries + 1, Fail(m, tries)
  PROVE  Typed'
<1>1. mem' \in Memory
  <2>1. [m EXCEPT !.required = TRUE, !.verified = 0] \in Memory
    BY Updates, Zeros
  <2>2. QED
    BY <2>1, Updates DEF Fail
<1>2. cycle' \in Cycles
  <2>1. [cycle EXCEPT !.tries = tries, !.answered = FALSE] \in Cycles
    BY CycleUpdates DEF Typed
  <2>2. QED
    BY <2>1, CycleUpdates DEF Fail
<1>3. faults' \in 0..MaxFaults
  BY CostsAreCounted DEF Fail
<1>4. QED
  BY <1>1, <1>2, <1>3 DEF Fail, Typed, Phases, Bounds

LEMMA ReadIsTyped ==
  ASSUME CountsAreNatural, Typed, RecoverySteps, faults' \in 0..MaxFaults,
         NEW status \in Statuses, NEW new \in BOOLEAN, NEW safe \in BOOLEAN,
         Read(status, new, safe)
  PROVE  Typed'
<1> DEFINE counted == IF safe THEN mem.verified + 1 ELSE 0
<1>1. counted \in 0..Confirmed
  BY DEF Read, RecoverySteps, Typed, Memory, Confirmed
<1>2. mem' \in Memory
  <2>1. Renewed(mem, new) \in Memory
    BY RenewedIsMemory DEF Typed
  <2> HIDE DEF counted
  <2>2. [Renewed(mem, new) EXCEPT !.verified = counted] \in Memory
    BY <1>1, <2>1, Updates
  <2>3. [Renewed(mem, new) EXCEPT !.verified = counted, !.reconciled = FALSE] \in Memory
    BY <2>2, Updates
  <2>4. QED
    BY <2>1, <2>3 DEF Read, counted
<1>3. cycle' \in Cycles
  <2>1. mem.required \in BOOLEAN
    BY DEF Typed, Memory
  <2>2. [cycle EXCEPT !.answered = TRUE, !.safe = safe] \in Cycles
    BY CycleUpdates DEF Typed
  <2>3. QED
    BY <2>1, <2>2, CycleUpdates DEF Read
<1>4. state' \in StateFiles /\ guard' \in GuardFiles
  <2>1. (guard.owner /\ ~new) \in BOOLEAN
    OBVIOUS
  <2>2. QED
    BY <2>1, FileUpdates DEF Read, Typed
<1>5. proof' \in Gaugings
  <2>1. Least(proof.reads + 1, Confirmed) \in 0..Confirmed
    BY DEF Typed, Gaugings, Least, Confirmed
  <2>2. [proof EXCEPT !.reads = Least(@ + 1, Confirmed)] \in Gaugings
    BY <2>1, GaugingUpdates DEF Typed
  <2>3. QED
    BY <2>2, AnsweredIsGauging DEF Read, Typed
<1>6. doubt' \in 0..Confirmed
  BY DEF Read, Typed, Confirmed
<1>7. phase' \in Phases
  BY DEF Read, Phases
<1>8. QED
  BY <1>2, <1>3, <1>4, <1>5, <1>6, <1>7 DEF Read, Typed, Bounds

LEMMA RejectedFields ==
  Typed =>
    /\ Rejected.lock = mem.lock /\ Rejected.base = mem.base /\ ~Rejected.signals
    /\ Rejected.near = 0 /\ Rejected.reads = 0
  BY DEF Rejected, Typed, Memory

LEMMA WatchedInvalid ==
  Typed => Watched("invalid").gap = proof.gap /\ Watched("invalid").near = 0
           /\ Watched("invalid").reads = 0
<1>1. Watched("invalid") = [proof EXCEPT !.near = 0, !.reads = 0]
  BY DEF Watched
<1>2. QED
  BY <1>1 DEF Typed, Gaugings

LEMMA EvidenceFields ==
  ASSUME Typed
  PROVE  /\ Evidence.base = mem.base /\ Lifted.base = mem.base /\ Evidence.near = mem.near
         /\ Evidence.signals => mem.signals
         /\ ~LiftsGap => Evidence.lock = mem.lock
         /\ \/ Evidence.reads = mem.reads
            \/ Evidence.reads = 0
            \/ FlatProof /\ Evidence.reads = Least(mem.reads + 1, Confirmed)
<1> /\ mem.signals \in BOOLEAN /\ mem.base \in BOOLEAN
  BY DEF Typed, Memory
<1>1. /\ Lifted.base = mem.base /\ Lifted.near = mem.near /\ ~Lifted.signals
      /\ Lifted.reads = Least(mem.reads + 1, Confirmed)
  BY DEF Lifted, Typed, Memory
<1>2. CASE mem.lock # "gap"
  <2>1. Evidence = mem
    BY <1>2 DEF Evidence
  <2>2. QED
    BY <1>1, <2>1
<1>3. CASE LiftsGap
  BY <1>1, <1>3 DEF Evidence, LiftsGap
<1>4. CASE mem.lock = "gap" /\ ~LiftsGap
  <2> DEFINE r == IF FlatProof THEN Least(mem.reads + 1, Confirmed) ELSE 0
  <2>1. Evidence = [mem EXCEPT !.reads = r]
    BY <1>4 DEF Evidence
  <2> HIDE DEF r
  <2>2. /\ Evidence.base = mem.base /\ Evidence.near = mem.near /\ Evidence.lock = mem.lock
        /\ Evidence.signals = mem.signals /\ Evidence.reads = r
    BY <2>1 DEF Typed, Memory
  <2>3. QED
    BY <1>1, <2>2 DEF r
<1>5. QED
  BY <1>2, <1>3, <1>4

\* A gap lock that is lifted was answered: what lifts it was also seen from outside.
LEMMA LiftedIsAnswered ==
  ASSUME GateInv, phase = "read", LiftsGap PROVE ~proof.gap
<1>1. SUFFICES ASSUME proof.gap PROVE FALSE
  OBVIOUS
<1>2. mem.near <= proof.near /\ Least(mem.reads + 1, Confirmed) <= proof.reads
  BY <1>1 DEF GateInv, EvidenceIsReal, LiftsGap, FlatProof
<1>3. Typed
  BY TypedIsTypeOK DEF GateInv
<1>4. proof.near = Continuous /\ proof.reads = Confirmed
  BY <1>2, <1>3 DEF Typed, Memory, Gaugings, LiftsGap, Least, Continuous, Confirmed
<1>5. QED
  BY <1>1, <1>4 DEF GateInv, EvidenceIsReal

-----------------------------------------------------------------------------
(* One step per action, for each part of the invariant. *)

LEMMA TypesAreKept ==
  ASSUME CountsAreNatural, GateInv, [Next]_vars PROVE Typed'
<1> USE TypedIsTypeOK DEF GateInv
<1>1. CASE Start
  <2>1. mem' \in Memory
    BY <1>1, RestoredIsMemory DEF Start
  <2>2. QED
    BY <1>1, <2>1 DEF Start, Typed, Phases, Free, Bounds
<1>2. CASE Crash
  <2>1. mem' \in Memory /\ cycle' \in Cycles
    BY <1>2, NothingIsMemory, NoCycleIsCycle DEF Crash
  <2>2. proof' \in Gaugings
    BY <1>2, GaugingUpdates, Zeros DEF Crash, Typed
  <2>3. crashes' \in 0..MaxCrashes
    BY <1>2 DEF Crash, Typed, CountsAreNatural
  <2>4. QED
    BY <1>2, <2>1, <2>2, <2>3 DEF Crash, Typed, Phases, Free
<1>3. CASE Save
  <2>1. guard' \in GuardFiles /\ cycle' \in Cycles
    BY <1>3, WrittenIsGuard, NoCycleIsCycle DEF Save, Typed
  <2>2. QED
    BY <1>3, <2>1 DEF Save, Typed, Phases, Free, Bounds
<1>4. CASE \E kind \in {"first", "near", "far", "gap", "back"} : Take(kind)
  <2>1. PICK kind : Take(kind)
    BY <1>4
  <2>2. mem' \in Memory /\ proof' \in Gaugings
    BY <2>1, RecordedIsMemory, WatchedIsGauging DEF Take, Record
  <2>3. faults' \in 0..MaxFaults
    BY <2>1, CostsAreCounted DEF Take, Record, Trouble
  <2>4. cycle' \in Cycles
    BY <2>1, NoCycleIsCycle, CycleUpdates DEF Take, Typed, Memory
  <2>5. QED
    BY <2>1, <2>2, <2>3, <2>4 DEF Take, Record, Typed, Phases, Bounds
<1>5. CASE \E kind \in {"first", "near", "far", "gap", "back"} : Resample(kind)
  <2>1. PICK kind : Resample(kind)
    BY <1>5
  <2>2. mem' \in Memory /\ proof' \in Gaugings
    BY <2>1, RecordedIsMemory, WatchedIsGauging DEF Resample, Record
  <2>3. faults' \in 0..MaxFaults
    BY <2>1, CostsAreCounted DEF Resample, Record, Trouble
  <2>4. cycle' \in Cycles
    BY <2>1, CycleUpdates DEF Resample, Typed
  <2>5. QED
    BY <2>1, <2>2, <2>3, <2>4 DEF Resample, Record, Typed, Phases, Bounds
<1>6. CASE TakeInvalid
  <2>1. mem' \in Memory /\ proof' \in Gaugings
    BY <1>6, RejectedIsMemory, WatchedIsGauging DEF TakeInvalid, Reject
  <2>2. faults' \in 0..MaxFaults
    BY <1>6, CostsAreCounted DEF TakeInvalid, Reject
  <2>3. QED
    BY <1>6, <2>1, <2>2 DEF TakeInvalid, Reject, Typed, Phases, Bounds
<1>7. CASE TakeOldQuote
  <2>1. mem' \in Memory /\ proof' \in Gaugings
    BY <1>7, RejectedIsMemory, WatchedIsGauging DEF TakeOldQuote, Reject
  <2>2. faults' \in 0..MaxFaults
    BY <1>7, CostsAreCounted DEF TakeOldQuote, Reject
  <2>3. QED
    BY <1>7, <2>1, <2>2 DEF TakeOldQuote, Reject, Typed, Phases, Bounds
<1>8. CASE ResampleInvalid
  <2>1. mem' \in Memory /\ proof' \in Gaugings
    BY <1>8, RejectedIsMemory, WatchedIsGauging DEF ResampleInvalid, Reject
  <2>2. faults' \in 0..MaxFaults
    BY <1>8, CostsAreCounted DEF ResampleInvalid, Reject
  <2>3. QED
    BY <1>8, <2>1, <2>2 DEF ResampleInvalid, Reject, Typed, Phases, Bounds
<1>9. CASE WriteGuard
  <2>1. guard' \in GuardFiles
    BY <1>9, WrittenIsGuard DEF WriteGuard, Typed
  <2>2. QED
    BY <1>9, <2>1 DEF WriteGuard, Typed, Phases, Free, Bounds
<1>10. CASE QuoteUnavailable
  <2>1. faults' \in 0..MaxFaults
    BY <1>10, CostsAreCounted DEF QuoteUnavailable
  <2>2. QED
    BY <1>10, <2>1 DEF QuoteUnavailable, Typed, Phases, Bounds
<1>11. CASE ReadFails
  <2>1. Fail(mem, cycle.tries + 1) /\ mem \in Memory
    BY <1>11, DecidedIsMemory DEF ReadFails, Typed
  <2>2. cycle.tries + 1 \in 0..Retries + 1
    BY <1>11 DEF ReadFails, Typed, Cycles, RecoverySteps, CountsAreNatural
  <2>3. QED
    BY <2>1, <2>2, FailIsTyped
<1>12. CASE PreflightFails
  <2>1. Fail(Decided, Retries + 1) /\ Decided \in Memory
    BY <1>12, DecidedIsMemory DEF PreflightFails, Typed
  <2>2. Retries + 1 \in 0..Retries + 1
    BY <1>12 DEF PreflightFails, Typed, Cycles, RecoverySteps, CountsAreNatural
  <2>3. QED
    BY <2>1, <2>2, FailIsTyped
<1>13. CASE MarkRecovery
  <2>1. state' \in StateFiles
    BY <1>13, FileUpdates DEF MarkRecovery, Typed
  <2>2. QED
    BY <1>13, <2>1 DEF MarkRecovery, Typed, Phases, Free, Bounds, Confirmed
<1>14. CASE MarkFails
  <2>1. mem' \in Memory
    BY <1>14, RevokedIsMemory DEF MarkFails, Typed, Locks
  <2>2. faults' \in 0..MaxFaults
    BY <1>14, CostsAreCounted DEF MarkFails
  <2>3. QED
    BY <1>14, <2>1, <2>2 DEF MarkFails, Typed, Phases, Bounds
<1>15. CASE ReadAnswers
  <2> PICK status \in Ends(state.status), safe \in BOOLEAN :
        \E new \in Renews(state.status, status) :
          Read(status, new, safe) /\ Costs(IF safe THEN 0 ELSE 1)
    BY <1>15 DEF ReadAnswers
  <2>1. PICK new \in Renews(state.status, status) :
          Read(status, new, safe) /\ Costs(IF safe THEN 0 ELSE 1)
    OBVIOUS
  <2>2. status \in Statuses /\ new \in BOOLEAN
    BY EndsAreStatuses, RenewsIsBoolean DEF Typed, StateFiles
  <2>3. faults' \in 0..MaxFaults
    BY <2>1, CostsAreCounted
  <2>4. QED
    BY <2>1, <2>2, <2>3, ReadIsTyped
<1>16. CASE ReadEndsInReview
  <2>1. faults' \in 0..MaxFaults
    BY <1>16, CostsAreCounted DEF ReadEndsInReview
  <2>2. QED
    BY <1>16, <2>1, ReadIsTyped DEF ReadEndsInReview, Statuses
<1>17. CASE ClearRecovery
  <2>1. state' \in StateFiles
    BY <1>17, FileUpdates DEF ClearRecovery, Typed
  <2>2. mem' \in Memory
    <3>1. [mem EXCEPT !.required = FALSE, !.verified = 0] \in Memory
      BY Updates, Zeros DEF Typed
    <3>2. QED
      BY <1>17, <3>1, Updates DEF ClearRecovery
  <2>3. QED
    BY <1>17, <2>1, <2>2 DEF ClearRecovery, Typed, Phases, Free, Bounds
<1>18. CASE ClearFails
  <2>1. Confirmed - 1 \in 0..Confirmed
    BY DEF Confirmed
  <2>2. mem' \in Memory
    BY <1>18, <2>1, Updates DEF ClearFails, Typed
  <2>3. faults' \in 0..MaxFaults
    BY <1>18, CostsAreCounted DEF ClearFails
  <2>4. QED
    BY <1>18, <2>2, <2>3 DEF ClearFails, Typed, Phases, Bounds
<1>19. CASE StartupEnds
  <2>1. (state.status \in Settled) \in BOOLEAN
    OBVIOUS
  <2>2. mem' \in Memory
    BY <1>19, <2>1, EvidenceIsMemory, Updates DEF StartupEnds, Typed
  <2>3. guard' \in GuardFiles
    BY <1>19, EvidenceIsMemory, WrittenIsGuard DEF StartupEnds, Typed
  <2>4. QED
    BY <1>19, <2>2, <2>3 DEF StartupEnds, Typed, Phases, Free, Bounds
<1>20. CASE StrategyGoesOn
  <2>1. mem' \in Memory /\ guard' \in GuardFiles
    BY <1>20, EvidenceIsMemory, WrittenIsGuard DEF StrategyGoesOn, Typed
  <2>2. QED
    BY <1>20, <2>1 DEF StrategyGoesOn, Typed, Phases, Free, Bounds
<1>21. CASE Hold
  <2>1. mem' \in Memory
    BY <1>21, DecidedIsMemory DEF Hold
  <2>2. faults' \in 0..MaxFaults
    BY <1>21, CostsAreCounted DEF Hold
  <2>3. QED
    BY <1>21, <2>1, <2>2 DEF Hold, Typed, Phases, Bounds
<1>22. CASE Close
  <2>1. mem' \in Memory /\ state' \in StateFiles
    BY <1>22, DecidedIsMemory, FileUpdates DEF Close, Typed, Statuses
  <2>2. QED
    BY <1>22, <2>1 DEF Close, Typed, Phases, Free, Bounds
<1>23. CASE Enter
  <2>1. mem' \in Memory /\ state' \in StateFiles
    BY <1>23, DecidedIsMemory, FileUpdates DEF Enter, Typed, Statuses
  <2>2. entries' \in 0..MaxEntries
    BY <1>23 DEF Enter, MayEnter, Typed, CountsAreNatural
  <2>3. QED
    BY <1>23, <2>1, <2>2 DEF Enter, Typed, Phases, Free
<1>24. CASE Execute
  <2> PICK status \in Ends(state.status) : \E new \in Renews(state.status, status) :
          /\ state' = [state EXCEPT !.status = status]
          /\ mem' = [Renewed(mem, new) EXCEPT !.exit = @ /\ status # "flat"]
          /\ guard' = [guard EXCEPT !.owner = @ /\ ~new]
          /\ Costs(IF state.status = "closing" /\ status = "open" THEN 1 ELSE 0)
    BY <1>24 DEF Execute
  <2>1. PICK new \in Renews(state.status, status) :
          /\ state' = [state EXCEPT !.status = status]
          /\ mem' = [Renewed(mem, new) EXCEPT !.exit = @ /\ status # "flat"]
          /\ guard' = [guard EXCEPT !.owner = @ /\ ~new]
          /\ Costs(IF state.status = "closing" /\ status = "open" THEN 1 ELSE 0)
    OBVIOUS
  <2>2. status \in Statuses /\ new \in BOOLEAN
    BY EndsAreStatuses, RenewsIsBoolean DEF Typed, StateFiles
  <2>3. /\ (Renewed(mem, new).exit /\ status # "flat") \in BOOLEAN
        /\ (guard.owner /\ ~new) \in BOOLEAN
    OBVIOUS
  <2>4. mem' \in Memory
    BY <2>1, <2>2, <2>3, RenewedIsMemory, Updates DEF Typed
  <2>5. state' \in StateFiles /\ guard' \in GuardFiles
    BY <2>1, <2>2, <2>3, FileUpdates DEF Typed
  <2>6. faults' \in 0..MaxFaults
    BY <2>1, CostsAreCounted
  <2>7. QED
    BY <1>24, <2>4, <2>5, <2>6 DEF Execute, Typed, Phases, Bounds
<1>25. CASE ExecutionEndsInReview
  <2>1. state' \in StateFiles
    BY <1>25, FileUpdates DEF ExecutionEndsInReview, Typed, Statuses
  <2>2. faults' \in 0..MaxFaults
    BY <1>25, CostsAreCounted DEF ExecutionEndsInReview
  <2>3. QED
    BY <1>25, <2>1, <2>2 DEF ExecutionEndsInReview, Typed, Phases, Bounds
<1>26. CASE Unhandled
  <2>1. mem' \in Memory
    BY <1>26, RevokedIsMemory DEF Unhandled, Typed, Locks
  <2>2. faults' \in 0..MaxFaults
    BY <1>26, CostsAreCounted DEF Unhandled
  <2>3. QED
    BY <1>26, <2>1, <2>2 DEF Unhandled, Typed, Phases, Bounds
<1>27. CASE UNCHANGED vars
  BY <1>27 DEF vars, Typed
<1>28. QED
  BY <1>1, <1>2, <1>3, <1>4, <1>5, <1>6, <1>7, <1>8, <1>9, <1>10, <1>11, <1>12, <1>13, <1>14,
     <1>15, <1>16, <1>17, <1>18, <1>19, <1>20, <1>21, <1>22, <1>23, <1>24, <1>25, <1>26, <1>27 DEF
     Next, Run, Samples, Reads, Decision

LEMMA RecoveryIsKept ==
  ASSUME CountsAreNatural, GateInv, [Next]_vars PROVE (RecoverySteps /\ DoubtIsKept /\ Fresh)'
<1> USE TypedIsTypeOK DEF GateInv, Typed, Memory, Cycles, RecoverySteps, DoubtIsKept, Fresh,
          Bounds, CountsAreNatural, NoCycle, NoProcess, Confirmed
<1>1. CASE Start
  BY <1>1 DEF Start, Restored, RestoresDrain
<1>2. CASE Crash
  BY <1>2 DEF Crash
<1>3. CASE Save
  BY <1>3 DEF Save, Written
<1>4. CASE \E kind \in {"first", "near", "far", "gap", "back"} : Take(kind)
  BY <1>4 DEF Take, Record, Recorded, Watched, Kinds, Revoked, Answered, Trouble
<1>5. CASE \E kind \in {"first", "near", "far", "gap", "back"} : Resample(kind)
  BY <1>5 DEF Resample, Record, Recorded, Watched, Kinds, Revoked, Answered, Trouble
<1>6. CASE TakeInvalid
  BY <1>6 DEF TakeInvalid, Reject, Rejected, Watched
<1>7. CASE TakeOldQuote
  BY <1>7 DEF TakeOldQuote, Reject, Rejected, Watched
<1>8. CASE ResampleInvalid
  BY <1>8 DEF ResampleInvalid, Reject, Rejected, Watched
<1>9. CASE WriteGuard
  BY <1>9 DEF WriteGuard, Written
<1>10. CASE QuoteUnavailable
  BY <1>10 DEF QuoteUnavailable
<1>11. CASE ReadFails
  BY <1>11 DEF ReadFails, Fail
<1>12. CASE PreflightFails
  BY <1>12 DEF PreflightFails, Fail, Decided
<1>13. CASE MarkRecovery
  BY <1>13 DEF MarkRecovery
<1>14. CASE MarkFails
  BY <1>14 DEF MarkFails, Revoked
<1>15. CASE ReadAnswers
  BY <1>15 DEF ReadAnswers, Read, Renewed, Answered, Ends, Renews
<1>16. CASE ReadEndsInReview
  BY <1>16 DEF ReadEndsInReview, Read, Renewed, Answered
<1>17. CASE ClearRecovery
  BY <1>17 DEF ClearRecovery
<1>18. CASE ClearFails
  BY <1>18 DEF ClearFails
<1>19. CASE StartupEnds
  BY <1>19 DEF StartupEnds, Evidence, LiftsGap, Lifted, FlatProof, Written
<1>20. CASE StrategyGoesOn
  BY <1>20 DEF StrategyGoesOn, Evidence, LiftsGap, Lifted, FlatProof, Written
<1>21. CASE Hold
  BY <1>21 DEF Hold, Decided
<1>22. CASE Close
  BY <1>22 DEF Close, Decided
<1>23. CASE Enter
  BY <1>23 DEF Enter, Decided, MayEnter
<1>24. CASE Execute
  BY <1>24 DEF Execute, Ends, Renewed, Renews
<1>25. CASE ExecutionEndsInReview
  BY <1>25 DEF ExecutionEndsInReview
<1>26. CASE Unhandled
  BY <1>26 DEF Unhandled, Revoked
<1>27. CASE UNCHANGED vars
  BY <1>27 DEF vars
<1>28. QED
  BY <1>1, <1>2, <1>3, <1>4, <1>5, <1>6, <1>7, <1>8, <1>9, <1>10, <1>11, <1>12, <1>13, <1>14,
     <1>15, <1>16, <1>17, <1>18, <1>19, <1>20, <1>21, <1>22, <1>23, <1>24, <1>25, <1>26, <1>27 DEF
     Next, Run, Samples, Reads, Decision

LEMMA GapIsKept ==
  ASSUME CountsAreNatural, GateInv, [Next]_vars PROVE (BaselineIsKnown /\ GapIsLocked)'
<1> USE TypedIsTypeOK DEF GateInv, Typed, Memory, Cycles, GuardFiles, Fresh, BaselineIsKnown,
          GapIsLocked, Ahead, Bounds, NoCycle, NoProcess, Proven
<1>1. CASE Start
  BY <1>1 DEF Start, Restored, RestoresDrain
<1>2. CASE Crash
  BY <1>2 DEF Crash
<1>3. CASE Save
  BY <1>3 DEF Save, Written
<1>4. CASE \E kind \in {"first", "near", "far", "gap", "back"} : Take(kind)
  BY <1>4 DEF Take, Record, Recorded, Watched, Kinds, Revoked, Answered, Trouble
<1>5. CASE \E kind \in {"first", "near", "far", "gap", "back"} : Resample(kind)
  BY <1>5 DEF Resample, Record, Recorded, Watched, Kinds, Revoked, Answered, Trouble
<1>6. CASE TakeInvalid
  BY <1>6, RejectedFields, WatchedInvalid DEF TakeInvalid, Reject
<1>7. CASE TakeOldQuote
  BY <1>7, RejectedFields, WatchedInvalid DEF TakeOldQuote, Reject
<1>8. CASE ResampleInvalid
  BY <1>8, RejectedFields, WatchedInvalid DEF ResampleInvalid, Reject
<1>9. CASE WriteGuard
  BY <1>9 DEF WriteGuard, Written
<1>10. CASE QuoteUnavailable
  BY <1>10 DEF QuoteUnavailable
<1>11. CASE ReadFails
  BY <1>11 DEF ReadFails, Fail
<1>12. CASE PreflightFails
  BY <1>12 DEF PreflightFails, Fail, Decided
<1>13. CASE MarkRecovery
  BY <1>13 DEF MarkRecovery
<1>14. CASE MarkFails
  BY <1>14 DEF MarkFails, Revoked
<1>15. CASE ReadAnswers
  BY <1>15 DEF ReadAnswers, Read, Renewed, Answered, Ends, Renews
<1>16. CASE ReadEndsInReview
  BY <1>16 DEF ReadEndsInReview, Read, Renewed, Answered
<1>17. CASE ClearRecovery
  BY <1>17 DEF ClearRecovery
<1>18. CASE ClearFails
  BY <1>18 DEF ClearFails
<1>19. CASE StartupEnds
  <2>1. /\ mem'.base = mem.base /\ (mem'.signals => mem.signals)
        /\ ~LiftsGap => mem'.lock = mem.lock
    BY <1>19, EvidenceIsMemory, EvidenceFields DEF StartupEnds
  <2>2. guard' = guard \/ (LiftsGap /\ guard' = Written(Lifted))
    BY <1>19 DEF StartupEnds
  <2>3. Written(Lifted).known = mem.base
    BY EvidenceFields DEF Written
  <2>4. BaselineIsKnown'
    BY <1>19, <2>1, <2>2, <2>3 DEF StartupEnds
  <2>5. CASE LiftsGap
    <3>1. ~proof'.gap
      BY <1>19, <2>5, LiftedIsAnswered DEF StartupEnds
    <3>2. QED
      BY <2>4, <3>1
  <2>6. CASE ~LiftsGap
    <3>1. GapIsLocked'
      BY <1>19, <2>1, <2>2, <2>6 DEF StartupEnds
    <3>2. QED
      BY <2>4, <3>1
  <2>7. QED
    BY <2>5, <2>6
<1>20. CASE StrategyGoesOn
  <2>1. /\ mem'.base = mem.base /\ (mem'.signals => mem.signals)
        /\ ~LiftsGap => mem'.lock = mem.lock
    BY <1>20, EvidenceIsMemory, EvidenceFields DEF StrategyGoesOn
  <2>2. guard' = guard \/ (LiftsGap /\ guard' = Written(Lifted))
    BY <1>20 DEF StrategyGoesOn
  <2>3. Written(Lifted).known = mem.base
    BY EvidenceFields DEF Written
  <2>4. BaselineIsKnown'
    BY <1>20, <2>1, <2>2, <2>3 DEF StrategyGoesOn
  <2>5. CASE LiftsGap
    <3>1. ~proof'.gap
      BY <1>20, <2>5, LiftedIsAnswered DEF StrategyGoesOn
    <3>2. QED
      BY <2>4, <3>1
  <2>6. CASE ~LiftsGap
    <3>1. GapIsLocked'
      BY <1>20, <2>1, <2>2, <2>6 DEF StrategyGoesOn
    <3>2. QED
      BY <2>4, <3>1
  <2>7. QED
    BY <2>5, <2>6
<1>21. CASE Hold
  BY <1>21 DEF Hold, Decided
<1>22. CASE Close
  BY <1>22 DEF Close, Decided
<1>23. CASE Enter
  BY <1>23 DEF Enter, Decided, MayEnter
<1>24. CASE Execute
  BY <1>24 DEF Execute, Ends, Renewed, Renews
<1>25. CASE ExecutionEndsInReview
  BY <1>25 DEF ExecutionEndsInReview
<1>26. CASE Unhandled
  BY <1>26 DEF Unhandled, Revoked
<1>27. CASE UNCHANGED vars
  BY <1>27 DEF vars
<1>28. QED
  BY <1>1, <1>2, <1>3, <1>4, <1>5, <1>6, <1>7, <1>8, <1>9, <1>10, <1>11, <1>12, <1>13, <1>14,
     <1>15, <1>16, <1>17, <1>18, <1>19, <1>20, <1>21, <1>22, <1>23, <1>24, <1>25, <1>26, <1>27 DEF
     Next, Run, Samples, Reads, Decision

LEMMA EvidenceIsKept ==
  ASSUME CountsAreNatural, GateInv, [Next]_vars PROVE EvidenceIsReal'
<1> USE TypedIsTypeOK DEF GateInv, Typed, Memory, Cycles, Gaugings, Fresh, RecoverySteps,
          BaselineIsKnown, GapIsLocked, EvidenceIsReal, Bounds, NoCycle, NoProcess, Proven,
          Confirmed, Continuous, Least
<1>1. CASE Start
  BY <1>1 DEF Start, Restored, RestoresDrain
<1>2. CASE Crash
  BY <1>2 DEF Crash
<1>3. CASE Save
  BY <1>3 DEF Save, Written
<1>4. CASE \E kind \in {"first", "near", "far", "gap", "back"} : Take(kind)
  BY <1>4 DEF Take, Record, Recorded, Watched, Kinds, Revoked, Answered, Trouble
<1>5. CASE \E kind \in {"first", "near", "far", "gap", "back"} : Resample(kind)
  BY <1>5 DEF Resample, Record, Recorded, Watched, Kinds, Revoked, Answered, Trouble
<1>6. CASE TakeInvalid
  BY <1>6, RejectedFields, WatchedInvalid DEF TakeInvalid, Reject
<1>7. CASE TakeOldQuote
  BY <1>7, RejectedFields, WatchedInvalid DEF TakeOldQuote, Reject
<1>8. CASE ResampleInvalid
  BY <1>8, RejectedFields, WatchedInvalid DEF ResampleInvalid, Reject
<1>9. CASE WriteGuard
  BY <1>9 DEF WriteGuard, Written
<1>10. CASE QuoteUnavailable
  BY <1>10 DEF QuoteUnavailable
<1>11. CASE ReadFails
  BY <1>11 DEF ReadFails, Fail
<1>12. CASE PreflightFails
  BY <1>12 DEF PreflightFails, Fail, Decided
<1>13. CASE MarkRecovery
  BY <1>13 DEF MarkRecovery
<1>14. CASE MarkFails
  BY <1>14 DEF MarkFails, Revoked
<1>15. CASE ReadAnswers
  BY <1>15 DEF ReadAnswers, Read, Renewed, Answered, Ends, Renews
<1>16. CASE ReadEndsInReview
  BY <1>16 DEF ReadEndsInReview, Read, Renewed, Answered
<1>17. CASE ClearRecovery
  BY <1>17 DEF ClearRecovery
<1>18. CASE ClearFails
  BY <1>18 DEF ClearFails
<1>19. CASE StartupEnds
  BY <1>19 DEF StartupEnds, Evidence, LiftsGap, Lifted, FlatProof, Written
<1>20. CASE StrategyGoesOn
  BY <1>20 DEF StrategyGoesOn, Evidence, LiftsGap, Lifted, FlatProof, Written
<1>21. CASE Hold
  BY <1>21 DEF Hold, Decided
<1>22. CASE Close
  BY <1>22 DEF Close, Decided
<1>23. CASE Enter
  BY <1>23 DEF Enter, Decided, MayEnter
<1>24. CASE Execute
  BY <1>24 DEF Execute, Ends, Renewed, Renews
<1>25. CASE ExecutionEndsInReview
  BY <1>25 DEF ExecutionEndsInReview
<1>26. CASE Unhandled
  BY <1>26 DEF Unhandled, Revoked
<1>27. CASE UNCHANGED vars
  BY <1>27 DEF vars
<1>28. QED
  BY <1>1, <1>2, <1>3, <1>4, <1>5, <1>6, <1>7, <1>8, <1>9, <1>10, <1>11, <1>12, <1>13, <1>14,
     <1>15, <1>16, <1>17, <1>18, <1>19, <1>20, <1>21, <1>22, <1>23, <1>24, <1>25, <1>26, <1>27 DEF
     Next, Run, Samples, Reads, Decision


-----------------------------------------------------------------------------
(* The theorems. *)

\* What the gate's locks rest on is kept by every step.
THEOREM GateInvariant == ASSUME CountsAreNatural PROVE Spec => []GateInv
<1>1. Init => GateInv
  <2> SUFFICES ASSUME Init PROVE GateInv
    OBVIOUS
  <2>1. Typed
    <3>1. mem \in Memory /\ cycle \in Cycles
      BY NothingIsMemory, NoCycleIsCycle DEF Init
    <3>2. state \in StateFiles /\ guard \in GuardFiles
      BY DEF Init, StateFiles, Statuses, GuardFiles, Locks
    <3>3. proof \in Gaugings
      BY DEF Init, Proven, Gaugings, Continuous, Confirmed
    <3>4. phase \in Phases /\ behind \in BOOLEAN
      BY DEF Init, Phases
    <3>5. /\ doubt \in 0..Confirmed /\ faults \in 0..MaxFaults /\ entries \in 0..MaxEntries
          /\ crashes \in 0..MaxCrashes
      BY DEF Init, Confirmed, CountsAreNatural
    <3>6. QED
      BY <3>1, <3>2, <3>3, <3>4, <3>5 DEF Typed
  <2>2. RecoverySteps /\ DoubtIsKept /\ Fresh
    BY DEF Init, RecoverySteps, DoubtIsKept, Fresh, NoProcess, Confirmed
  <2>3. BaselineIsKnown /\ GapIsLocked /\ EvidenceIsReal
    BY DEF Init, BaselineIsKnown, GapIsLocked, EvidenceIsReal, NoProcess, Proven
  <2>4. QED
    BY <2>1, <2>2, <2>3, TypedIsTypeOK DEF GateInv
<1>2. GateInv /\ [Next]_vars => GateInv'
  <2> SUFFICES ASSUME GateInv, [Next]_vars PROVE GateInv'
    OBVIOUS
  <2>1. TypeOK'
    <3>1. Typed'
      BY TypesAreKept
    <3>2. QED
      BY <3>1 DEF Typed, TypeOK, Phases, Memory, Cycles, StateFiles, GuardFiles, Gaugings
  <2>2. QED
    BY <2>1, RecoveryIsKept, GapIsKept, EvidenceIsKept DEF GateInv
<1>3. QED
  BY <1>1, <1>2, PTL DEF Spec

\* Every variable of the gate keeps its kind, and the counts their bounds.
THEOREM GateTypes == ASSUME CountsAreNatural PROVE Spec => []TypeOK
<1>1. GateInv => TypeOK
  BY DEF GateInv
<1>2. QED
  BY <1>1, GateInvariant, PTL

\* Only Enter enters.
LEMMA OnlyEnterEnters ==
  ASSUME Typed, CountsAreNatural, Next, entries' > entries PROVE Enter
<1>1. entries \in Nat
  BY DEF Typed, CountsAreNatural
<1>2. entries' # entries
  BY <1>1
<1>3. ~Crash /\ ~Save /\ ~Start
  BY <1>2 DEF Crash, Save, Start, Bounds
<1>4. ~Samples
  BY <1>2
  DEF Samples, Take, Resample, Record, TakeInvalid, TakeOldQuote, ResampleInvalid, Reject,
      WriteGuard, QuoteUnavailable, Bounds
<1>5. ~Reads
  BY <1>2
  DEF Reads, ReadFails, PreflightFails, Fail, MarkRecovery, MarkFails, ReadAnswers,
      ReadEndsInReview, Read, ClearRecovery, ClearFails, Bounds
<1>6. ~(StartupEnds \/ StrategyGoesOn \/ Hold \/ Close \/ Execute \/ ExecutionEndsInReview
        \/ Unhandled)
  BY <1>2
  DEF StartupEnds, StrategyGoesOn, Hold, Close, Execute, ExecutionEndsInReview, Unhandled, Bounds
<1>7. QED
  BY <1>3, <1>4, <1>5, <1>6 DEF Next, Run, Decision

\* No entry while confirmed reads are owed, for any number of deaths of the process
\* (_sync_entry_authorization, _reconcile_with_account_read_retries).
THEOREM EntryOwesNoProof == ASSUME CountsAreNatural PROVE Spec => EntryNeedsProof
<1>1. GateInv /\ [Next]_vars => [entries' > entries => doubt = 0]_vars
  <2> SUFFICES ASSUME GateInv, Next, entries' > entries PROVE doubt = 0
    BY DEF vars
  <2>1. Typed
    BY TypedIsTypeOK DEF GateInv
  <2>2. Enter
    BY <2>1, OnlyEnterEnters
  <2>3. phase # "down" /\ ~mem.required
    BY <2>2 DEF Enter, MayEnter, EntryAuthorized
  <2>4. QED
    BY <2>1, <2>3 DEF GateInv, DoubtIsKept, Typed, Confirmed
<1>2. QED
  BY <1>1, GateInvariant, PTL DEF Spec, EntryNeedsProof

\* No entry while a gap is not answered by the evidence the process saw itself, also
\* when it died before the gap was on record (_record_new_sample, _recover_sample_gap).
THEOREM EntryFollowsNoGap == ASSUME CountsAreNatural PROVE Spec => EntryAfterGapIsProven
<1>1. GateInv /\ [Next]_vars => [entries' > entries => ~proof.gap]_vars
  <2> SUFFICES ASSUME GateInv, Next, entries' > entries, proof.gap PROVE FALSE
    BY DEF vars
  <2>1. Typed
    BY TypedIsTypeOK DEF GateInv
  <2>2. Enter
    BY <2>1, OnlyEnterEnters
  <2>3. phase = "ready" /\ mem.lock = "none" /\ Decided.signals
    BY <2>2 DEF Enter, MayEnter, EntryAuthorized
  <2>4. ~mem.signals /\ ~cycle.signal
    BY <2>3 DEF GateInv, GapIsLocked, Ahead
  <2>5. ~Decided.signals
    BY <2>1, <2>4 DEF Decided, Typed, Memory
  <2>6. QED
    BY <2>3, <2>5
<1>2. QED
  BY <1>1, GateInvariant, PTL DEF Spec, EntryAfterGapIsProven

-----------------------------------------------------------------------------
(* The account checks: the inductive invariant. *)

SampleReads == [data : Quality, asks : Actions]
Gates == [closed : BOOLEAN, count : 0..ChecksToOpen - 1,
          why : {"none", "startup", "stale", "missing"}]
Alarms == [told : Actions, warned : 0..1, calm : 0..2]

Windows == BOOLEAN \X BOOLEAN

\* A start that still owes checks keeps the gate closed, and the gate counts what the
\* risk loop has seen: no more, and no less.
StartIsOwed ==
  proven < ChecksToOpen => gate.closed /\ gate.why = "startup" /\ gate.count = proven

\* There is room for an entry whose fills are not known yet.
PendingFits == pending => lots < MaxLots

AccountInv == AccountTypeOK /\ StartIsOwed /\ PendingFits

BoundsAreNatural ==
  ChecksToOpen \in Nat \ {0} /\ MaxLots \in Nat /\ MaxOrder \in Nat /\ MaxChanges \in Nat

-----------------------------------------------------------------------------
(* What a check leaves. *)

\* An empty confirmation window is one.
LEMMA NoHitsKind == NoHits \in Windows
BY DEF NoHits, Windows

\* What a start begins with.
LEMMA InitialKinds ==
  ASSUME BoundsAreNatural PROVE Starting \in Gates /\ Quiet \in Alarms
BY DEF Starting, Quiet, Gates, Alarms, Actions, BoundsAreNatural

\* The gate keeps its kind, whoever reads.
LEMMA GatedKind ==
  ASSUME BoundsAreNatural, gate \in Gates, NEW read \in SampleReads, NEW advance \in BOOLEAN
  PROVE  /\ Gated(read, advance).gate \in Gates
         /\ Gated(read, advance).action \in Actions
         /\ Gated(read, advance).clears \in BOOLEAN
<1>1. Confirmations(read, advance) \in Nat
  BY DEF Confirmations, Gates, BoundsAreNatural
<1>2. Asks(read) \in Actions
  BY DEF Asks, SampleReads, Actions
<1>3. CASE ~Healthy(read)
  <2>1. read.data \in {"stale", "missing"} \/ gate.why = "startup"
    BY <1>3 DEF Healthy, SampleReads, Quality
  <2>2. [closed |-> TRUE, count |-> 0,
         why |-> IF gate.why = "startup" THEN "startup" ELSE read.data] \in Gates
    BY <2>1 DEF Gates, BoundsAreNatural
  <2>3. QED
    BY <1>2, <1>3, <2>2 DEF Gated, Actions
<1>4. CASE Healthy(read) /\ ~gate.closed
  BY <1>2, <1>4 DEF Gated
<1>5. CASE Healthy(read) /\ gate.closed /\ Confirmations(read, advance) >= ChecksToOpen
  BY <1>2, <1>5 DEF Gated, GateOpen, Gates, BoundsAreNatural
<1>6. CASE Healthy(read) /\ gate.closed /\ ~(Confirmations(read, advance) >= ChecksToOpen)
  <2>1. [gate EXCEPT !.count = Confirmations(read, advance)] \in Gates
    BY <1>1, <1>6 DEF Gates, BoundsAreNatural
  <2>2. QED
    BY <1>6, <2>1 DEF Gated, Actions
<1>7. QED
  BY <1>3, <1>4, <1>5, <1>6 DEF Gates

\* A check that asks for nothing leaves the gate open.
LEMMA NormalIsOpen ==
  ASSUME gate \in Gates, NEW read \in SampleReads, NEW advance \in BOOLEAN,
         Gated(read, advance).action = "normal"
  PROVE  ~Gated(read, advance).gate.closed
<1>1. CASE ~Healthy(read)
  <2>1. gate.why = "startup" => Gated(read, advance).action # "normal"
    BY <1>1 DEF Gated
  <2>2. gate.why # "startup" => Asks(read) = "block_entry"
    BY <1>1 DEF Healthy, Asks, SampleReads, Quality
  <2>3. QED
    BY <1>1, <2>1, <2>2 DEF Gated
<1>2. CASE Healthy(read) /\ ~gate.closed
  BY <1>2 DEF Gated
<1>3. CASE Healthy(read) /\ gate.closed /\ Confirmations(read, advance) >= ChecksToOpen
  BY <1>3 DEF Gated, GateOpen
<1>4. CASE Healthy(read) /\ gate.closed /\ ~(Confirmations(read, advance) >= ChecksToOpen)
  BY <1>4 DEF Gated
<1>5. QED
  BY <1>1, <1>2, <1>3, <1>4 DEF Gates

\* While a start is owed, a read of the sample loop opens nothing: a good one leaves the
\* gate as it is, any other starts the count again.
LEMMA EntryReadOpensNothing ==
  ASSUME BoundsAreNatural, gate \in Gates, NEW read \in SampleReads,
         gate.closed, gate.why = "startup"
  PROVE  /\ Gated(read, FALSE).action # "normal"
         /\ Gated(read, FALSE).gate.closed
         /\ Gated(read, FALSE).gate.why = "startup"
         /\ Gated(read, FALSE).gate.count = IF read.data = "fresh" THEN gate.count ELSE 0
<1>1. CASE read.data # "fresh"
  BY <1>1 DEF Gated, Healthy
<1>2. CASE read.data = "fresh"
  <2>1. Healthy(read) /\ Confirmations(read, FALSE) = gate.count
    BY <1>2 DEF Healthy, Confirmations
  <2>2. ~(gate.count >= ChecksToOpen)
    BY DEF Gates, BoundsAreNatural
  <2>3. [gate EXCEPT !.count = gate.count] = gate
    BY DEF Gates
  <2>4. QED
    BY <1>2, <2>1, <2>2, <2>3 DEF Gated
<1>3. QED
  BY <1>1, <1>2

\* A read of the risk loop adds one to the count, or starts it again, or opens the gate
\* with the last of ChecksToOpen reads.
LEMMA LoopReadCounts ==
  ASSUME BoundsAreNatural, gate \in Gates, NEW read \in SampleReads,
         gate.closed, gate.why = "startup"
  PROVE  LET after == Gated(read, TRUE).gate IN
         IF read.data = "fresh"
         THEN \/ gate.count + 1 = ChecksToOpen
              \/ after.closed /\ after.why = "startup" /\ after.count = gate.count + 1
         ELSE after.closed /\ after.why = "startup" /\ after.count = 0
<1>1. CASE read.data # "fresh"
  BY <1>1 DEF Gated, Healthy
<1>2. CASE read.data = "fresh"
  <2>1. Healthy(read) /\ Confirmations(read, TRUE) = gate.count + 1
    BY <1>2 DEF Healthy, Confirmations
  <2>2. gate.count \in Nat /\ gate.count < ChecksToOpen
    BY DEF Gates, BoundsAreNatural
  <2>3. CASE gate.count + 1 >= ChecksToOpen
    <3>1. gate.count + 1 = ChecksToOpen
      BY <2>2, <2>3 DEF BoundsAreNatural
    <3>2. QED
      BY <1>2, <3>1
  <2>4. CASE ~(gate.count + 1 >= ChecksToOpen)
    <3>1. Gated(read, TRUE).gate = [gate EXCEPT !.count = gate.count + 1]
      BY <2>1, <2>4 DEF Gated
    <3>2. QED
      BY <1>2, <3>1 DEF Gates
  <2>5. QED
    BY <2>3, <2>4
<1>3. QED
  BY <1>1, <1>2

\* The alarm keeps its kind.
LEMMA ToldKind ==
  ASSUME alarm \in Alarms, NEW action \in Actions
  PROVE  Told(action) \in Alarms
<1>1. Quiet \in Alarms /\ [Quiet EXCEPT !.told = action] \in Alarms
      /\ [Quiet EXCEPT !.warned = 1] \in Alarms
  BY DEF Quiet, Alarms, Actions
<1>2. [alarm EXCEPT !.calm = 0] \in Alarms
  BY DEF Alarms
<1>3. alarm.calm < 2 => [alarm EXCEPT !.calm = @ + 1] \in Alarms
  BY DEF Alarms
<1>4. QED
  BY <1>1, <1>2, <1>3 DEF Told

\* Only checks that ask for nothing end a critical alarm.
LEMMA OnlyNormalEndsAlarm ==
  ASSUME alarm \in Alarms, NEW action \in Actions,
         alarm.told \in Critical, Told(action).told = "normal"
  PROVE  action = "normal"
<1>1. alarm.told # "normal"
  BY DEF Critical
<1>2. CASE action \in Critical
  BY <1>2 DEF Told, Quiet, Critical
<1>3. CASE action \notin Critical /\ action # "normal"
  <2>1. Told(action) = [alarm EXCEPT !.calm = 0]
    BY <1>1, <1>3 DEF Told
  <2>2. QED
    BY <1>1, <2>1 DEF Alarms
<1>4. QED
  BY <1>2, <1>3

-----------------------------------------------------------------------------
(* The sample: what is locked and what is ordered are among the open lots.  *)

\* No plan locks or orders more lots than there are.
LEMMA PlansFit ==
  ASSUME BoundsAreNatural, AccountTypeOK, NEW plan \in Plans
  PROVE  plan.lock \in 0..lots /\ plan.batch \in 0..lots
<1>1. lots \in Nat /\ locked \in 0..lots
  BY DEF AccountTypeOK, BoundsAreNatural
<1>2. PICK was \in {0, locked}, deep \in BOOLEAN, profit \in BOOLEAN :
        \E all \in LocksOf(was, deep, profit) :
          plan = [lock |-> Capped(all), batch |-> Batch(Capped(all), profit)]
  BY DEF Plans
<1> PICK all \in LocksOf(was, deep, profit) :
      plan = [lock |-> Capped(all), batch |-> Batch(Capped(all), profit)]
  BY <1>2
<1>3. all \in 0..lots
  BY <1>1, <1>2 DEF LocksOf
<1>4. Capped(all) \in 0..lots
  BY <1>1, <1>3 DEF Capped, BoundsAreNatural
<1>5. Batch(Capped(all), profit) \in 0..lots
  BY <1>1, <1>4 DEF Batch
<1>6. QED
  BY <1>4, <1>5

\* Exits take lots, and what stays locked is among those that stay.
LEMMA KindsOfReductions ==
  ASSUME BoundsAreNatural, AccountTypeOK, TriesExit
  PROVE  lots' \in 0..lots /\ locked' \in 0..lots' /\ exiting' \in Critical \cup {"none"}
<1>1. lots \in Nat /\ exiting \in Critical \cup {"none"}
  BY DEF AccountTypeOK, BoundsAreNatural
<1>2. PICK plan \in Plans :
        \/ plan.batch = 0 /\ locked' = plan.lock /\ UNCHANGED <<lots, exiting>>
        \/ plan.batch > 0 /\ locked' \in (IF exiting # "none" THEN {plan.lock} ELSE {0, plan.lock})
           /\ UNCHANGED <<lots, exiting>>
        \/ plan.batch > 0 /\ lots' = lots - plan.batch /\ locked' = 0
           /\ exiting' = IF exiting = "force_reduce" THEN "none" ELSE exiting
  BY DEF TriesExit
<1>3. plan.lock \in 0..lots /\ plan.batch \in 0..lots
  BY <1>2, PlansFit
<1>4. QED
  BY <1>1, <1>2, <1>3

-----------------------------------------------------------------------------
(* Every step keeps the invariant. *)

\* The risk loop starts a read.
LEMMA LoopReadKeeps ==
  ASSUME BoundsAreNatural, AccountInv, LoopRead PROVE AccountInv'
<1>1. AccountTypeOK'
  BY DEF AccountInv, AccountTypeOK, LoopRead, environment, inventory
<1>2. StartIsOwed' /\ PendingFits'
  BY DEF AccountInv, StartIsOwed, PendingFits, LoopRead, inventory
<1>3. QED
  BY <1>1, <1>2 DEF AccountInv

\* The risk loop hands its read to the gate: it counts, or starts the count again.
LEMMA LoopCheckKeeps ==
  ASSUME BoundsAreNatural, AccountInv, LoopCheck PROVE AccountInv'
<1>1. gate \in Gates /\ alarm \in Alarms /\ loop \in SampleReads
  BY DEF AccountInv, AccountTypeOK, LoopCheck, Gates, Alarms, SampleReads
<1>2. /\ gate' = Gated(loop, TRUE).gate
      /\ alarm' = Told(Gated(loop, TRUE).action)
      /\ window' \in {NoHits, window}
      /\ exiting' \in Critical \cup {"none", exiting}
  <2>1. PICK check \in {Gated(loop, TRUE)} :
          /\ gate' = check.gate
          /\ alarm' = Told(check.action)
          /\ window' = IF check.clears THEN NoHits ELSE window
          /\ exiting' = IF check.action \notin Critical THEN "none"
                        ELSE IF lots > 0 THEN check.action ELSE exiting
    BY DEF LoopCheck
  <2>2. window' \in {NoHits, window}
    BY <2>1
  <2>3. exiting' \in Critical \cup {"none", exiting}
    BY <2>1
  <2>4. QED
    BY <2>1, <2>2, <2>3
<1>3. Gated(loop, TRUE).gate \in Gates /\ Gated(loop, TRUE).action \in Actions
  BY <1>1, GatedKind
<1>4. alarm' \in Alarms
  BY <1>1, <1>2, <1>3, ToldKind
<1>5. proven \in 0..ChecksToOpen /\ proven' \in 0..ChecksToOpen
  BY DEF AccountInv, AccountTypeOK, LoopCheck, BoundsAreNatural
<1>6. AccountTypeOK'
  <2>1. exiting' \in Critical \cup {"none"}
    BY <1>2 DEF AccountInv, AccountTypeOK
  <2>2. window' \in Windows
    BY <1>2, NoHitsKind DEF AccountInv, AccountTypeOK, Windows
  <2>3. QED
    BY <1>2, <1>3, <1>4, <1>5, <2>1, <2>2
       DEF AccountInv, AccountTypeOK, LoopCheck, Gates, Alarms, Windows, environment, inventory
<1>7. StartIsOwed'
  <2> SUFFICES ASSUME proven' < ChecksToOpen
               PROVE  gate'.closed /\ gate'.why = "startup" /\ gate'.count = proven'
    BY DEF StartIsOwed
  <2>1. proven # ChecksToOpen
    BY DEF LoopCheck, BoundsAreNatural
  <2>2. proven' = IF loop.data = "fresh" THEN proven + 1 ELSE 0
    BY <2>1 DEF LoopCheck
  <2>3. gate.closed /\ gate.why = "startup" /\ gate.count = proven
    BY <1>5, <2>1 DEF AccountInv, StartIsOwed, BoundsAreNatural
  <2>4. CASE loop.data # "fresh"
    BY <1>1, <1>2, <2>2, <2>3, <2>4, LoopReadCounts
  <2>5. CASE loop.data = "fresh"
    <3>1. proven' = gate.count + 1 /\ gate.count + 1 # ChecksToOpen
      BY <2>2, <2>3, <2>5 DEF BoundsAreNatural
    <3>2. QED
      BY <1>1, <1>2, <2>3, <2>5, <3>1, LoopReadCounts
  <2>6. QED
    BY <2>4, <2>5
<1>8. PendingFits'
  BY DEF AccountInv, PendingFits, LoopCheck, inventory
<1>9. QED
  BY <1>6, <1>7, <1>8 DEF AccountInv

\* A sample tries an entry or an exit; neither touches the gate.
LEMMA SampleKeeps ==
  ASSUME BoundsAreNatural, AccountInv, Sample PROVE AccountInv'
<1>1. /\ lots' \in 0..lots /\ locked' \in 0..lots' /\ exiting' \in Critical \cup {"none"}
      /\ sampler' \in {sampler, account}
  <2>1. CASE TriesEntry
    BY <2>1 DEF Sample, AccountInv, AccountTypeOK, BoundsAreNatural
  <2>2. CASE ~TriesEntry
    <3>1. TriesExit /\ UNCHANGED sampler
      BY <2>2 DEF Sample
    <3>2. QED
      BY <3>1, KindsOfReductions DEF AccountInv
  <2>3. QED
    BY <2>1, <2>2
<1>2. window' \in BOOLEAN \X BOOLEAN
  BY DEF Sample, AccountInv, AccountTypeOK
<1>3. AccountTypeOK'
  BY <1>1, <1>2 DEF Sample, AccountInv, AccountTypeOK, environment, BoundsAreNatural
<1>4. StartIsOwed' /\ PendingFits'
  BY DEF Sample, AccountInv, StartIsOwed, PendingFits
<1>5. QED
  BY <1>3, <1>4 DEF AccountInv

\* An entry's read starts the count again or leaves it, and an entry is made where there is room.
LEMMA EntryCheckKeeps ==
  ASSUME BoundsAreNatural, AccountInv, EntryCheck PROVE AccountInv'
<1>1. gate \in Gates /\ sampler \in SampleReads
  BY DEF AccountInv, AccountTypeOK, EntryCheck, Gates, SampleReads
<1>2. /\ gate' = Gated(sampler, FALSE).gate
      /\ window' \in {NoHits, window}
      /\ pending' \in BOOLEAN /\ (pending' => lots < MaxLots)
  BY DEF EntryCheck
<1>3. gate' \in Gates
  BY <1>1, <1>2, GatedKind
<1>4. AccountTypeOK'
  <2>1. window' \in Windows
    BY <1>2, NoHitsKind DEF AccountInv, AccountTypeOK, Windows
  <2>2. proven' \in 0..ChecksToOpen
    BY DEF EntryCheck, AccountInv, AccountTypeOK, BoundsAreNatural
  <2>3. QED
    BY <1>2, <1>3, <2>1, <2>2 DEF EntryCheck, AccountInv, AccountTypeOK, Gates, Windows, environment
<1>5. StartIsOwed'
  <2> SUFFICES ASSUME proven' < ChecksToOpen
               PROVE  gate'.closed /\ gate'.why = "startup" /\ gate'.count = proven'
    BY DEF StartIsOwed
  <2>1. proven < ChecksToOpen
    BY DEF EntryCheck
  <2>2. gate.closed /\ gate.why = "startup" /\ gate.count = proven
    BY <2>1 DEF AccountInv, StartIsOwed
  <2>3. proven' = IF sampler.data # "fresh" THEN 0 ELSE proven
    BY <2>1 DEF EntryCheck
  <2>4. QED
    BY <1>1, <1>2, <2>2, <2>3, EntryReadOpensNothing
<1>6. PendingFits'
  BY <1>2 DEF EntryCheck, PendingFits
<1>7. QED
  BY <1>4, <1>5, <1>6 DEF AccountInv

\* A fill takes the room its entry was made for.
LEMMA FillKeeps ==
  ASSUME BoundsAreNatural, AccountInv, Fill PROVE AccountInv'
<1>1. lots' \in {lots, lots + 1} /\ costed' \in BOOLEAN /\ pending' = FALSE
  BY DEF Fill, AccountInv, AccountTypeOK
<1>2. lots' \in 0..MaxLots /\ locked' \in 0..lots'
  BY <1>1 DEF Fill, AccountInv, AccountTypeOK, PendingFits, BoundsAreNatural
<1>3. AccountTypeOK'
  BY <1>1, <1>2 DEF Fill, AccountInv, AccountTypeOK, environment
<1>4. StartIsOwed' /\ PendingFits'
  BY <1>1 DEF Fill, AccountInv, StartIsOwed, PendingFits
<1>5. QED
  BY <1>3, <1>4 DEF AccountInv

\* The rest of the steps touch neither the gate nor the lots, or start anew.
LEMMA OthersKeep ==
  ASSUME BoundsAreNatural, AccountInv, CostKnown \/ AccountMoves \/ EdgeMoves \/ Restart
  PROVE  AccountInv'
<1>1. CASE CostKnown
  <2>1. AccountTypeOK'
    BY <1>1 DEF CostKnown, AccountInv, AccountTypeOK, environment
  <2>2. QED
    BY <1>1, <2>1 DEF CostKnown, AccountInv, StartIsOwed, PendingFits
<1>2. CASE AccountMoves
  <2>1. account' \in [data : Quality, asks : Actions]
    BY <1>2 DEF AccountMoves, AccountInv, AccountTypeOK
  <2>2. changes' \in 0..MaxChanges
    BY <1>2 DEF AccountMoves, AccountInv, AccountTypeOK, BoundsAreNatural
  <2>3. AccountTypeOK'
    BY <1>2, <2>1, <2>2 DEF AccountMoves, AccountInv, AccountTypeOK, inventory
  <2>4. QED
    BY <1>2, <2>3 DEF AccountMoves, AccountInv, StartIsOwed, PendingFits, inventory
<1>3. CASE EdgeMoves
  <2>1. AccountTypeOK'
    BY <1>3 DEF EdgeMoves, AccountInv, AccountTypeOK, inventory
  <2>2. QED
    BY <1>3, <2>1 DEF EdgeMoves, AccountInv, StartIsOwed, PendingFits, inventory
<1>4. CASE Restart
  <2>1. gate' \in Gates /\ alarm' \in Alarms /\ window' \in Windows
    BY <1>4, InitialKinds, NoHitsKind DEF Restart
  <2>2. changes' \in 0..MaxChanges
    BY <1>4 DEF Restart, AccountInv, AccountTypeOK, BoundsAreNatural
  <2>3. proven' \in 0..ChecksToOpen
    BY <1>4 DEF Restart, BoundsAreNatural
  <2>4. AccountTypeOK'
    BY <1>4, <2>1, <2>2, <2>3 DEF Restart, AccountInv, AccountTypeOK, Gates, Alarms, Windows, inventory
  <2>5. StartIsOwed' /\ PendingFits'
    BY <1>4 DEF Restart, Starting, AccountInv, StartIsOwed, PendingFits, inventory
  <2>6. QED
    BY <2>4, <2>5 DEF AccountInv
<1>5. QED
  BY <1>1, <1>2, <1>3, <1>4

\* The gate owes after a start exactly what the risk loop has not seen yet, for all bounds
\* (live_inventory_account_recovery_confirm_count).
THEOREM AccountInvariant == ASSUME BoundsAreNatural PROVE AccountSpec => []AccountInv
<1>1. AccountInit => AccountInv
  <2> SUFFICES ASSUME AccountInit PROVE AccountInv
    OBVIOUS
  <2>1. gate \in Gates /\ alarm \in Alarms /\ window \in Windows
    BY InitialKinds, NoHitsKind DEF AccountInit
  <2>2. account \in [data : Quality, asks : Actions]
    BY DEF AccountInit, Quality, Actions
  <2>3. {loop, sampler} \subseteq {Idle} \cup [data : Quality, asks : Actions]
    BY DEF AccountInit
  <2>4. AccountTypeOK
    <3>1. changes \in 0..MaxChanges /\ lots \in 0..MaxLots /\ locked \in 0..lots /\ proven \in 0..ChecksToOpen
      BY DEF AccountInit, BoundsAreNatural
    <3>2. signal \in BOOLEAN /\ pending \in BOOLEAN /\ costed \in BOOLEAN
          /\ exiting \in Critical \cup {"none"}
      BY DEF AccountInit
    <3>3. QED
      BY <2>1, <2>2, <2>3, <3>1, <3>2 DEF AccountTypeOK, Gates, Alarms, Windows
  <2>5. StartIsOwed /\ PendingFits
    BY DEF AccountInit, StartIsOwed, PendingFits, Starting
  <2>6. QED
    BY <2>4, <2>5 DEF AccountInv
<1>2. AccountInv /\ [AccountNext]_accountVars => AccountInv'
  <2> SUFFICES ASSUME AccountInv, [AccountNext]_accountVars PROVE AccountInv'
    OBVIOUS
  <2>1. CASE AccountNext
    BY <2>1, LoopReadKeeps, LoopCheckKeeps, SampleKeeps, EntryCheckKeeps, FillKeeps, OthersKeep
       DEF AccountNext
  <2>2. CASE UNCHANGED accountVars
    BY <2>2 DEF accountVars, environment, inventory, AccountInv, AccountTypeOK, StartIsOwed, PendingFits
  <2>3. QED
    BY <2>1, <2>2
<1>3. QED
  BY <1>1, <1>2, PTL DEF AccountSpec

-----------------------------------------------------------------------------
(* The theorems. *)

\* Every variable of the account checks keeps its kind: no more lots than there is room
\* for, and no more locked than open (live_inventory_v4_portfolio_exit_lot_ids).
THEOREM AccountTypes == ASSUME BoundsAreNatural PROVE AccountSpec => []AccountTypeOK
<1>1. AccountInv => AccountTypeOK
  BY DEF AccountInv
<1>2. QED
  BY <1>1, AccountInvariant, PTL

\* After a start no entry is made before the risk loop has seen fresh data ChecksToOpen times
\* in a row, whatever the sample loop reads in between
\* (apply_live_inventory_account_recovery_gate).
THEOREM EntryFollowsStartChecks == ASSUME BoundsAreNatural PROVE AccountSpec => EntryAfterStartChecks
<1>1. AccountInv /\ [AccountNext]_accountVars => [~pending /\ pending' => proven = ChecksToOpen]_accountVars
  <2> SUFFICES ASSUME AccountInv, AccountNext, ~pending, pending', proven # ChecksToOpen PROVE FALSE
    BY DEF accountVars
  <2>1. EntryCheck
    BY DEF AccountNext, LoopRead, LoopCheck, Sample, Fill, CostKnown, AccountMoves, EdgeMoves,
           Restart, inventory
  <2>2. Gated(sampler, FALSE).action = "normal"
    BY <2>1 DEF EntryCheck
  <2>3. gate \in Gates /\ sampler \in SampleReads
    BY <2>1 DEF AccountInv, AccountTypeOK, EntryCheck, Gates, SampleReads
  <2>4. gate.closed /\ gate.why = "startup"
    BY DEF AccountInv, AccountTypeOK, StartIsOwed, BoundsAreNatural
  <2>5. QED
    BY <2>2, <2>3, <2>4, EntryReadOpensNothing
<1>2. QED
  BY <1>1, AccountInvariant, PTL DEF AccountSpec, EntryAfterStartChecks

\* The operator's alarm of a critical action ends only with the gate open and no forced
\* exit due (account_risk_notification_transition, live_inventory_account_risk_loop).
THEOREM AlarmEndsProven == ASSUME BoundsAreNatural PROVE AccountSpec => AlarmEndsWhenProven
<1>1. AccountInv /\ [AccountNext]_accountVars
        => [(alarm.told \in Critical /\ alarm'.told = "normal" /\ changes' = changes)
              => ~gate'.closed /\ exiting' = "none"]_accountVars
  <2> SUFFICES ASSUME AccountInv, AccountNext, alarm.told \in Critical, alarm'.told = "normal",
                      changes' = changes
               PROVE  ~gate'.closed /\ exiting' = "none"
    BY DEF accountVars
  <2>1. alarm' # alarm
    BY DEF Critical
  <2>2. changes \in Nat
    BY DEF AccountInv, AccountTypeOK
  <2>3. LoopCheck
    <3>1. ~Restart
      BY <2>2 DEF Restart
    <3>2. QED
      BY <2>1, <3>1 DEF AccountNext, LoopRead, Sample, EntryCheck, Fill, CostKnown, AccountMoves,
                        EdgeMoves
  <2>4. gate \in Gates /\ alarm \in Alarms /\ loop \in SampleReads
    BY <2>3 DEF AccountInv, AccountTypeOK, LoopCheck, Gates, Alarms, SampleReads
  <2>5. Gated(loop, TRUE).action \in Actions
    BY <2>4, GatedKind
  <2>6. Gated(loop, TRUE).action = "normal"
    <3>1. alarm' = Told(Gated(loop, TRUE).action)
      BY <2>3 DEF LoopCheck
    <3>2. QED
      BY <2>4, <2>5, <3>1, OnlyNormalEndsAlarm
  <2>7. QED
    BY <2>3, <2>4, <2>6, NormalIsOpen DEF LoopCheck, Critical
<1>2. QED
  BY <1>1, AccountInvariant, PTL DEF AccountSpec, AlarmEndsWhenProven
===========================================================================
