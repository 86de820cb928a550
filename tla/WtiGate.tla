------------------------------ MODULE WtiGate ------------------------------
(***************************************************************************)
(* When the WTI runtime may enter: the sample loop of tools/wti_live.py    *)
(* with its two locks. A gap between baseline samples locks entries, has   *)
(* the position drained, and is lifted again on evidence; a failed read of *)
(* the accounts stops entries until two reads in a row are confirmed. Both *)
(* survive a death of the process, in the sample guard file and in a mark  *)
(* of the execution state file. What an operation of the coordinator does  *)
(* is PairExecutor; here it is one step to a pending file and one out.     *)
(***************************************************************************)
EXTENDS Naturals

CONSTANTS
  Retries,                 \* len(ACCOUNT_READ_RETRY_DELAYS_SECONDS)
  MaxFaults, MaxEntries, MaxCrashes

VARIABLES
  phase,    \* where the process is in its cycle, "down" when there is none
  mem,      \* its memory: the lock and the evidence against it, the read recovery
  cycle,    \* what this cycle has found so far
  state,    \* the execution state file: status, and the mark of a failed read
  guard,    \* the sample guard file: lock, and whether the position is to be drained
  behind,   \* the baseline in the guard file lies before a gap
  proof,    \* history: a gap not yet answered by the evidence the docs ask for
  doubt,    \* history: confirmed reads owed since a failed read was put on record
  faults, entries, crashes

vars == <<phase, mem, cycle, state, guard, behind, proof, doubt, faults, entries, crashes>>

Continuous == 3    \* baselines in a row, and
Confirmed == 2     \* reads of the accounts, that lift a lock

NoProcess ==
  [lock |-> "none", near |-> 0, reads |-> 0, exit |-> FALSE, owner |-> FALSE, base |-> FALSE,
   signals |-> FALSE, required |-> FALSE, verified |-> 0, reconciled |-> FALSE]
NoCycle ==
  [startup |-> FALSE, signal |-> FALSE, again |-> FALSE, tries |-> 0,
   answered |-> FALSE, safe |-> FALSE, blocked |-> FALSE]
Proven == [gap |-> FALSE, near |-> 0, reads |-> 0]

Statuses == {"flat", "open", "opening", "adding", "closing", "review"}
Settled == {"flat", "open"}
Held == {"open", "adding", "closing"}      \* open_position is set
Locks == {"none", "gap", "clock", "review"}
Gaps == {"gap", "clock"}

TypeOK ==
  /\ phase \in {"down", "idle", "recording", "admitted", "failing", "clearing", "read",
                "ready", "executing", "saving"}
  /\ mem \in [lock : Locks, near : 0..Continuous, reads : 0..Confirmed, exit : BOOLEAN,
              owner : BOOLEAN, base : BOOLEAN, signals : BOOLEAN, required : BOOLEAN,
              verified : 0..Confirmed, reconciled : BOOLEAN]
  /\ cycle \in [startup : BOOLEAN, signal : BOOLEAN, again : BOOLEAN, tries : 0..Retries + 1,
                answered : BOOLEAN, safe : BOOLEAN, blocked : BOOLEAN]
  /\ state \in [status : Statuses, recovering : BOOLEAN]
  /\ guard \in [lock : Locks, drain : BOOLEAN, owner : BOOLEAN, known : BOOLEAN]
  /\ behind \in BOOLEAN
  /\ proof \in [gap : BOOLEAN, near : 0..Continuous, reads : 0..Confirmed]
  /\ doubt \in 0..Confirmed
  /\ faults \in 0..MaxFaults /\ entries \in 0..MaxEntries /\ crashes \in 0..MaxCrashes

Init ==
  /\ phase = "down" /\ mem = NoProcess /\ cycle = NoCycle
  /\ state = [status |-> "flat", recovering |-> FALSE]
  /\ guard = [lock |-> "none", drain |-> FALSE, owner |-> FALSE, known |-> FALSE]
  /\ behind = FALSE /\ proof = Proven /\ doubt = 0
  /\ faults = 0 /\ entries = 0 /\ crashes = 0

Least(a, b) == IF a < b THEN a ELSE b

\* What goes wrong is counted; a cost of 0 is what goes right.
Costs(n) == faults + n <= MaxFaults /\ faults' = faults + n
Free == UNCHANGED faults
Bounds == UNCHANGED <<entries, crashes>>

-----------------------------------------------------------------------------
(* The process and its files. *)

\* _persist_sample_guard. The identity of a position is kept as "owner": whether
\* the one written down is that of the position now open.
Written(m) ==
  [lock |-> m.lock, drain |-> m.exit /\ m.owner, owner |-> m.owner, known |-> m.base]

\* Mutant: a restart takes over the lock alone.
NoDrain == FALSE
\* __init__: the lock comes back with its reason and without evidence, the drain
\* for the position it was ordered for, the recovery of reads with its mark.
RestoresDrain ==
  guard.lock \in Gaps /\ guard.drain /\ guard.owner /\ state.status = "open"
\* Mutant: a restart forgets that reads had failed.
RestoredForgetful ==
  [NoProcess EXCEPT !.lock = guard.lock, !.exit = RestoresDrain, !.owner = guard.owner,
                    !.base = guard.known]
Restored ==
  [NoProcess EXCEPT !.lock = guard.lock, !.exit = RestoresDrain, !.owner = guard.owner,
                    !.base = guard.known, !.required = state.recovering]
Start ==
  /\ phase = "down" /\ phase' = "idle" /\ mem' = Restored
  /\ UNCHANGED <<cycle, state, guard, behind, proof, doubt>> /\ Free /\ Bounds

Crash ==
  /\ phase # "down" /\ crashes < MaxCrashes /\ crashes' = crashes + 1
  /\ phase' = "down" /\ mem' = NoProcess /\ cycle' = NoCycle
  /\ proof' = [proof EXCEPT !.near = 0, !.reads = 0]
  /\ UNCHANGED <<state, guard, behind, doubt, entries>> /\ Free

\* The end of a cycle: _write_health writes the guard first.
Save ==
  /\ phase = "saving" /\ phase' = "idle" /\ cycle' = NoCycle /\ guard' = Written(mem)
  /\ UNCHANGED <<mem, state, behind, proof, doubt>> /\ Free /\ Bounds

-----------------------------------------------------------------------------
(* Samples. A baseline follows the one before it closely, at a distance or  *)
(* in another session, after a gap, or comes with an earlier time.          *)

Kinds ==
  IF ~mem.base THEN {"first"} ELSE IF behind THEN {"gap"} ELSE {"near", "far", "gap", "back"}
Trouble(kind) == IF behind \/ kind \in {"first", "near"} THEN 0 ELSE 1

\* _revoke_entry_authorization: the last reason stands.
Revoked(m, reason) == [m EXCEPT !.lock = reason]

\* Mutant: the evidence from before a gap still counts after it.
RecordedWithOldEvidence(kind) ==
  LET m == [mem EXCEPT !.base = TRUE]
  IN  CASE kind = "first" -> m
        [] kind = "near"  -> [m EXCEPT !.near = Least(@ + 1, Continuous)]
        [] kind = "far"   -> [m EXCEPT !.near = 0, !.reads = 0]
        [] kind \in {"gap", "back"} ->
             Revoked([m EXCEPT !.signals = FALSE, !.exit = TRUE, !.owner = state.status \in Held],
                     IF kind = "gap" THEN "gap" ELSE "clock")
\* _record_new_sample of a valid baseline.
Recorded(kind) ==
  LET m == [mem EXCEPT !.base = TRUE]
      broken == [m EXCEPT !.near = 0, !.reads = 0]
  IN  CASE kind = "first" -> m
        [] kind = "near"  -> [m EXCEPT !.near = Least(@ + 1, Continuous)]
        [] kind = "far"   -> broken
        [] kind \in {"gap", "back"} ->
             Revoked([broken EXCEPT !.signals = FALSE, !.exit = TRUE, !.owner = state.status \in Held],
                     IF kind = "gap" THEN "gap" ELSE "clock")
\* ... and of a sample that is not valid.
Rejected == [mem EXCEPT !.near = 0, !.reads = 0, !.signals = FALSE]

Answered(p) == IF p.near = Continuous /\ p.reads = Confirmed THEN Proven ELSE p
Watched(kind) ==
  CASE kind = "gap"  -> [gap |-> TRUE, near |-> 0, reads |-> 0]
    [] kind = "near" -> IF proof.gap THEN Answered([proof EXCEPT !.near = Least(@ + 1, Continuous)]) ELSE proof
    [] OTHER         -> [proof EXCEPT !.near = 0, !.reads = 0]

Record(kind) ==
  /\ mem' = Recorded(kind) /\ behind' = (behind \/ kind = "gap") /\ proof' = Watched(kind)
  /\ phase' = "recording" /\ Costs(Trouble(kind))
  /\ UNCHANGED <<state, guard, doubt>> /\ Bounds
Reject ==
  /\ mem' = Rejected /\ proof' = Watched("invalid") /\ Costs(1)
  /\ UNCHANGED <<state, guard, behind, doubt>> /\ Bounds

\* The loop takes the latest baseline. A file under review stays so until an operator acts.
Take(kind) ==
  /\ phase = "idle" /\ state.status # "review" /\ kind \in Kinds /\ Record(kind)
  /\ cycle' = [NoCycle EXCEPT !.startup = ~mem.reconciled, !.signal = TRUE]
TakeInvalid ==
  phase = "idle" /\ state.status # "review" /\ phase' = "saving" /\ UNCHANGED cycle /\ Reject
\* Only its quote is too old: the strategy goes on with a quote of its own.
TakeOldQuote ==
  phase = "idle" /\ state.status # "review" /\ phase' = "admitted" /\ UNCHANGED cycle /\ Reject

WriteGuard ==
  /\ phase = "recording" /\ phase' = (IF cycle.again THEN "ready" ELSE "admitted")
  /\ guard' = Written(mem) /\ behind' = FALSE
  /\ UNCHANGED <<mem, cycle, state, proof, doubt>> /\ Free /\ Bounds

\* _decision_sample before the decision: the sample has aged, a newer one is taken.
Resample(kind) ==
  /\ phase = "ready" /\ ~cycle.again /\ kind \in Kinds /\ Record(kind)
  /\ cycle' = [cycle EXCEPT !.again = TRUE, !.signal = TRUE]
ResampleInvalid == phase = "ready" /\ phase' = "saving" /\ UNCHANGED cycle /\ Reject
QuoteUnavailable ==
  /\ phase \in {"admitted", "ready"} /\ phase' = "saving" /\ Costs(1)
  /\ UNCHANGED <<mem, cycle, state, guard, behind, proof, doubt>> /\ Bounds

-----------------------------------------------------------------------------
(* Reads of the accounts. *)

\* The decision on what was read. A baseline of this cycle counts as a signal; without
\* a position nothing is left to drain, and during a recovery only the account's
\* risk brings the cycle here.
Decided ==
  [mem EXCEPT !.signals = @ \/ (cycle.signal /\ ~cycle.blocked), !.exit = @ /\ state.status = "open"]
MustClose == state.status = "open" /\ (mem.exit \/ cycle.blocked)

\* _sync_entry_authorization, and the condition before executor.open.
EntryAuthorized == mem.lock = "none" /\ ~mem.required
MayEnter ==
  /\ EntryAuthorized /\ ~MustClose /\ state.status \in Settled
  /\ Decided.signals /\ entries < MaxEntries

\* _begin_account_read_recovery, up to its save of the mark.
Fail(m, tries) ==
  /\ mem' = [m EXCEPT !.required = TRUE, !.verified = 0, !.reconciled = FALSE]
  /\ cycle' = [cycle EXCEPT !.tries = tries, !.answered = FALSE, !.safe = FALSE, !.blocked = TRUE]
  /\ phase' = "failing" /\ Costs(1)
  /\ UNCHANGED <<state, guard, behind, proof, doubt>> /\ Bounds
ReadFails == phase = "admitted" /\ state.status \in Settled /\ Fail(mem, cycle.tries + 1)
\* The read before an entry or an exit is not repeated.
PreflightFails ==
  phase = "ready" /\ (state.status = "open" \/ MayEnter) /\ Fail(Decided, Retries + 1)

MarkRecovery ==
  /\ phase = "failing" /\ phase' = (IF cycle.tries > Retries THEN "read" ELSE "admitted")
  /\ state' = [state EXCEPT !.recovering = TRUE] /\ doubt' = Confirmed
  /\ UNCHANGED <<mem, cycle, guard, behind, proof>> /\ Free /\ Bounds
\* The state file is locked by another process, also for the handler of the cycle.
MarkFails ==
  /\ phase = "failing" /\ phase' = "saving" /\ mem' = Revoked(mem, "review") /\ Costs(1)
  /\ UNCHANGED <<cycle, state, guard, behind, proof, doubt>> /\ Bounds

\* How reconcile, or the operation itself, ends what is pending.
Ends(status) ==
  CASE status = "opening" -> {"flat", "open"}
    [] status = "adding"  -> {"open"}
    [] status = "closing" -> {"flat", "open"}
    [] OTHER              -> {status}
\* A position that was opened or changed is not the one written down.
Renewed(m, new) == [m EXCEPT !.owner = @ /\ ~new]
Renews(from, to) ==
  CASE from = "opening" -> {TRUE}
    [] from = "closing" /\ to = "open" -> BOOLEAN
    [] from = "adding" -> BOOLEAN
    [] OTHER -> {FALSE}

\* reconcile answers, and _reconcile_with_account_read_retries counts. "safe" is
\* _account_recovery_snapshot_verified: account and file agree, the risk is normal.
Read(status, new, safe) ==
  LET counted == IF safe THEN mem.verified + 1 ELSE 0
      m == Renewed(mem, new)
  IN  /\ phase = "admitted"
      /\ state' = [state EXCEPT !.status = status]
      /\ guard' = [guard EXCEPT !.owner = @ /\ ~new]
      /\ mem' = IF mem.required
                THEN [m EXCEPT !.verified = counted, !.reconciled = FALSE]
                ELSE m
      /\ cycle' = [cycle EXCEPT !.answered = TRUE, !.safe = safe, !.blocked = mem.required]
      /\ phase' = IF mem.required /\ counted = Confirmed THEN "clearing" ELSE "read"
      /\ proof' = IF safe /\ status = "flat" /\ proof.gap
                  THEN Answered([proof EXCEPT !.reads = Least(@ + 1, Confirmed)]) ELSE proof
      /\ doubt' = IF doubt = 0 THEN 0 ELSE IF safe THEN doubt - 1 ELSE Confirmed
      /\ UNCHANGED behind /\ Bounds
ReadAnswers ==
  \E status \in Ends(state.status), safe \in BOOLEAN : \E new \in Renews(state.status, status) :
    Read(status, new, safe) /\ Costs(IF safe THEN 0 ELSE 1)
\* The account contradicts the file, or what is pending cannot be decided.
ReadEndsInReview ==
  Read("review", FALSE, FALSE) /\ Costs(1)

\* The second confirmed read: the mark is taken back, or the file is locked.
ClearRecovery ==
  /\ phase = "clearing" /\ phase' = "read"
  /\ state' = [state EXCEPT !.recovering = FALSE]
  /\ mem' = [mem EXCEPT !.required = FALSE, !.verified = 0, !.reconciled = TRUE]
  /\ UNCHANGED <<cycle, guard, behind, proof, doubt>> /\ Free /\ Bounds
ClearFails ==
  /\ phase = "clearing" /\ phase' = "read" /\ Costs(1)
  /\ mem' = [mem EXCEPT !.verified = Confirmed - 1]
  /\ UNCHANGED <<cycle, state, guard, behind, proof, doubt>> /\ Bounds

-----------------------------------------------------------------------------
(* After the read. *)

\* _recover_sample_gap: one more proof, or none of them counts; the lock is lifted
\* on the third continuous baseline and the second proof.
FlatProof == state.status = "flat" /\ ~mem.required /\ cycle.answered /\ cycle.safe
Lifted == [mem EXCEPT !.lock = "none", !.exit = FALSE, !.signals = FALSE, !.reads = Least(@ + 1, Confirmed)]
LiftsGap == mem.lock = "gap" /\ FlatProof /\ mem.near = Continuous /\ mem.reads + 1 >= Confirmed
\* Mutant: the proof of this cycle replaces those before.
EvidenceStartsOver ==
  IF mem.lock # "gap" THEN mem
  ELSE IF LiftsGap THEN Lifted
  ELSE [mem EXCEPT !.reads = 0]
Evidence ==
  IF mem.lock # "gap" THEN mem
  ELSE IF LiftsGap THEN Lifted
  ELSE [mem EXCEPT !.reads = IF FlatProof THEN Least(@ + 1, Confirmed) ELSE 0]

\* _startup_reconcile_sample looks at the gap only when its read was not part of a
\* recovery, and decides nothing; _process_sample goes on unless it was, or when the
\* account's risk asks for a reduction.
StartupEnds ==
  /\ phase = "read" /\ cycle.startup /\ phase' = "saving"
  /\ mem' = IF cycle.blocked THEN mem ELSE [Evidence EXCEPT !.reconciled = state.status \in Settled]
  /\ guard' = IF ~cycle.blocked /\ LiftsGap THEN Written(Lifted) ELSE guard
  /\ UNCHANGED <<cycle, state, behind, proof, doubt>> /\ Free /\ Bounds
GoesOn ==
  /\ state.status \in Settled
  /\ cycle.blocked => state.status = "open" /\ cycle.answered /\ ~cycle.safe
StrategyGoesOn ==
  /\ phase = "read" /\ ~cycle.startup
  /\ phase' = (IF GoesOn THEN "ready" ELSE "saving")
  /\ mem' = Evidence /\ guard' = (IF LiftsGap THEN Written(Lifted) ELSE guard)
  /\ UNCHANGED <<cycle, state, behind, proof, doubt>> /\ Free /\ Bounds

\* Nothing to do; a drain waits only for a session that allows it.
Hold ==
  /\ phase = "ready" /\ phase' = "saving" /\ mem' = Decided
  /\ Costs(IF MustClose THEN 1 ELSE 0)
  /\ UNCHANGED <<cycle, state, guard, behind, proof, doubt>> /\ Bounds
Close ==
  /\ phase = "ready" /\ state.status = "open" /\ phase' = "executing" /\ mem' = Decided
  /\ state' = [state EXCEPT !.status = "closing"]
  /\ UNCHANGED <<cycle, guard, behind, proof, doubt>> /\ Free /\ Bounds

Enter ==
  /\ phase = "ready" /\ MayEnter
  /\ entries' = entries + 1 /\ phase' = "executing" /\ mem' = Decided
  /\ state' = [state EXCEPT !.status = IF @ = "flat" THEN "opening" ELSE "adding"]
  /\ UNCHANGED <<cycle, guard, behind, proof, doubt, crashes>> /\ Free

Execute ==
  /\ phase = "executing" /\ phase' = "saving"
  /\ \E status \in Ends(state.status) : \E new \in Renews(state.status, status) :
       /\ state' = [state EXCEPT !.status = status]
       /\ mem' = [Renewed(mem, new) EXCEPT !.exit = @ /\ status # "flat"]
       /\ guard' = [guard EXCEPT !.owner = @ /\ ~new]
       /\ Costs(IF state.status = "closing" /\ status = "open" THEN 1 ELSE 0)
  /\ UNCHANGED <<cycle, behind, proof, doubt>> /\ Bounds
ExecutionEndsInReview ==
  /\ phase = "executing" /\ phase' = "saving" /\ Costs(1)
  /\ state' = [state EXCEPT !.status = "review"]
  /\ UNCHANGED <<mem, cycle, guard, behind, proof, doubt>> /\ Bounds

\* Any other exception of a cycle.
Unhandled ==
  /\ phase \in {"admitted", "ready", "executing"} /\ phase' = "saving"
  /\ mem' = Revoked(mem, "review") /\ Costs(1)
  /\ UNCHANGED <<cycle, state, guard, behind, proof, doubt>> /\ Bounds

-----------------------------------------------------------------------------
Samples ==
  \/ \E kind \in {"first", "near", "far", "gap", "back"} : Take(kind) \/ Resample(kind)
  \/ TakeInvalid \/ TakeOldQuote \/ WriteGuard \/ ResampleInvalid \/ QuoteUnavailable
Reads ==
  \/ ReadFails \/ PreflightFails \/ MarkRecovery \/ MarkFails \/ ReadAnswers
  \/ ReadEndsInReview \/ ClearRecovery \/ ClearFails
Decision ==
  \/ StartupEnds \/ StrategyGoesOn \/ Hold \/ Close \/ Enter
  \/ Execute \/ ExecutionEndsInReview \/ Unhandled
Run == Samples \/ Reads \/ Decision \/ Save \/ Start

Next == Run \/ Crash

Spec == Init /\ [][Next]_vars

\* The loop goes on, and the process is started again.
FairSpec == Spec /\ WF_vars(Run)

-----------------------------------------------------------------------------
(* Properties. *)

\* No entry between a failed read that was put on record and two confirmed reads
\* in a row, also when the process that saw it is gone (_sync_entry_authorization).
EntryNeedsProof == [][entries' > entries => doubt = 0]_vars

\* No entry after a gap between baselines before three continuous ones and two
\* reads of this process that show the accounts flat; a death before the guard is
\* written must not hide the gap (_record_new_sample, _recover_sample_gap).
EntryAfterGapIsProven == [][entries' > entries => ~proof.gap]_vars

\* Entries come back by themselves: the mark of a failed read is taken back, a gap
\* lock without a position lifted, unless an operator is asked for.
BlockedEntriesReturn ==
  []<>((~state.recovering /\ guard.lock # "gap") \/ state.status \in {"open", "review"})

\* A position held through a gap is closed, by this process or the next, unless a
\* process died in that close: the next one takes the position back as it finds it.
GapExposureDrains ==
  (/\ guard.lock \in Gaps /\ guard.drain /\ guard.owner /\ state.status = "open"
   /\ (phase = "down" \/ mem.exit))
    ~> (state.status # "open" \/ guard.lock \notin Gaps)

=============================================================================
