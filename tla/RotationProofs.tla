--------------------------- MODULE RotationProofs ---------------------------
(***************************************************************************)
(* Proofs about the hand-over, for any number of faults, runs, positions   *)
(* and changes of the market, with and without continuous rotation.        *)
(***************************************************************************)
EXTENDS Rotation, TLAPS

-----------------------------------------------------------------------------
(* The inductive invariant *)

\* A journal that may be on file.
JournalShape(j) ==
    /\ j \in Journal
    /\ j.phase # "blocked" => j.failures < MAX_CONSECUTIVE_FAILURES
    /\ j.phase \in {"starting", "recovering"} => j.target \in Pair
    /\ j.phase = "draining" => j.current \in Pair

\* Where the poll is says what it has saved.
PollShape ==
    /\ JournalShape(journal)
    /\ pc # "idle" => journal.phase # "blocked"
    /\ pc = "request" => journal.phase = "draining"
    /\ pc = "launch" => journal.phase \in {"starting", "recovering"}

\* What the scan misses, and what comes up behind it, is in the tmux session.
HiddenInTmux ==
    /\ \A p \in Pair : rt[p].stage = "boot" => rt[p].tmux
    /\ pc = "launch" => \A p \in Pair : Alive(p) => rt[p].tmux

\* A new run has a new identity.
RunsKnown ==
    /\ journal.source <= runs
    /\ \A p \in Pair : rt[p].run <= runs /\ control[p].run <= runs

\* A run that has answered is flat and stops.
ReceiptStops ==
    \A p \in Pair :
        control[p].status = "completed" /\ Alive(p) /\ control[p].run = rt[p].run
            => rt[p].stage = "stopping" /\ ~exposed[p]

\* During a drain only its source is alive, and its answer is true.
DrainOfSource ==
    journal.phase = "draining" =>
        /\ \A p \in Pair : Alive(p) => /\ p = journal.current
                                       /\ rt[p].run = journal.source
                                       /\ rt[p].stage # "boot"
        /\ control[journal.current].status = "completed"
              /\ control[journal.current].run = journal.source
              => ~exposed[journal.current]

\* WTI has looked, and ETH cannot have opened since.
WtiBesideFlatEth ==
    rt["WTI"].stage \in {"running", "stopping"} => ~exposed["ETH"]

RotationInv ==
    /\ TypeOK
    /\ PollShape
    /\ OneRuntime
    /\ HiddenInTmux
    /\ RunsKnown
    /\ ReceiptStops
    /\ DrainOfSource
    /\ WtiBesideFlatEth

-----------------------------------------------------------------------------
(* What a poll may decide *)

\* What is true of the journal and the poll after any outcome of a scan.
Outcome ==
    /\ JournalShape(journal')
    /\ journal'.source <= runs
    /\ pc' \in {"idle", "request", "launch"}
    /\ pc' # "idle" => journal'.phase # "blocked"
    /\ pc' = "request" => journal'.phase = "draining"
    /\ pc' = "launch" => journal'.phase \in {"starting", "recovering"} /\ NothingRuns
    /\ journal'.phase = "draining" =>
          \/ /\ journal.phase = "draining"
             /\ journal'.current = journal.current
             /\ journal'.source = journal.source
          \/ Runs(journal'.current) /\ journal'.source = rt[journal'.current].run
    /\ journal.phase = "draining" /\ journal'.phase = "starting" =>
          Acknowledged(journal.current) /\ NothingRuns

\* What the outcomes rest on.
Scanning == TypeOK /\ PollShape /\ RunsKnown /\ pc = "scan"

\* A whole step of the poll after its scan.
Decided ==
    /\ Outcome
    /\ UNCHANGED <<rt, control, health, exposed, round, market, runs, trades, moves>>
    /\ seen' \in Sight
    /\ requests' \in Nat
    /\ faults' \in Nat

LEMMA NothingSeenIsTyped == NothingSeen \in Sight
  BY DEF NothingSeen, Sight, NoHealth, Health, Market

LEMMA DesiredIsTyped ==
    ASSUME NEW current \in Pair \cup {"NONE"} PROVE Desired(current) \in Pair \cup {"NONE"}
  BY DEF Desired, Pair

LEMMA DoneIs ==
    ASSUME NEW j, JournalShape(j), Done(j)
    PROVE  /\ JournalShape(journal') /\ pc' = "idle"
           /\ journal'.phase = j.phase /\ journal'.current = j.current
           /\ journal'.source = j.source
<1>1. /\ journal' \in Journal /\ journal'.failures = 0
      /\ journal'.phase = j.phase /\ journal'.current = j.current
      /\ journal'.target = j.target /\ journal'.source = j.source
  BY DEF Done, JournalShape, Journal, MAX_CONSECUTIVE_FAILURES
<1> QED
  BY <1>1 DEF Done, JournalShape, MAX_CONSECUTIVE_FAILURES

LEMMA RaisedIs ==
    ASSUME JournalShape(journal), journal.phase # "blocked", Raised
    PROVE  /\ JournalShape(journal') /\ pc' = "idle"
           /\ journal'.phase \in {journal.phase, "blocked"}
           /\ journal'.current = journal.current /\ journal'.source = journal.source
<1>1. journal.failures \in Nat /\ journal.failures < 3
  BY DEF JournalShape, Journal, MAX_CONSECUTIVE_FAILURES
<1>2. /\ journal'.failures = journal.failures + 1
      /\ journal'.phase = (IF journal.failures + 1 >= 3 THEN "blocked" ELSE journal.phase)
      /\ journal'.current = journal.current
      /\ journal'.target = journal.target /\ journal'.source = journal.source
  BY DEF Raised, JournalShape, Journal, MAX_CONSECUTIVE_FAILURES
<1>3. journal.failures + 1 \in 0..3
  BY <1>1
<1>4. journal' \in Journal
  BY <1>3 DEF Raised, JournalShape, Journal, Phase, MAX_CONSECUTIVE_FAILURES
<1>5. journal'.phase # "blocked" => journal'.failures < 3
  BY <1>1, <1>2
<1>6. journal'.phase \in {journal.phase, "blocked"}
  BY <1>2
<1> QED
  BY <1>2, <1>4, <1>5, <1>6 DEF Raised, JournalShape, MAX_CONSECUTIVE_FAILURES

\* A poll that ends well, with a journal that starts nothing.
LEMMA DoneDecides ==
    ASSUME Scanning, NEW j, JournalShape(j), j.source = journal.source,
           j.phase # "blocked",
           j.phase = "draining" => journal.phase = "draining" /\ j.current = journal.current,
           j.phase = "starting" => journal.phase = "starting",
           Done(j)
    PROVE  Outcome
  BY DoneIs DEF Outcome, Scanning, RunsKnown

\* A poll that raised.
LEMMA RaisedDecides == ASSUME Scanning, Raised PROVE Outcome
  BY RaisedIs DEF Outcome, Scanning, PollShape, RunsKnown

\* A start: the journal is saved and a launch is to come.
LEMMA StartDecides ==
    ASSUME Scanning, NothingRuns, NEW p \in Pair, NEW recovery \in BOOLEAN,
           NEW j, JournalShape(j), j.phase # "blocked", j.source = journal.source,
           ~recovery /\ journal.phase = "draining" => Acknowledged(journal.current),
           Start(p, recovery, j)
    PROVE  Outcome
<1>1. CASE Raised
  BY <1>1, RaisedDecides
<1>2. CASE Saved([j EXCEPT !.phase = IF recovery THEN "recovering" ELSE "starting",
                           !.current = "NONE", !.target = p,
                           !.before = seen.health[p].run,
                           !.attempts = @ + 1], "launch")
  <2>1. seen.health[p].run \in Nat
    BY DEF Scanning, TypeOK, Sight, Health
  <2>2. j.attempts \in Nat
    BY DEF JournalShape, Journal
  <2>3. j.attempts + 1 \in Nat
    BY <2>2
  <2>4. /\ journal'.phase = (IF recovery THEN "recovering" ELSE "starting")
        /\ journal'.target = p /\ journal'.source = j.source
        /\ journal'.failures = j.failures
    BY <1>2 DEF Saved, JournalShape, Journal
  <2>5. journal' \in Journal
    BY <1>2, <2>1, <2>3 DEF Saved, JournalShape, Journal, Phase, Pair
  <2>6. JournalShape(journal')
    BY <2>4, <2>5 DEF JournalShape
  <2> QED
    BY <1>2, <2>4, <2>6 DEF Saved, Outcome, Scanning, RunsKnown
<1> QED
  BY <1>1, <1>2 DEF Start

\* A drain: the journal is saved and the request is to come.
LEMMA AskDecides ==
    ASSUME Scanning, NEW p \in Pair, Runs(p), NEW target \in Pair \cup {"NONE"},
           AskToDrain(p, target)
    PROVE  Outcome /\ requests' \in Nat
<1> DEFINE open == control[p].status \in {"requested", "draining"}
           id == CASE open /\ control[p].request # 0 -> control[p].request
                   [] journal.request # 0            -> journal.request
                   [] OTHER                          -> requests + 1
<1>1. id \in Nat
  BY DEF Scanning, TypeOK, Control, Journal
<1>2. CASE Raised /\ UNCHANGED requests
  BY <1>2, RaisedDecides DEF Scanning, TypeOK
<1>3. CASE /\ Saved([journal EXCEPT !.phase = "draining", !.current = p, !.target = target,
                                    !.request = id, !.source = rt[p].run, !.before = 0,
                                    !.attempts = 0], "request")
           /\ requests' = IF id > requests THEN id ELSE requests
  <2> HIDE DEF id
  <2>1. requests' \in Nat
    BY <1>1, <1>3 DEF Scanning, TypeOK
  <2>2. rt[p].run \in Nat /\ rt[p].run <= runs
    BY DEF Scanning, TypeOK, Process, RunsKnown
  <2>3. JournalShape(journal) /\ journal.phase # "blocked"
    BY DEF Scanning, PollShape
  <2>4. /\ journal'.phase = "draining" /\ journal'.current = p
        /\ journal'.source = rt[p].run /\ journal'.failures = journal.failures
    BY <1>3, <2>3 DEF Saved, JournalShape, Journal
  <2>5. journal' \in Journal
    BY <1>1, <1>3, <2>2, <2>3 DEF Saved, JournalShape, Journal, Phase
  <2>6. JournalShape(journal')
    BY <2>3, <2>4, <2>5 DEF JournalShape
  <2> QED
    BY <1>3, <2>1, <2>2, <2>4, <2>6 DEF Saved, Outcome
<1> QED
  BY <1>2, <1>3 DEF AskToDrain

-----------------------------------------------------------------------------
(* Each outcome of a scan *)

LEMMA ScanKeeps ==
    ASSUME RotationInv, ScanStep
    PROVE  /\ Scanning
           /\ UNCHANGED <<rt, control, health, exposed, round, market, runs, trades, moves>>
           /\ seen' \in Sight
           /\ requests \in Nat /\ faults \in Nat
           /\ JournalShape(journal) /\ journal.phase # "blocked"
  BY NothingSeenIsTyped DEF RotationInv, Scanning, ScanStep, PollShape, TypeOK, runtimes

LEMMA ConflictDecides == ASSUME RotationInv, OnConflict PROVE Decided
<1>1. ScanStep /\ UNCHANGED requests /\ (UNCHANGED faults \/ faults' = faults + 1)
  BY DEF OnConflict, Fault
<1>2. Done(journal) \/ Raised
  BY DEF OnConflict
<1>3. faults' \in Nat
  BY <1>1, ScanKeeps
<1>4. Outcome
  BY <1>1, <1>2, ScanKeeps, DoneDecides, RaisedDecides
<1> QED
  BY <1>1, <1>3, <1>4, ScanKeeps DEF Decided

LEMMA OrphanDecides == ASSUME RotationInv, OnOrphan PROVE Decided
<1>1. ScanStep /\ UNCHANGED <<requests, faults>> /\ NothingRuns
  BY DEF OnOrphan
<1>2. PICK p \in Pair : Raised \/ Done(journal) \/ Start(p, TRUE, journal)
  BY DEF OnOrphan
<1>3. Outcome
  BY <1>1, <1>2, ScanKeeps, DoneDecides, RaisedDecides, StartDecides
<1> QED
  BY <1>1, <1>3, ScanKeeps DEF Decided

LEMMA StableIs ==
    ASSUME JournalShape(journal), journal.phase # "blocked", NEW p \in Pair \cup {"NONE"}
    PROVE  /\ Stable(journal, p) \in Journal
           /\ Stable(journal, p).phase = "stable"
           /\ Stable(journal, p).source = journal.source
           /\ Stable(journal, p).failures < MAX_CONSECUTIVE_FAILURES
  BY DEF Stable, JournalShape, Journal, Phase

LEMMA ReleasedIs ==
    ASSUME JournalShape(journal), journal.phase # "blocked"
    PROVE  /\ JournalShape(Released)
           /\ Released.phase = "stable"
           /\ Released.source = journal.source
<1>1. \A j \in Journal : /\ [j EXCEPT !.request = 0] \in Journal
                        /\ [j EXCEPT !.request = 0].phase = j.phase
                        /\ [j EXCEPT !.request = 0].source = j.source
                        /\ [j EXCEPT !.request = 0].failures = j.failures
  BY DEF Journal
<1> QED
  BY <1>1, StableIs DEF Released, JournalShape

LEMMA DrainedDecides == ASSUME RotationInv, OnDrained PROVE Decided
<1>1. ScanStep /\ UNCHANGED <<requests, faults>> /\ NothingRuns /\ journal.phase = "draining"
  BY DEF OnDrained, NothingHeld
<1>2. CASE Done(journal)
  BY <1>1, <1>2, ScanKeeps, DoneDecides DEF Decided
<1>3. CASE Done(Released)
  BY <1>1, <1>3, ScanKeeps, ReleasedIs, DoneDecides DEF Decided
<1>4. CASE /\ Acknowledged(journal.current) /\ journal.target # "NONE"
           /\ Start(journal.target, FALSE, journal)
  <2>1. journal.target \in Pair
    BY <1>4, <1>1, ScanKeeps DEF JournalShape, Journal
  <2>2. Outcome
    BY <1>1, <1>4, <2>1, ScanKeeps, StartDecides
  <2> QED
    BY <1>1, <2>2, ScanKeeps DEF Decided
<1> QED
  BY <1>2, <1>3, <1>4 DEF OnDrained

LEMMA UnknownSessionDecides == ASSUME RotationInv, OnUnknownSession PROVE Decided
<1>1. ScanStep /\ UNCHANGED <<requests, faults>> /\ NothingRuns
  BY DEF OnUnknownSession, NothingHeld
<1>2. Done(journal) \/ Raised \/ Start("WTI", TRUE, journal)
         \/ Start("WTI", TRUE, [journal EXCEPT !.attempts = 0])
  BY DEF OnUnknownSession
<1>3. /\ JournalShape([journal EXCEPT !.attempts = 0])
      /\ [journal EXCEPT !.attempts = 0].phase = journal.phase
      /\ [journal EXCEPT !.attempts = 0].source = journal.source
  BY <1>1, ScanKeeps DEF JournalShape, Journal, MAX_CONSECUTIVE_FAILURES
<1>4. Start("WTI", TRUE, journal) => Outcome
  BY <1>1, ScanKeeps, StartDecides DEF Pair
<1>5. Start("WTI", TRUE, [journal EXCEPT !.attempts = 0]) => Outcome
  BY <1>1, <1>3, ScanKeeps, StartDecides DEF Pair
<1>6. Outcome
  BY <1>1, <1>2, <1>4, <1>5, ScanKeeps, DoneDecides, RaisedDecides
<1> QED
  BY <1>1, <1>6, ScanKeeps DEF Decided

LEMMA NoTargetDecides == ASSUME RotationInv, OnNoTarget PROVE Decided
<1>1. ScanStep /\ UNCHANGED <<requests, faults>> /\ Done(journal)
  BY DEF OnNoTarget, NothingHeld
<1> QED
  BY <1>1, ScanKeeps, DoneDecides DEF Decided

LEMMA TargetDecides == ASSUME RotationInv, OnTarget PROVE Decided
<1>1. /\ ScanStep /\ UNCHANGED <<requests, faults>> /\ NothingRuns
      /\ journal.phase # "draining" /\ Desired("NONE") # "NONE"
  BY DEF OnTarget, NothingHeld
<1>2. Done(journal) \/ Raised \/ Start(Desired("NONE"), FALSE, journal)
  BY DEF OnTarget
<1>3. Desired("NONE") \in Pair
  BY <1>1, DesiredIsTyped
<1>4. Outcome
  BY <1>1, <1>2, <1>3, ScanKeeps, DoneDecides, RaisedDecides, StartDecides
<1> QED
  BY <1>1, <1>4, ScanKeeps DEF Decided

LEMMA SettledIs ==
    ASSUME JournalShape(journal), journal.phase # "blocked", NEW p \in Pair
    PROVE  /\ JournalShape(Settled(journal, p))
           /\ Settled(journal, p).phase = "stable"
           /\ Settled(journal, p).source = journal.source
<1>1. \A j \in Journal : /\ [j EXCEPT !.target = p] \in Journal
                        /\ [j EXCEPT !.target = p].phase = j.phase
                        /\ [j EXCEPT !.target = p].source = j.source
                        /\ [j EXCEPT !.target = p].failures = j.failures
  BY DEF Journal
<1> QED
  BY <1>1, StableIs DEF Settled, JournalShape

LEMMA RecoveringDecides ==
    ASSUME RotationInv, NEW p \in Pair, OnRecovering(p) PROVE Decided
<1>1. ScanStep /\ UNCHANGED <<requests, faults>>
  BY DEF OnRecovering, Watching
<1>2. Done(Settled(journal, p)) \/ Done(journal)
  BY DEF OnRecovering
<1> QED
  BY <1>1, <1>2, ScanKeeps, SettledIs, DoneDecides DEF Decided

\* The poll that asks for nothing, in a drain.
LEMMA WaitingDecides ==
    ASSUME RotationInv, NEW p \in Pair, OnDraining(p), UNCHANGED <<rt, control>>,
           Done(journal) \/ Raised
    PROVE  Decided
<1>1. ScanStep /\ UNCHANGED <<requests, faults>>
  BY DEF OnDraining, ScanStep, runtimes, bounds
<1> QED
  BY <1>1, ScanKeeps, DoneDecides, RaisedDecides DEF Decided

LEMMA StartingDecides ==
    ASSUME RotationInv, NEW p \in Pair, OnStarting(p) PROVE Decided
<1>1. ScanStep /\ UNCHANGED <<requests, faults>>
  BY DEF OnStarting, Watching
<1>2. CASE Done(journal) \/ Raised
  BY <1>1, <1>2, ScanKeeps, DoneDecides, RaisedDecides DEF Decided
<1>3. CASE Done([Settled(journal, p) EXCEPT !.request = 0, !.attempts = 0])
  <2>1. \A j \in Journal : /\ [j EXCEPT !.request = 0, !.attempts = 0] \in Journal
                          /\ [j EXCEPT !.request = 0, !.attempts = 0].phase = j.phase
                          /\ [j EXCEPT !.request = 0, !.attempts = 0].source = j.source
                          /\ [j EXCEPT !.request = 0, !.attempts = 0].failures = j.failures
    BY DEF Journal
  <2> QED
    BY <1>1, <1>3, <2>1, ScanKeeps, SettledIs, DoneDecides DEF Decided, JournalShape
<1> QED
  BY <1>2, <1>3 DEF OnStarting

LEMMA StableDecides ==
    ASSUME RotationInv, NEW p \in Pair, OnStable(p) PROVE Decided
<1>1. ScanStep /\ UNCHANGED faults /\ Runs(p)
  BY DEF OnStable, Watching
<1>2. CASE AskToDrain(p, Desired(p)) \/ AskToDrain(p, p)
  <2>1. Desired(p) \in Pair \cup {"NONE"}
    BY DesiredIsTyped
  <2> QED
    BY <1>1, <1>2, <2>1, ScanKeeps, AskDecides DEF Decided
<1>3. CASE (Done(journal) \/ Done(Settled(journal, p))) /\ UNCHANGED requests
  BY <1>1, <1>3, ScanKeeps, SettledIs, DoneDecides DEF Decided
<1> QED
  BY <1>2, <1>3 DEF OnStable

-----------------------------------------------------------------------------
(* The poll keeps the invariant *)

LEMMA DecidedKeeps ==
    ASSUME RotationInv, pc = "scan", Decided PROVE RotationInv'
<1> USE DEF RotationInv, Decided
<1>1. TypeOK'
  BY DEF TypeOK, Outcome, JournalShape
<1>2. PollShape'
  BY DEF PollShape, Outcome
<1>3. OneRuntime' /\ ReceiptStops' /\ WtiBesideFlatEth'
  BY DEF OneRuntime, Alive, ReceiptStops, WtiBesideFlatEth
<1>4. HiddenInTmux'
  <2>1. NothingRuns => \A p \in Pair : Alive(p) => rt[p].stage = "boot"
    BY DEF NothingRuns, Scanned, Listed, Alive, TypeOK, Process, Stage
  <2> QED
    BY <2>1 DEF HiddenInTmux, Outcome, Alive
<1>5. RunsKnown'
  BY DEF RunsKnown, Outcome
<1>6. DrainOfSource'
  <2> SUFFICES ASSUME journal'.phase = "draining" PROVE DrainOfSource'
    BY DEF DrainOfSource
  <2>1. CASE /\ journal.phase = "draining"
             /\ journal'.current = journal.current
             /\ journal'.source = journal.source
    BY <2>1 DEF DrainOfSource, Alive
  <2>2. CASE Runs(journal'.current) /\ journal'.source = rt[journal'.current].run
    <3>1. journal'.current \in Pair
      BY DEF Outcome, JournalShape
    <3>2. rt[journal'.current].stage \in Listed
      BY <2>2 DEF Runs, Scanned
    <3>3. \A p \in Pair : Alive(p) => p = journal'.current
      BY <3>1, <3>2 DEF OneRuntime, Alive, Listed, Pair
    <3>4. /\ control[journal'.current].status = "completed"
          /\ control[journal'.current].run = journal'.source
          => ~exposed[journal'.current]
      BY <2>2, <3>1, <3>2 DEF ReceiptStops, Alive, Listed
    <3> QED
      BY <2>2, <3>1, <3>2, <3>3, <3>4 DEF DrainOfSource, Alive, Listed
  <2> QED
    BY <2>1, <2>2 DEF Outcome
<1> QED
  BY <1>1, <1>2, <1>3, <1>4, <1>5, <1>6

\* A step of the supervisor that neither decides nor touches a runtime.
Quiet ==
    /\ JournalShape(journal')
    /\ journal'.phase \in {journal.phase, "blocked"}
    /\ journal'.current = journal.current /\ journal'.source = journal.source
    /\ \/ pc' = "idle"
       \/ pc' \in {"sample", "scan"} /\ journal'.phase # "blocked"
    /\ seen' \in Sight
    /\ UNCHANGED <<rt, health, exposed, round, market, runs, trades, moves>>
    /\ requests' \in Nat
    /\ faults' \in Nat

LEMMA QuietKeeps ==
    ASSUME RotationInv, Quiet, control' = control PROVE RotationInv'
<1> USE DEF RotationInv, Quiet
<1>1. TypeOK'
  BY DEF TypeOK, JournalShape
<1>2. PollShape' /\ RunsKnown' /\ HiddenInTmux'
  BY DEF PollShape, RunsKnown, HiddenInTmux, Alive
<1>3. OneRuntime' /\ ReceiptStops' /\ WtiBesideFlatEth'
  BY DEF OneRuntime, Alive, ReceiptStops, WtiBesideFlatEth
<1>4. DrainOfSource'
  BY DEF DrainOfSource, Alive
<1> QED
  BY <1>1, <1>2, <1>3, <1>4

LEMMA ReadKeeps == ASSUME RotationInv, ReadFiles \/ ReadSample PROVE RotationInv'
<1>1. CASE ReadFiles
  <2>1. seen' \in Sight
    BY <1>1 DEF RotationInv, TypeOK, ReadFiles, Sight
  <2> QED
    BY <1>1, <2>1, QuietKeeps
       DEF RotationInv, PollShape, TypeOK, ReadFiles, Quiet, runtimes, bounds
<1>2. CASE ReadSample
  <2>1. seen' \in Sight
    BY <1>2 DEF RotationInv, TypeOK, ReadSample, Sight
  <2> QED
    BY <1>2, <2>1, QuietKeeps
       DEF RotationInv, PollShape, TypeOK, ReadSample, Quiet, runtimes, bounds
<1> QED
  BY <1>1, <1>2

LEMMA RequestKeeps == ASSUME RotationInv, WriteRequest PROVE RotationInv'
<1> USE DEF RotationInv
<1>1. /\ Quiet /\ journal'.phase = "draining"
      /\ journal.current \in Pair
  BY DoneIs DEF WriteRequest, Quiet, PollShape, TypeOK, JournalShape, bounds
<1>2. /\ control' \in [Pair -> Control]
      /\ control'[journal.current].status = "requested"
      /\ control'[journal.current].run = journal.source
      /\ \A q \in Pair \ {journal.current} : control'[q] = control[q]
  BY <1>1 DEF WriteRequest, TypeOK, Control, Journal
<1>3. TypeOK' /\ PollShape' /\ HiddenInTmux' /\ OneRuntime' /\ WtiBesideFlatEth'
  BY <1>1, <1>2 DEF TypeOK, PollShape, HiddenInTmux, OneRuntime, WtiBesideFlatEth, Alive,
                    Quiet, JournalShape
<1>4. RunsKnown'
  BY <1>1, <1>2 DEF RunsKnown, Quiet
<1>5. ReceiptStops'
  BY <1>1, <1>2 DEF ReceiptStops, Quiet, Alive
<1>6. DrainOfSource'
  BY <1>1, <1>2 DEF DrainOfSource, Quiet, Alive
<1> QED
  BY <1>3, <1>4, <1>5, <1>6

LEMMA EndOfPollKeeps ==
    ASSUME RotationInv, KeepSession \/ LaunchFails \/ SupervisorDies PROVE RotationInv'
<1> USE DEF RotationInv
<1>1. JournalShape(journal) /\ (pc # "idle" => journal.phase # "blocked")
  BY DEF PollShape
<1>2. CASE KeepSession
  BY <1>1, <1>2, DoneIs, QuietKeeps DEF KeepSession, Quiet, TypeOK, runtimes, bounds
<1>3. CASE LaunchFails
  <2>1. faults' \in Nat
    <3>1. faults' = faults + 1
      BY <1>3 DEF LaunchFails, Fault
    <3>2. faults \in Nat
      BY DEF TypeOK
    <3> QED
      BY <3>1, <3>2
  <2>2. Quiet
    BY <1>1, <1>3, <2>1, RaisedIs DEF LaunchFails, Quiet, TypeOK, runtimes
  <2> QED
    BY <1>3, <2>2, QuietKeeps DEF LaunchFails, runtimes
<1>4. CASE SupervisorDies
  <2>1. faults' \in Nat
    <3>1. faults' = faults + 1
      BY <1>4 DEF SupervisorDies, Fault
    <3>2. faults \in Nat
      BY DEF TypeOK
    <3> QED
      BY <3>1, <3>2
  <2>2. Quiet
    BY <1>1, <1>4, <2>1, NothingSeenIsTyped DEF SupervisorDies, Quiet, TypeOK, runtimes
  <2> QED
    BY <1>4, <2>2, QuietKeeps DEF SupervisorDies, runtimes
<1> QED
  BY <1>2, <1>3, <1>4

LEMMA LaunchKeeps == ASSUME RotationInv, Launch PROVE RotationInv'
<1> USE DEF RotationInv
<1> DEFINE p == journal.target
<1>1. /\ p \in Pair /\ JournalShape(journal)
      /\ journal.phase \in {"starting", "recovering"}
  BY DEF Launch, PollShape, JournalShape
<1>2. /\ JournalShape(journal') /\ pc' = "idle" /\ journal'.phase = journal.phase
      /\ journal'.current = journal.current /\ journal'.source = journal.source
  BY <1>1, DoneIs DEF Launch
<1>3. runs \in Nat /\ runs' = runs + 1
  BY DEF Launch, TypeOK
<1>4. runs' \in Nat /\ runs' > runs
  BY <1>3
<1>5. runs + 1 \in Nat
  BY <1>3
<1>6. /\ rt' \in [Pair -> Process]
      /\ rt'[p].stage = "boot" /\ rt'[p].run = runs' /\ rt'[p].tmux
      /\ \A q \in Pair \ {p} : rt'[q] = rt[q]
  BY <1>1, <1>3, <1>4, <1>5 DEF Launch, TypeOK, Process, Stage
<1>7. \A q \in Pair : ~Alive(q)
  BY DEF Launch, HiddenInTmux, TmuxAlive, Alive
<1>8. TypeOK' /\ PollShape'
  BY <1>2, <1>4, <1>6 DEF TypeOK, PollShape, Launch, JournalShape
<1>9. OneRuntime' /\ HiddenInTmux'
  BY <1>1, <1>2, <1>6, <1>7 DEF OneRuntime, HiddenInTmux, Alive, Pair
<1>10. RunsKnown'
  <2>1. /\ journal.source \in Nat
        /\ \A q \in Pair : rt[q].run \in Nat /\ control[q].run \in Nat
    BY DEF TypeOK, Journal, Process, Control
  <2> QED
    BY <1>2, <1>4, <1>6, <2>1 DEF RunsKnown, Launch, TypeOK
<1>11. ReceiptStops'
  <2>1. \A q \in Pair : control[q].run \in Nat /\ control[q].run < runs'
    BY <1>3 DEF RunsKnown, TypeOK, Control
  <2> QED
    BY <1>6, <1>7, <2>1 DEF ReceiptStops, Launch, Alive
<1>12. DrainOfSource'
  BY <1>1, <1>2 DEF DrainOfSource
<1>13. WtiBesideFlatEth'
  BY <1>1, <1>6 DEF WtiBesideFlatEth, Launch, Pair
<1> QED
  BY <1>8, <1>9, <1>10, <1>11, <1>12, <1>13

-----------------------------------------------------------------------------
(* The runtimes keep the invariant *)

LEMMA BecomesIs ==
    ASSUME rt \in [Pair -> Process], NEW p \in Pair, NEW stage \in Stage, Becomes(p, stage)
    PROVE  /\ rt' \in [Pair -> Process]
           /\ rt'[p].stage = stage
           /\ rt'[p].run = rt[p].run /\ (rt'[p].tmux <=> rt[p].tmux)
           /\ \A q \in Pair \ {p} : rt'[q] = rt[q]
  BY DEF Becomes, Process

LEMMA EndsIs ==
    ASSUME rt \in [Pair -> Process], NEW p \in Pair, Ends(p)
    PROVE  /\ rt' \in [Pair -> Process]
           /\ rt'[p].stage \in {"gone", "leaving"}
           /\ \A q \in Pair \ {p} : rt'[q] = rt[q]
  BY DEF Ends, Process, Absent, Stage

\* What a step of the runtime of p may change.
Moves(p) ==
    /\ journal' = journal /\ pc' = pc /\ seen' = seen /\ runs' = runs
    /\ market' \in Market
    /\ requests' \in Nat /\ trades' \in Nat /\ moves' \in Nat /\ faults' \in Nat
    /\ rt' \in [Pair -> Process] /\ control' \in [Pair -> Control]
    /\ health' \in [Pair -> Health] /\ exposed' \in [Pair -> BOOLEAN] /\ round' \in BOOLEAN
    /\ \A q \in Pair \ {p} : rt'[q] = rt[q] /\ control'[q] = control[q] /\ exposed'[q] = exposed[q]
    /\ rt'[p].stage # "boot"
    /\ Alive(p)' => Alive(p) /\ rt'[p].run = rt[p].run /\ (rt'[p].tmux <=> rt[p].tmux)
    /\ ~Alive(p) => control'[p] = control[p] /\ exposed'[p] = exposed[p]
    /\ rt'[p].run <= runs /\ control'[p].run <= runs

\* What it has to respect: its answer is true, and it enters beside a flat ETH.
Honest(p) ==
    /\ Alive(p)' /\ control'[p].status = "completed" /\ control'[p].run = rt'[p].run
          => rt'[p].stage = "stopping" /\ ~exposed'[p]
    /\ Alive(p) /\ control'[p].status = "completed" /\ control'[p].run = rt[p].run
          => ~exposed'[p]
    /\ p = "WTI" /\ rt'[p].stage \in {"running", "stopping"}
          => rt[p].stage \in {"running", "stopping"} \/ ~exposed["ETH"]

LEMMA MovesKeeps ==
    ASSUME RotationInv, NEW p \in Pair, Moves(p), Honest(p) PROVE RotationInv'
<1> USE DEF RotationInv, Moves
<1>1. TypeOK'
  BY DEF TypeOK
<1>2. PollShape'
  BY DEF PollShape, JournalShape
<1>3. OneRuntime'
  BY DEF OneRuntime, Alive, Pair
<1>4. HiddenInTmux'
  BY DEF HiddenInTmux, Alive
<1>5. RunsKnown'
  BY DEF RunsKnown
<1>6. ReceiptStops'
  BY DEF ReceiptStops, Honest, Alive
<1>7. DrainOfSource'
  <2> SUFFICES ASSUME journal.phase = "draining" PROVE DrainOfSource'
    BY DEF DrainOfSource
  <2>1. journal.current \in Pair
    BY DEF PollShape, JournalShape
  <2>2. CASE Alive(p)
    <3>1. p = journal.current /\ rt[p].run = journal.source
      BY <2>2 DEF DrainOfSource
    <3>2. \A q \in Pair \ {p} : ~Alive(q)
      BY <3>1 DEF DrainOfSource
    <3> QED
      BY <2>2, <3>1, <3>2 DEF DrainOfSource, Honest, Alive
  <2>3. CASE ~Alive(p)
    BY <2>1, <2>3 DEF DrainOfSource, Alive
  <2> QED
    BY <2>2, <2>3
<1>8. WtiBesideFlatEth'
  <2>1. CASE p = "ETH"
    <3>1. rt'["WTI"] = rt["WTI"]
      BY <2>1 DEF Pair
    <3>2. Alive("ETH") => rt["WTI"].stage \notin {"running", "stopping"}
      BY DEF OneRuntime, Alive
    <3> QED
      BY <2>1, <3>1, <3>2 DEF WtiBesideFlatEth
  <2>2. CASE p = "WTI"
    BY <2>2 DEF WtiBesideFlatEth, Honest, Pair
  <2> QED
    BY <2>1, <2>2 DEF Pair
<1> QED
  BY <1>1, <1>2, <1>3, <1>4, <1>5, <1>6, <1>7, <1>8

\* The facts every step of a runtime starts from.
LEMMA RuntimeFacts ==
    ASSUME RotationInv, NEW p \in Pair
    PROVE  /\ rt \in [Pair -> Process] /\ control \in [Pair -> Control]
           /\ health \in [Pair -> Health] /\ exposed \in [Pair -> BOOLEAN]
           /\ round \in BOOLEAN /\ market \in Market
           /\ requests \in Nat /\ trades \in Nat /\ moves \in Nat /\ faults \in Nat
           /\ runs \in Nat /\ 0 <= runs
           /\ rt[p].run <= runs /\ control[p].run <= runs
           /\ rt[p].run \in Nat /\ rt[p].managing \in BOOLEAN
           /\ Alive(p) /\ control[p].status = "completed" /\ control[p].run = rt[p].run
                 => rt[p].stage = "stopping" /\ ~exposed[p]
  BY DEF RotationInv, TypeOK, RunsKnown, ReceiptStops, Process

\* A runtime that goes leaves its control file and its positions.
LEMMA GoneKeeps ==
    ASSUME RotationInv, NEW p \in Pair, Ends(p),
           UNCHANGED <<journal, pc, seen, control, exposed, round, market,
                       runs, requests, trades, moves>>,
           health' \in [Pair -> Health], faults' \in Nat
    PROVE  RotationInv'
<1>1. /\ rt' \in [Pair -> Process]
      /\ rt'[p].stage \in {"gone", "leaving"} /\ rt'[p].run = 0
      /\ \A q \in Pair \ {p} : rt'[q] = rt[q]
  <2>1. rt \in [Pair -> Process]
    BY RuntimeFacts
  <2>2. rt'[p].run = 0
    BY <2>1 DEF Ends, Absent
  <2>3. /\ rt' \in [Pair -> Process]
        /\ rt'[p].stage \in {"gone", "leaving"}
        /\ \A q \in Pair \ {p} : rt'[q] = rt[q]
    BY <2>1, EndsIs
  <2> QED
    BY <2>2, <2>3
<1>2. Moves(p)
  BY <1>1, RuntimeFacts DEF Moves, Alive
<1>3. Honest(p)
  BY <1>1, RuntimeFacts DEF Honest, Alive
<1> QED
  BY <1>2, <1>3, MovesKeeps

\* A runtime that is alive and stays so, without an answer.
LEMMA WorksKeeps ==
    ASSUME RotationInv, NEW p \in Pair, Alive(p),
           UNCHANGED <<journal, pc, seen, runs>>,
           market' \in Market,
           requests' \in Nat, trades' \in Nat, moves' \in Nat, faults' \in Nat,
           rt' \in [Pair -> Process], control' \in [Pair -> Control],
           health' \in [Pair -> Health], exposed' \in [Pair -> BOOLEAN], round' \in BOOLEAN,
           \A q \in Pair \ {p} : rt'[q] = rt[q] /\ control'[q] = control[q] /\ exposed'[q] = exposed[q],
           rt'[p].stage \notin {"gone", "leaving", "boot"},
           rt'[p].run = rt[p].run, rt'[p].tmux <=> rt[p].tmux,
           control'[p].run \in {control[p].run, rt[p].run},
           control'[p].status = "completed" /\ control'[p].run = rt[p].run
              => rt'[p].stage = "stopping" /\ ~exposed'[p],
           p = "WTI" /\ rt'[p].stage \in {"running", "stopping"}
              => rt[p].stage \in {"running", "stopping"} \/ ~exposed["ETH"]
    PROVE  RotationInv'
<1>1. Moves(p)
  BY RuntimeFacts DEF Moves, Alive
<1>2. Honest(p)
  BY DEF Honest
<1> QED
  BY <1>1, <1>2, MovesKeeps

LEMMA StartUpKeeps ==
    ASSUME RotationInv, NEW p \in Pair, Boot(p) \/ Report(p) PROVE RotationInv'
<1>1. CASE Ends(p) /\ Boot(p)
  BY <1>1, GoneKeeps, RuntimeFacts DEF Boot, RuntimeStep, supervisor, bounds
<1>2. CASE Becomes(p, "up") /\ Boot(p)
  <2>1. rt[p].stage = "boot" /\ rt \in [Pair -> Process]
    BY <1>2, RuntimeFacts DEF Boot
  <2>2. /\ rt' \in [Pair -> Process] /\ rt'[p].stage = "up"
        /\ rt'[p].run = rt[p].run /\ (rt'[p].tmux <=> rt[p].tmux)
        /\ \A q \in Pair \ {p} : rt'[q] = rt[q]
    BY <1>2, <2>1, BecomesIs DEF Stage
  <2>3. UNCHANGED <<journal, pc, seen, control, health, exposed, round, market,
                    runs, requests, trades, moves, faults>>
    BY <1>2 DEF Boot, RuntimeStep, supervisor, bounds
  <2> QED
    BY <2>1, <2>2, <2>3, RuntimeFacts, WorksKeeps DEF Alive
<1>3. CASE Ends(p) /\ UNCHANGED health /\ Report(p)
  BY <1>3, GoneKeeps, RuntimeFacts DEF Report, RuntimeStep, supervisor, bounds
<1>4. CASE MayStart(p) /\ Becomes(p, "running") /\ Report(p)
  <2>1. rt[p].stage = "up" /\ rt \in [Pair -> Process]
    BY <1>4, RuntimeFacts DEF Report
  <2>2. /\ rt' \in [Pair -> Process] /\ rt'[p].stage = "running"
        /\ rt'[p].run = rt[p].run /\ (rt'[p].tmux <=> rt[p].tmux)
        /\ \A q \in Pair \ {p} : rt'[q] = rt[q]
    BY <1>4, <2>1, BecomesIs DEF Stage
  <2>3. health' \in [Pair -> Health]
    <3>1. health' = [health EXCEPT ![p] =
              [run |-> rt[p].run, reconciled |-> FALSE, managing |-> rt[p].managing]]
      BY <1>4 DEF Report
    <3>2. [run |-> rt[p].run, reconciled |-> FALSE, managing |-> rt[p].managing] \in Health
      BY RuntimeFacts DEF Health
    <3> QED
      BY <3>1, <3>2, RuntimeFacts
  <2>4. UNCHANGED <<journal, pc, seen, control, exposed, round, market,
                    runs, requests, trades, moves, faults>>
    BY <1>4 DEF Report, RuntimeStep, supervisor, bounds
  <2> QED
    BY <1>4, <2>1, <2>2, <2>3, <2>4, RuntimeFacts, WorksKeeps DEF Alive, MayStart
<1> QED
  BY <1>1, <1>2, <1>3, <1>4 DEF Boot, Report

LEMMA ReconcileKeeps == ASSUME RotationInv, NEW p \in Pair, Reconcile(p) PROVE RotationInv'
<1>1. health' \in [Pair -> Health]
  BY RuntimeFacts DEF Reconcile, Health
<1>2. UNCHANGED <<journal, pc, seen, rt, control, exposed, round, market,
                  runs, requests, trades, moves, faults>>
  BY DEF Reconcile, RuntimeStep, supervisor, bounds
<1> QED
  BY <1>1, <1>2, RuntimeFacts, WorksKeeps DEF Alive, Reconcile

LEMMA PollDrainKeeps == ASSUME RotationInv, NEW p \in Pair, PollDrain(p) PROVE RotationInv'
<1>1. /\ UNCHANGED <<journal, pc, seen, exposed, round, market,
                     runs, requests, trades, moves, faults>>
      /\ rt[p].stage = "running" /\ Alive(p)
  BY DEF PollDrain, RuntimeStep, supervisor, bounds, Alive
<1>2. /\ rt' \in [Pair -> Process] /\ control' \in [Pair -> Control]
      /\ health' \in [Pair -> Health]
      /\ \A q \in Pair \ {p} : rt'[q] = rt[q] /\ control'[q] = control[q]
      /\ rt'[p].stage = "running" /\ rt'[p].run = rt[p].run
      /\ rt'[p].tmux <=> rt[p].tmux
      /\ control'[p].run \in {control[p].run, rt[p].run}
      /\ control'[p].status = "completed" => control'[p] = control[p]
  <2>1. CASE p = "WTI" /\ AcceptWTI
    BY <1>1, <2>1, RuntimeFacts DEF AcceptWTI, Process, Control, Health, Pair
  <2>2. CASE p = "ETH" /\ AcceptETH
    <3>1. control["ETH"].request \in Nat
      BY <2>2, RuntimeFacts DEF Control
    <3>2. /\ rt' \in [Pair -> Process]
          /\ \A q \in Pair \ {p} : rt'[q] = rt[q]
          /\ rt'[p].stage = rt[p].stage /\ rt'[p].run = rt[p].run
          /\ rt'[p].tmux <=> rt[p].tmux
      <4>1. \A r \in Process, n \in Nat :
               /\ [r EXCEPT !.draining = TRUE, !.request = n] \in Process
               /\ [r EXCEPT !.draining = TRUE, !.request = n].stage = r.stage
               /\ [r EXCEPT !.draining = TRUE, !.request = n].run = r.run
               /\ [r EXCEPT !.draining = TRUE, !.request = n].tmux = r.tmux
        BY DEF Process
      <4>2. rt' = [rt EXCEPT ![p] =
                     [rt[p] EXCEPT !.draining = TRUE, !.request = control["ETH"].request]]
        BY <2>2 DEF AcceptETH
      <4>3. rt \in [Pair -> Process] /\ rt[p] \in Process
        BY RuntimeFacts
      <4>4. [rt[p] EXCEPT !.draining = TRUE, !.request = control["ETH"].request] \in Process
        BY <3>1, <4>1, <4>3
      <4>5. rt'[p] = [rt[p] EXCEPT !.draining = TRUE, !.request = control["ETH"].request]
        BY <4>2, <4>3
      <4>6. rt'[p].stage = rt[p].stage /\ rt'[p].run = rt[p].run /\ rt'[p].tmux = rt[p].tmux
        BY <4>3, <4>5 DEF Process
      <4>7. rt' \in [Pair -> Process] /\ \A q \in Pair \ {p} : rt'[q] = rt[q]
        BY <4>2, <4>3, <4>4
      <4>8. rt'[p].tmux <=> rt[p].tmux
        BY <4>6
      <4> QED
        BY <4>6, <4>7, <4>8
    <3>3. control' = control /\ health' = health
      BY <2>2 DEF AcceptETH
    <3>4. rt'[p].stage = "running"
      BY <1>1, <3>2
    <3> QED
      BY <3>2, <3>3, <3>4, RuntimeFacts
  <2>3. CASE p = "ETH" /\ AnnounceETH
    <3>1. /\ rt' \in [Pair -> Process] /\ health' = health
          /\ \A q \in Pair \ {p} : rt'[q] = rt[q]
          /\ rt'[p].stage = rt[p].stage /\ rt'[p].run = rt[p].run
          /\ rt'[p].tmux <=> rt[p].tmux
      BY <2>3, RuntimeFacts DEF AnnounceETH, Process
    <3>2. /\ control' \in [Pair -> Control]
          /\ \A q \in Pair \ {p} : control'[q] = control[q]
          /\ control'[p].status = "requested" /\ control'[p].run = rt[p].run
      BY <2>3, RuntimeFacts DEF AnnounceETH, Control
    <3> QED
      BY <1>1, <3>1, <3>2, RuntimeFacts
  <2> QED
    BY <2>1, <2>2, <2>3 DEF PollDrain
<1> QED
  BY <1>1, <1>2, RuntimeFacts, WorksKeeps

LEMMA CompleteKeeps ==
    ASSUME RotationInv, NEW p \in Pair, CompleteDrain(p) PROVE RotationInv'
<1>1. /\ UNCHANGED <<journal, pc, seen, health, exposed, round, market,
                     runs, requests, trades, moves, faults>>
      /\ rt[p].stage = "running" /\ Alive(p) /\ ~exposed[p]
  BY DEF CompleteDrain, VerifiedFlat, RuntimeStep, supervisor, bounds, Alive
<1>2. /\ rt' \in [Pair -> Process] /\ rt'[p].stage = "stopping"
      /\ rt'[p].run = rt[p].run /\ (rt'[p].tmux <=> rt[p].tmux)
      /\ \A q \in Pair \ {p} : rt'[q] = rt[q]
  BY BecomesIs, RuntimeFacts DEF CompleteDrain, Stage
<1>3. /\ control' \in [Pair -> Control]
      /\ \A q \in Pair \ {p} : control'[q] = control[q]
      /\ control'[p].run \in {control[p].run, rt[p].run}
  <2>1. rt[p].run \in Nat /\ rt[p].request \in Nat
    BY RuntimeFacts DEF Process
  <2>2. CASE p = "WTI"
    BY <2>2, RuntimeFacts DEF CompleteDrain, Control
  <2>3. CASE p = "ETH"
    BY <2>1, <2>3, RuntimeFacts DEF CompleteDrain, Control
  <2> QED
    BY <2>2, <2>3 DEF Pair
<1> QED
  BY <1>1, <1>2, <1>3, RuntimeFacts, WorksKeeps

LEMMA GoingKeeps ==
    ASSUME RotationInv, NEW p \in Pair, Exit(p) \/ SessionEnds(p) \/ RuntimeDies(p)
    PROVE  RotationInv'
<1>1. CASE Exit(p)
  BY <1>1, GoneKeeps, RuntimeFacts DEF Exit, RuntimeStep, supervisor, bounds
<1>2. CASE RuntimeDies(p)
  <2>1. faults' = faults + 1
    BY <1>2 DEF RuntimeDies, Fault
  <2>2. faults' \in Nat
    BY <2>1, RuntimeFacts
  <2> QED
    BY <1>2, <2>2, GoneKeeps, RuntimeFacts DEF RuntimeDies, supervisor
<1>3. CASE SessionEnds(p)
  <2>1. UNCHANGED <<journal, pc, seen, control, health, exposed, round, market,
                    runs, requests, trades, moves, faults>>
    BY <1>3 DEF SessionEnds, RuntimeStep, supervisor, bounds
  <2>2. /\ rt' \in [Pair -> Process]
        /\ rt'[p].stage = "gone" /\ rt'[p].run = 0
        /\ \A q \in Pair \ {p} : rt'[q] = rt[q]
    BY <1>3, RuntimeFacts DEF SessionEnds, Absent, Process, Stage
  <2>3. Moves(p)
    BY <2>1, <2>2, RuntimeFacts DEF Moves, Alive
  <2>4. Honest(p)
    BY <2>1, <2>2, RuntimeFacts DEF Honest, Alive
  <2> QED
    BY <2>3, <2>4, MovesKeeps
<1> QED
  BY <1>1, <1>2, <1>3

LEMMA TradeKeeps ==
    ASSUME RotationInv, NEW p \in Pair, Open(p) \/ Close(p) PROVE RotationInv'
<1>1. CASE Open(p)
  <2>1. /\ UNCHANGED <<journal, pc, seen, rt, control, health, round, market,
                       runs, requests, moves, faults>>
        /\ rt[p].stage = "running" /\ trades' = trades + 1
    BY <1>1 DEF Open, MayEnter, supervisor
  <2>2. trades' \in Nat
    BY <2>1, RuntimeFacts
  <2>3. /\ exposed' \in [Pair -> BOOLEAN]
        /\ \A q \in Pair \ {p} : exposed'[q] = exposed[q]
    BY <1>1, RuntimeFacts DEF Open
  <2> QED
    BY <2>1, <2>2, <2>3, RuntimeFacts, WorksKeeps DEF Alive
<1>2. CASE Close(p)
  <2>1. /\ UNCHANGED <<journal, pc, seen, rt, control, health, market,
                       runs, requests, trades, moves, faults>>
        /\ rt[p].stage = "running" /\ round' \in BOOLEAN
    BY <1>2 DEF Close, RuntimeStep, supervisor, bounds
  <2>2. /\ exposed' \in [Pair -> BOOLEAN]
        /\ \A q \in Pair \ {p} : exposed'[q] = exposed[q]
    BY <1>2, RuntimeFacts DEF Close
  <2> QED
    BY <2>1, <2>2, RuntimeFacts, WorksKeeps DEF Alive
<1> QED
  BY <1>1, <1>2

LEMMA ArmKeeps == ASSUME RotationInv, ArmRound PROVE RotationInv'
<1>1. /\ UNCHANGED <<journal, pc, seen, rt, control, health, exposed, market,
                     runs, requests, trades, moves, faults>>
      /\ rt["WTI"].stage = "running" /\ round' \in BOOLEAN
  BY DEF ArmRound, RuntimeStep, supervisor, bounds
<1>2. "WTI" \in Pair
  BY DEF Pair
<1> QED
  BY <1>1, <1>2, RuntimeFacts, WorksKeeps DEF Alive

LEMMA MarketKeeps == ASSUME RotationInv, MarketMoves PROVE RotationInv'
<1>1. /\ UNCHANGED <<journal, pc, seen, rt, control, health, exposed, round,
                     runs, requests, trades, faults>>
      /\ market' \in Market /\ moves' = moves + 1
  BY DEF MarketMoves, supervisor, runtimes
<1>2. moves' \in Nat
  BY <1>1 DEF RotationInv, TypeOK
<1> QED
  BY <1>1, <1>2
     DEF RotationInv, TypeOK, PollShape, JournalShape, OneRuntime, HiddenInTmux, RunsKnown,
         ReceiptStops, DrainOfSource, WtiBesideFlatEth, Alive

\* The answer the supervisor gives for a WTI runtime an independent probe found
\* flat, and the poll that waits.
LEMMA DrainingKeeps ==
    ASSUME RotationInv, NEW p \in Pair, OnDraining(p) PROVE RotationInv'
<1>1. pc = "scan" /\ journal.phase = "draining" /\ rt[p].stage \in Listed
  BY DEF OnDraining, Runs, Scanned
<1>2. CASE (Done(journal) \/ Raised) /\ UNCHANGED <<rt, control>>
  BY <1>1, <1>2, WaitingDecides, DecidedKeeps
<1>3. CASE /\ p = journal.current /\ rt[p].run = journal.source
           /\ control[p].run = journal.source /\ ~exposed[p]
           /\ control' = [control EXCEPT ![p].status = "completed"]
           /\ rt' = [rt EXCEPT ![p].stage = "stopping"]
           /\ p = "WTI" /\ rt[p].stage \in {"running", "stopping"}
           /\ Done(journal)
  <2>1. /\ UNCHANGED <<health, exposed, round, market, runs, requests, trades, moves, faults>>
        /\ seen' \in Sight
    BY NothingSeenIsTyped DEF OnDraining, bounds
  <2>2. /\ JournalShape(journal') /\ pc' = "idle" /\ journal'.phase = journal.phase
        /\ journal'.current = journal.current /\ journal'.source = journal.source
    BY <1>3, DoneIs DEF RotationInv, PollShape
  <2>3. /\ rt' \in [Pair -> Process] /\ rt'[p].stage = "stopping"
        /\ rt'[p].run = rt[p].run /\ (rt'[p].tmux <=> rt[p].tmux)
        /\ \A q \in Pair \ {p} : rt'[q] = rt[q]
    BY <1>3, BecomesIs, RuntimeFacts DEF Becomes, Stage
  <2>4. /\ control' \in [Pair -> Control]
        /\ control'[p].run = control[p].run
        /\ \A q \in Pair \ {p} : control'[q] = control[q]
    BY <1>3, RuntimeFacts DEF Control
  <2>5. TypeOK' /\ PollShape'
    BY <1>1, <2>1, <2>2, <2>3, <2>4 DEF RotationInv, TypeOK, PollShape, JournalShape
  <2>6. OneRuntime' /\ HiddenInTmux' /\ RunsKnown'
    BY <1>1, <1>3, <2>1, <2>2, <2>3, <2>4
       DEF RotationInv, OneRuntime, HiddenInTmux, RunsKnown, Alive, Listed, Pair
  <2>7. ReceiptStops'
    BY <1>3, <2>1, <2>3, <2>4 DEF RotationInv, ReceiptStops, Alive
  <2>8. DrainOfSource'
    BY <1>1, <1>3, <2>1, <2>2, <2>3, <2>4 DEF RotationInv, DrainOfSource, Alive, Listed
  <2>9. WtiBesideFlatEth'
    BY <1>3, <2>1, <2>3 DEF RotationInv, WtiBesideFlatEth
  <2> QED
    BY <2>5, <2>6, <2>7, <2>8, <2>9 DEF RotationInv
<1>4. ~Conflict => rt[p].stage \in {"running", "stopping"}
  BY <1>1 DEF Conflict, Matched, Scanned
<1> QED
  BY <1>2, <1>3, <1>4 DEF OnDraining, StopFlatWTI, Runs

-----------------------------------------------------------------------------
(* The invariant *)

LEMMA InvInitially == Init => RotationInv
<1> SUFFICES ASSUME Init PROVE RotationInv
  OBVIOUS
<1>1. /\ rt \in [Pair -> Process]
      /\ OneRuntime /\ \A p \in Pair : rt[p].stage \in {"gone", "up"} /\ rt[p].run <= runs
  <2>1. PICK m \in Pair :
          rt = [q \in Pair |-> IF Manual /\ q = m
                               THEN [Absent EXCEPT !.stage = "up", !.run = 1] ELSE Absent]
    BY DEF Init
  <2>2. /\ Absent \in Process /\ Absent.stage = "gone" /\ Absent.run = 0
        /\ \A r \in Process : /\ [r EXCEPT !.stage = "up", !.run = 1] \in Process
                              /\ [r EXCEPT !.stage = "up", !.run = 1].stage = "up"
                              /\ [r EXCEPT !.stage = "up", !.run = 1].run = 1
    BY DEF Absent, Process, Stage
  <2>3. runs = IF Manual THEN 1 ELSE 0
    BY DEF Init
  <2>4. rt \in [Pair -> Process]
    BY <2>1, <2>2
  <2>5. ASSUME NEW p \in Pair
        PROVE  \/ rt[p].stage = "gone" /\ rt[p].run = 0
               \/ Manual /\ p = m /\ rt[p].stage = "up" /\ rt[p].run = 1
    <3>1. CASE Manual /\ p = m
      <4>1. rt[p] = [Absent EXCEPT !.stage = "up", !.run = 1]
        BY <2>1, <3>1
      <4> QED
        BY <2>2, <3>1, <4>1
    <3>2. CASE ~(Manual /\ p = m)
      <4>1. rt[p] = Absent
        BY <2>1, <3>2
      <4> QED
        BY <2>2, <4>1
    <3> QED
      BY <3>1, <3>2
  <2>6. OneRuntime
    BY <2>5 DEF OneRuntime, Alive, Pair
  <2> QED
    BY <2>3, <2>4, <2>5, <2>6
<1>2. JournalShape(journal) /\ journal.phase = "stable" /\ journal.source = 0
  BY DEF Init, InitialJournal, JournalShape, Journal, Phase, MAX_CONSECUTIVE_FAILURES
<1>3. /\ control \in [Pair -> Control]
      /\ \A p \in Pair : control[p].status = "none" /\ control[p].run = 0
  BY DEF Init, NoControl, Control
<1>4. health \in [Pair -> Health] /\ exposed \in [Pair -> BOOLEAN] /\ runs \in Nat
  BY DEF Init, NoHealth, Health
<1>5. TypeOK /\ PollShape
  BY <1>1, <1>2, <1>3, <1>4, NothingSeenIsTyped DEF Init, TypeOK, PollShape, JournalShape
<1>6. HiddenInTmux /\ RunsKnown /\ ReceiptStops /\ DrainOfSource /\ WtiBesideFlatEth
  BY <1>1, <1>2, <1>3, <1>4
     DEF Init, HiddenInTmux, RunsKnown, ReceiptStops, DrainOfSource, WtiBesideFlatEth, Pair
<1> QED
  BY <1>1, <1>5, <1>6 DEF RotationInv

\* Every outcome of a scan but the one that waits for a drain.
LEMMA PollDecides ==
    ASSUME RotationInv, Poll
    PROVE  \/ ReadFiles \/ ReadSample
           \/ \E p \in Pair : OnDraining(p)
           \/ pc = "scan" /\ Decided
<1>1. CASE OnConflict \/ OnOrphan
  BY <1>1, ConflictDecides, OrphanDecides DEF OnConflict, OnOrphan, ScanStep
<1>2. CASE OnDrained \/ OnUnknownSession \/ OnNoTarget \/ OnTarget
  BY <1>2, DrainedDecides, UnknownSessionDecides, NoTargetDecides, TargetDecides
     DEF OnDrained, OnUnknownSession, OnNoTarget, OnTarget, NothingHeld, ScanStep
<1>3. ASSUME NEW p \in Pair, OnRecovering(p) \/ OnStarting(p) \/ OnStable(p)
      PROVE  pc = "scan" /\ Decided
  BY <1>3, RecoveringDecides, StartingDecides, StableDecides
     DEF OnRecovering, OnStarting, OnStable, Watching, ScanStep
<1> QED
  BY <1>1, <1>2, <1>3 DEF Poll

LEMMA StepKeeps == ASSUME RotationInv, [Next]_vars PROVE RotationInv'
<1>1. CASE Supervisor
  <2>1. CASE Poll
    BY <2>1, PollDecides, ReadKeeps, DrainingKeeps, DecidedKeeps
  <2> QED
    BY <1>1, <2>1, RequestKeeps, EndOfPollKeeps, LaunchKeeps DEF Supervisor
<1>2. CASE SupervisorDies
  BY <1>2, EndOfPollKeeps
<1>3. CASE \E p \in Pair : Runtime(p) \/ Open(p) \/ Close(p) \/ RuntimeDies(p)
  BY <1>3, StartUpKeeps, ReconcileKeeps, PollDrainKeeps, CompleteKeeps, GoingKeeps, TradeKeeps
     DEF Runtime
<1>4. CASE ArmRound \/ MarketMoves
  BY <1>4, ArmKeeps, MarketKeeps
<1>5. CASE UNCHANGED vars
  BY <1>5 DEF vars, supervisor, runtimes, bounds, RotationInv, TypeOK, PollShape, JournalShape,
              OneRuntime, HiddenInTmux, RunsKnown, ReceiptStops, DrainOfSource,
              WtiBesideFlatEth, Alive
<1> QED
  BY <1>1, <1>2, <1>3, <1>4, <1>5 DEF Next

LEMMA Invariance == Spec => []RotationInv
  BY InvInitially, StepKeeps, PTL DEF Spec

-----------------------------------------------------------------------------
(* Theorems *)

\* Every variable keeps its kind, and the supervisor blocks before a fourth
\* failure in a row.
THEOREM RotationTypes == Spec => []TypeOK
<1>1. RotationInv => TypeOK
  BY DEF RotationInv
<1> QED
  BY <1>1, Invariance, PTL

\* ETH and WTI never run at the same time.
THEOREM NeverBoth == Spec => []OneRuntime
<1>1. RotationInv => OneRuntime
  BY DEF RotationInv
<1> QED
  BY <1>1, Invariance, PTL

\* A run whose control file says "completed" holds nothing, for as long as it
\* lives.
THEOREM ReceiptIsTrue == Spec => []ReceiptHolds
<1>1. RotationInv => ReceiptHolds
  BY DEF RotationInv, ReceiptStops, ReceiptHolds
<1> QED
  BY <1>1, Invariance, PTL

\* WTI never enters while ETH holds a position, even when it was started on a
\* state file that has since changed.
THEOREM WtiEntersAlone == Spec => []WtiEntersBesideFlatEth
<1>1. RotationInv => WtiEntersBesideFlatEth
  BY DEF RotationInv, WtiBesideFlatEth, WtiEntersBesideFlatEth, MayEnter
<1> QED
  BY <1>1, Invariance, PTL

\* What a start after a drain has seen: the source answered, and nothing runs.
LEMMA StartAfterDrain ==
    ASSUME RotationInv, [Next]_vars, journal.phase = "draining", journal'.phase = "starting"
    PROVE  Acknowledged(journal.current) /\ NothingRuns
<1>1. journal' # journal
  OBVIOUS
<1>2. Poll \/ WriteRequest \/ KeepSession \/ Launch \/ LaunchFails
  BY <1>1 DEF Next, Supervisor, SupervisorDies, Runtime, Boot, Report, Reconcile, PollDrain,
              CompleteDrain, Exit, SessionEnds, Open, Close, RuntimeDies, ArmRound, MarketMoves,
              RuntimeStep, supervisor, vars
<1>3. ~(WriteRequest \/ KeepSession \/ Launch \/ LaunchFails)
  <2>1. JournalShape(journal) /\ journal.phase # "blocked"
    BY DEF RotationInv, PollShape
  <2>2. ~Done(journal) /\ ~Raised
    BY <2>1, DoneIs, RaisedIs
  <2> QED
    BY <2>2 DEF WriteRequest, KeepSession, Launch, LaunchFails
<1>4. ASSUME NEW p \in Pair, OnDraining(p) PROVE FALSE
  <2>1. JournalShape(journal) /\ journal.phase # "blocked"
    BY DEF RotationInv, PollShape
  <2>2. Done(journal) \/ Raised
    BY <1>4 DEF OnDraining, StopFlatWTI
  <2> QED
    BY <2>1, <2>2, DoneIs, RaisedIs
<1>5. Decided
  BY <1>1, <1>2, <1>3, <1>4, PollDecides DEF ReadFiles, ReadSample
<1> QED
  BY <1>5 DEF Decided, Outcome

\* The pair that was drained is flat and its runtime is gone when the other one
\* is started.
THEOREM HandsOverFlat == Spec => HandOverIsFlat
<1>1. ASSUME RotationInv, [Next]_vars, journal.phase = "draining", journal'.phase = "starting"
      PROVE  ~exposed[journal.current] /\ ~Alive(journal.current)
  <2>1. Acknowledged(journal.current) /\ NothingRuns
    BY <1>1, StartAfterDrain
  <2>2. journal.current \in Pair
    BY <1>1 DEF RotationInv, PollShape, JournalShape
  <2>3. ~exposed[journal.current]
    BY <1>1, <2>1 DEF RotationInv, DrainOfSource, Acknowledged
  <2>4. rt[journal.current].stage \in Stage
    BY <1>1, <2>2 DEF RotationInv, TypeOK, Process
  <2>5. ~Alive(journal.current)
    BY <1>1, <2>1, <2>2, <2>4
       DEF RotationInv, DrainOfSource, NothingRuns, Scanned, Listed, Alive, Stage
  <2> QED
    BY <2>3, <2>5
<1>2. RotationInv /\ [Next]_vars =>
        [journal.phase = "draining" /\ journal'.phase = "starting"
            => ~exposed[journal.current] /\ ~Alive(journal.current)]_vars
  BY <1>1
<1> QED
  BY <1>2, Invariance, PTL DEF Spec, HandOverIsFlat
=============================================================================
