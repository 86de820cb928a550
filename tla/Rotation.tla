------------------------------ MODULE Rotation ------------------------------
(***************************************************************************)
(* The hand-over of the exchange accounts between the ETH and the WTI      *)
(* runtime: tools/rotation_supervisor.py with its durable journal, the     *)
(* control file through which it asks a runtime to drain, the tmux session *)
(* it launches runtimes in, and what the runtimes (main.py behind          *)
(* tools/live.py, tools/wti_live.py) do with all of that.                  *)
(*                                                                         *)
(* A poll of the supervisor reads the state and health files, later scans  *)
(* the processes and saves the journal, and later still writes a control   *)
(* file or launches a runtime; it can die between any two of these.        *)
(*                                                                         *)
(* A runtime's position is `exposed` or not: both runtimes persist their   *)
(* intent before the first order, so the state file never says flat while  *)
(* there is something on an exchange.  Left out: the standalone collector, *)
(* the bounded rotation test, unreadable or missing files, a dry run.      *)
(***************************************************************************)
EXTENDS Integers

CONSTANTS
    ConfirmInitialFlat,  \* --confirm-initial-flat
    Continuous,          \* --continuous-gradient-rotation
    Manual,              \* was a runtime started by hand before the supervisor?
    Faults,              \* kinds of faults that may happen
    MaxFaults,           \* bound: faults
    MaxRuns,             \* bound: processes launched
    MaxTrades,           \* bound: positions opened
    MaxMoves             \* bound: changes of the market

FaultKinds == {"supervisor dies", "runtime dies", "start fails", "heartbeat stalls"}

ASSUME ConfigurationAssumption ==
    /\ ConfirmInitialFlat \in BOOLEAN
    /\ Continuous \in BOOLEAN
    /\ Manual \in BOOLEAN
    /\ Faults \subseteq FaultKinds
ASSUME BoundsAssumption ==
    /\ MaxFaults \in Nat
    /\ MaxRuns \in Nat
    /\ MaxTrades \in Nat
    /\ MaxMoves \in Nat

VARIABLES
    \* log/rotation_supervisor_state.json
    journal,
    \* the supervisor process: where its poll is and what the poll has read
    pc, seen,
    \* the runtime of each pair: its process, its control file, its health
    \* file, whether its state file says anything but flat
    rt, control, health, exposed,
    \* wti_live_state.json: is a gradient round of this rotation session in
    \* a state other than completed?
    round,
    \* what desired_pair makes of the sample, the session and the readiness
    market,
    \* bounds
    runs, requests, trades, moves, faults

supervisor == <<journal, pc, seen>>
runtimes   == <<rt, control, health, exposed, round>>
bounds     == <<runs, requests, trades, moves, faults>>
vars       == <<supervisor, runtimes, market, bounds>>

-----------------------------------------------------------------------------
(* Values *)

Pair     == {"ETH", "WTI"}
Other(p) == IF p = "ETH" THEN "WTI" ELSE "ETH"

Phase == {"stable", "draining", "starting", "recovering", "blocked"}
MAX_CONSECUTIVE_FAILURES == 3
MaxLaunchAttempts == 2

\* Identities are numbers: a run is one process (pid and run id together), a
\* request one drain request.  0 stands for none.
InitialJournal ==
    [phase |-> "stable", current |-> "NONE", target |-> "NONE", request |-> 0,
     source |-> 0, before |-> 0, attempts |-> 0, failures |-> 0]
NoControl == [status |-> "none", run |-> 0, request |-> 0]
NoHealth  == [run |-> 0, reconciled |-> FALSE, managing |-> FALSE]

\* A runtime is gone, in its tmux session but not yet a process the scan
\* finds (boot), a process (up), with a health file of its own (running),
\* told to stop (stopping), or survived by tools/live.py alone (leaving).
Stage  == {"gone", "boot", "up", "running", "stopping", "leaving"}
Listed == {"up", "running", "stopping"}
Absent == [stage |-> "gone", run |-> 0, managing |-> FALSE, draining |-> FALSE,
           request |-> 0, tmux |-> FALSE]

NothingSeen == [exposed |-> [p \in Pair |-> FALSE], health |-> [p \in Pair |-> NoHealth],
                round |-> FALSE, market |-> "none"]

Alive(p) == rt[p].stage \notin {"gone", "leaving"}

\* The market is one of: "wti" (session open, WTI ready), "eth" (no entry
\* into WTI, ETH ready), "none" (no pair ready), "unknown" (no session).
Market == {"wti", "eth", "none", "unknown"}

\* desired_pair, of the sample the poll has read
Desired(current) ==
    CASE seen.market = "wti"     -> "WTI"
      [] seen.market = "unknown" -> current
      [] seen.market = "eth"     -> "ETH"
      [] OTHER              -> IF current = "WTI" THEN "WTI" ELSE "NONE"

Fault(kind) ==
    /\ kind \in Faults
    /\ faults < MaxFaults
    /\ faults' = faults + 1

Init ==
    /\ journal = InitialJournal
    /\ pc = "idle"
    /\ \E p \in Pair :
          rt = [q \in Pair |->
                   IF Manual /\ q = p
                   THEN [Absent EXCEPT !.stage = "up", !.run = 1] ELSE Absent]
    /\ control = [p \in Pair |-> NoControl]
    /\ health = [p \in Pair |-> NoHealth]
    /\ seen = NothingSeen
    /\ exposed = [p \in Pair |-> FALSE]
    /\ round = FALSE
    /\ market \in Market
    /\ runs = (IF Manual THEN 1 ELSE 0)
    /\ requests = 0
    /\ trades = 0
    /\ moves = 0
    /\ faults = 0

-----------------------------------------------------------------------------
(* The poll: collect_snapshot reads the state and health files first, then *)
(* up to 200000 samples, and the processes last                           *)

ReadFiles ==
    /\ pc = "idle"
    /\ journal.phase # "blocked"
    /\ seen' = [seen EXCEPT !.exposed = exposed, !.health = health, !.round = round]
    /\ pc' = "sample"
    /\ UNCHANGED <<journal, runtimes, market, bounds>>

ReadSample ==
    /\ pc = "sample"
    /\ seen' = [seen EXCEPT !.market = market]
    /\ pc' = "scan"
    /\ UNCHANGED <<journal, runtimes, market, bounds>>

Scanned(p) == rt[p].stage \in Listed
Matched(p) == rt[p].stage \in {"running", "stopping"} /\ seen.health[p].run = rt[p].run

\* snapshot["process_conflict"]
Conflict ==
    \/ \A p \in Pair : Scanned(p)
    \/ \E p \in Pair : Scanned(p) /\ ~Matched(p)

NothingRuns == \A p \in Pair : ~Scanned(p)
Runs(p)     == Scanned(p) /\ ~Conflict

\* Mutant: a session without a process in it does not count.
TmuxRuns == \E p \in Pair : rt[p].tmux /\ Scanned(p)

\* tmux has-session for the name in the journal; every launch uses it.
TmuxAlive == \E p \in Pair : rt[p].tmux /\ rt[p].stage # "gone"

\* The poll ends well with j in the journal: the failure count starts anew.
Done(j) ==
    /\ journal' = [j EXCEPT !.failures = 0]
    /\ pc' = "idle"

\* Mutant: one failure too many.
RaisedOnceMore ==
    /\ journal' = [journal EXCEPT
          !.failures = @ + 1,
          !.phase = IF journal.failures + 1 > MAX_CONSECUTIVE_FAILURES
                    THEN "blocked" ELSE @]
    /\ pc' = "idle"

\* run_once raised: what it had not saved is lost, the failure is counted.
Raised ==
    /\ journal' = [journal EXCEPT
          !.failures = @ + 1,
          !.phase = IF journal.failures + 1 >= MAX_CONSECUTIVE_FAILURES
                    THEN "blocked" ELSE @]
    /\ pc' = "idle"

\* The journal is saved and a side effect is still to come.
Saved(j, step) ==
    /\ journal' = j
    /\ pc' = step

Stable(j, pair) == [j EXCEPT !.phase = "stable", !.current = pair]
Settled(j, pair) == [Stable(j, pair) EXCEPT !.target = pair]

\* _start_target up to the saved journal.
Start(p, recovery, j) ==
    IF seen.exposed[IF recovery THEN Other(p) ELSE p]
    THEN Raised
    ELSE Saved([j EXCEPT !.phase = IF recovery THEN "recovering" ELSE "starting",
                         !.current = "NONE", !.target = p,
                         !.before = seen.health[p].run,
                         !.attempts = @ + 1], "launch")

\* _write_drain up to the saved journal: a request that is open for this very
\* run is asked again, an open one of another run refuses.
AskToDrain(p, target) ==
    LET open == control[p].status \in {"requested", "draining"}
        id   == CASE open /\ control[p].request # 0 -> control[p].request
                  [] journal.request # 0            -> journal.request
                  [] OTHER                          -> requests + 1
    IN  IF open /\ control[p].run # rt[p].run
        THEN Raised /\ UNCHANGED requests
        ELSE /\ Saved([journal EXCEPT !.phase = "draining", !.current = p,
                          !.target = target, !.request = id,
                          !.source = rt[p].run, !.before = 0, !.attempts = 0],
                      "request")
             /\ requests' = IF id > requests THEN id ELSE requests

\* Mutant: the request is taken for its answer.
AcknowledgedOnceAsked(p) ==
    /\ journal.request # 0
    /\ control[p].request = journal.request
    /\ control[p].run = journal.source

\* Mutant: compares with the run before the last start.
AcknowledgedByRunBefore(p) ==
    /\ control[p].status = "completed"
    /\ journal.request # 0
    /\ control[p].request = journal.request
    /\ control[p].run = journal.before

\* verified_drain_completion; only a runtime found flat writes "completed".
Acknowledged(p) ==
    /\ control[p].status = "completed"
    /\ journal.request # 0
    /\ control[p].request = journal.request
    /\ control[p].run = journal.source

\* Every outcome of a poll forgets what it has read.
ScanStep ==
    /\ pc = "scan"
    /\ seen' = NothingSeen
    /\ UNCHANGED <<runtimes, market, runs, trades, moves>>

\* A process whose health file is not its own or not fresh: fatal, unless it
\* is the target coming up.
OnConflict ==
    /\ ScanStep
    /\ \/ Conflict /\ UNCHANGED faults
       \/ ~Conflict /\ ~NothingRuns /\ Fault("heartbeat stalls")
    /\ IF /\ journal.phase \in {"starting", "recovering"}
          /\ Scanned(journal.target)
          /\ ~Scanned(Other(journal.target))
       THEN Done(journal)
       ELSE Raised
    /\ UNCHANGED requests

\* Nothing runs, but a state file says there is a position: manage it.
OnOrphan ==
    /\ ScanStep
    /\ NothingRuns
    /\ \E p \in Pair :
          /\ seen.exposed[p]
          /\ IF seen.exposed[Other(p)] THEN Raised
             ELSE IF journal.phase # "recovering" THEN Start(p, TRUE, journal)
             ELSE IF TmuxAlive THEN Done(journal)
             ELSE IF journal.attempts >= MaxLaunchAttempts THEN Raised
             ELSE Start(p, TRUE, journal)
    /\ UNCHANGED <<requests, faults>>

NothingHeld ==
    /\ ScanStep
    /\ NothingRuns
    /\ \A p \in Pair : ~seen.exposed[p]
    /\ UNCHANGED <<requests, faults>>

Released == [Stable(journal, "NONE") EXCEPT !.request = 0]

\* Nothing runs and a drain was asked for.  With the session unknown the
\* exchange is asked directly, and answers or does not.
OnDrained ==
    /\ NothingHeld
    /\ journal.phase = "draining"
    /\ IF ~Acknowledged(journal.current) THEN Done(journal)
       ELSE IF journal.target = "NONE" THEN Done(Released)
       ELSE IF journal.target = Desired("NONE") THEN Start(journal.target, FALSE, journal)
       ELSE \/ Done(Released)
            \/ seen.market = "unknown" /\ Done(journal)

InterruptedStart == journal.phase = "starting" /\ journal.target = "ETH"

\* Nothing runs, there is no session, and the rotation is continuous: WTI is
\* started in management mode, for its session feed.
OnUnknownSession ==
    /\ NothingHeld
    /\ seen.market = "unknown"
    /\ Continuous
    /\ \/ /\ journal.phase \in {"starting", "recovering"}
          /\ journal.target = "WTI"
          /\ IF TmuxAlive THEN Done(journal)
             ELSE IF journal.attempts >= MaxLaunchAttempts THEN Raised
             ELSE Start("WTI", TRUE, journal)
       \/ /\ journal.phase = "stable"
          /\ IF ~ConfirmInitialFlat THEN Done(journal)
             ELSE Start("WTI", TRUE, journal)
       \/ /\ InterruptedStart
          /\ IF TmuxAlive \/ ~ConfirmInitialFlat THEN Done(journal)
             ELSE Start("WTI", TRUE, [journal EXCEPT !.attempts = 0])
       \/ /\ journal.phase = "recovering" /\ journal.target = "ETH"
          /\ Done(journal)

\* Nothing runs and no pair should.
OnNoTarget ==
    /\ NothingHeld
    /\ journal.phase # "draining"
    /\ Desired("NONE") = "NONE"
    /\ seen.market = "unknown" => ~Continuous
    /\ Done(journal)

\* Nothing runs and a pair should: at most two launches, and none while the
\* session of the last one is there.
OnTarget ==
    /\ NothingHeld
    /\ journal.phase # "draining"
    /\ Desired("NONE") # "NONE"
    /\ IF ~ConfirmInitialFlat THEN Raised
       ELSE IF journal.phase # "starting" THEN Start(Desired("NONE"), FALSE, journal)
       ELSE IF journal.attempts >= MaxLaunchAttempts THEN Raised
       ELSE IF TmuxAlive THEN Done(journal)
       ELSE Start(Desired("NONE"), FALSE, journal)

\* One runtime runs.
Watching(p) ==
    /\ ScanStep
    /\ Runs(p)
    /\ UNCHANGED faults

OnRecovering(p) ==
    /\ Watching(p)
    /\ journal.phase = "recovering"
    /\ IF seen.health[p].reconciled /\ seen.health[p].managing /\ p = "WTI"
       THEN Done(Settled(journal, p))
       ELSE Done(journal)
    /\ UNCHANGED requests

\* The drain was not answered, but an independent probe finds the WTI runtime
\* flat: the supervisor answers it and stops the runtime.
StopFlatWTI ==
    /\ journal.current = "WTI"
    /\ rt["WTI"].run = journal.source
    /\ ~Acknowledged("WTI")
    /\ ~seen.exposed["WTI"] /\ seen.health["WTI"].managing /\ ~exposed["WTI"]
    /\ control["WTI"].status \in {"requested", "draining"}
    /\ control["WTI"].request = journal.request
    /\ control["WTI"].run = journal.source
    /\ control' = [control EXCEPT !["WTI"].status = "completed"]
    /\ rt' = [rt EXCEPT !["WTI"].stage = "stopping"]
    /\ Done(journal)

OnDraining(p) ==
    /\ pc = "scan"
    /\ Runs(p)
    /\ journal.phase = "draining"
    /\ seen' = NothingSeen
    /\ \/ /\ IF p = journal.current /\ rt[p].run = journal.source
             THEN Done(journal) ELSE Raised
          /\ UNCHANGED <<rt, control>>
       \/ p = "WTI" /\ StopFlatWTI
    /\ UNCHANGED <<health, exposed, round, market, bounds>>

OnStarting(p) ==
    /\ Watching(p)
    /\ journal.phase = "starting"
    /\ IF p # journal.target THEN Raised
       ELSE IF seen.health[p].run = journal.before \/ ~seen.health[p].reconciled
       THEN Done(journal)
       ELSE Done([Settled(journal, p) EXCEPT !.request = 0, !.attempts = 0])
    /\ UNCHANGED requests

\* The runtime of the continuous rotation is entitled to enter, and no round
\* of it is under way: a runtime in management mode is replaced.
Upgradable(p) == Continuous /\ p = "WTI" /\ seen.market = "wti" /\ ~seen.round

OnStable(p) ==
    /\ Watching(p)
    /\ journal.phase = "stable"
    /\ IF Desired(p) # p THEN AskToDrain(p, Desired(p))
       ELSE IF Upgradable(p)
       THEN IF seen.exposed[p] \/ ~seen.health[p].reconciled
            THEN Done(journal) /\ UNCHANGED requests
            ELSE AskToDrain(p, p)
       ELSE Done(Settled(journal, p)) /\ UNCHANGED requests

Poll ==
    \/ ReadFiles
    \/ ReadSample
    \/ OnConflict
    \/ OnOrphan
    \/ OnDrained
    \/ OnUnknownSession
    \/ OnNoTarget
    \/ OnTarget
    \/ \E p \in Pair :
          OnRecovering(p) \/ OnDraining(p) \/ OnStarting(p) \/ OnStable(p)

-----------------------------------------------------------------------------
(* The side effects of a poll *)

\* _write_drain, after the journal.
WriteRequest ==
    /\ pc = "request"
    /\ control' = [control EXCEPT ![journal.current] =
          [status |-> "requested", run |-> journal.source, request |-> journal.request]]
    /\ Done(journal)
    /\ UNCHANGED <<seen, rt, health, exposed, round, market, bounds>>

\* _start_target, after the journal: the session that is there is kept.
KeepSession ==
    /\ pc = "launch"
    /\ TmuxAlive
    /\ Done(journal)
    /\ UNCHANGED <<seen, runtimes, market, bounds>>

Launch ==
    /\ pc = "launch"
    /\ ~TmuxAlive
    /\ runs < MaxRuns
    /\ rt' = [rt EXCEPT ![journal.target] =
          [stage |-> "boot", run |-> runs + 1, managing |-> (journal.phase = "recovering"),
           draining |-> FALSE, request |-> 0, tmux |-> TRUE]]
    /\ runs' = runs + 1
    /\ Done(journal)
    /\ UNCHANGED <<seen, control, health, exposed, round, market,
                   requests, trades, moves, faults>>

LaunchFails ==
    /\ pc = "launch"
    /\ ~TmuxAlive
    /\ Fault("start fails")
    /\ Raised
    /\ UNCHANGED <<seen, runtimes, market, runs, requests, trades, moves>>

\* The supervisor is killed in a poll (asked to stop, it ends the poll first);
\* the next one finds the journal.
SupervisorDies ==
    /\ pc # "idle"
    /\ Fault("supervisor dies")
    /\ pc' = "idle"
    /\ seen' = NothingSeen
    /\ UNCHANGED <<journal, runtimes, market, runs, requests, trades, moves>>

Supervisor == Poll \/ WriteRequest \/ KeepSession \/ Launch \/ LaunchFails

-----------------------------------------------------------------------------
(* The runtimes *)

RuntimeStep == UNCHANGED <<supervisor, market, bounds>>

Becomes(p, stage) == rt' = [rt EXCEPT ![p].stage = stage]

\* tools/live.py outlives main.py, and with it the tmux session.
Ends(p) ==
    rt' = [rt EXCEPT ![p] =
             IF p = "ETH" /\ rt[p].tmux
             THEN [Absent EXCEPT !.stage = "leaving", !.tmux = TRUE] ELSE Absent]

\* tools/live.py validate_state: main.py is only started on a state file that
\* fits the mode.  WTI is its own process at once.
Boot(p) ==
    /\ rt[p].stage = "boot"
    /\ IF p = "ETH" /\ exposed[p] # rt[p].managing THEN Ends(p) ELSE Becomes(p, "up")
    /\ UNCHANGED <<control, health, exposed, round>>
    /\ RuntimeStep

\* Mutant: looked at in management mode only.
ManagerMayStart(p) == p = "WTI" /\ rt[p].managing => ~exposed["ETH"]

\* validate_eth_flat_confirmation
MayStart(p) == p = "WTI" => ~exposed["ETH"]

\* The first health file.
Report(p) ==
    /\ rt[p].stage = "up"
    /\ IF MayStart(p)
       THEN /\ Becomes(p, "running")
            /\ health' = [health EXCEPT ![p] =
                  [run |-> rt[p].run, reconciled |-> FALSE, managing |-> rt[p].managing]]
       ELSE Ends(p) /\ UNCHANGED health
    /\ UNCHANGED <<control, exposed, round>>
    /\ RuntimeStep

\* startup_reconciled for WTI, a risk verdict for ETH.
Reconcile(p) ==
    /\ rt[p].stage = "running"
    /\ ~health[p].reconciled
    /\ health' = [health EXCEPT ![p].reconciled = TRUE]
    /\ UNCHANGED <<rt, control, exposed, round>>
    /\ RuntimeStep

\* _poll_rotation_drain, poll_live_inventory_maintenance_control.
TargetsRun(p) ==
    /\ control[p].run = rt[p].run
    /\ p = "WTI" => control[p].request # 0
    /\ control[p].status \in (IF p = "WTI" THEN {"requested", "draining"} ELSE {"requested"})

AcceptWTI ==
    /\ TargetsRun("WTI")
    /\ ~rt["WTI"].draining \/ control["WTI"].status = "requested"
    /\ control' = [control EXCEPT !["WTI"].status = "draining"]
    /\ rt' = [rt EXCEPT !["WTI"] =
          [@ EXCEPT !.draining = TRUE, !.managing = TRUE, !.request = control["WTI"].request]]
    /\ health' = [health EXCEPT !["WTI"].managing = TRUE]

AcceptETH ==
    /\ ~rt["ETH"].draining
    /\ ~rt["ETH"].managing
    /\ TargetsRun("ETH")
    /\ rt' = [rt EXCEPT !["ETH"] =
          [@ EXCEPT !.draining = TRUE, !.request = control["ETH"].request]]
    /\ UNCHANGED <<control, health>>

\* --drain-after-flat: it asks itself, whatever its control file says.
AnnounceETH ==
    /\ ~rt["ETH"].draining
    /\ rt["ETH"].managing
    /\ rt' = [rt EXCEPT !["ETH"].draining = TRUE]
    /\ control' = [control EXCEPT !["ETH"] =
          [status |-> "requested", run |-> rt["ETH"].run, request |-> 0]]
    /\ UNCHANGED health

PollDrain(p) ==
    /\ rt[p].stage = "running"
    /\ \/ p = "WTI" /\ AcceptWTI
       \/ p = "ETH" /\ (AcceptETH \/ AnnounceETH)
    /\ UNCHANGED <<exposed, round>>
    /\ RuntimeStep

\* Mutant: a runtime in management mode answers at once.
FlatOrManaging(p) ==
    /\ ~exposed[p] \/ rt[p].managing
    /\ p = "WTI" => health[p].reconciled

\* Found flat on both exchanges, without orders.
VerifiedFlat(p) ==
    /\ ~exposed[p]
    /\ p = "WTI" => health[p].reconciled

\* Answer and stop.  ETH writes the request it has read, WTI looks at the file
\* again.
CompleteDrain(p) ==
    /\ rt[p].stage = "running"
    /\ rt[p].draining
    /\ VerifiedFlat(p)
    /\ p = "WTI" => control[p].request = rt[p].request
    /\ control' = [control EXCEPT ![p] =
          IF p = "WTI" THEN [@ EXCEPT !.status = "completed"]
          ELSE [status |-> "completed", run |-> rt[p].run, request |-> rt[p].request]]
    /\ Becomes(p, "stopping")
    /\ UNCHANGED <<health, exposed, round>>
    /\ RuntimeStep

Exit(p) ==
    /\ rt[p].stage = "stopping"
    /\ Ends(p)
    /\ UNCHANGED <<control, health, exposed, round>>
    /\ RuntimeStep

SessionEnds(p) ==
    /\ rt[p].stage = "leaving"
    /\ rt' = [rt EXCEPT ![p] = Absent]
    /\ UNCHANGED <<control, health, exposed, round>>
    /\ RuntimeStep

MayEnter(p) ==
    /\ rt[p].stage = "running"
    /\ health[p].reconciled
    /\ ~rt[p].managing
    /\ ~rt[p].draining
    /\ p = "WTI" => market = "wti" /\ (Continuous => round)

Open(p) ==
    /\ MayEnter(p)
    /\ ~exposed[p]
    /\ trades < MaxTrades
    /\ trades' = trades + 1
    /\ exposed' = [exposed EXCEPT ![p] = TRUE]
    /\ UNCHANGED <<supervisor, rt, control, health, round, market,
                   runs, requests, moves, faults>>

\* The position is closed, and a WTI round ends with it.
Close(p) ==
    /\ rt[p].stage = "running"
    /\ health[p].reconciled
    /\ exposed[p]
    /\ exposed' = [exposed EXCEPT ![p] = FALSE]
    /\ round' = (round /\ p # "WTI")
    /\ UNCHANGED <<rt, control, health>>
    /\ RuntimeStep

\* _advance_continuous_gradient_round: the next round is armed by a runtime
\* that may enter and is flat.
ArmRound ==
    /\ Continuous
    /\ rt["WTI"].stage = "running"
    /\ ~rt["WTI"].managing
    /\ ~exposed["WTI"]
    /\ ~round
    /\ round' = TRUE
    /\ UNCHANGED <<rt, control, health, exposed>>
    /\ RuntimeStep

\* A runtime is killed, or refuses its configuration.
RuntimeDies(p) ==
    /\ Alive(p)
    /\ Fault("runtime dies")
    /\ Ends(p)
    /\ UNCHANGED <<supervisor, control, health, exposed, round, market,
                   runs, requests, trades, moves>>

Runtime(p) ==
    \/ Boot(p)
    \/ Report(p)
    \/ Reconcile(p)
    \/ PollDrain(p)
    \/ CompleteDrain(p)
    \/ Exit(p)
    \/ SessionEnds(p)

MarketMoves ==
    /\ moves < MaxMoves
    /\ moves' = moves + 1
    /\ market' \in Market \ {market}
    /\ UNCHANGED <<supervisor, runtimes, runs, requests, trades, faults>>

Next ==
    \/ Supervisor
    \/ SupervisorDies
    \/ \E p \in Pair : Runtime(p) \/ Open(p) \/ Close(p) \/ RuntimeDies(p)
    \/ ArmRound
    \/ MarketMoves

Spec == Init /\ [][Next]_vars

\* The supervisor polls for ever and a live runtime runs its loop.
FairSpec ==
    /\ Spec
    /\ WF_vars(Supervisor)
    /\ \A p \in Pair : WF_vars(Runtime(p))

-----------------------------------------------------------------------------
(* Properties *)

Journal == [phase : Phase, current : Pair \cup {"NONE"}, target : Pair \cup {"NONE"},
            request : Nat, source : Nat, before : Nat, attempts : Nat,
            failures : 0..MAX_CONSECUTIVE_FAILURES]
Process == [stage : Stage, run : Nat, managing : BOOLEAN, draining : BOOLEAN,
            request : Nat, tmux : BOOLEAN]
Control == [status : {"none", "requested", "draining", "completed"},
            run : Nat, request : Nat]
Health  == [run : Nat, reconciled : BOOLEAN, managing : BOOLEAN]
Sight   == [exposed : [Pair -> BOOLEAN], health : [Pair -> Health],
            round : BOOLEAN, market : Market]

\* Every variable holds a value of its kind; the failures of polls in a row stay
\* within what run() allows before it blocks.
TypeOK ==
    /\ journal \in Journal
    /\ pc \in {"idle", "sample", "scan", "request", "launch"}
    /\ seen \in Sight
    /\ rt \in [Pair -> Process]
    /\ control \in [Pair -> Control]
    /\ health \in [Pair -> Health]
    /\ exposed \in [Pair -> BOOLEAN]
    /\ round \in BOOLEAN
    /\ market \in Market
    /\ runs \in Nat /\ requests \in Nat /\ trades \in Nat /\ moves \in Nat /\ faults \in Nat

\* The two runtimes never run at the same time: not when a launch failed or was
\* forgotten, not beside one started by hand, and not while a runtime that has
\* no process yet is on its way in the tmux session.
OneRuntime == ~(Alive("ETH") /\ Alive("WTI"))

\* A receipt says "completed" of a run only while that run holds nothing: it
\* opens nothing after it, and no answer of an earlier run is read as its own.
ReceiptHolds ==
    \A p \in Pair :
        control[p].status = "completed" /\ Alive(p) /\ control[p].run = rt[p].run
            => ~exposed[p]

\* The supervisor decides on files it read before the process scan, but WTI
\* looks at the ETH state itself (validate_eth_flat_confirmation): it never
\* enters while ETH holds a position.
WtiEntersBesideFlatEth == MayEnter("WTI") => ~exposed["ETH"]

\* A hand-over leaves the drained pair flat and gone: the supervisor goes from
\* draining to starting on a receipt of the very run it asked.
HandOverIsFlat ==
    [][journal.phase = "draining" /\ journal'.phase = "starting"
          => ~exposed[journal.current] /\ ~Alive(journal.current)]_vars

\* A drain of a flat runtime ends: the request reaches the runtime, which stops
\* for it, and the supervisor goes on, or waits for an exchange session that
\* nobody knows.  (docs: a restart of the supervisor "adopts the existing
\* transition".)
DrainEnds ==
    journal.phase = "draining" /\ ~exposed[journal.current]
      ~> \/ journal.phase # "draining"
         \/ exposed[journal.current]
         \/ NothingRuns /\ market = "unknown"

\* No runtime enters while the other pair holds a position nobody manages.
\* (rotation_supervisor.py refuses a start with
\* "initial_rotation_requires_both_local_states_flat"; docs: "An orphaned
\* position can only restart in manage-existing mode with entries disabled".)
NoEntryBesideOrphan == \A p \in Pair : MayEnter(p) => ~exposed[Other(p)]
=============================================================================
