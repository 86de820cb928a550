# A specification of the pair-trading runtime

The repository trades one instrument against its hedge on two venues:
*Variational* (reached through a Chrome extension that forwards commands) and
*Lighter* (an SDK). Two pairs exist, ETH (`main.py`) and WTI oil
(`tools/wti_live.py`); a rotation supervisor decides which one runs. This
directory holds TLA+ modules of the parts whose order of steps matters, the TLC
runs that check them on small instances, and TLAPS proofs of what holds for
every value of the constants.

## 1. The system

| Component | Source | State it keeps | What it does | Module |
|---|---|---|---|---|
| Pair execution coordinator | `tools/lib/wti_execution.py` | one JSON file: status, open position, pending action with its legs, history, pilots; a lock file | `open`, `close`, `reconcile`, `reconcile_account_only`; two legs per action, Variational first | `PairExecutor`, `PairPosition` |
| Production gateway | `tools/lib/wti_live_gateway.py` | an event loop, the request in hand | sends a leg, waits for a terminal answer, looks orders up, reads the account | `PairExecutor` |
| Exchange sessions | `tools/lib/market_sessions.py` | none | classifies time as open, entry cutoff or closed, and names the session | `PairExecutor` |
| Pilot and continuous budgets, gradient strategy | `wti_execution.py` (store), `wti_continuous.py`, `gradient_lifecycle.py`, `wti_manual_trial.py`, `wti_live_strategy.py` | pilots in the same file: tiers opened, exhausted, re-armed | confirm, reserve, archive, re-arm, follow a round with a round | `GradientPilot` |
| WTI live runtime | `tools/wti_live.py` | locks and evidence in memory, sample guard file, a mark in the state file, runtime status file | admits samples, reconciles first, then decides and executes; drains on request | `WtiGate`, `Rotation` |
| Rotation supervisor | `tools/rotation_supervisor.py`, `tools/lib/rotation_supervisor.py`, `tools/lib/pair_rotation.py` | phase file, drain request files | moves the active pair: drain, check flat, start the other one | `Rotation` |
| ETH runtime and inventory | `main.py` | inventory file, pending entry and exit, the account gate and alarm in memory, tasks of one event loop | the ETH pair | `EthInventory`, `AccountRisk`, `Rotation` |
| Listener and extension | `variational/listener.py`, `chrome_extension/` | clients, requests in flight, results without a socket | forward commands and results, evaluate them in the page | `CommandBridge`, `OrderCall` |
| Risk watchdog and its backup | `tools/risk_wakeup_watchdog.py`, `risk_wakeup_backup.py`, `lib/risk_alert_control.py` ... | incidents, acknowledgements, silences, the last heartbeat | wake an operator | `RiskWatchdog`, `RiskBackup` |
| Trade notifications | `lib/telegram_notifier.py` | a bounded queue in memory, throttles | tell an operator | `TelegramQueue` |
| Limits | `lib/rolling_rate_limiter.py`, `lib/quote_throttle.py` | shared window file, back-off | space out requests | `RateLimiter` |
| Restart, rebalance, repair | `lib/restart_guards.py`, `lib/auto_rebalance.py`, `repair_interrupted_entry.py`, `wti_takeover.py` | the other components' files | decide whether a restart or a repair is safe | none |
| Collectors, reports, analysis | many | append-only records | no influence on orders | none |

How they interact: the runtime calls the coordinator with a market sample and a
session; the coordinator calls the gateway; the gateway reaches Variational
through the listener and the extension and Lighter through its SDK. The
supervisor and the runtime only share files (a drain request, its answer, the
runtime status). Operators act on the state file through the repair tools.

What is hard: a process can die between any two saves of the state file; an
order can be executed after the process stopped waiting for it, or never have
left; the account is read before it is used; sessions end under an action;
positions are reduced by a venue. What makes the coordinator correct: no leg is
sent twice, no two orders are under way at once, the file never says flat or
open of a position the venues do not hold, Lighter moves only behind a complete
Variational leg, and no pending file is stuck. What makes the rest correct is stated module
by module below. `PROJECT.json` lists the hazards
at their lines with the properties that cover them.

## 2. Modules

**`PairExecutor`** is the coordinator with the part of the gateway that sends a
leg, and its environment. The correspondence with the code:

* `status`, `open_position`, `pending_action`, `legs` are the state file. A leg's
  value condenses `submission_started` and `result`: `absent`, `unsent`
  (persisted, `submission_started` False), `guarded` (a local no-fill of
  `_submit_leg`), `started` (True, no result), or the classification of an answer.
* `job` is the process' memory between two saves: the operation's next step,
  the leg in hand, whether the quote is still fresh, the account snapshot. A crash
  or the end of the operation makes it `Idle`. One operation runs at a time: that
  is what `store.exclusive()` is for.
* `wire`, `fate`, `exch` are the venues: requests that left and are not executed,
  what became of the orders of the pending action, and the positions. A snapshot
  reads `exch` now and may or may not list a request on the wire as an active order.
* `session` and the `live` flags stand for session identity and clock: within a
  session the cutoff and the close do not come back; a new session has a new
  identity, so what an earlier one left is no longer `live`.
* `sends`, `refused`, `crashes`, `reductions` are history and bounds.

Each `store.save` is one action, so is each call of the gateway. `BeginOpen`,
`BeginClose` are the preflights and the first save of `open` and `close`;
`PersistLeg`, `StartSubmission`, `GuardBlocks`, `Dispatch` and the ways not to
dispatch, and `Reply` are `_submit_leg` and `submit_order`; `HedgeNext`,
`Compensate`, `ReadAfter`, `Settle`, `StopForReview` are what follows a leg;
`LookUpOrders`, `ReadAccount`, `ResumeHedge`, `Finalize`, `RestorePrevious`,
`Raise`, `NotExactlyReconciled` are `reconcile` of a pending action.

A position is one number per venue: the pair's direction is a sign both venues
share (`_signed_target`), and Lighter's multiplier a unit. Left out: prices,
thresholds, pilots, reports, and the replacement of a Lighter order whose legacy
identity could not be signed.

**`PairPosition`** is what the coordinator promises, without files and replies:
a move between two hedged quantities, Variational first. `PairExecutor!Promise`
is the mapping and `VariationalFirst` the implication, checked by TLC and proved in
`PairExecutorProofs`.

**`Rotation`** is the hand-over of the accounts between the two runtimes: the
supervisor, its journal, the two control files, the tmux session, and of each
runtime what the hand-over depends on. The correspondence with the code:

* `journal` is `log/rotation_supervisor_state.json` (pid and run id of a runtime are
  one number, `source`, `before`); `control` and `health` are each runtime's control and
  risk-health file; `rt` its process. `tmux` says that the process is in the session
  the journal names, which is reused: one session name serves every launch.
* `exposed[p]` says that the state file of `p` is anything but flat. Both runtimes
  persist their intent before the first order (`PersistLeg` in `PairExecutor`,
  `main.py:22602-22607`), so flat in the file is flat on the exchanges: for WTI by `ClaimIsTrue`,
  for ETH by the theorem `FlatFileIsTrue`, but for one window (section 4: between the match of a
  fill and the save of its lot) in which `Rotation` sees more than the supervisor could. In `main.py`
  nothing is awaited between the drain check before an entry (22427) and the
  registration of the intent (22602), so `Open` is one step.
* A poll (`run_once`) is `ReadFiles`, `ReadSample` and one action per branch on the
  process scan, in the order `collect_snapshot` reads; `seen` is what it remembers. A
  branch with a side effect saves the journal (`Saved`) and leaves the request or
  the launch to a step of its own (`WriteRequest`, `KeepSession`, `Launch`,
  `LaunchFails`). `Done` and `Raised` are the two ways `run` ends a poll.
* `OnConflict`, `OnOrphan`, `OnDrained`, `OnUnknownSession`, `OnNoTarget`, `OnTarget` are
  the branches with no healthy runtime, `OnRecovering`, `OnDraining`, `OnStarting`,
  `OnStable` those with one.
* `Boot` is the check `tools/live.py` makes of the ETH state, `Report` the first health
  file and WTI's check of the ETH state, `Reconcile` the first account verdict,
  `PollDrain` and `CompleteDrain` the drain handshake, `Exit` and `SessionEnds` the end of
  the process and of `tools/live.py` around it.
* `market` is what `desired_pair` makes of session and readiness; `round` says whether
  a gradient round of the continuous rotation is under way, as the state file
  tells the supervisor.

Left out: the standalone collector, the bounded one-round test, the authorization
of a continuous session, unreadable and missing files, the dry run. Left out by
`exposed`: whether a file that is not flat is open, pending or under review, which
the supervisor treats alike.

**`WtiGate`** is the sample loop of the WTI runtime in gradient mode, with the two locks that
stop entries. What a call of the coordinator does is one step to a pending file and one
out of it (`Close`, `Enter`, then `Execute`; `Ends` lists what a reconcile can make of a file).

* `phase` is the place in a cycle of `run`, `cycle` what the cycle has found so far, `mem`
  the runtime's memory: `lock` is `entry_authorization_permanently_revoked` with its
  reason (`gap`, `clock` for a baseline with an earlier time, `review` for everything else),
  `near` and `reads` are `gap_recovery_samples` and the proofs, `exit` and `owner`
  `pending_gap_exit` and the identity it was ordered for, `required` and `verified` the
  recovery of account reads, `signals` the confirmation history.
* `guard` is the sample guard file, `state` the execution state file with the mark
  `account_read_recovery`. `behind` says that the last baseline on disk lies before a gap:
  whoever reads it next meets the gap again.
* A baseline is classified once, by its distance to the one before (`Kinds`): closer than
  30 seconds in the same session, further, over 120 seconds of open market, or backwards.
  The arithmetic of scheduled closures behind these classes is left out.
* `Take`, `TakeInvalid`, `TakeOldQuote`, `WriteGuard`, `Resample` are the admission of samples;
  `ReadFails` to `ClearFails` the reads of the accounts and their recovery; `StartupEnds`
  and `StrategyGoesOn` what follows a read, with `_recover_sample_gap` in `Evidence`;
  `Save` is the health write that ends a cycle, guard file first.
* `proof` and `doubt` are history: they count, from outside, what the documentation asks
  for before an entry.

Left out: the strong single probe, the single-round pilot, the rotation's drain request
(it is in `Rotation`), the refresh of an expired quote. A newer baseline the loop takes before
the read of a cycle counts as the baseline of that cycle.

**`GradientPilot`** is the budget of the WTI gradient: rounds, tiers and what follows a
round, in both modes of the runtime. `pilot`, `position`, `pending_action`, `trial`, `session` are
records of the state file (the layers of a position a set, ordered by their ids); `recent` is the confirmation window of three samples; `step` says
which save of an advance comes next, so that a death can fall between any two
(`CountRound`, `CreateSuccessor`, `LinkSuccessor`, `EnsureTrial`, `EnsureContinuous`). `Observe` is
`update_gradient_reactivation`, `Enter`, `CloseTier`, `Hold` the decision of
`decide_wti_gradient_action`, `SettleOpen` and `SettleClose` the archiving of an action.
`EntryFits` and `CloseFits` are the checks the archiving makes: they raise after the fills.

**`EthInventory`** is a lot of the ETH inventory in V4 mode. Two tasks of one event loop, the
strategy and the callback of the trade feed, interleave at every await; `task` says where
each is. `entry`, `exit`, `held`, `known`, `dirty` are memory, `file` the state file, `orders` and
`events` what the venues and the feed have in flight. Every call of a venue is a step. The open
lots are a set of records, each with the id of its entry and the task that completed it, so
that an entry completed twice is two lots, as in the list of the code.
`Fault(what, venue, purpose)` names what may go wrong; `Prompt` is the assumption under
which the runs look at the code's own races: the venue settles and the feed tells before the
strategy's next action. An order of a process that died settles before the next one starts.

**`AccountRisk`** is what the account checks of the ETH runtime do to its inventory. Two tasks of
one event loop read the accounts of both venues: the risk loop, which also counts
confirmations, orders a forced exit and tells the operator, and the sample loop before each
entry. Each read is awaited, so it is one step and the recovery gate's answer to it another
(`LoopRead`, `LoopCheck`; `Sample`, `EntryCheck`).

* `account` is what a complete read would say: `asks`, the action `account_risk_context` makes of
  equity and margins, and `data`: at most 60 seconds old (`fresh`), up to 300 (`aged`), older
  (`stale`), or Lighter cannot be read (`missing`).
* `gate` is `live_inventory_account_recovery_required` with its count and reason, `Gated` all of
  `apply_live_inventory_account_recovery_gate`; `alarm` and `Told` are the debouncing of
  `account_risk_notification_transition`; `exiting` is `live_inventory_account_risk_exit_action`.
* `Sample` is `maybe_run_live_inventory_basis` in V4 mode: an entry first (`Confirmed`, `MayAdd`,
  `TriesEntry`), and only without one the exits: the lock of a portfolio exit (`Locks`), the part
  of it that fits one order (`Capped`), the lots ordered (`Batch`).
* `Restart` keeps what the state file keeps: lots, their costs, the lock and a pending intent.
* `proven` is history: it counts from outside what a start owes.

Orders are `EthInventory`'s: here an entry fills or not and an exit closes all it ordered or
nothing. One direction, one room for lots and one signal stand for the tiers; a forced exit
by the operator, a drain or the loss fuse is left out.

**`CommandBridge`** is the way of an order to Variational: the runtime's request, the broker in the
listener's process, the extension's socket, the evaluation in the page, the post, and the
answer's way back.

* `verdict` is what the runtime makes of each order: `Reading` for an answer, `GiveUp` for a wait
  that ends. `Reader` says whose runtime: WTI believes only the dispatch guard that no order was
  placed, ETH every answer that is not ok and names no timeout.
* `pendingRequests`, `extension`, `connected` are the broker's tables; its lock makes each handler one
  step. `socket`, `opened`, `unsent` are the extension's: results without a socket are kept and
  leave before the registration of the next one.
* `page` is where an evaluation is. `alone` is one nobody waits for any more (the worker died, the
  debugger was detached): the page may still post. `posts` are requests that left the page.
* What a broken socket loses is the tail of what it carried (`Lose`), or all of it (`Disconnect`,
  `RestartBroker` of the listener).

Left out: the commands that only read, the limit of the kept results, texts and timestamps.

**`OrderCall`** is what the bridge promises, without sockets, tables, pages or lost messages: an
order reaches the venue at most once and not before it was asked for, and of each the runtime knows
that it was placed, that it was not and never will be, or nothing. `CommandBridge!Call` is the
mapping, `AnswersAreTrue` the implication. What ETH takes for a refusal is mapped to "unknown" (`Worth`):
it is worth no more, as `BridgeRefusal` shows.

**`RiskWatchdog`** is the poll of the watchdog: from what the two strategies last wrote
(`Views`) to incidents (`Found`, `Evaluate`, `WtiIncidents`), their merging, delivery with
retries per channel, the operator's button, silence, cooldown and recovery. `PollCutShort`
dies before the save: what was sent is sent, what was decided is lost. Durations are a
choice of each poll, elapsed or not. **`RiskBackup`** is the second host: the last heartbeat,
its age, both silences, and the same delivery.

**`TelegramQueue`** is the queue of trade notifications: throttling, the bounded queue, the
worker and both timeouts of `stop`, with an alert offered at any await.

**`RateLimiter`** is the shared request budget: one request is one step under `flock`, time
advances in ticks, `granted` is every token ever granted and `saved` those the file lists.
Left out: steps of the wall clock, an unreadable state file, the quote throttle.

**`MCEthInventory`**, **`MCRotation`** and **`MCServices`** give TLC its
constants; the other configurations of `PairExecutor`, `Rotation`, `GradientPilot`,
`AccountRisk` and `CommandBridge` need no module of their own. `MCRotation` lets a behaviour choose between two
configurations of `Rotation`, of which one is fair. `MCServices`
puts the smaller components side by side in one state space: they share no state, and a
behaviour belongs to one of them, chosen at the start (of `CommandBridge`, with either reader).
`PairExecutorProofs`, `RotationProofs`, `GateProofs` (of `WtiGate` and `AccountRisk`),
`GradientPilotProofs`, `EthInventoryProofs`, `RequestProofs` (of `RateLimiter` and `CommandBridge`),
`AlertProofs` (of `RiskWatchdog` and `TelegramQueue`) and `ServicesProofs` (of `RiskBackup` and of the
composition in `MCServices`) hold the proofs.

## 3. Runs

| Run | What it asks | Bounds |
|---|---|---|
| `PairSafety` | safety and the refinement | entries of 2 units up to 4, partial closes, two crashes |
| `PairLiveness` | with a position the venue reduces: is a position turned round, is a pending file always decided? | two entries of 2 units, one crash, one reduction |
| `PairUnsentPartial` | is an unsent leg of a partial close resumed? (it is not) | as `PairSafety`, one crash |
| `PairRefused` | is an order reported as never sent a no-fill? (it is not) | one entry, no crash |
| `Rotation`, manual | never two runtimes, receipts true, hand-over of a flat pair, WTI never enters beside ETH | a runtime started by hand, one fault of any kind, 3 processes, 1 trade, 2 changes of the market |
| `Rotation`, cold | the same, and `ColdDrainEnds`: does the drain of a flat runtime end? | cold start, a failed launch or a stalled heartbeat, 4 processes, 1 trade, 2 changes |
| `RotationDrainLost` | and when the supervisor dies? (it does not) | a runtime started by hand, one death, 3 processes, 1 change |
| `RotationOrphan` | does no pair enter beside an orphan of the other? (ETH may) | cold start, one runtime death, 3 processes, 1 trade, 2 changes |
| `BridgeRefusal` | is `NoOrderIsTrue` of the ETH runtime? (it is not) | one order, one socket |
| `Services` | the properties of the smaller components, listed below | per component, below |
| `PilotSuccessor` | is a successor round ever entered? (it is not) | continuous session, one tier, 2 rounds, 3 orders |
| `EthDoubleLot` | does the ETH inventory match the venues when nothing fails? (not always) | one entry, no fault, the feed tells late |
| `EmergencyStarved` | is an emergency that lasts exited? (not while an entry stays confirmed) | room for 2 lots, one change of the account |

What `Services` asks, and of which instance:

| Component | Properties | Bounds |
|---|---|---|
| `RateLimiter` | `WindowWithinLimits`, `ReserveIsKept`: no window of the venue sees too many requests, nor too many that are not urgent; `SleepIsExact`: a sleep is neither too short nor too long | window 2, limits 2 and 3, two categories, costs 1 and 2, 4 tokens, 3 ticks |
| `TelegramQueue` | `RepeatsAreCounted`: every alert is told, counted, or known to be lost; `FlushedBeforeStop` | two kinds of alert, 4 offers, a queue of one |
| `RiskWatchdog` | `FaultRingsOnce`, `AcknowledgedIsQuiet`, `LockIsToldOnce` | four views, phone twice, one button, one crash |
| `RiskBackup` | `DeadWatchdogIsReported` | four kinds of heartbeat, two of them received, one mute |
| `GradientPilot`, continuous | `ArchiveNeverRefuses`, `ChainIsVerifiable`, `ReentryNeedsDip` | two tiers, 2 rounds, 4 orders |
| `GradientPilot`, trial | the same, and `BoundedTrialIsEntered` (`TrialRoundsAreEntered` of the module) | one tier, 2 rounds, 4 orders, one death |
| `EthInventory` | `TradingMatchesVenues`, `DrainReceiptIsFlat`, `DrainIsAnswered` | cap of 2 lots, 2 entries, any one fault of the list |
| `WtiGate` | `EntryNeedsProof`, `EntryAfterGapIsProven`: no entry before a failed read or a gap is answered; `GateEntriesReturn`: entries come back by themselves; `GateExposureDrains`: a position held through a gap is closed | one retry of a read, 2 troubles, 2 entries, a death |
| `AccountRisk` | `EntryAfterStartChecks`: no entry before three strictly fresh checks of the risk loop; `AlarmEndsWhenProven`: a critical alarm does not end behind bad data; `AccountEntriesReturn`: fresh data open the gate for good; `AccountEmergencyEnds`: an emergency empties the inventory when no entry is in its way | two confirmations (the code has three, as `EmergencyStarved`), room for 2 lots, orders of one, 2 changes of the account or deaths |
| `CommandBridge`, gateway and lane | `AnswersAreTrue`, the refinement of `OrderCall`: no order is placed twice or unasked, one that a runtime holds for placed is at the venue, and one that WTI takes for never placed never is | two orders of the gateway one after the other, or one over two sockets of the extension; one order of a lane |
| `CommandBridge`, lane | `LaneRequestsAreForgotten`: the broker forgets every request | one order of a lane of ETH, two sockets |

Why the bounds are enough: an order of two units can fill in part, room for two
entries makes layers, partial closes and closes of a layered position
possible, two crashes let recovery itself be interrupted once. Actions of
different operations never overlap, and the file between them is one of a few
shapes, so longer histories of operations repeat these. `MaxCrashes` and
`MaxReductions` are the only counters bounded for TLC's sake. Deadlock is
checked in every run of `PairExecutor`, whose session always moves on.

For `Rotation`, three processes are a source, its successor and a relaunch, one
trade is enough to hold a position at a bad moment, two changes of the market turn
the target away and back within a drain, and one fault breaks one step of a
hand-over anywhere. The proofs hold for any bounds. `CHECK_DEADLOCK` is `FALSE` in its
configurations: a supervisor that has blocked stops, on purpose, and then nothing
happens once the runtimes are idle.

`PairSafety` states the coordinator's properties without fairness. `VariationalFirst`, `ClaimIsTrue` and
`UnresolvedOrderBlocks` are not asked of `PairLiveness`, where a venue's own reduction breaks
the first two whatever the code does. Partial closes beside a reduction are not part of a
run: `NeverReversed` is proved for them.

For the smaller components: two sockets of the extension are one that breaks and
its successor, on which what was kept arrives, and a second order shows that answers are not mixed
up; a budget of four tokens fills a window of three and rolls on;
four orders make two layers, the close of one, and that tier again or the rest; two entries
make a lot beside a lot that is closed. In `EthInventory` one fault is one step of one
venue refused, lost, unknown, cancelled or slow, or a death of the process; the same
properties held with two faults, once a refused close is left out. Excluded (`FaultsAssumption`,
which TLC evaluates on this run and the proof needs) are late
news of a fill (`EthDoubleLot` is what comes of it), a Lighter exit whose answer is lost, a
rejected Variational exit, unwind or close and a cancelled Lighter close: the code answers them
with a manual review only after the runtime has gone on, or not at all (section 4). With any
one of them added, or a refused close, `TradingMatchesVenues` is violated within two faults. In `WtiGate` two troubles are a gap and a
failed read, a gap in the answer of a gap, or a failure in the recovery of one; the
properties also held with three troubles and two deaths (196,694 states). In `AccountRisk` two
changes are a failure of the data and their recovery, an emergency that comes with old data,
or one across a restart; the properties also held with three (465,884 states), and the
safety ones without a bound. `CHECK_DEADLOCK` is
`FALSE`: a service whose bounds are used up stops.

**Fairness.** `PairLiveness` assumes that a process inside an operation goes on
(every gateway call has a timeout, `WTIProductionGateway._call`), that sessions
come and go, and, strongly, `LookUpOrders`: the runtime calls `reconcile` first
on every sample of a session, so it is tried infinitely often while a session is
open infinitely often. Nothing is assumed of the venues: an order may stay on
the wire for ever, and the file is then left for manual review.
Of a lane of `CommandBridge`, `Services` assumes that its wait ends
(`auto_live_command_timeout_seconds`) and that the broker reads its sockets; nothing of the
extension, the page or the venue.
`Rotation` (of its cold start) and `RotationDrainLost` assume that the supervisor
polls again and again (`run` sleeps between polls) and that a live runtime runs its
loop, with its reads of the accounts answered in the end. Nothing is assumed of
positions, the market or faults: `DrainEnds` asks only about a runtime that is flat,
and lets the supervisor wait while the exchange session is unknown. It is asked
without deaths of a runtime: one that dies in a drain leaves no receipt, and the
supervisor then waits for an operator by design.

`Services` and `PilotSuccessor` assume that the loops of their processes go on: the backup
polls, and a mute or silence that has an end ends (`RiskBackup`); the WTI runtime's cycle runs
and, strongly, an entry that is decided on again and again is tried (`GradientPilot`); the
venues answer and the feed tells, the strategy, the callback and the drain's poll are
scheduled by the event loop (`EthInventory`); the loop of the WTI runtime goes on and a
dead one is started again (`WtiGate`, whose `Run` holds samples without trouble as well as
with it: troubles are bounded, so in the end samples come and reads answer); both loops of the
ETH runtime go on, fills and costs become known, and, strongly, a forced exit that is
tried again and again finds depth in the end (`AccountRisk`, also in `EmergencyStarved`).
In `Services` the two strong assumptions are premises of `BoundedTrialIsEntered` and
`AccountEmergencyEnds`, the properties that need them.
The liveness properties name what they leave to an operator: a silence without end, a
review, a position that is still held.

## 4. Findings

* **`PairUnsentPartial`**: after a crash between persisting the Lighter leg of a
  partial close and recording its submission, `_resume_partial_close` raises
  `AttributeError` on every reconciliation (`wti_execution.py:3375`, `result` is
  present and `None`), although the comment above says such a leg may be resumed.
  The position stays one-legged and the file `pending`.
* **`PairRefused`**: the final dispatch guard's answer has no `client_order_id`, so
  an order that provably never left is recorded as `unknown`
  (`wti_execution.py:397`); the compensation documented for a confirmed no-fill
  does not happen, and no lookup can ever resolve the leg.
* **`RotationDrainLost`**: the journal says `draining` before the request is written
  (`rotation_supervisor.py:1080-1081`); after a death in between nobody writes it, and
  every later poll waits for a drain that was never asked for.
* **`RotationOrphan`**: the state files are read before up to 200000 samples and the
  process scan (`rotation_supervisor.py:405`, `410`, `414`). A WTI position opened in between
  by a runtime that then dies is not seen, and ETH is started entitled to enter.
  In the other direction WTI's own check of the ETH state closes the gap, which
  `WtiEntersBesideFlatEth` states and `RotationProofs` proves.
* **`BridgeRefusal`**: an answer without a timeout mark is a refusal to the ETH runtime
  (`main.py:15069-15089`), also "Extension disconnected before order result."
  (`listener.py:978`), a fetch that failed after the request left, a detached debugger. The intent is
  dropped (`main.py:22804`) and a Lighter leg that has started is closed again, while the
  Variational order may be executed. WTI reads the same answers as unknown
  (`wti_live_gateway.py:465-477`): for it the same claim holds (`AnswersAreTrue`), and
  `RequestProofs` proves it.
* **`PilotSuccessor`**: the confirmed tiers are zeroed on every sample of every round
  after the first (`wti_live.py:3028`): the mark `manual_new_round`, which should say
  that a round is newly armed, stays on its pilot for life. A continuous session
  enters in its first round only. Fail-closed.
* **`EthDoubleLot`**: the order lookup of a pending entry waits for the venue, and then
  completes the entry it held before the wait (`main.py:8366`, `8433`, `8435`). When the
  trade callback completed the same entry meanwhile, the lot is there twice.
* **`EmergencyStarved`**: a sample tries an entry before it looks at the exits, and returns when
  the account refuses it (`main.py:21227-21241`). While the edge of a further layer stays
  confirmed and the costs of the lots are known, a forced exit is never tried, although it is
  ordered and the operator was told; `docs/runbook.md:286-287` has it override profit
  exits. `AccountEmergencyEnds` holds: the signal alone is in its way.

### Observations

Seen while modelling, without a run of their own: some are outside what the modules
keep, some are choices one may defend, none opens an order twice.

WTI gate:

* A lock has one reason and the last one wins (`_revoke_entry_authorization`,
  `wti_live.py:1778-1782`). A lock for review that is followed by a gap of over 120 seconds is a gap
  lock, and gap evidence lifts it, while `docs/oil_swap_rotation.md:593-600` says that "Other
  manual-review locks cannot use this recovery path".
* The drain of a position held through a gap is forgotten by a restart when a close was
  pending at the death, when the reason was overwritten, or when an entry was pending at
  the gap. `GateExposureDrains` is stated for one life of the process.
* A drain requested by the supervisor locks the guard file for the next WTI process too.
  Only a later gap of over 120 seconds lifts it: a WTI runtime started again sooner never
  enters.
* The sample that replaces an expired quote is processed even before the startup was
  reconciled (`wti_live.py:3519`).

Rotation, all of them fail-closed: a round left under way by an earlier run is looked at before the
management mode (`rotation_supervisor.py:1666-1681`, before `1691-1718`), so a flat WTI runtime in
management mode is told to continue a rotation it cannot continue, and is not upgraded
(`docs/oil_swap_rotation.md:192-194`) until an operator restarts it; a runtime that dies flat in a drain leaves no receipt
and the supervisor waits for an operator (`rotation_supervisor.py:1443`); a request open for a run
that died refuses every later request (`1063`); a recovered ETH runtime writes none of the
fields by which it could be adopted (`1606`).

ETH runtime:

* An exception of the Lighter socket after the request was sent is reported as a failure
  (`main.py:16372`), and the hedge is sent again or unwound.
* After a fill event and before the lot is saved the file says flat: the match takes the pending
  intent away and saves (`main.py:18218-18232`), and its lot is saved after the wait for Lighter,
  while the comment at `main.py:22602-22604` says that a crash "must never restart from
  local-flat". `FlatFileIsTrue` excludes just this window; TLC finds the statement false without
  the exclusion.
* A fill during the submission of both legs can end in a review whose mark the entry's own
  save then overwrites; `docs/live_inventory_v1_design.md` says "Refuse all further live inventory
  actions until restart and explicit reset".
* An exit never waits for its Variational fill; an entry placed while the callback still
  completes the previous one can exceed the cap of lots.
* The writes of review and blocked states do not carry `state_mutation_revision`
  (`main.py:13585-13610`).
* An order that reuses a quote carries `reuseQuoteId` without the quote's time, price and age limit
  (`main.py:15163-15185`), and the page refuses every such order
  (`execution_quote_expired_or_invalid`, `var_api.js:246-268`); `docs/execution_quality.md:5-6` and
  `tests/test_auto_live_fuse.py:5565-5590` expect it to be placed.
* The recovery of the reference feed looks for pending actions before it awaits the read of the
  positions and the lock of the read lane (`main.py:6900-7002`), while its docstring says "without
  touching an active order"; a failed login in it drops the verdict it still owes, and the next
  fresh sample says healthy (`main.py:6873-6906`).

Account checks of the ETH runtime:

* While confirmations are owed, every check says `block_entry` (`main.py:5953`), an emergency on
  complete data too: for up to three checks after each start and each failed Lighter
  read no forced exit is ordered, and one that was ordered is withdrawn.
* `force_reduce` with more than one lot locks all of them (`main.py:23121-23195`);
  `docs/runbook.md:273` says it "reduces one child lot". Only the limit of one order makes
  it fewer.
* A gate closed by stale data opens on one fresh read, the entry's own included
  (`main.py:5927-5935`), while `docs/runbook.md:297-304` asks for three complete checks; and data up to
  300 seconds old count as healthy there.
* The exemption of `live_inventory_expire_exit_lock` looks for `account_risk_exit`
  (`main.py:10822`), the lock stores `account_risk_atomic_exit` (23182): the lock of a forced
  exit expires like any other and is taken anew.

Watchdog and notifier:

* A failed Telegram alert is never tried again, and the acknowledgement given on the command
  line is overwritten by a running watchdog.
* `JsonlFollower.read` drops the first line of every incremental read
  (`risk_wakeup_watchdog.py:404-437`).
* The backup sends no recovery by Telegram, takes an unconfirmed Bark delivery for a failure,
  and its acknowledgement token is the same for every outage: a late press acknowledges the
  next one. A silence without end on the first host mutes the second for ever.
* An alert refused by a full queue has already used up its throttle window, and the count of
  its suppressed repeats is lost; `RepeatsAreCounted` counts that loss.

Pilot: an adopted pilot completed in trial mode is followed by a successor armed at once; a
trial whose only entry did not fill never advances.

## 5. Proofs

`PairExecutorProofs` proves, for every set of sizes, every cap, any number of
crashes and reductions, with or without partial closes:

* `TypeCorrect`: `TypeOK`, together with `ActionShape`, that an open grows the
  position and a close shrinks it. The latter is needed for the former: an order's
  quantity is a difference. One lemma per group of actions; `InsideKeepsTypes`
  says once what a step inside an operation leaves alone.
* `NeverSentTwice`: `SentAtMostOnce`. By itself it is not inductive. `SendInv` adds
  that the file never calls a leg unsent that was sent (`FileRemembersSends`), that
  the leg in hand was not sent before its submission (`BeforeSubmission`,
  `AtSubmission`), that later legs were not sent while an earlier one is in hand
  (`LaterLegs`), and that reconciliation never compensates (`RecoveryFlow`). TLC
  checked `SendInv` on the instance of `PairLiveness` before it was proved.

* `NeverTurnsRound`: `NeverReversed`, from the invariant that an order that takes
  from a position is reduce-only (`ExitsReduceOnly`).

It proves further, for the same constants but with no forced reduction
(`MaxReductions = 0`: a position a venue reduced is not what the file says, and the
code cannot prevent it):

* `ClaimHolds`: `ClaimIsTrue`;
* `OneOrderAtATime`: `UnresolvedOrderBlocks`;
* `ImplementsPairPosition`: `VariationalFirst`, the refinement of `PairPosition`. The
  initial states map to its initial state; a step is a `Plan` (`PlanIsAllowed`), the
  end of an action a `Done` (`EndIsAllowed`), an execution a `FirstLeg` or a
  `SecondLeg` (`ExecuteIsAllowed`), everything else a stutter.

The inductive invariant is `TypeInv /\ SendInv /\ HedgeInv`. `HedgeInv` has three parts.
`VenueInv` ties what the venues hold to what became of each leg: a leg that did not
trade leaves its venue at the start, a filled one takes it to the goal, a partial
one strictly between, and the legs come in order. `FileInv` ties that to the file:
a leg called unsent has no fate, a terminal one the fate it names, and after a
compensation left, Lighter can not be resumed (`NoWayBack`): either it ended, or the
session that stopped it allows no entry any more (`EntryOver`, which once true
stays true). `JobInv` ties both to the process: what it is about to send was never
sent, Lighter and the compensation follow a filled Variational leg, and what a
snapshot shows of a leg's end is not undone before the decision (`SnapshotHolds`).
From these, the three ways an action ends (`Settle`, `Finalize`, `RestorePrevious`) end
with nothing under way and both venues at one quantity (`EndsHedged`). TLC checked
`HedgeInv` on the instance of `PairSafety` before it was proved.

Assumptions: sizes are positive naturals and the bounds naturals
(`SizesAssumption`, `BoundsAssumption`), evaluated by TLC on every run.

`RotationProofs` proves, for every configuration, every set of faults and all bounds:
`RotationTypes` (`TypeOK`), `NeverBoth` (`OneRuntime`), `ReceiptIsTrue` (`ReceiptHolds`),
`WtiEntersAlone` (`WtiEntersBesideFlatEth`), `HandsOverFlat` (`HandOverIsFlat`). All rest on one
inductive invariant, `RotationInv`:

* `PollShape`: what the journal says while a poll is between two steps, for instance
  that a launch is due only in phases starting and recovering;
* `OneRuntime` itself, with `HiddenInTmux`: a runtime on its way is in the tmux session,
  and so is, when a launch is due, whatever is alive. Without it a launch after an
  empty scan could make a second runtime: this is why every launch asks tmux again
  for the one session name;
* `RunsKnown`: identities are never used twice, so a control or health file of an earlier
  run is never taken for the current one's;
* `ReceiptStops`: a live run whose receipt says completed is stopping and flat, so it
  opens nothing after it;
* `DrainOfSource`: in phase draining nothing is alive but the run the journal names,
  and when that run's receipt says completed its pair is flat, also after its end;
* `WtiBesideFlatEth`: a WTI runtime with a health file of its own runs beside a flat ETH,
  which nobody but an ETH runtime could change.

One lemma per branch of a poll shows that it decides (`Decided`: the journal keeps its
shape, nothing else moves), one per side effect and per runtime step that it keeps
the invariant. TLC checked `RotationInv` on the manual configuration of `Rotation` before
it was proved.

Assumptions: the switches are Booleans, the faults known kinds, the bounds naturals
(`ConfigurationAssumption`, `BoundsAssumption`), evaluated by TLC on every run.

`RequestProofs` proves of `RateLimiter`, for every window, every limit and any set of categories,
`WindowStaysWithinLimits` (`WindowWithinLimits`) and `ReserveStaysKept` (`ReserveIsKept`). The
inductive invariant `LimiterInv` adds to both that no token is dated after now
(`GrantedSoFar`) and that the file forgets none the window still sees (`NothingForgotten`): a
grant counts what the file lists, so what it counts is what the venue counts. It needs
`LimitsAssumption` (positive limits, the normal one not above the hard one) and
`BoundsAssumption`. `SleepStaysExact` (`SleepIsExact`) is about arithmetic: `OldestIsDate` says
that the date `Oldest` finds splits the tokens where the code's sorted list does, `Expiry` that the
wait computed from it is enough and one tick less is not. Both rest on a least date
(`FirstDate`, from the well-founded order of the naturals).

Of `CommandBridge` it proves, for either reader and any number of orders and sockets, `BridgeTypes`
(`BridgeTypeOK`) and `BridgeKeepsTheCall` (`AnswersAreTrue`): it implements `OrderCall`. A send is an `Ask`, the
arrival at the venue an `Arrive`, an answer read or a wait given up a `Tell`, everything else a stutter; for the
runtime of WTI that is `NoOrderMeansNoOrder`. `BridgeInv`
says that a command is at one place of its way to the page, and there once (`CommandsComeOnce`), that
nothing of an order has left the page before the page posts it, nor twice (`NothingBeforePost`, `PostsComeOnce`), that the guard's
answer, wherever it is between the page and the runtime, stops the order for good (`GuardIsFinal`), and that an
answer of ok, wherever it is, is about an order the venue accepted (`OkIsTrue`). TLC
finds `BridgeInv` true of both for one order and two sockets (6,775 states). Assumed: the bounds are naturals, and
the readers are the two there are (`ReadersAssumption`).

`GateProofs` proves of `WtiGate`, for any number of retries, faults, entries and deaths
(`CountsAreNatural`), `GateTypes` (`TypeOK`), `EntryOwesNoProof` (`EntryNeedsProof`) and
`EntryFollowsNoGap` (`EntryAfterGapIsProven`), both action properties: in no step is an entry
made while a failed read or a gap is unanswered. They rest on `GateInv`:

* `RecoverySteps`: at which places of a cycle a recovery is under way and how far it is, so
  that only a complete one is cleared;
* `DoubtIsKept`: while confirmations of a read are owed, the file carries the mark and a live
  process knows it; what it has counted and what is owed stay within the number asked for;
* `Fresh` and `BaselineIsKnown`: what a new process knows before its first sample;
* `GapIsLocked`: while the answer of a gap is owed, memory is locked, or the gap is not met
  yet: the baseline on disk still lies before it;
* `EvidenceIsReal`: the counted samples and reads happened after the gap.

One lemma per part, with one step per action; `LiftedIsAnswered` says that a lock is lifted
only when nothing is owed, `OnlyEnterEnters` that no other step counts an entry. TLC checked
`GateInv` with three faults and two deaths before it was proved.

It proves of `AccountRisk`, for any number of confirmations, lots, lots of an order, changes and
deaths (`BoundsAreNatural`), `AccountTypes` (`AccountTypeOK`), `EntryFollowsStartChecks`
(`EntryAfterStartChecks`) and `AlarmEndsProven` (`AlarmEndsWhenProven`). The inductive invariant
`AccountInv` adds to `AccountTypeOK` that a start which still owes checks keeps the gate closed for that
reason, with a count that is exactly what the risk loop has seen (`StartIsOwed`), and that an
entry whose fills are not known has room (`PendingFits`). `EntryReadOpensNothing` and
`LoopReadCounts` say what each of the two readers does to such a gate; `NormalIsOpen` and
`OnlyNormalEndsAlarm` are the alarm's. TLC checked `AccountTypeOK` and both properties before.

`GradientPilotProofs` proves, for any tiers, edges, rounds, orders and deaths, in either mode of
the runtime, `PilotTypes` (`PilotTypeOK`), `ArchivesAlways` (`ArchiveNeverRefuses`),
`ChainStaysVerifiable` (`ChainIsVerifiable`) and `ReentryFollowsDip` (`ReentryNeedsDip`), under
`PilotAssumption`: at least one sample rearms, there is at least one round, and the bounds are naturals.
`PilotInv` adds to the four:

* `LoopHolds`: an action is pending exactly while the runtime settles it or died over it; which steps
  belong to a trial, which to a continuous session;
* `TierBooksMatch`: the pilot of a round that is not over lists the layers of the position, and what is pending
  comes after them. So the decided action still fits the record it will be archived into;
* `SessionHolds` and `TrialHolds`: a session never returns to a trial, and in a trial the last round is the newest
  and all before it are counted. These tie the two pilots of an advance to the places between its saves;
* `DipsAwaited`: a tier that was closed and has not been below its edge since is still closed, unless the
  pilot is a successor, whose tiers nothing confirms.

TLC finds `PilotInv` true for two tiers, three edges, two rounds, four orders and a death (488,800 states).

`EthInventoryProofs` proves, for any cap, any number of retries, entries and mishaps, and any faults
that `FaultsAssumption` admits, `MemoryMatchesVenues` (`TradingMatchesVenues`) and `ReceiptIsFlat`
(`DrainReceiptIsFlat`). Neither is inductive: both look only at a runtime with nothing under way, and
everything that could go wrong happens before. `InventoryInv` says what holds on the way there:

* `Booked`: of each venue, the position is the open lots, and what pending entries (`Pending`) and the
  completions of the two tasks (`Custody`) have filled, and what exits that nobody waits for have not taken
  yet (`Flight`: the exit ends with its Lighter fill), less what an exit under way will still take
  (`Promised`) and what is to be taken back (`Unreturned`). Orders in flight are counted as a set of pairs, an
  order and a unit, as the queue's alerts are below: their sum is a cardinality, and an order that is
  sent or ends adds or takes a set of pairs (`FlightAppend`, `FlightDrop`);
* `OrdersAreNamed`, `SentIsNamed`: what memory names are the orders it means, and what is in flight is
  named by the one action it belongs to, or only leaves. `NamedOnce`: no entry is pending, in completion
  by one of the tasks and a lot at once, so none is counted twice. This is what fails in `EthDoubleLot`;
* `NewsIsTrue`: news of a fill, or the answer of a lookup that says so, is about the pending entry. It needs
  `Prompt`: what was told is taken before the strategy acts again;
* `LotsCoverExits`: an exit under way is of open lots, all of them, and what is to be taken back is among them;
* `EntriesWereMade`, `DownIsEmpty`: ids are new when they are given, also across a restart, and a dead process
  has no memory;
* `DrainHolds`: between the two reads of a drain Variational stays flat, since nothing is open or pending
  and entries have stopped; after the receipt nothing is left that opens.

`Balanced` and `QuietStep` carry the books over a step that moves one of these terms to another, or none;
one lemma follows for each way an entry and an exit can go, and one for each order a venue fills or fails. TLC
finds `InventoryInv` true with two lots, two entries and two mishaps (197,662 states).

Three more theorems rest on it:

* `EntryBecomesOneLot`: neither memory nor the file ever holds two lots of one entry, although the lookup of its
  order, the trade callback and a restart may each complete it, and while the runtime stops or drains, when
  `TradingMatchesVenues` says nothing. `OneLotInv` adds that the entry that is pending, or on its way to a
  lot in either task, is none already (`EntriesComeOnce`), and that an order that opens belongs to what is
  pending as long as nobody was told how it ended (`OpeningsArePending`).
* `InventoryTypes`: `InventoryTypeOK`. The bound of a position is a sum over all lots: as an entry is one lot,
  there are no more lots than entries (`LotsAreBounded`), and an exit takes no more than its lots
  (`CountersBounded`).
* `FlatFileIsTrue`: what the supervisor and a restart rely on. While the runtime trades, nothing is in flight, and
  no fill is being completed or closed, a file that says flat is true of both venues. `FileKept` says how far the
  file may lag behind memory, and the books do the rest. TLC found it true with all allowed faults, two entries
  and two mishaps before it was proved.

`AlertProofs` is about what reaches the operator. Of the watchdog it proves, for any files it may
read, any channels that answer, any limits, buttons, silences and crashes, `WatchdogTypes`
(`WatchdogTypeOK`), `RingsOnce` (`FaultRingsOnce`), `AcknowledgedStaysQuiet` (`AcknowledgedIsQuiet`) and
`LockStaysTold` (`LockIsToldOnce`). `WatchInv` has, beside the kinds of the records:

* `DiskBehind`: what is saved of an alert was sent. A crash loses the rest, so a restart sends
  again, and never takes back an answer;
* `PressesAnswered`: every button up to the offset is in the record it belongs to, so the offset and the
  records have to be saved together, and they are;
* `RingsCounted`: a fault has rung as often as its record says, and at most `MaxPhone` times more for each
  crash. The latter cannot be improved: the calls of the lost poll are gone;
* that the lock has one signature, raised or migrated, which is why it is not raised again.

A poll is described once, by what it knew (`Knows`, after the buttons, `KnownFacts`, and the migration,
`MigratedFacts`), by the incidents it may find (`IncidentsAreOK`, with one incident for a key: otherwise
the code would raise an alert twice) and by what it leaves (`PollMoves`, `CycleFacts`). The four properties and the
invariant follow from these. `WatchdogAssumption` says that reasons of a risk are names of their own, which
in the code have a prefix (`account_risk:`, `data_visibility:`). TLC checked `WatchInv` on the instance of
`Services` without its other components (71,774 states) before it was proved.

Of `TelegramQueue` it proves, for any set of alerts, queues of any size, and every way to stop,
`RepeatsStayCounted` (`RepeatsAreCounted`) and `StopFlushes` (`FlushedBeforeStop`). The former is inductive
once the kinds are known. The alerts of a queue are a set of pairs, a message and a number, so that their sum is a
cardinality, and a message that comes (`AppendAdds`) or goes (`TailTakes`) adds or takes an interval: no
induction over the queue is needed. The latter needs to know where the None of a stop is
(`EndsAt`: once in the queue, with only late messages behind it). `QueueTypes` (`QueueTypeOK`) follows from the
former: no count of a key exceeds what was offered of it, and that is bounded because all
offers together are (`OffersBoundEach`: the offers of one key are a subset of them).

`ServicesProofs` proves of `RiskBackup`, for any heartbeats, channels and limits, `BackupTypes` (`TypeOK` of the
module): no channel of an incident is tried more often than its limit (`DeliveryCounts`), in any poll, acknowledged
or not. Of the composition in `MCServices` it proves, for all constants:

* `ServicesAreTheirOwn`: a behaviour of `Services` is a behaviour of every service (of all but one, a
  behaviour in which nothing happens), and of the trial or the pilot as `service` says. So what is proved of a
  service holds of the composition, and nothing the run `Services` shows is owed to it;
* `ServicesTypes`: `TypesOK`, the type invariant of that run, from the nine types of the services. The trial is
  the pilot with constants of its own: its type is the theorem of an instance of `GradientPilotProofs`
  (`SameTrial` says that both instances are of the same definitions). `ServicesAssumption` collects what the
  services assume of their constants.

Only model-checked, and for good: the liveness properties (`PendingIsDecided`, `ColdDrainEnds`,
`DeadWatchdogIsReported`, `BoundedTrialIsEntered`, `DrainIsAnswered`, `LaneRequestsAreForgotten`,
`GateEntriesReturn`, `GateExposureDrains`, `AccountEntriesReturn`, `AccountEmergencyEnds`), which are outside the
proof system's reach. Every other property of a passing run is a theorem.

## 6. Plan

Done: the pair coordinator and its refinement, the hand-over, the gate, the pilot's rounds,
the ETH lot and the account checks, the way of an order to the page, the watchdog and its backup,
the notifications, the request budget; proofs of every safety property of a passing run, of both
refinements, and of the composition of the services.

Left, in the order of what it would add:

1. The ETH runtime's watch over its reference feed (`main.py` 6366-7040): what a reload of the
   Variational page does to an order that is being sent. (`docs/risk_wakeup_watchdog.md:269` has it
   when flat, once, after 120 seconds; the code does it with open lots, after 30 and up to twice.)
2. The operator's tools: `repair_interrupted_entry`, `wti_takeover`, `restart_live`, the lock
   owners of a state file and the restart guards.
3. The auto-live hedge path (`main.py` 17687-18137, 25626-27195) and the ledger of final
   profit (`main.py` 12418-13259).
4. The reporting outbox of the WTI runtime, the strong single probe and the bounded rotation
   test.
5. Proofs without a bound on what may go wrong: `PairPosition` under forced reductions, the ETH inventory once
   the faults `FaultsAssumption` excludes are answered by the code.

Not to be modelled: the collectors, the reports, the billing and the analysis are offline
computations that no runtime reads; prices, spreads and sizes are inputs of the models, whose
every outcome is allowed; the paper engine trades nothing; logs carry no state.
