----------------------------- MODULE AccountRisk -----------------------------
(***************************************************************************)
(* The account checks of the ETH runtime (src/main.py) and what they do to  *)
(* its inventory.  Two tasks read the accounts: the risk loop, every five   *)
(* or fifteen seconds, and the sample loop before each entry.  Either read  *)
(* awaits both venues before the recovery gate sees it, so the other task   *)
(* may close or open the gate in between.  Only the risk loop counts        *)
(* confirmations, orders a forced exit and tells the operator.              *)
(*                                                                          *)
(* An account is abstracted to how good its data are and to the action they *)
(* call for; a lot to its being there.  Orders, fills and what may go wrong *)
(* with them are EthInventory's.                                            *)
(***************************************************************************)
EXTENDS Naturals

CONSTANTS
  ChecksToOpen,   \* complete checks that open the gate again
  MaxLots,        \* lots the tiers have room for
  MaxOrder,       \* lots that fit one order of the risk limit
  MaxChanges      \* bound: changes of the account or its data, and deaths of the runtime

VARIABLES
  account,   \* what a complete read would say now: its data and the action they ask for
  signal,    \* is the edge of an entry there?
  changes,   \* changes of the account and deaths of the runtime so far
  gate,      \* the recovery gate: closed, confirmations so far, and why
  alarm,     \* what the operator was told, and the debouncing of the next message
  exiting,   \* live_inventory_account_risk_exit_action
  loop,      \* the read the risk loop awaits
  sampler,   \* the read the sample loop awaits before an entry
  window,    \* had the last two samples a signal? An entry is confirmed by two of three
  pending,   \* an entry whose fills are not known yet
  lots,      \* open lots
  costed,    \* are the costs of all of them confirmed?
  locked,    \* lots of a portfolio exit
  proven     \* since the last start: strictly fresh loop checks in a row, at most ChecksToOpen

environment == <<account, signal, changes>>
inventory == <<pending, lots, costed, locked>>
accountVars == <<environment, gate, alarm, exiting, loop, sampler, window, inventory, proven>>

Critical == {"force_reduce", "emergency_exit"}
Actions == Critical \cup {"normal", "block_entry"}
Quality == {"fresh", "aged", "stale", "missing"}   \* missing: Lighter cannot be read
Idle == [data |-> "none", asks |-> "none"]

Starting == [closed |-> TRUE, count |-> 0, why |-> "startup"]
GateOpen == [closed |-> FALSE, count |-> 0, why |-> "none"]
NoHits == <<FALSE, FALSE>>
Quiet == [told |-> "normal", warned |-> 0, calm |-> 0]

AccountTypeOK ==
  /\ account \in [data : Quality, asks : Actions]
  /\ signal \in BOOLEAN /\ changes \in 0..MaxChanges
  /\ gate \in [closed : BOOLEAN, count : 0..ChecksToOpen - 1,
               why : {"none", "startup", "stale", "missing"}]
  /\ alarm \in [told : Actions, warned : 0..1, calm : 0..2]
  /\ exiting \in Critical \cup {"none"}
  /\ {loop, sampler} \subseteq {Idle} \cup [data : Quality, asks : Actions]
  /\ window \in BOOLEAN \X BOOLEAN
  /\ pending \in BOOLEAN /\ costed \in BOOLEAN
  /\ lots \in 0..MaxLots /\ locked \in 0..lots
  /\ proven \in 0..ChecksToOpen

AccountInit ==
  /\ account = [data |-> "fresh", asks |-> "normal"]
  /\ signal = TRUE /\ changes = 0
  /\ gate = Starting /\ alarm = Quiet /\ exiting = "none"
  /\ loop = Idle /\ sampler = Idle /\ window = NoHits
  /\ pending = FALSE /\ lots = 0 /\ costed = TRUE /\ locked = 0
  /\ proven = 0

-----------------------------------------------------------------------------
(* A check.  Data that are too old or incomplete call for no more entries,  *)
(* whatever the last known margin was.                                       *)

Asks(read) == IF read.data \in {"stale", "missing"} THEN "block_entry" ELSE read.asks

Healthy(read) == read.data \in (IF gate.why = "startup" THEN {"fresh"} ELSE {"fresh", "aged"})

\* Mutations: every read counts; a read of the sample loop starts the count again.
ConfirmationsOfAnyone(read, advance) ==
  IF gate.why = "stale" /\ read.data = "fresh" THEN ChecksToOpen ELSE gate.count + 1

ConfirmationsInARow(read, advance) ==
  IF gate.why = "stale" /\ read.data = "fresh" THEN ChecksToOpen
  ELSE IF advance THEN gate.count + 1 ELSE 0

\* A fresh read ends a stale gate at once; only the risk loop's reads count.
Confirmations(read, advance) ==
  IF gate.why = "stale" /\ read.data = "fresh" THEN ChecksToOpen
  ELSE IF advance THEN gate.count + 1 ELSE gate.count

\* The gate after a read, the action it leaves, and whether it forgets the samples.
Gated(read, advance) ==
  IF ~Healthy(read)
  THEN [gate |-> [closed |-> TRUE, count |-> 0,
                  why |-> IF gate.why = "startup" THEN "startup" ELSE read.data],
        action |-> IF gate.why = "startup" /\ Asks(read) = "normal" THEN "block_entry"
                   ELSE Asks(read),
        clears |-> TRUE]
  ELSE IF ~gate.closed THEN [gate |-> gate, action |-> Asks(read), clears |-> FALSE]
  ELSE IF Confirmations(read, advance) >= ChecksToOpen
  THEN [gate |-> GateOpen, action |-> Asks(read), clears |-> TRUE]
  ELSE [gate |-> [gate EXCEPT !.count = Confirmations(read, advance)],
        action |-> "block_entry", clears |-> TRUE]

\* Mutation: any check that is not critical is one towards the end of a critical action.
ToldAdvisoryIsCalm(action) ==
  IF action \in Critical THEN [Quiet EXCEPT !.told = action]
  ELSE IF alarm.told # "normal"
  THEN IF alarm.calm < 2 THEN [alarm EXCEPT !.calm = @ + 1] ELSE Quiet
  ELSE IF action = "normal" THEN Quiet
  ELSE IF alarm.warned = 0 THEN [Quiet EXCEPT !.warned = 1]
  ELSE [Quiet EXCEPT !.told = action]

\* A critical action is told at once, an advisory one when it comes twice; three
\* normal checks in a row end either, and an advisory one never ends a critical one.
Told(action) ==
  IF action \in Critical THEN [Quiet EXCEPT !.told = action]
  ELSE IF action = "normal"
  THEN IF alarm.told # "normal" /\ alarm.calm < 2 THEN [alarm EXCEPT !.calm = @ + 1] ELSE Quiet
  ELSE IF alarm.told # "normal" THEN [alarm EXCEPT !.calm = 0]
  ELSE IF alarm.warned = 0 THEN [Quiet EXCEPT !.warned = 1]
  ELSE [Quiet EXCEPT !.told = action]

LoopRead ==
  /\ loop = Idle
  /\ loop' = account
  /\ UNCHANGED <<environment, gate, alarm, exiting, sampler, window, inventory, proven>>

LoopCheck ==
  /\ loop # Idle
  /\ loop' = Idle
  /\ \E check \in {Gated(loop, TRUE)} :
       /\ gate' = check.gate
       /\ alarm' = Told(check.action)
       /\ window' = IF check.clears THEN NoHits ELSE window
       /\ exiting' = IF check.action \notin Critical THEN "none"
                     ELSE IF lots > 0 THEN check.action ELSE exiting
  /\ proven' = IF proven = ChecksToOpen THEN proven
               ELSE IF loop.data = "fresh" THEN proven + 1 ELSE 0
  /\ UNCHANGED <<environment, sampler, inventory>>

-----------------------------------------------------------------------------
(* A sample.  An entry that is confirmed by it is tried first; only a sample *)
(* with no such entry looks at the exits.                                    *)

EdgeConfirmed == signal /\ (window[1] \/ window[2])

\* The room of the tiers is looked at after the account (EntryCheck).
MayAdd == lots = 0 \/ (locked = 0 /\ costed)

TriesEntry == EdgeConfirmed /\ MayAdd

\* The lots of a portfolio exit: those locked before, all of them under a forced
\* action, or a profitable tier.
LocksOf(held, deep, profit) ==
  IF held > 0 \/ lots < 2 \/ ~costed THEN {held}
  ELSE IF exiting # "none" THEN {IF deep THEN lots ELSE 0}
  ELSE IF profit THEN 1..lots
  ELSE {0}

\* Mutation: a forced exit closes locked lots only.
BatchOfLocked(lock, profit) ==
  IF lock > 0 THEN lock ELSE IF lots > 0 /\ exiting = "none" /\ profit /\ costed THEN 1 ELSE 0

\* How many lots one order closes.
Batch(lock, profit) ==
  IF lock > 0 THEN lock
  ELSE IF lots > 0 /\ (exiting # "none" \/ (profit /\ costed)) THEN 1
  ELSE 0

\* The lock of the lots and what is ordered; an old lock may have expired.
Capped(all) == IF all > MaxOrder THEN MaxOrder ELSE all

Plans ==
  UNION {{[lock |-> Capped(all), batch |-> Batch(Capped(all), profit)] :
            all \in LocksOf(held, deep, profit)} :
         held \in {0, locked}, deep, profit \in BOOLEAN}

TriesExit ==
  \E plan \in Plans :
    \/ /\ plan.batch = 0
       /\ locked' = plan.lock
       /\ UNCHANGED <<lots, exiting>>
    \/ /\ plan.batch > 0                 \* no depth, or no profit any more
       /\ locked' \in IF exiting # "none" THEN {plan.lock} ELSE {0, plan.lock}
       /\ UNCHANGED <<lots, exiting>>
    \/ /\ plan.batch > 0
       /\ lots' = lots - plan.batch
       /\ locked' = 0
       /\ exiting' = IF exiting = "force_reduce" THEN "none" ELSE exiting

Sample ==
  /\ sampler = Idle /\ ~pending
  /\ UNCHANGED <<environment, gate, alarm, loop, pending, costed, proven>>
  /\ window' = <<window[2], signal>>
  /\ IF TriesEntry
     THEN /\ sampler' = account
          /\ UNCHANGED <<lots, locked, exiting>>
     ELSE /\ TriesExit
          /\ UNCHANGED sampler

\* The entry goes on when the gate leaves "normal", or is given up later on.
EntryCheck ==
  /\ sampler # Idle
  /\ sampler' = Idle
  /\ \E check \in {Gated(sampler, FALSE)} :
       /\ gate' = check.gate
       /\ window' = IF check.clears THEN NoHits ELSE window
       /\ pending' \in IF check.action = "normal" /\ lots < MaxLots THEN BOOLEAN ELSE {FALSE}
  /\ proven' = IF proven < ChecksToOpen /\ sampler.data # "fresh" THEN 0 ELSE proven
  /\ UNCHANGED <<environment, alarm, exiting, loop, lots, costed, locked>>

\* The entry becomes a lot whose cost may be known later, or nothing.
Fill ==
  /\ pending
  /\ pending' = FALSE
  /\ \/ UNCHANGED <<lots, costed>>
     \/ lots' = lots + 1 /\ costed' \in BOOLEAN
  /\ UNCHANGED <<environment, gate, alarm, exiting, loop, sampler, window, locked, proven>>

CostKnown ==
  /\ ~costed
  /\ costed' = TRUE
  /\ UNCHANGED <<environment, gate, alarm, exiting, loop, sampler, window, pending, lots, locked,
                 proven>>

-----------------------------------------------------------------------------
AccountMoves ==
  /\ changes < MaxChanges
  /\ changes' = changes + 1
  /\ \/ \E data \in Quality \ {account.data} : account' = [account EXCEPT !.data = data]
     \/ \E asks \in Actions \ {account.asks} : account' = [account EXCEPT !.asks = asks]
  /\ UNCHANGED <<signal, gate, alarm, exiting, loop, sampler, window, inventory, proven>>

EdgeMoves ==
  /\ signal' = ~signal
  /\ UNCHANGED <<account, changes, gate, alarm, exiting, loop, sampler, window, inventory, proven>>

\* The state file keeps lots, locks and the pending intent; the rest starts anew.
Restart ==
  /\ changes < MaxChanges
  /\ changes' = changes + 1
  /\ gate' = Starting /\ alarm' = Quiet /\ exiting' = "none"
  /\ loop' = Idle /\ sampler' = Idle /\ window' = NoHits /\ proven' = 0
  /\ UNCHANGED <<account, signal, inventory>>

AccountNext ==
  \/ LoopRead \/ LoopCheck \/ Sample \/ EntryCheck \/ Fill \/ CostKnown
  \/ AccountMoves \/ EdgeMoves \/ Restart

AccountSpec == AccountInit /\ [][AccountNext]_accountVars

\* A sample whose forced exit is filled.
ForcedExit == exiting # "none" /\ Sample /\ lots' < lots

\* The two tasks. The second one waits for the fills of its entry.
RiskLoop == LoopRead \/ LoopCheck
SampleLoop == Sample \/ EntryCheck \/ Fill

\* Both tasks go on for ever, fills and costs become known, and a forced exit that is
\* tried again and again finds depth.
FairAccount ==
  /\ AccountSpec
  /\ WF_accountVars(RiskLoop) /\ WF_accountVars(SampleLoop) /\ WF_accountVars(CostKnown)
  /\ SF_accountVars(ForcedExit)

-----------------------------------------------------------------------------
(* After a start no entry is made before the risk loop has seen strictly    *)
(* fresh data of both venues ChecksToOpen times in a row: those before an   *)
(* entry do not count, whichever order the two tasks end their reads in, but *)
(* a bad one starts the count again (apply_live_inventory_account_recovery_gate). *)
EntryAfterStartChecks == [][~pending /\ pending' => proven = ChecksToOpen]_accountVars

(* The operator is told that a critical action is over only when the gate   *)
(* is open and no forced exit is due: an action that is hidden behind bad    *)
(* data or an unfinished confirmation is not over.                           *)
AlarmEndsWhenProven ==
  [][(alarm.told \in Critical /\ alarm'.told = "normal" /\ changes' = changes)
       => ~gate'.closed /\ exiting' = "none"]_accountVars

(* Once the data of both venues stay fresh the gate opens for good, however  *)
(* the reads of the two tasks interleave.                                    *)
EntriesReturn == <>[](account.data = "fresh") => <>[](~gate.closed)

(* An emergency on fresh data empties the inventory, whatever was locked or  *)
(* pending and whatever one order may hold, as long as no entry signal stays *)
(* there.                                                                     *)
EmergencyWithoutSignalEnds ==
  <>[](account = [data |-> "fresh", asks |-> "emergency_exit"] /\ ~signal) => <>[](lots = 0)

(* docs/runbook.md:273-274: "60% reduces one child lot, and 75% requests     *)
(* emergency exit"; 286-287: "Risk-forced reduction and emergency exit        *)
(* remain allowed to override profit exits".  An emergency that lasts empties *)
(* the inventory.                                                             *)
EmergencyIsExited ==
  <>[](account = [data |-> "fresh", asks |-> "emergency_exit"]) => []<>(lots = 0)
===============================================================================
