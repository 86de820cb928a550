---------------------------- MODULE PairExecutor ----------------------------
(***************************************************************************)
(* The WTI pair coordinator, tools/lib/wti_execution.py: one durable JSON  *)
(* state file, one process at a time inside `store.exclusive()`, two       *)
(* venues.  A position is a quantity held long on one venue and short on   *)
(* the other; both are counted here as the same non-negative number, the   *)
(* direction of the pair being symmetric in the code (_signed_target).     *)
(*                                                                         *)
(* Every `store.save` is one step, so a crash can fall between any two of  *)
(* them; the process' own memory is the record `job`, lost in a crash.     *)
(* Prices, fees, pilots and reports are left out (a sample is either       *)
(* usable or not); so is the replacement of a legacy Lighter identity      *)
(* that could never be signed, which no order created by this code has.    *)
(***************************************************************************)
EXTENDS Integers, FiniteSets

CONSTANTS
    Sizes,          \* quantities one entry may add
    MaxPosition,    \* the aggregate cap of the position
    PartialClose,   \* may a close select some of the layers only?
    MaxCrashes,     \* bound: crashes of the process
    MaxReductions   \* bound: forced reductions by a venue (liquidation, ADL)

ASSUME SizesAssumption == Sizes \subseteq Nat \ {0}
ASSUME BoundsAssumption ==
    /\ MaxPosition \in Nat
    /\ PartialClose \in BOOLEAN
    /\ MaxCrashes \in Nat
    /\ MaxReductions \in Nat

VARIABLES
    \* the state file
    status, open_position, pending_action, legs,
    \* the process
    job,
    \* the venues: requests not executed yet, what became of the orders of
    \* the pending action, and the positions held
    wire, fate, exch,
    \* the WTI trading session
    session,
    \* history: requests put on the wire per leg, legs the gateway reported
    \* as never sent, crashes, forced reductions
    sends, refused, crashes, reductions

file    == <<status, open_position, pending_action, legs>>
venues  == <<wire, fate, exch>>
history == <<sends, refused, crashes, reductions>>
vars    == <<file, job, venues, session, history>>

-----------------------------------------------------------------------------
(* Values *)

Venue == {"variational", "lighter"}
Leg   == {"variational", "lighter", "compensation"}

VenueOf(leg) == IF leg = "lighter" THEN "lighter" ELSE "variational"

\* A leg as the file records it: not there, persisted with
\* submission_started False, stopped by the local guard, submission_started
\* True without a result, or with the classification of a reply.
LegState == {"absent", "unsent", "guarded", "started", "unknown",
             "filled", "no_fill", "partial"}
Terminal == {"filled", "no_fill", "partial"}
NotSent  == {"absent", "unsent", "guarded"}

Status == {"flat", "pending", "open", "manual_review_required"}

NoPosition == [qty |-> 0, live |-> FALSE]
NoAction   == [kind |-> "none", previous |-> NoPosition, expected |-> 0,
               live |-> FALSE]
NoLegs     == [l \in Leg |-> "absent"]
NoFate     == [l \in Leg |-> "none"]
NoSnapshot == [variational |-> 0, lighter |-> 0, active |-> FALSE]
Start(pc, flow, fresh) == [pc |-> pc, leg |-> "variational", flow |-> flow,
                           fresh |-> fresh, snap |-> NoSnapshot]
Idle       == Start("idle", "direct", FALSE)

Pending == pending_action.kind # "none"

\* A close that keeps some layers: pending_action["remaining_position"].
KeepsLayers == pending_action.kind = "close" /\ pending_action.expected > 0

\* _session_allows for a sample of the session the action belongs to.
SessionAllows(opening) ==
    /\ pending_action.live
    /\ session \in (IF opening THEN {"open"} ELSE {"open", "cutoff"})

\* gateway.read_account: positions now; a request that reached the venue and
\* is not executed may or may not be listed as an active order.
Snapshots ==
    [variational : {exch["variational"]}, lighter : {exch["lighter"]},
     active : IF wire = {} THEN {FALSE} ELSE BOOLEAN]

\* _matches
Matches(snap, var, lit) ==
    ~snap.active /\ snap.variational = var /\ snap.lighter = lit

Enter(pc)     == job' = [job EXCEPT !.pc = pc]
SetLeg(value) == legs' = [legs EXCEPT ![job.leg] = value]

ManualReview ==
    /\ status' = "manual_review_required"
    /\ job' = Idle
    /\ UNCHANGED <<open_position, pending_action, legs, venues, session, history>>

Orphaned(o) == [o EXCEPT !.orphan = TRUE]

\* The pending action is archived and `position` is what is held from now on.
\* An order of that action still on the wire would be nobody's from here.
Conclude(position) ==
    /\ status' = IF position.qty > 0 THEN "open" ELSE "flat"
    /\ open_position' = position
    /\ pending_action' = NoAction
    /\ legs' = NoLegs
    /\ job' = Idle
    /\ wire' = {Orphaned(o) : o \in wire}
    /\ fate' = NoFate
    /\ sends' = [l \in Leg |-> 0]
    /\ refused' = {}
    /\ UNCHANGED <<exch, session, crashes, reductions>>

\* _position_after_open, split_close: layers share the session of the first.
Settled ==
    IF pending_action.expected = 0 THEN NoPosition
    ELSE [qty |-> pending_action.expected,
          live |-> IF pending_action.previous.qty > 0
                   THEN pending_action.previous.live ELSE pending_action.live]

-----------------------------------------------------------------------------
(* Starting an operation *)

Init ==
    /\ status = "flat"
    /\ open_position = NoPosition
    /\ pending_action = NoAction
    /\ legs = NoLegs
    /\ job = Idle
    /\ wire = {}
    /\ fate = NoFate
    /\ exch = [v \in Venue |-> 0]
    /\ session = "open"
    /\ sends = [l \in Leg |-> 0]
    /\ refused = {}
    /\ crashes = 0
    /\ reductions = 0

Begin(kind, expected) ==
    /\ status' = "pending"
    /\ pending_action' = [kind |-> kind, previous |-> open_position,
                          expected |-> expected, live |-> TRUE]
    /\ UNCHANGED <<open_position, legs, venues, session, history>>

\* open(): refused, without a trace, unless the account is exactly the
\* recorded position.  A gradient layer takes its exact quote before the
\* action is persisted, a single-round entry after it.
BeginOpen(size, gradient) ==
    /\ job.pc = "idle"
    /\ ~Pending
    /\ session = "open"
    /\ \/ status = "flat"
       \/ status = "open" /\ gradient /\ open_position.live
    /\ open_position.qty + size <= MaxPosition
    /\ \E snap \in Snapshots : Matches(snap, open_position.qty, open_position.qty)
    /\ Begin("open", open_position.qty + size)
    /\ job' = Start(IF gradient THEN "persist" ELSE "quote", "direct", gradient)

\* close(): all layers, or some of them under manual_continuous_equity.
BeginClose(expected) ==
    /\ job.pc = "idle"
    /\ ~Pending
    /\ status = "open"
    /\ session \in {"open", "cutoff"}
    /\ expected < open_position.qty
    /\ expected > 0 => PartialClose /\ open_position.qty - expected \in Sizes
    /\ \E snap \in Snapshots : Matches(snap, open_position.qty, open_position.qty)
    /\ Begin("close", expected)
    /\ job' = Start("persist", "direct", TRUE)

\* close() and reconcile() find another account than the recorded one; with
\* no action pending only an operator leaves manual review.
ClaimMismatch ==
    /\ job.pc = "idle"
    /\ ~Pending
    /\ status \in {"flat", "open"}
    /\ \E snap \in Snapshots : ~Matches(snap, open_position.qty, open_position.qty)
    /\ ManualReview

-----------------------------------------------------------------------------
(* Submitting one leg: _fresh_context, _submit_leg and the gateway *)

FreshQuote ==
    /\ job.pc = "quote"
    /\ pending_action.live
    /\ session # "closed"
    /\ job' = [job EXCEPT !.pc = "persist", !.fresh = TRUE]
    /\ UNCHANGED <<file, venues, session, history>>

NoFreshQuote ==
    /\ job.pc = "quote"
    /\ ManualReview

PersistLeg ==
    /\ job.pc = "persist"
    /\ SetLeg("unsent")
    /\ Enter("guard")
    /\ UNCHANGED <<status, open_position, pending_action, venues, session, history>>

\* The session is checked again for the two legs, not for a compensation,
\* whose preflight checked it.
MaySubmit ==
    /\ job.fresh
    /\ job.leg # "compensation" => SessionAllows(pending_action.kind = "open")

StartSubmission ==
    /\ job.pc = "guard"
    /\ MaySubmit
    /\ SetLeg("started")
    /\ Enter("send")
    /\ UNCHANGED <<status, open_position, pending_action, venues, session, history>>

GuardBlocks ==
    /\ job.pc = "guard"
    /\ ~MaySubmit
    /\ IF job.leg = "compensation"
       THEN ManualReview
       ELSE /\ SetLeg("guarded")
            /\ Enter("answered")
            /\ UNCHANGED <<status, open_position, pending_action, venues, session, history>>

\* Fault: the compensation, which opens the other side, is not reduce-only.
ReduceOnlyOnCloseOnly(leg) == leg # "compensation" /\ pending_action.kind = "close"

\* The side of a request, and its reduce_only flag, are separate arguments.
Exits(leg)      == leg = "compensation" \/ pending_action.kind = "close"
ReduceOnly(leg) == leg = "compensation" \/ pending_action.kind = "close"

\* Fault: the quantity of a close is taken as that of an open is.
SignedOrderQty == pending_action.expected - pending_action.previous.qty

OrderQty ==
    IF pending_action.kind = "close"
    THEN pending_action.previous.qty - pending_action.expected
    ELSE pending_action.expected - pending_action.previous.qty

\* _prepare_final_dispatch: the session is compared when the request names
\* one (a compensation does not); only an entry's first leg must precede the
\* entry cutoff.
DispatchAllowed(leg) ==
    /\ session # "closed"
    /\ leg # "compensation" => pending_action.live
    /\ (leg = "variational" /\ pending_action.kind = "open") => session = "open"

Dispatch ==
    /\ job.pc = "send"
    /\ DispatchAllowed(job.leg)
    /\ wire' = wire \cup {[leg |-> job.leg, qty |-> OrderQty,
                           exits |-> Exits(job.leg),
                           reduce_only |-> ReduceOnly(job.leg), orphan |-> FALSE]}
    /\ fate' = [fate EXCEPT ![job.leg] = "flying"]
    /\ sends' = [sends EXCEPT ![job.leg] = @ + 1]
    /\ Enter("await")
    /\ UNCHANGED <<file, exch, session, refused, crashes, reductions>>

Unanswered(result) ==
    /\ job.pc = "send"
    /\ SetLeg(result)
    /\ Enter("answered")
    /\ UNCHANGED <<status, open_position, pending_action, venues, session, sends,
                   crashes, reductions>>

\* The account risk gate (entries) and the extension's own guard
\* (Variational): a rejection that carries the client id.
RejectedBeforeSend ==
    /\ pending_action.kind = "open" \/ job.leg # "lighter"
    /\ Unanswered("no_fill")
    /\ refused' = refused \cup {job.leg}

\* The final dispatch guard also proves that nothing was sent, but its reply
\* has no client_order_id and _normalized_order_result makes it unknown.
DispatchRefused ==
    /\ Unanswered("unknown")
    /\ refused' = refused \cup {job.leg}

\* The gateway call raised or timed out before anything left.
LostBeforeSend ==
    /\ Unanswered("unknown")
    /\ UNCHANGED refused

\* submit_order returns: a terminal result once the venue decided the order,
\* unknown when the wait ends first or the answer is ambiguous.
Reply ==
    /\ job.pc = "await"
    /\ \E result \in {"unknown"} \cup ({fate[job.leg]} \cap Terminal) : SetLeg(result)
    /\ Enter("answered")
    /\ UNCHANGED <<status, open_position, pending_action, venues, session, history>>

-----------------------------------------------------------------------------
(* What follows a leg *)

\* Fault: a Variational reply that is not a refusal is hedged at once.
HedgeUnlessRefused ==
    /\ job.pc = "answered"
    /\ job.leg = "variational"
    /\ legs["variational"] \in {"filled", "unknown"}
    /\ job' = [job EXCEPT !.pc = "quote", !.leg = "lighter"]
    /\ UNCHANGED <<file, venues, session, history>>

HedgeNext ==
    /\ job.pc = "answered"
    /\ job.leg = "variational"
    /\ legs["variational"] = "filled"
    /\ job' = [job EXCEPT !.pc = "quote", !.leg = "lighter"]
    /\ UNCHANGED <<file, venues, session, history>>

\* Fault: an unknown Lighter result is compensated as a no-fill is.
CompensationUnlessFilled ==
    /\ job.flow = "direct"
    /\ job.leg = "lighter"
    /\ pending_action.kind = "open"
    /\ legs["lighter"] # "filled"

\* open() only: _compensate_var_only_open before its own request is persisted.
CompensationDue ==
    /\ job.flow = "direct"
    /\ job.leg = "lighter"
    /\ pending_action.kind = "open"
    /\ legs["lighter"] \in {"no_fill", "guarded"}

Compensate ==
    /\ job.pc = "answered"
    /\ CompensationDue
    /\ SessionAllows(FALSE)
    /\ \E snap \in Snapshots :
          Matches(snap, pending_action.expected, pending_action.previous.qty)
    /\ job' = [job EXCEPT !.pc = "persist", !.leg = "compensation"]
    /\ UNCHANGED <<file, venues, session, history>>

\* The account is read after the last leg, unless the read fails.
ReadAfter ==
    /\ job.pc = "answered"
    /\ job.leg # "variational"
    /\ legs[job.leg] = "filled"
    /\ \E snap \in Snapshots : job' = [job EXCEPT !.pc = "settle", !.snap = snap]
    /\ UNCHANGED <<file, venues, session, history>>

Settle ==
    /\ job.pc = "settle"
    /\ \/ /\ job.leg = "lighter"
          /\ Matches(job.snap, pending_action.expected, pending_action.expected)
          /\ Conclude(Settled)
       \/ /\ job.leg = "compensation"
          /\ Matches(job.snap, pending_action.previous.qty, pending_action.previous.qty)
          /\ Conclude(pending_action.previous)

\* Every other way out: the leg did not fill, a preflight or the account read
\* failed, or the account is not the one expected.
StopForReview ==
    /\ \/ job.pc = "answered" /\ (job.leg = "variational" => legs["variational"] # "filled")
       \/ /\ job.pc = "settle"
          /\ LET goal == IF job.leg = "compensation" THEN pending_action.previous.qty
                         ELSE pending_action.expected
             IN  ~Matches(job.snap, goal, goal)
    /\ ManualReview

-----------------------------------------------------------------------------
(* reconcile() of a pending action *)

LookupResults(leg) ==
    IF legs[leg] \in {"started", "unknown"}
    THEN {"unknown"} \cup ({fate[leg]} \cap Terminal)
    ELSE {legs[leg]}

\* _resolve_pending_orders looks up the two legs, never the compensation.
LookUpOrders ==
    /\ job.pc = "idle"
    /\ Pending
    /\ session # "closed"
    /\ \E var \in LookupResults("variational"), lit \in LookupResults("lighter") :
          legs' = [legs EXCEPT !["variational"] = var, !["lighter"] = lit]
    /\ job' = Start("read", "recover", FALSE)
    /\ UNCHANGED <<status, open_position, pending_action, venues, session, history>>

ReadAccount ==
    /\ job.pc = "read"
    /\ \E snap \in Snapshots : job' = [job EXCEPT !.pc = "decide", !.snap = snap]
    /\ UNCHANGED <<file, venues, session, history>>

\* Fault: a failed account read leaves the action pending for the next try.
AccountUnavailableIsIgnored ==
    /\ job.pc = "read"
    /\ job' = Idle
    /\ UNCHANGED <<file, venues, session, history>>

AccountUnavailable ==
    /\ job.pc = "read"
    /\ ManualReview

Sees(var, lit) == Matches(job.snap, var, lit)

OrdersResolved == \A l \in Venue : legs[l] \notin {"started", "unknown"}
AllExpectedFills == \A l \in Venue : legs[l] = "filled"
\* Fault: an order nobody could find is taken as not filled.
AllNotFilled == \A l \in Venue : legs[l] \in NotSent \cup {"no_fill", "unknown"}

AllKnownNoFill == \A l \in Venue : legs[l] \in NotSent \cup {"no_fill"}

VarOnly == Sees(pending_action.expected, pending_action.previous.qty)

\* _resume_pending_open_missing_lighter
CanResumeOpen ==
    /\ pending_action.kind = "open"
    /\ OrdersResolved
    /\ legs["variational"] = "filled"
    /\ legs["lighter"] \in NotSent
    /\ VarOnly
    /\ SessionAllows(TRUE)

\* Fault: submission_started is not looked at before a Lighter leg is resumed.
CanResumeCloseAgain ==
    /\ pending_action.kind = "close" /\ ~KeepsLayers
    /\ legs["variational"] \in {"filled", "unknown"}
    /\ legs["lighter"] \notin Terminal
    /\ VarOnly
    /\ SessionAllows(FALSE)

\* _resume_pending_close_missing_lighter: a Var receipt may be missing when
\* the account shows that the order was executed.
CanResumeClose ==
    /\ pending_action.kind = "close" /\ ~KeepsLayers
    /\ legs["variational"] \in {"filled", "unknown"}
    /\ legs["lighter"] \in NotSent
    /\ VarOnly
    /\ SessionAllows(FALSE)

\* _resume_partial_close.  A leg persisted with result None makes it read
\* None.get("source"): see Raise.
CanResumePartialClose ==
    /\ KeepsLayers
    /\ legs["variational"] = "filled"
    /\ legs["lighter"] \in {"absent", "guarded"}
    /\ VarOnly
    /\ SessionAllows(FALSE)

ResumeHedge ==
    /\ job.pc = "decide"
    /\ CanResumeOpen \/ CanResumeClose \/ CanResumePartialClose
    /\ job' = [job EXCEPT !.pc = "quote", !.leg = "lighter"]
    /\ UNCHANGED <<file, venues, session, history>>

CanFinalize ==
    \/ AllExpectedFills /\ Sees(pending_action.expected, pending_action.expected)
    \/ /\ pending_action.kind = "close" /\ ~KeepsLayers
       /\ legs["variational"] \in {"filled", "unknown"}
       /\ Sees(0, 0)

Finalize ==
    /\ job.pc = "decide"
    /\ CanFinalize
    /\ Conclude(Settled)

CanRestore ==
    /\ AllKnownNoFill
    /\ Sees(pending_action.previous.qty, pending_action.previous.qty)

RestorePrevious ==
    /\ job.pc = "decide"
    /\ CanRestore
    /\ Conclude(pending_action.previous)

\* An AttributeError leaves reconcile() and the file as it was.
RaisesAttributeError ==
    /\ KeepsLayers
    /\ ~job.snap.active
    /\ legs["variational"] = "filled"
    /\ legs["lighter"] = "unsent"

Raise ==
    /\ job.pc = "decide"
    /\ RaisesAttributeError
    /\ job' = Idle
    /\ UNCHANGED <<file, venues, session, history>>

NotExactlyReconciled ==
    /\ job.pc = "decide"
    /\ ~(CanResumeOpen \/ CanResumeClose \/ CanResumePartialClose)
    /\ ~(CanFinalize \/ CanRestore \/ RaisesAttributeError)
    /\ ManualReview

-----------------------------------------------------------------------------
(* Environment *)

\* A venue executes a request: immediate-or-cancel, in full, in part or not
\* at all; reduce-only never executes more than the position.
Execute(o) ==
    LET v    == VenueOf(o.leg)
        room == IF ~o.reduce_only \/ o.qty <= exch[v] THEN o.qty
                ELSE IF exch[v] > 0 THEN exch[v] ELSE 0
    IN  \E done \in 0..room :
          /\ wire' = wire \ {o}
          /\ exch' = [exch EXCEPT ![v] = IF o.exits THEN @ - done ELSE @ + done]
          /\ fate' = IF o.orphan THEN fate
                     ELSE [fate EXCEPT ![o.leg] = IF done = o.qty THEN "filled"
                                                  ELSE IF done = 0 THEN "no_fill"
                                                  ELSE "partial"]
          /\ UNCHANGED <<file, job, session, history>>

\* Two seconds pass since the quote or book of the current context.
QuoteExpires ==
    /\ job.fresh
    /\ job' = [job EXCEPT !.fresh = FALSE]
    /\ UNCHANGED <<file, venues, session, history>>

OfPastSession(position) == [position EXCEPT !.live = FALSE]

\* The entry cutoff and the close of a session do not come back; the next
\* session has another identity, and no context outlives the break.
SessionMoves ==
    /\ session' = CASE session = "open"   -> "cutoff"
                    [] session = "cutoff" -> "closed"
                    [] session = "closed" -> "open"
    /\ IF session = "closed"
       THEN /\ pending_action' = [pending_action EXCEPT !.live = FALSE,
                                                        !.previous = OfPastSession(@)]
            /\ open_position' = OfPastSession(open_position)
            /\ job' = [job EXCEPT !.fresh = FALSE]
       ELSE UNCHANGED <<pending_action, open_position, job>>
    /\ UNCHANGED <<status, legs, venues, history>>

ForcedReduction ==
    /\ reductions < MaxReductions
    /\ reductions' = reductions + 1
    /\ \E v \in Venue : \E left \in 0..(exch[v] - 1) : exch' = [exch EXCEPT ![v] = left]
    /\ UNCHANGED <<file, job, wire, fate, session, sends, refused, crashes>>

Crash ==
    /\ job.pc # "idle"
    /\ crashes < MaxCrashes
    /\ crashes' = crashes + 1
    /\ job' = Idle
    /\ UNCHANGED <<file, venues, session, sends, refused, reductions>>

-----------------------------------------------------------------------------

SubmitStep ==
    \/ FreshQuote \/ NoFreshQuote \/ PersistLeg \/ StartSubmission \/ GuardBlocks
    \/ Dispatch \/ RejectedBeforeSend \/ DispatchRefused \/ LostBeforeSend \/ Reply

FollowStep == HedgeNext \/ Compensate \/ ReadAfter \/ Settle \/ StopForReview

DecideStep ==
    \/ ReadAccount \/ AccountUnavailable \/ ResumeHedge \/ Finalize
    \/ RestorePrevious \/ Raise \/ NotExactlyReconciled

ProcessStep == SubmitStep \/ FollowStep \/ DecideStep

Next ==
    \/ \E size \in Sizes, gradient \in BOOLEAN : BeginOpen(size, gradient)
    \/ \E expected \in 0..MaxPosition : BeginClose(expected)
    \/ ClaimMismatch
    \/ LookUpOrders
    \/ ProcessStep
    \/ \E o \in wire : Execute(o)
    \/ QuoteExpires
    \/ SessionMoves
    \/ ForcedReduction
    \/ Crash

Spec == Init /\ [][Next]_vars

\* A process inside an operation is never suspended for good (every gateway
\* call has a timeout), sessions come and go, and the runtime loop reconciles
\* a pending action again and again while samples are valid.
FairSpec ==
    /\ Spec
    /\ WF_vars(ProcessStep)
    /\ WF_vars(SessionMoves)
    /\ SF_vars(LookUpOrders)

-----------------------------------------------------------------------------
(* Properties *)

Position == [qty : Nat, live : BOOLEAN]
Action   == [kind : {"none", "open", "close"}, previous : Position,
             expected : Nat, live : BOOLEAN]
Snapshot == [variational : Int, lighter : Int, active : BOOLEAN]
Order    == [leg : Leg, qty : Nat, exits : BOOLEAN, reduce_only : BOOLEAN,
             orphan : BOOLEAN]
Job      == [pc : {"idle", "quote", "persist", "guard", "send", "await",
                   "answered", "settle", "read", "decide"},
             leg : Leg, flow : {"direct", "recover"}, fresh : BOOLEAN,
             snap : Snapshot]

\* Every variable holds a value of its kind.
TypeOK ==
    /\ status \in Status
    /\ open_position \in Position
    /\ pending_action \in Action
    /\ legs \in [Leg -> LegState]
    /\ job \in Job
    /\ wire \subseteq Order
    /\ fate \in [Leg -> {"none", "flying"} \cup Terminal]
    /\ exch \in [Venue -> Int]
    /\ session \in {"open", "cutoff", "closed"}
    /\ sends \in [Leg -> Nat]
    /\ refused \subseteq Leg
    /\ crashes \in Nat
    /\ reductions \in Nat

\* A leg is put on the wire at most once in the life of its action, whatever
\* crashes, restarts, recoveries and unknown replies come in between.
SentAtMostOnce == \A l \in Leg : sends[l] <= 1

\* An unresolved leg blocks all new requests: never two orders of the
\* coordinator on their way at once, and none outlives the action it is for.
UnresolvedOrderBlocks ==
    /\ \A o, p \in wire : o = p
    /\ \A o \in wire : ~o.orphan

\* While the file says flat or open, both venues hold exactly the recorded
\* position: an unhedged quantity is always under a pending action.
ClaimIsTrue ==
    status \in {"flat", "open"} =>
        \A v \in Venue : exch[v] = open_position.qty

\* Closing and compensating requests never turn a position round, also when
\* the venue reduced it behind the coordinator's back.
NeverReversed == \A v \in Venue : exch[v] >= 0

\* What the venues hold follows the promise of PairPosition: Lighter moves
\* only behind a complete Variational leg, Variational comes back only while
\* Lighter has not moved, and an action ends hedged at its start or its goal.
Promise ==
    INSTANCE PairPosition WITH
        moving <- Pending,
        have   <- IF Pending THEN pending_action.previous.qty ELSE open_position.qty,
        goal   <- IF Pending THEN pending_action.expected ELSE open_position.qty,
        var    <- exch["variational"],
        lit    <- exch["lighter"]
VariationalFirst == Promise!PositionSpec

\* An order the gateway reported as never sent is known to the coordinator
\* as a terminal no-fill.
NoOrderConfirmedIsTerminal == \A l \in refused : legs[l] = "no_fill"

\* A crash or an unknown reply leaves the file in "pending" for a while only:
\* reconciliation settles the action or hands it to an operator.
PendingIsDecided == status = "pending" ~> status # "pending"

\* A Lighter leg of a partial close that was persisted and provably never
\* sent is resumed, or handed to an operator.
UnsentPartialLegIsResumed ==
    status = "pending" /\ job.pc = "idle" /\ KeepsLayers
        /\ legs["variational"] = "filled" /\ legs["lighter"] = "unsent"
      ~> status # "pending" \/ legs["lighter"] # "unsent"
=============================================================================
