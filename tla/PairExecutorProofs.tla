------------------------- MODULE PairExecutorProofs -------------------------
(***************************************************************************)
(* What holds of PairExecutor for every set of sizes and every bound.      *)
(*                                                                         *)
(* SentAtMostOnce is not inductive: that a leg about to be sent was never  *)
(* sent before follows from what the file says of it, and that in turn     *)
(* from where the process is.  SendInv adds the missing facts; TypeOK      *)
(* needs the direction of an action (ActionShape) for the quantity of its  *)
(* orders to be a natural number.                                          *)
(***************************************************************************)
EXTENDS PairExecutor, TLAPS

\* An action moves the position away from where it is, in its direction.
ActionShape ==
    /\ pending_action.kind = "open"  => pending_action.expected > pending_action.previous.qty
    /\ pending_action.kind = "close" => pending_action.expected < pending_action.previous.qty

\* Without an action the file names no leg and the process does nothing.
RestShape == ~Pending => legs = NoLegs /\ job.pc = "idle"

TypeInv == TypeOK /\ ActionShape /\ RestShape

\* The file never calls a leg unsent that was on the wire.
FileRemembersSends == \A l \in Leg : legs[l] \in NotSent => sends[l] = 0

\* Before its submission is recorded, the leg in hand was never sent ...
BeforeSubmission ==
    job.pc \in {"quote", "persist", "guard"} => legs[job.leg] \in NotSent

\* ... and neither is it, until the gateway sends it.
AtSubmission ==
    job.pc = "send" => sends[job.leg] = 0 /\ legs[job.leg] = "started"

\* The second leg and the compensation come after the leg in hand.
LaterLegs ==
    job.pc \in {"quote", "persist", "guard", "send", "await", "answered"} =>
        /\ job.leg = "variational" => legs["lighter"] \in NotSent
        /\ job.flow = "direct" /\ job.leg # "compensation" =>
               legs["compensation"] \in NotSent
        /\ job.leg = "variational" => job.flow = "direct"

\* Only reconciliation reads and decides, and it never compensates.
RecoveryFlow == job.pc \in {"read", "decide"} => job.flow = "recover"

SendInv ==
    /\ SentAtMostOnce
    /\ FileRemembersSends
    /\ BeforeSubmission
    /\ AtSubmission
    /\ LaterLegs
    /\ RecoveryFlow

-----------------------------------------------------------------------------
(* Types *)

\* A snapshot of integer positions is a record of integers.
LEMMA SnapshotsAreTyped == ASSUME exch \in [Venue -> Int]
                           PROVE  Snapshots \subseteq Snapshot
  BY DEF Snapshots, Snapshot, Venue

LEMMA OrphansAreOrders == ASSUME NEW o \in Order PROVE Orphaned(o) \in Order
  BY DEF Order, Orphaned

\* Handing over to an operator keeps the file and empties the process.
LEMMA ManualReviewKeepsTypes == ASSUME TypeInv, ManualReview
                                PROVE  TypeInv'
  BY DEF TypeInv, TypeOK, ActionShape, RestShape, Pending, ManualReview, Start, Idle, Job,
         NoSnapshot, Snapshot, Leg, Status, venues, history

\* Concluding an action leaves a file at rest.
LEMMA ConcludeKeepsTypes ==
    ASSUME TypeInv, NEW position \in Position, Conclude(position)
    PROVE  TypeInv'
<1>1. wire' \subseteq Order
  BY OrphansAreOrders DEF Conclude, TypeInv, TypeOK
<1>2. job' \in Job /\ job'.pc = "idle"
  BY DEF Conclude, Start, Idle, Job, NoSnapshot, Snapshot, Leg
<1>3. legs' = NoLegs /\ legs' \in [Leg -> LegState]
  BY DEF Conclude, NoLegs, LegState
<1>4. fate' \in [Leg -> {"none", "flying"} \cup Terminal]
  BY DEF Conclude, NoFate
<1>5. pending_action' = NoAction /\ pending_action' \in Action
  BY DEF Conclude, NoAction, NoPosition, Action, Position
<1>6. sends' \in [Leg -> Nat] /\ refused' \subseteq Leg
  BY DEF Conclude
<1>7. /\ status' \in Status /\ open_position' \in Position
      /\ UNCHANGED <<exch, session, crashes, reductions>>
  BY DEF Conclude, Status
<1> QED
  BY <1>1, <1>2, <1>3, <1>4, <1>5, <1>6, <1>7
  DEF TypeInv, TypeOK, ActionShape, RestShape, NoAction

LEMMA TypesInitially == Init => TypeInv
  BY DEF Init, TypeInv, TypeOK, ActionShape, RestShape, Pending, NoPosition, NoAction,
         NoLegs, NoFate, NoSnapshot, Start, Idle, Status, Position, Action, Snapshot, Job,
         LegState, Leg, Venue

\* Opening or closing starts an action of its own direction.
LEMMA BeginKeepsTypes ==
    ASSUME TypeInv, NEW kind \in {"open", "close"}, NEW expected \in Nat,
           kind = "open" => expected > open_position.qty,
           kind = "close" => expected < open_position.qty,
           Begin(kind, expected), job' \in Job
    PROVE  TypeInv'
<1>1. pending_action' \in Action
  BY DEF Begin, TypeInv, TypeOK, Action
<1>2. /\ pending_action'.kind = kind /\ pending_action'.expected = expected
      /\ pending_action'.previous = open_position
  BY DEF Begin
<1> QED
  BY <1>1, <1>2 DEF Begin, TypeInv, TypeOK, ActionShape, RestShape, Pending, Status,
                    venues, history

LEMMA OpenKeepsTypes ==
    ASSUME TypeInv, NEW size \in Sizes, NEW gradient \in BOOLEAN, BeginOpen(size, gradient)
    PROVE  TypeInv'
<1>1. size \in Nat /\ size > 0
  BY SizesAssumption
<1>2. open_position.qty \in Nat
  BY DEF TypeInv, TypeOK, Position
<1>3. job' \in Job
  BY DEF BeginOpen, Start, Job, NoSnapshot, Snapshot, Leg
<1>4. Begin("open", open_position.qty + size)
  BY DEF BeginOpen
<1> QED
  BY <1>1, <1>2, <1>3, <1>4, BeginKeepsTypes

LEMMA CloseKeepsTypes ==
    ASSUME TypeInv, NEW expected \in 0..MaxPosition, BeginClose(expected)
    PROVE  TypeInv'
<1>1. expected \in Nat
  BY BoundsAssumption
<1>2. expected < open_position.qty
  BY DEF BeginClose
<1>3. job' \in Job
  BY DEF BeginClose, Start, Job, NoSnapshot, Snapshot, Leg
<1>4. Begin("close", expected)
  BY DEF BeginClose
<1> QED
  BY <1>1, <1>2, <1>3, <1>4, BeginKeepsTypes

\* Steps of a process inside an operation keep the position, the action and
\* the history; what is left to show is the leg, the process and the wire.
LEMMA InsideKeepsTypes ==
    ASSUME TypeInv, job.pc # "idle",
           UNCHANGED <<status, open_position, pending_action, exch, session,
                       crashes, reductions>>,
           legs' \in [Leg -> LegState], job' \in Job, wire' \subseteq Order,
           fate' \in [Leg -> {"none", "flying"} \cup Terminal],
           sends' \in [Leg -> Nat], refused' \subseteq Leg
    PROVE  TypeInv'
  BY DEF TypeInv, TypeOK, ActionShape, RestShape, Pending

LEMMA SubmitKeepsTypes == ASSUME TypeInv, SubmitStep PROVE TypeInv'
<1> USE DEF TypeInv, TypeOK, file, venues, history
<1>1. CASE FreshQuote
  BY <1>1, InsideKeepsTypes DEF FreshQuote, Job
<1>2. CASE NoFreshQuote
  BY <1>2, ManualReviewKeepsTypes DEF NoFreshQuote
<1>3. CASE PersistLeg
  BY <1>3, InsideKeepsTypes DEF PersistLeg, SetLeg, Enter, Job, LegState
<1>4. CASE StartSubmission
  BY <1>4, InsideKeepsTypes DEF StartSubmission, SetLeg, Enter, Job, LegState
<1>5. CASE GuardBlocks
  BY <1>5, InsideKeepsTypes, ManualReviewKeepsTypes DEF GuardBlocks, SetLeg, Enter, Job, LegState
<1>6. CASE Dispatch
  <2>1. Pending
    BY <1>6 DEF Dispatch, RestShape
  <2>2. OrderQty \in Nat
    BY <2>1 DEF OrderQty, Pending, ActionShape, Action, Position
  <2>3. [leg |-> job.leg, qty |-> OrderQty, exits |-> Exits(job.leg),
         reduce_only |-> ReduceOnly(job.leg), orphan |-> FALSE] \in Order
    BY <2>2 DEF Order, Exits, ReduceOnly, Job
  <2>4. wire' \subseteq Order
    BY <1>6, <2>3 DEF Dispatch
  <2> QED
    BY <1>6, <2>4, InsideKeepsTypes DEF Dispatch, Enter, Job
<1>7. CASE RejectedBeforeSend
  BY <1>7, InsideKeepsTypes
  DEF RejectedBeforeSend, Unanswered, SetLeg, Enter, Job, LegState
<1>8. CASE DispatchRefused
  BY <1>8, InsideKeepsTypes DEF DispatchRefused, Unanswered, SetLeg, Enter, Job, LegState
<1>9. CASE LostBeforeSend
  BY <1>9, InsideKeepsTypes DEF LostBeforeSend, Unanswered, SetLeg, Enter, Job, LegState
<1>10. CASE Reply
  BY <1>10, InsideKeepsTypes DEF Reply, SetLeg, Enter, Job, LegState, Terminal
<1> QED
  BY <1>1, <1>2, <1>3, <1>4, <1>5, <1>6, <1>7, <1>8, <1>9, <1>10 DEF SubmitStep

LEMMA SettledIsAPosition == ASSUME TypeInv PROVE Settled \in Position
  BY DEF TypeInv, TypeOK, Settled, NoPosition, Action, Position

LEMMA FollowKeepsTypes == ASSUME TypeInv, FollowStep PROVE TypeInv'
<1> USE DEF TypeInv, TypeOK, file, venues, history
<1>1. CASE HedgeNext
  BY <1>1, InsideKeepsTypes DEF HedgeNext, Job, Leg
<1>2. CASE Compensate
  BY <1>2, InsideKeepsTypes DEF Compensate, Job, Leg
<1>3. CASE ReadAfter
  BY <1>3, InsideKeepsTypes, SnapshotsAreTyped DEF ReadAfter, Job
<1>4. CASE Settle
  <2>1. pending_action.previous \in Position
    BY DEF Action
  <2> QED
    BY <1>4, <2>1, SettledIsAPosition, ConcludeKeepsTypes DEF Settle
<1>5. CASE StopForReview
  BY <1>5, ManualReviewKeepsTypes DEF StopForReview
<1> QED
  BY <1>1, <1>2, <1>3, <1>4, <1>5 DEF FollowStep

LEMMA DecideKeepsTypes == ASSUME TypeInv, DecideStep PROVE TypeInv'
<1> USE DEF TypeInv, TypeOK, file, venues, history
<1>1. CASE ReadAccount
  BY <1>1, InsideKeepsTypes, SnapshotsAreTyped DEF ReadAccount, Job
<1>2. CASE AccountUnavailable
  BY <1>2, ManualReviewKeepsTypes DEF AccountUnavailable
<1>3. CASE ResumeHedge
  BY <1>3, InsideKeepsTypes DEF ResumeHedge, Job, Leg
<1>4. CASE Finalize
  BY <1>4, SettledIsAPosition, ConcludeKeepsTypes DEF Finalize
<1>5. CASE RestorePrevious
  BY <1>5, ConcludeKeepsTypes DEF RestorePrevious, Action
<1>6. CASE Raise
  <2>1. job' \in Job
    BY <1>6 DEF Raise, Start, Idle, Job, NoSnapshot, Snapshot, Leg
  <2> QED
    BY <1>6, <2>1, InsideKeepsTypes DEF Raise
<1>7. CASE NotExactlyReconciled
  BY <1>7, ManualReviewKeepsTypes DEF NotExactlyReconciled
<1> QED
  BY <1>1, <1>2, <1>3, <1>4, <1>5, <1>6, <1>7 DEF DecideStep

LEMMA LookUpKeepsTypes == ASSUME TypeInv, LookUpOrders PROVE TypeInv'
<1> USE DEF TypeInv, TypeOK, file, venues, history
<1>1. \A l \in Leg : LookupResults(l) \subseteq LegState
  BY DEF LookupResults, LegState, Terminal
<1>2. legs' \in [Leg -> LegState]
  BY <1>1 DEF LookUpOrders, Leg
<1>3. job' \in Job
  BY DEF LookUpOrders, Start, Job, NoSnapshot, Snapshot, Leg
<1> QED
  BY <1>2, <1>3 DEF LookUpOrders, RestShape, ActionShape, Pending

\* The venues, time and the operating system.
EnvironmentStep ==
    \/ \E o \in wire : Execute(o)
    \/ QuoteExpires \/ SessionMoves \/ ForcedReduction \/ Crash

LEMMA ExecuteKeepsTypes == ASSUME TypeInv, NEW o \in wire, Execute(o) PROVE TypeInv'
<1> USE DEF TypeInv, TypeOK, file, history
<1>1. /\ o.qty \in Nat /\ o.leg \in Leg
      /\ o.orphan \in BOOLEAN /\ o.exits \in BOOLEAN /\ o.reduce_only \in BOOLEAN
  BY DEF Order
<1> DEFINE v    == VenueOf(o.leg)
           room == IF ~o.reduce_only \/ o.qty <= exch[v] THEN o.qty
                   ELSE IF exch[v] > 0 THEN exch[v] ELSE 0
<1>2. v \in Venue /\ exch[v] \in Int
  BY DEF VenueOf, Venue
<1>3. room \in Nat
  BY <1>1, <1>2
<1>4. PICK done \in 0..room :
         /\ wire' = wire \ {o}
         /\ exch' = [exch EXCEPT ![v] = IF o.exits THEN @ - done ELSE @ + done]
         /\ fate' = IF o.orphan THEN fate
                    ELSE [fate EXCEPT ![o.leg] = IF done = o.qty THEN "filled"
                                                 ELSE IF done = 0 THEN "no_fill"
                                                 ELSE "partial"]
         /\ UNCHANGED <<file, job, session, history>>
  BY DEF Execute
<1>5. done \in Int
  BY <1>3
<1>6. exch' \in [Venue -> Int]
  BY <1>1, <1>2, <1>4, <1>5
<1>7. fate' \in [Leg -> {"none", "flying"} \cup Terminal]
  BY <1>1, <1>4 DEF Terminal
<1> QED
  BY <1>4, <1>6, <1>7 DEF RestShape, ActionShape, Pending

LEMMA PastSessionKeepsQuantity ==
    ASSUME NEW position \in Position
    PROVE  OfPastSession(position) \in Position /\ OfPastSession(position).qty = position.qty
  BY DEF OfPastSession, Position

LEMMA SessionKeepsTypes == ASSUME TypeInv, SessionMoves PROVE TypeInv'
<1> USE DEF TypeInv, TypeOK, venues, history
<1>1. session' \in {"open", "cutoff", "closed"}
  BY DEF SessionMoves
<1>2. CASE session = "closed"
  <2>1. /\ pending_action' \in Action
        /\ pending_action'.kind = pending_action.kind
        /\ pending_action'.expected = pending_action.expected
        /\ pending_action'.previous.qty = pending_action.previous.qty
    BY <1>2, PastSessionKeepsQuantity DEF SessionMoves, Action
  <2>2. open_position' \in Position
    BY <1>2, PastSessionKeepsQuantity DEF SessionMoves
  <2>3. job' \in Job /\ job'.pc = job.pc
    BY <1>2 DEF SessionMoves, Job
  <2> QED
    BY <1>1, <1>2, <2>1, <2>2, <2>3 DEF SessionMoves, RestShape, ActionShape, Pending
<1>3. CASE session # "closed"
  BY <1>1, <1>3 DEF SessionMoves, RestShape, ActionShape, Pending
<1> QED
  BY <1>2, <1>3

LEMMA EnvironmentKeepsTypes == ASSUME TypeInv, EnvironmentStep PROVE TypeInv'
<1> USE DEF TypeInv, TypeOK, file, venues, history
<1>1. CASE \E o \in wire : Execute(o)
  BY <1>1, ExecuteKeepsTypes
<1>2. CASE QuoteExpires
  BY <1>2 DEF QuoteExpires, Job, RestShape, ActionShape, Pending
<1>3. CASE SessionMoves
  BY <1>3, SessionKeepsTypes
<1>4. CASE ForcedReduction
  BY <1>4 DEF ForcedReduction, RestShape, ActionShape, Pending
<1>5. CASE Crash
  <2>1. job' \in Job /\ job'.pc = "idle"
    BY <1>5 DEF Crash, Start, Idle, Job, NoSnapshot, Snapshot, Leg
  <2> QED
    BY <1>5, <2>1 DEF Crash, RestShape, ActionShape, Pending
<1> QED
  BY <1>1, <1>2, <1>3, <1>4, <1>5 DEF EnvironmentStep

LEMMA EveryStepKeepsTypes == ASSUME TypeInv, [Next]_vars PROVE TypeInv'
<1>1. CASE \E size \in Sizes, gradient \in BOOLEAN : BeginOpen(size, gradient)
  BY <1>1, OpenKeepsTypes
<1>2. CASE \E expected \in 0..MaxPosition : BeginClose(expected)
  BY <1>2, CloseKeepsTypes
<1>3. CASE ClaimMismatch
  BY <1>3, ManualReviewKeepsTypes DEF ClaimMismatch
<1>4. CASE LookUpOrders
  BY <1>4, LookUpKeepsTypes
<1>5. CASE ProcessStep
  BY <1>5, SubmitKeepsTypes, FollowKeepsTypes, DecideKeepsTypes DEF ProcessStep
<1>6. CASE EnvironmentStep
  BY <1>6, EnvironmentKeepsTypes
<1>7. CASE UNCHANGED vars
  BY <1>7 DEF vars, file, venues, history, TypeInv, TypeOK, ActionShape, RestShape, Pending
<1> QED
  BY <1>1, <1>2, <1>3, <1>4, <1>5, <1>6, <1>7 DEF Next, EnvironmentStep

\* The variables of the coordinator keep their kinds, and an action its
\* direction: an open grows the position, a close shrinks it.
THEOREM TypeCorrect == Spec => [](TypeOK /\ ActionShape)
<1>1. Init => TypeInv
  BY TypesInitially
<1>2. TypeInv /\ [Next]_vars => TypeInv'
  BY EveryStepKeepsTypes
<1>3. TypeInv => TypeOK /\ ActionShape
  BY DEF TypeInv
<1> QED
  BY <1>1, <1>2, <1>3, PTL DEF Spec

-----------------------------------------------------------------------------
(* A leg is sent at most once *)

LEMMA SendsInitially == Init => SendInv
  BY DEF Init, SendInv, SentAtMostOnce, FileRemembersSends, BeforeSubmission, AtSubmission,
         LaterLegs, RecoveryFlow, NoLegs, NotSent, Start, Idle

\* A step that leaves legs and sends alone and does not take a leg in hand.
LEMMA NoLegInHand ==
    ASSUME SendInv, UNCHANGED <<legs, sends>>,
           job'.pc \notin {"quote", "persist", "guard", "send", "await", "answered"},
           job'.pc \in {"read", "decide"} => job'.flow = "recover"
    PROVE  SendInv'
  BY DEF SendInv, SentAtMostOnce, FileRemembersSends, BeforeSubmission, AtSubmission, LaterLegs, RecoveryFlow

\* A step that leaves legs, sends and the leg in hand alone.
LEMMA SameLegInHand ==
    ASSUME SendInv, UNCHANGED <<legs, sends>>,
           job'.pc = job.pc, job'.leg = job.leg, job'.flow = job.flow
    PROVE  SendInv'
  BY DEF SendInv, SentAtMostOnce, FileRemembersSends, BeforeSubmission, AtSubmission, LaterLegs, RecoveryFlow

LEMMA ManualReviewKeepsSends == ASSUME SendInv, ManualReview PROVE SendInv'
  BY NoLegInHand DEF ManualReview, Start, Idle, history

LEMMA ConcludeKeepsSends ==
    ASSUME NEW position, Conclude(position)
    PROVE  SendInv'
  BY DEF Conclude, SendInv, SentAtMostOnce, FileRemembersSends, BeforeSubmission,
         AtSubmission, LaterLegs, RecoveryFlow, NoLegs, NotSent, Start, Idle

\* A new action begins with no leg recorded and none in hand but the first.
LEMMA BeginKeepsSends ==
    ASSUME TypeInv, SendInv, ~Pending, UNCHANGED <<legs, sends>>,
           job'.leg = "variational", job'.flow = "direct", job'.pc \in {"quote", "persist"}
    PROVE  SendInv'
<1>1. \A l \in Leg : legs[l] \in NotSent
  BY DEF TypeInv, RestShape, NoLegs, NotSent
<1> QED
  BY <1>1 DEF SendInv, SentAtMostOnce, FileRemembersSends, BeforeSubmission, AtSubmission,
              LaterLegs, RecoveryFlow, Leg

LEMMA SubmitKeepsSends == ASSUME TypeInv, SendInv, SubmitStep PROVE SendInv'
<1> USE DEF file, venues, history, Enter, SetLeg
<1>0. /\ legs \in [Leg -> LegState] /\ job \in Job /\ job.leg \in Leg
      /\ sends \in [Leg -> Nat]
  BY DEF TypeInv, TypeOK, Job
<1>1. CASE FreshQuote
  BY <1>0, <1>1 DEF FreshQuote, Job, SendInv, SentAtMostOnce, FileRemembersSends,
                    BeforeSubmission, AtSubmission, LaterLegs, RecoveryFlow
<1>2. CASE NoFreshQuote
  BY <1>2, ManualReviewKeepsSends DEF NoFreshQuote
<1>3. CASE PersistLeg
  BY <1>0, <1>3 DEF PersistLeg, Job, NotSent, SendInv, SentAtMostOnce, FileRemembersSends,
                    BeforeSubmission, AtSubmission, LaterLegs, RecoveryFlow
<1>4. CASE StartSubmission
  BY <1>0, <1>4 DEF StartSubmission, Job, NotSent, SendInv, SentAtMostOnce,
                    FileRemembersSends, BeforeSubmission, AtSubmission, LaterLegs, RecoveryFlow
<1>5. CASE GuardBlocks
  <2>1. CASE job.leg = "compensation"
    BY <1>5, <2>1, ManualReviewKeepsSends DEF GuardBlocks
  <2>2. CASE job.leg # "compensation"
    <3>1. /\ legs' = [legs EXCEPT ![job.leg] = "guarded"]
          /\ job' = [job EXCEPT !.pc = "answered"]
          /\ sends' = sends
          /\ job.pc = "guard"
      BY <1>5, <2>2 DEF GuardBlocks
    <3>2. sends[job.leg] = 0
      BY <1>0, <3>1 DEF SendInv, BeforeSubmission, FileRemembersSends
    <3> QED
      BY <1>0, <3>1, <3>2 DEF Job, NotSent, SendInv, SentAtMostOnce, FileRemembersSends,
         BeforeSubmission, AtSubmission, LaterLegs, RecoveryFlow
  <2> QED
    BY <2>1, <2>2
<1>6. CASE Dispatch
  <2>1. /\ sends' = [sends EXCEPT ![job.leg] = @ + 1] /\ legs' = legs
        /\ job' = [job EXCEPT !.pc = "await"]
    BY <1>6 DEF Dispatch
  <2>2. sends[job.leg] = 0 /\ legs[job.leg] \notin NotSent
    BY <1>6 DEF Dispatch, SendInv, AtSubmission, NotSent
  <2> QED
    BY <1>0, <1>6, <2>1, <2>2 DEF Dispatch, Job, SendInv, SentAtMostOnce,
       FileRemembersSends, BeforeSubmission, AtSubmission, LaterLegs, RecoveryFlow
<1>7. ASSUME NEW result \in {"unknown", "no_fill"}, Unanswered(result) PROVE SendInv'
  BY <1>0, <1>7 DEF Unanswered, Job, NotSent, SendInv, SentAtMostOnce, FileRemembersSends,
                    BeforeSubmission, AtSubmission, LaterLegs, RecoveryFlow
<1>8. CASE RejectedBeforeSend \/ DispatchRefused \/ LostBeforeSend
  BY <1>7, <1>8 DEF RejectedBeforeSend, DispatchRefused, LostBeforeSend
<1>9. CASE Reply
  <2>1. PICK result \in {"unknown"} \cup Terminal : legs' = [legs EXCEPT ![job.leg] = result]
    BY <1>9 DEF Reply
  <2>2. result \notin NotSent
    BY DEF NotSent, Terminal
  <2> QED
    BY <1>0, <1>9, <2>1, <2>2 DEF Reply, Job, SendInv, SentAtMostOnce, FileRemembersSends,
       BeforeSubmission, AtSubmission, LaterLegs, RecoveryFlow
<1> QED
  BY <1>1, <1>2, <1>3, <1>4, <1>5, <1>6, <1>8, <1>9 DEF SubmitStep

LEMMA FollowKeepsSends == ASSUME TypeInv, SendInv, FollowStep PROVE SendInv'
<1> USE DEF file, venues, history
<1>0. job \in Job
  BY DEF TypeInv, TypeOK
<1>1. CASE HedgeNext
  BY <1>0, <1>1 DEF HedgeNext, Job, SendInv, SentAtMostOnce, FileRemembersSends,
                    BeforeSubmission, AtSubmission, LaterLegs, RecoveryFlow
<1>2. CASE Compensate
  BY <1>0, <1>2 DEF Compensate, CompensationDue, Job, SendInv, SentAtMostOnce,
                    FileRemembersSends, BeforeSubmission, AtSubmission, LaterLegs, RecoveryFlow
<1>3. CASE ReadAfter
  BY <1>0, <1>3, NoLegInHand DEF ReadAfter, Job
<1>4. CASE Settle
  BY <1>4, ConcludeKeepsSends DEF Settle
<1>5. CASE StopForReview
  BY <1>5, ManualReviewKeepsSends DEF StopForReview
<1> QED
  BY <1>1, <1>2, <1>3, <1>4, <1>5 DEF FollowStep

LEMMA DecideKeepsSends == ASSUME TypeInv, SendInv, DecideStep PROVE SendInv'
<1> USE DEF file, venues, history
<1>0. job \in Job
  BY DEF TypeInv, TypeOK
<1>1. CASE ReadAccount
  BY <1>0, <1>1, NoLegInHand DEF ReadAccount, Job, SendInv, RecoveryFlow
<1>2. CASE AccountUnavailable \/ NotExactlyReconciled
  BY <1>2, ManualReviewKeepsSends DEF AccountUnavailable, NotExactlyReconciled
<1>3. CASE ResumeHedge
  <2>1. legs["lighter"] \in NotSent
    BY <1>3 DEF ResumeHedge, CanResumeOpen, CanResumeClose, CanResumePartialClose, NotSent
  <2> QED
    BY <1>0, <1>3, <2>1 DEF ResumeHedge, Job, SendInv, SentAtMostOnce, FileRemembersSends,
       BeforeSubmission, AtSubmission, LaterLegs, RecoveryFlow
<1>4. CASE Finalize \/ RestorePrevious
  BY <1>4, ConcludeKeepsSends DEF Finalize, RestorePrevious
<1>5. CASE Raise
  BY <1>5, NoLegInHand DEF Raise, Start, Idle
<1> QED
  BY <1>1, <1>2, <1>3, <1>4, <1>5 DEF DecideStep

\* A lookup turns a leg that was started into unknown or terminal, and
\* leaves one that was not as it is.
LEMMA LookUpKeepsSends == ASSUME TypeInv, SendInv, LookUpOrders PROVE SendInv'
<1>1. \A l \in Leg : \A r \in LookupResults(l) : r \in NotSent => legs[l] \in NotSent
  BY DEF LookupResults, NotSent, Terminal
<1>2. legs \in [Leg -> LegState]
  BY DEF TypeInv, TypeOK
<1>3. \A l \in Leg : legs'[l] \in NotSent => legs[l] \in NotSent
  BY <1>1, <1>2 DEF LookUpOrders, Leg
<1>4. sends' = sends /\ job'.pc = "read" /\ job'.flow = "recover"
  BY DEF LookUpOrders, Start, history
<1> QED
  BY <1>3, <1>4 DEF SendInv, SentAtMostOnce, FileRemembersSends, BeforeSubmission,
                    AtSubmission, LaterLegs, RecoveryFlow

LEMMA EnvironmentKeepsSends == ASSUME TypeInv, SendInv, EnvironmentStep PROVE SendInv'
<1> USE DEF file, venues, history
<1>0. job \in Job
  BY DEF TypeInv, TypeOK
<1>1. CASE \E o \in wire : Execute(o)
  BY <1>1, SameLegInHand DEF Execute
<1>2. CASE QuoteExpires
  BY <1>0, <1>2, SameLegInHand DEF QuoteExpires, Job
<1>3. CASE SessionMoves
  BY <1>0, <1>3, SameLegInHand DEF SessionMoves, Job
<1>4. CASE ForcedReduction
  BY <1>4, SameLegInHand DEF ForcedReduction
<1>5. CASE Crash
  BY <1>5, NoLegInHand DEF Crash, Start, Idle
<1> QED
  BY <1>1, <1>2, <1>3, <1>4, <1>5 DEF EnvironmentStep

LEMMA EveryStepKeepsSends == ASSUME TypeInv, SendInv, [Next]_vars PROVE SendInv'
<1> USE DEF file, venues, history
<1>1. CASE \E size \in Sizes, gradient \in BOOLEAN : BeginOpen(size, gradient)
  BY <1>1, BeginKeepsSends DEF BeginOpen, Begin, Start
<1>2. CASE \E expected \in 0..MaxPosition : BeginClose(expected)
  BY <1>2, BeginKeepsSends DEF BeginClose, Begin, Start
<1>3. CASE ClaimMismatch
  BY <1>3, ManualReviewKeepsSends DEF ClaimMismatch
<1>4. CASE LookUpOrders
  BY <1>4, LookUpKeepsSends
<1>5. CASE ProcessStep
  BY <1>5, SubmitKeepsSends, FollowKeepsSends, DecideKeepsSends DEF ProcessStep
<1>6. CASE EnvironmentStep
  BY <1>6, EnvironmentKeepsSends
<1>7. CASE UNCHANGED vars
  BY <1>7, SameLegInHand DEF vars
<1> QED
  BY <1>1, <1>2, <1>3, <1>4, <1>5, <1>6, <1>7 DEF Next, EnvironmentStep

\* Whatever crashes, restarts, recoveries and unknown replies come in
\* between, a leg of an action is on the wire at most once.
THEOREM NeverSentTwice == Spec => []SentAtMostOnce
<1>1. Init => TypeInv /\ SendInv
  BY TypesInitially, SendsInitially
<1>2. TypeInv /\ SendInv /\ [Next]_vars => TypeInv' /\ SendInv'
  BY EveryStepKeepsTypes, EveryStepKeepsSends
<1>3. SendInv => SentAtMostOnce
  BY DEF SendInv
<1> QED
  BY <1>1, <1>2, <1>3, PTL DEF Spec

-----------------------------------------------------------------------------
(* A position is never turned round *)

\* An order that takes from a position may not take more than there is.
ExitsReduceOnly == \A o \in wire : o.exits => o.reduce_only

ReverseInv == ExitsReduceOnly /\ NeverReversed

\* Orphaned orders keep their sides and flags.
LEMMA OrphansKeepFlags ==
    ASSUME NEW o \in Order
    PROVE  Orphaned(o).exits = o.exits /\ Orphaned(o).reduce_only = o.reduce_only
  BY DEF Order, Orphaned

LEMMA ConcludeKeepsSides ==
    ASSUME TypeInv, ReverseInv, NEW position, Conclude(position)
    PROVE  ReverseInv'
<1>1. wire \subseteq Order /\ wire' = {Orphaned(o) : o \in wire} /\ exch' = exch
  BY DEF TypeInv, TypeOK, Conclude
<1>2. ExitsReduceOnly'
  BY <1>1, OrphansKeepFlags DEF ReverseInv, ExitsReduceOnly
<1> QED
  BY <1>1, <1>2 DEF ReverseInv, NeverReversed

LEMMA DispatchKeepsSides ==
    ASSUME TypeInv, ReverseInv, Dispatch
    PROVE  ReverseInv'
<1> DEFINE new == [leg |-> job.leg, qty |-> OrderQty, exits |-> Exits(job.leg),
                   reduce_only |-> ReduceOnly(job.leg), orphan |-> FALSE]
<1>1. wire' = wire \cup {new} /\ exch' = exch
  BY DEF Dispatch
<1>2. new.exits => new.reduce_only
  BY DEF Exits, ReduceOnly
<1> QED
  BY <1>1, <1>2 DEF ReverseInv, ExitsReduceOnly, NeverReversed

\* An order that adds only adds; one that takes is held to the position.
LEMMA ExecuteKeepsSides ==
    ASSUME TypeInv, ReverseInv, NEW o \in wire, Execute(o)
    PROVE  ReverseInv'
<1> DEFINE v    == VenueOf(o.leg)
           room == IF ~o.reduce_only \/ o.qty <= exch[v] THEN o.qty
                   ELSE IF exch[v] > 0 THEN exch[v] ELSE 0
<1>1. PICK done \in 0..room :
         /\ wire' = wire \ {o}
         /\ exch' = [exch EXCEPT ![v] = IF o.exits THEN @ - done ELSE @ + done]
  BY DEF Execute
<1>2. exch \in [Venue -> Int] /\ v \in Venue /\ o.qty \in Nat /\ exch[v] >= 0
  BY DEF TypeInv, TypeOK, Order, VenueOf, Venue, ReverseInv, NeverReversed
<1>3. o.exits => room <= exch[v]
  BY <1>2 DEF ReverseInv, ExitsReduceOnly
<1>4. room \in Nat
  BY <1>2
<1>5. exch'[v] >= 0
  BY <1>1, <1>2, <1>3, <1>4
<1>6. \A w \in Venue : w # v => exch'[w] = exch[w]
  BY <1>1, <1>2
<1> QED
  BY <1>1, <1>5, <1>6 DEF ReverseInv, ExitsReduceOnly, NeverReversed

LEMMA EveryStepKeepsSides == ASSUME TypeInv, ReverseInv, [Next]_vars PROVE ReverseInv'
<1> USE DEF file, venues, history
<1>0. ASSUME UNCHANGED <<wire, exch>> PROVE ReverseInv'
  BY <1>0 DEF ReverseInv, ExitsReduceOnly, NeverReversed
<1>1. CASE SubmitStep
  <2>1. CASE Dispatch
    BY <2>1, DispatchKeepsSides
  <2>2. CASE ~Dispatch
    BY <1>0, <1>1, <2>2
    DEF SubmitStep, FreshQuote, NoFreshQuote, PersistLeg, StartSubmission, GuardBlocks,
        RejectedBeforeSend, DispatchRefused, LostBeforeSend, Unanswered, Reply, ManualReview
  <2> QED
    BY <2>1, <2>2
<1>2. CASE FollowStep \/ DecideStep
  <2>1. CASE \E position : Conclude(position)
    BY <2>1, ConcludeKeepsSides
  <2>2. CASE ~\E position : Conclude(position)
    BY <1>0, <1>2, <2>2
    DEF FollowStep, DecideStep, HedgeNext, Compensate, ReadAfter, Settle, StopForReview,
        ReadAccount, AccountUnavailable, ResumeHedge, Finalize, RestorePrevious, Raise,
        NotExactlyReconciled, ManualReview
  <2> QED
    BY <2>1, <2>2
<1>3. CASE \/ \E size \in Sizes, gradient \in BOOLEAN : BeginOpen(size, gradient)
           \/ \E expected \in 0..MaxPosition : BeginClose(expected)
           \/ ClaimMismatch \/ LookUpOrders \/ QuoteExpires \/ SessionMoves \/ UNCHANGED vars
  BY <1>0, <1>3
  DEF BeginOpen, BeginClose, Begin, ClaimMismatch, ManualReview, LookUpOrders, QuoteExpires,
      SessionMoves, vars
<1>4. CASE \E o \in wire : Execute(o)
  BY <1>4, ExecuteKeepsSides
<1>5. CASE ForcedReduction
  <2>1. PICK v \in Venue : \E left \in 0..(exch[v] - 1) : exch' = [exch EXCEPT ![v] = left]
    BY <1>5 DEF ForcedReduction
  <2>2. PICK left \in 0..(exch[v] - 1) : exch' = [exch EXCEPT ![v] = left]
    BY <2>1
  <2>3. exch \in [Venue -> Int] /\ left >= 0 /\ wire' = wire
    BY <1>5 DEF TypeInv, TypeOK, ForcedReduction
  <2> QED
    BY <2>2, <2>3 DEF ReverseInv, ExitsReduceOnly, NeverReversed
<1>6. CASE Crash
  BY <1>0, <1>6 DEF Crash
<1> QED
  BY <1>1, <1>2, <1>3, <1>4, <1>5, <1>6 DEF Next, ProcessStep

\* Whatever a venue takes from a position behind the coordinator's back,
\* closing and compensating never turn the position round.
THEOREM NeverTurnsRound == Spec => []NeverReversed
<1>1. Init => TypeInv /\ ReverseInv
  BY TypesInitially DEF Init, ReverseInv, ExitsReduceOnly, NeverReversed
<1>2. TypeInv /\ ReverseInv /\ [Next]_vars => TypeInv' /\ ReverseInv'
  BY EveryStepKeepsTypes, EveryStepKeepsSides
<1>3. ReverseInv => NeverReversed
  BY DEF ReverseInv
<1> QED
  BY <1>1, <1>2, <1>3, PTL DEF Spec

-----------------------------------------------------------------------------
(***************************************************************************)
(* The coordinator holds what it claims: when no venue reduces a position  *)
(* by itself, a file that says flat or open is true, no two orders are     *)
(* under way at once, and the venues move as PairPosition promises.        *)
(*                                                                         *)
(* The argument ties three things together: what the venues hold to what   *)
(* became of each leg (VenueInv), what became of a leg to what the file    *)
(* says of it (FileInv), and both to where the process is (JobInv).        *)
(***************************************************************************)

Have == pending_action.previous.qty
Goal == pending_action.expected

Partway(n) == (Have < n /\ n < Goal) \/ (Goal < n /\ n < Have)

\* Nobody can open any more under the session of the pending action.
EntryOver == ~(pending_action.live /\ session = "open")

Untouched == {"none", "flying", "no_fill"}

-----------------------------------------------------------------------------
(* The venues *)

\* An order under way is one of the pending action, as it was made.
OrdersInv ==
    \A o \in wire :
        /\ fate[o.leg] = "flying"
        /\ o.qty = OrderQty
        /\ o.exits = Exits(o.leg)
        /\ o.reduce_only = ReduceOnly(o.leg)
        /\ ~o.orphan

\* Lighter only behind a complete Variational leg, the compensation only
\* when Lighter has not traded.
LegOrder ==
    /\ fate["lighter"] # "none" => fate["variational"] = "filled"
    /\ fate["compensation"] # "none" =>
           /\ pending_action.kind = "open"
           /\ fate["variational"] = "filled"
           /\ fate["lighter"] \in {"none", "no_fill"}

HoldsLighter ==
    /\ fate["lighter"] \in Untouched => exch["lighter"] = Have
    /\ fate["lighter"] = "partial" => Partway(exch["lighter"])
    /\ fate["lighter"] = "filled" => exch["lighter"] = Goal

HoldsVariational ==
    /\ fate["variational"] \in Untouched => exch["variational"] = Have
    /\ fate["variational"] = "partial" => Partway(exch["variational"])
    /\ fate["variational"] = "filled" =>
           /\ fate["compensation"] \in Untouched => exch["variational"] = Goal
           /\ fate["compensation"] = "partial" => Partway(exch["variational"])
           /\ fate["compensation"] = "filled" => exch["variational"] = Have

AtRest ==
    /\ wire = {}
    /\ fate = NoFate
    /\ \A v \in Venue : exch[v] = open_position.qty

VenueInv ==
    /\ Pending => OrdersInv /\ LegOrder /\ HoldsLighter /\ HoldsVariational
    /\ ~Pending => AtRest

-----------------------------------------------------------------------------
(* The file *)

\* A leg called unsent was not sent, and one called terminal ended so; a
\* no-fill may also be an order that never left.
KnowsFate ==
    \A l \in Leg :
        /\ legs[l] \in NotSent => fate[l] = "none"
        /\ legs[l] \in Terminal =>
               fate[l] = legs[l] \/ (legs[l] = "no_fill" /\ fate[l] = "none")

\* A compensation that left rules out any later Lighter leg: either that one
\* ended, or it was stopped by a session that allows no entry any more.
NoWayBack ==
    fate["compensation"] # "none" =>
        \/ legs["lighter"] = "no_fill"
        \/ legs["lighter"] = "guarded" /\ EntryOver

PendingStatus == Pending => status \in {"pending", "manual_review_required"}

FileInv == KnowsFate /\ NoWayBack /\ PendingStatus

-----------------------------------------------------------------------------
(* The process *)

InHand(leg) ==
    /\ job.pc \in {"quote", "persist", "guard", "send", "await", "answered"}
    /\ job.leg = leg

FirstSend == job.pc = "send" => fate[job.leg] = "none"

LighterInHand ==
    InHand("lighter") => fate["variational"] = "filled" /\ fate["compensation"] = "none"

\* A Lighter leg stopped by the session or an old quote is compensated with
\* that same quote, or because the session allows no entry any more.
GuardedLighter ==
    InHand("lighter") /\ job.pc = "answered" /\ pending_action.kind = "open"
        /\ legs["lighter"] = "guarded" => ~job.fresh \/ EntryOver

CompensationInHand ==
    InHand("compensation") =>
        /\ pending_action.kind = "open"
        /\ fate["variational"] = "filled"
        /\ legs["lighter"] \in {"no_fill", "guarded"}
        /\ legs["lighter"] = "guarded" =>
               IF job.pc \in {"quote", "persist", "guard"} THEN ~job.fresh \/ EntryOver
               ELSE EntryOver
        /\ job.pc # "quote"

SettleAfterFill ==
    job.pc = "settle" => job.leg # "variational" /\ fate[job.leg] = "filled"

\* What a snapshot shows of a leg's end is not undone before the decision.
SnapshotHolds ==
    job.pc = "decide" =>
        /\ job.snap.lighter = Goal => fate["lighter"] = "filled"
        /\ pending_action.kind = "close" /\ job.snap.variational = Goal =>
               fate["variational"] = "filled"

JobInv ==
    /\ FirstSend
    /\ LighterInHand
    /\ GuardedLighter
    /\ CompensationInHand
    /\ SettleAfterFill
    /\ SnapshotHolds

HedgeInv == VenueInv /\ FileInv /\ JobInv

-----------------------------------------------------------------------------
(* What the invariant says of the venues *)

LEMMA FatesAreTyped ==
    ASSUME TypeInv
    PROVE  /\ \A l \in Leg : fate[l] \in {"none", "flying", "filled", "no_fill", "partial"}
           /\ \A l \in Leg : legs[l] \in LegState
           /\ Have \in Nat /\ Goal \in Nat
           /\ exch["variational"] \in Int /\ exch["lighter"] \in Int
           /\ job.leg \in Leg
  BY DEF TypeInv, TypeOK, Terminal, Have, Goal, Action, Position, Venue, Job

\* An action has somewhere to go.
LEMMA GoalIsElsewhere ==
    ASSUME TypeInv, Pending
    PROVE  /\ pending_action.kind \in {"open", "close"}
           /\ pending_action.kind = "open" => Goal > Have /\ OrderQty = Goal - Have
           /\ pending_action.kind = "close" => Goal < Have /\ OrderQty = Have - Goal
           /\ Goal # Have
<1>1. Have \in Nat /\ Goal \in Nat
  BY FatesAreTyped
<1> QED
  BY <1>1 DEF TypeInv, TypeOK, ActionShape, Pending, Action, OrderQty, Have, Goal

LEMMA SameOrder ==
    ASSUME NEW o \in Order, NEW p \in Order,
           o.leg = p.leg, o.qty = p.qty, o.exits = p.exits,
           o.reduce_only = p.reduce_only, o.orphan = p.orphan
    PROVE  o = p
  BY DEF Order

\* Only one leg is ever under way, so an order on the wire is alone there.
LEMMA OneUnderWay ==
    ASSUME TypeInv, VenueInv, NEW o \in wire, NEW p \in wire
    PROVE  o = p /\ ~o.orphan
<1>1. Pending
  BY DEF VenueInv, AtRest
<1>2. OrdersInv /\ LegOrder
  BY <1>1 DEF VenueInv
<1>3. o \in Order /\ p \in Order /\ o.leg \in Leg /\ p.leg \in Leg
  BY DEF TypeInv, TypeOK, Order
<1>4. o.leg = p.leg
  BY <1>2, <1>3 DEF OrdersInv, LegOrder, Leg
<1>5. o.orphan = FALSE /\ p.orphan = FALSE
  BY <1>2, <1>3 DEF OrdersInv, Order
<1>6. o.qty = p.qty /\ o.exits = p.exits /\ o.reduce_only = p.reduce_only
  BY <1>2, <1>4 DEF OrdersInv
<1> QED
  BY <1>3, <1>4, <1>5, <1>6, SameOrder

\* Nothing is under way when no leg is.
LEMMA NothingUnderWay ==
    ASSUME TypeInv, VenueInv, \A l \in Leg : fate[l] # "flying"
    PROVE  wire = {}
<1>1. \A o \in wire : o.leg \in Leg
  BY DEF TypeInv, TypeOK, Order
<1> QED
  BY <1>1 DEF VenueInv, OrdersInv, AtRest

\* Both legs filled: the goal.
LEMMA FilledIsGoal ==
    ASSUME TypeInv, VenueInv, Pending, fate["lighter"] = "filled"
    PROVE  wire = {} /\ \A v \in Venue : exch[v] = Goal
<1>1. fate["variational"] = "filled" /\ fate["compensation"] = "none"
  BY FatesAreTyped DEF VenueInv, LegOrder
<1>2. wire = {}
  BY <1>1, NothingUnderWay DEF Leg
<1> QED
  BY <1>1, <1>2 DEF VenueInv, HoldsLighter, HoldsVariational, Untouched, Venue

\* The compensation filled: the start.
LEMMA CompensatedIsStart ==
    ASSUME TypeInv, VenueInv, Pending, fate["compensation"] = "filled"
    PROVE  wire = {} /\ \A v \in Venue : exch[v] = Have
<1>1. fate["variational"] = "filled" /\ fate["lighter"] \in {"none", "no_fill"}
  BY DEF VenueInv, LegOrder
<1>2. wire = {}
  BY <1>1, NothingUnderWay DEF Leg
<1> QED
  BY <1>1, <1>2 DEF VenueInv, HoldsLighter, HoldsVariational, Untouched, Venue

\* The first leg known not to have traded: the start.
LEMMA NotTradedIsStart ==
    ASSUME TypeInv, VenueInv, Pending, fate["variational"] \in {"none", "no_fill"}
    PROVE  wire = {} /\ \A v \in Venue : exch[v] = Have
<1>1. fate["lighter"] = "none" /\ fate["compensation"] = "none"
  BY DEF VenueInv, LegOrder
<1>2. wire = {}
  BY <1>1, NothingUnderWay DEF Leg
<1> QED
  BY <1>1, <1>2 DEF VenueInv, HoldsLighter, HoldsVariational, Untouched, Venue

-----------------------------------------------------------------------------
(* Ends of an action *)

\* Where an action may end: at its start or at its goal, with both venues
\* there and nothing under way.
EndsHedged(position) ==
    /\ Pending
    /\ wire = {}
    /\ position.qty \in {Have, Goal}
    /\ \A v \in Venue : exch[v] = position.qty
    /\ Conclude(position)

LEMMA SettledQuantity == ASSUME TypeInv PROVE Settled.qty = Goal
  BY DEF Settled, NoPosition, Goal

LEMMA SettleEndsHedged ==
    ASSUME TypeInv, HedgeInv, Settle
    PROVE  EndsHedged(Settled) \/ EndsHedged(pending_action.previous)
<1>1. Pending
  BY DEF TypeInv, RestShape, Settle
<1>2. fate[job.leg] = "filled"
  BY DEF Settle, HedgeInv, JobInv, SettleAfterFill
<1>3. CASE job.leg = "lighter" /\ Conclude(Settled)
  BY <1>1, <1>2, <1>3, FilledIsGoal, SettledQuantity DEF EndsHedged, HedgeInv
<1>4. CASE job.leg = "compensation" /\ Conclude(pending_action.previous)
  BY <1>1, <1>2, <1>4, CompensatedIsStart DEF EndsHedged, HedgeInv, Have
<1> QED
  BY <1>3, <1>4 DEF Settle

LEMMA FinalizeEndsHedged ==
    ASSUME TypeInv, HedgeInv, Finalize
    PROVE  EndsHedged(Settled)
<1>1. Pending
  BY DEF TypeInv, RestShape, Finalize
<1>2. fate["lighter"] = "filled"
  <2>1. CASE AllExpectedFills
    BY <2>1, FatesAreTyped
    DEF AllExpectedFills, HedgeInv, FileInv, KnowsFate, Venue, Leg, Terminal
  <2>2. CASE pending_action.kind = "close" /\ ~KeepsLayers /\ Sees(0, 0)
    <3>1. Goal = 0
      BY <2>2, FatesAreTyped DEF KeepsLayers, Goal
    <3> QED
      BY <2>2, <3>1 DEF Sees, Matches, Finalize, HedgeInv, JobInv, SnapshotHolds
  <2> QED
    BY <2>1, <2>2 DEF Finalize, CanFinalize
<1> QED
  BY <1>1, <1>2, FilledIsGoal, SettledQuantity DEF Finalize, EndsHedged, HedgeInv

LEMMA RestoreEndsHedged ==
    ASSUME TypeInv, HedgeInv, RestorePrevious
    PROVE  EndsHedged(pending_action.previous)
<1>1. Pending
  BY DEF TypeInv, RestShape, RestorePrevious
<1>2. fate["variational"] \in {"none", "no_fill"}
  BY DEF RestorePrevious, CanRestore, AllKnownNoFill, HedgeInv, FileInv, KnowsFate, Venue,
         Leg, Terminal
<1> QED
  BY <1>1, <1>2, NotTradedIsStart DEF RestorePrevious, EndsHedged, HedgeInv, Have

LEMMA EndKeepsHedge ==
    ASSUME NEW position, EndsHedged(position)
    PROVE  HedgeInv'
<1> USE DEF EndsHedged, Conclude, Start, Idle
<1>1. ~Pending'
  BY DEF Pending, NoAction
<1>2. VenueInv'
  BY <1>1 DEF VenueInv, AtRest
<1>3. FileInv'
  BY <1>1 DEF FileInv, KnowsFate, NoWayBack, PendingStatus, NoLegs, NoFate, NotSent,
              Terminal, Leg
<1>4. JobInv'
  BY DEF JobInv, FirstSend, LighterInHand, GuardedLighter, CompensationInHand, InHand,
         SettleAfterFill, SnapshotHolds
<1> QED
  BY <1>2, <1>3, <1>4 DEF HedgeInv

-----------------------------------------------------------------------------
(* Steps that leave the venues alone *)

LEMMA QuietKeepsVenues ==
    ASSUME VenueInv, UNCHANGED <<wire, fate, exch>>,
           open_position'.qty = open_position.qty,
           pending_action'.kind = pending_action.kind,
           pending_action'.expected = pending_action.expected,
           pending_action'.previous.qty = pending_action.previous.qty
    PROVE  VenueInv'
  BY DEF VenueInv, AtRest, OrdersInv, LegOrder, HoldsLighter, HoldsVariational, Pending,
         OrderQty, Exits, ReduceOnly, Partway, Have, Goal

\* The session of an action does not come back, nor does its entry phase.
LEMMA QuietKeepsFile ==
    ASSUME FileInv, UNCHANGED <<legs, fate, status>>,
           pending_action'.kind = pending_action.kind,
           EntryOver => EntryOver'
    PROVE  FileInv'
  BY DEF FileInv, KnowsFate, NoWayBack, PendingStatus, Pending

\* A process that holds no leg has nothing to remember.
LEMMA NoLegNoMemory ==
    ASSUME job'.pc \in {"idle", "read"}
    PROVE  JobInv'
  BY DEF JobInv, FirstSend, LighterInHand, GuardedLighter, CompensationInHand, InHand,
         SettleAfterFill, SnapshotHolds

LEMMA ReviewKeepsHedge == ASSUME HedgeInv, ManualReview PROVE HedgeInv'
<1> USE DEF ManualReview, venues
<1>1. VenueInv'
  BY QuietKeepsVenues DEF HedgeInv
<1>2. FileInv'
  BY DEF HedgeInv, FileInv, KnowsFate, NoWayBack, EntryOver, PendingStatus
<1>3. JobInv'
  BY NoLegNoMemory DEF Start, Idle
<1> QED
  BY <1>1, <1>2, <1>3 DEF HedgeInv

LEMMA BeginKeepsHedge ==
    ASSUME TypeInv, HedgeInv, ~Pending,
           NEW kind \in {"open", "close"}, NEW expected, Begin(kind, expected),
           job'.leg = "variational", job'.pc \in {"quote", "persist"}
    PROVE  HedgeInv'
<1> USE DEF Begin, venues
<1>1. AtRest
  BY DEF HedgeInv, VenueInv
<1>2. VenueInv'
  BY <1>1 DEF VenueInv, AtRest, OrdersInv, LegOrder, HoldsLighter, HoldsVariational, Pending,
              Have, Untouched, NoFate, Leg, Venue
<1>3. FileInv'
  BY <1>1 DEF HedgeInv, FileInv, KnowsFate, NoWayBack, PendingStatus, AtRest, NoFate, Leg
<1>4. JobInv'
  BY DEF JobInv, FirstSend, LighterInHand, GuardedLighter, CompensationInHand, InHand,
         SettleAfterFill, SnapshotHolds
<1> QED
  BY <1>2, <1>3, <1>4 DEF HedgeInv

LEMMA LookUpKeepsHedge == ASSUME TypeInv, HedgeInv, LookUpOrders PROVE HedgeInv'
<1> USE DEF LookUpOrders, venues
<1>1. VenueInv'
  BY QuietKeepsVenues DEF HedgeInv
<1>2. \A l \in Leg : \A r \in LookupResults(l) : r = legs[l] \/ r = "unknown" \/ r = fate[l]
  BY DEF LookupResults
<1>3. \A l \in Leg : \A r \in LookupResults(l) :
         legs[l] \in NotSent \cup Terminal => r = legs[l]
  BY DEF LookupResults, NotSent, Terminal
<1>4. \A l \in Leg : \A r \in LookupResults(l) : r \in NotSent => r = legs[l]
  BY DEF LookupResults, NotSent, Terminal
<1>5. \A l \in Leg : legs'[l] = legs[l] \/ legs'[l] \in LookupResults(l)
  BY FatesAreTyped DEF TypeInv, TypeOK, Leg
<1>6. KnowsFate'
  BY <1>2, <1>4, <1>5 DEF HedgeInv, FileInv, KnowsFate, NotSent, Terminal
<1>7. NoWayBack'
  BY <1>3, <1>5 DEF HedgeInv, FileInv, NoWayBack, NotSent, Terminal, EntryOver, Leg
<1>8. PendingStatus'
  BY DEF HedgeInv, FileInv, PendingStatus, Pending
<1>9. JobInv'
  BY NoLegNoMemory DEF Start
<1> QED
  BY <1>1, <1>6, <1>7, <1>8, <1>9 DEF HedgeInv, FileInv

-----------------------------------------------------------------------------
(* Submitting a leg *)

\* A step that records something about the leg in hand, without the venues.
LEMMA RecordKeepsVenues ==
    ASSUME HedgeInv, UNCHANGED <<open_position, pending_action, wire, fate, exch>>
    PROVE  VenueInv'
  BY QuietKeepsVenues DEF HedgeInv

\* It may record the leg as not sent, or as refused, while nothing of it was.
LEMMA RecordKeepsFile ==
    ASSUME TypeInv, HedgeInv, InHand(job.leg),
           UNCHANGED <<status, pending_action, fate, session>>,
           NEW value, legs' = [legs EXCEPT ![job.leg] = value],
           value \in NotSent \/ value = "no_fill" => fate[job.leg] = "none",
           value \in {"filled", "partial"} => fate[job.leg] = value
    PROVE  FileInv'
<1>1. legs \in [Leg -> LegState] /\ job.leg \in Leg
  BY FatesAreTyped DEF TypeInv, TypeOK
<1>2. KnowsFate'
  BY <1>1 DEF HedgeInv, FileInv, KnowsFate, NotSent, Terminal
<1>3. fate["compensation"] # "none" => legs'["lighter"] = legs["lighter"]
  BY <1>1 DEF HedgeInv, JobInv, LighterInHand, InHand, Leg
<1>4. NoWayBack' /\ PendingStatus'
  BY <1>3 DEF HedgeInv, FileInv, NoWayBack, PendingStatus, Pending, EntryOver
<1> QED
  BY <1>2, <1>4 DEF FileInv

\* What the gateway answered is recorded; the leg stays in hand.
LEMMA AnswerKeepsHedge ==
    ASSUME TypeInv, HedgeInv, job.pc \in {"send", "await"},
           UNCHANGED <<status, open_position, pending_action, wire, fate, exch, session>>,
           NEW value, value \notin NotSent, legs' = [legs EXCEPT ![job.leg] = value],
           job' = [job EXCEPT !.pc = "answered"],
           value = "no_fill" => fate[job.leg] \in {"none", "no_fill"},
           value \in {"filled", "partial"} => fate[job.leg] = value
    PROVE  HedgeInv'
<1>1. /\ legs \in [Leg -> LegState] /\ job.leg \in Leg
      /\ job'.pc = "answered" /\ job'.leg = job.leg /\ job'.fresh = job.fresh
  BY FatesAreTyped DEF TypeInv, TypeOK, Job
<1>2. VenueInv'
  BY RecordKeepsVenues
<1>3. KnowsFate'
  BY <1>1 DEF HedgeInv, FileInv, KnowsFate, Terminal
<1>4. fate["compensation"] # "none" => legs'["lighter"] = legs["lighter"]
  BY <1>1 DEF HedgeInv, JobInv, LighterInHand, InHand, Leg
<1>5. NoWayBack' /\ PendingStatus'
  BY <1>4 DEF HedgeInv, FileInv, NoWayBack, PendingStatus, Pending, EntryOver
<1>6. job.leg = "lighter" => legs'["lighter"] # "guarded"
  BY <1>1 DEF NotSent
<1>7. job.leg # "lighter" => legs'["lighter"] = legs["lighter"]
  BY <1>1
<1>8. JobInv'
  BY <1>1, <1>6, <1>7
  DEF HedgeInv, JobInv, FirstSend, LighterInHand, GuardedLighter, CompensationInHand,
      InHand, SettleAfterFill, SnapshotHolds, EntryOver
<1> QED
  BY <1>2, <1>3, <1>5, <1>8 DEF HedgeInv, FileInv

LEMMA DispatchKeepsHedge == ASSUME TypeInv, SendInv, HedgeInv, Dispatch PROVE HedgeInv'
<1> DEFINE leg == job.leg
           new == [leg |-> leg, qty |-> OrderQty, exits |-> Exits(leg),
                   reduce_only |-> ReduceOnly(leg), orphan |-> FALSE]
<1>1. /\ Pending /\ leg \in Leg /\ fate \in [Leg -> {"none", "flying"} \cup Terminal]
      /\ legs[leg] = "started" /\ fate[leg] = "none"
  BY FatesAreTyped
  DEF Dispatch, TypeInv, TypeOK, RestShape, HedgeInv, JobInv, FirstSend, SendInv, AtSubmission
<1>2. /\ wire' = wire \cup {new}
      /\ fate' = [fate EXCEPT ![leg] = "flying"]
      /\ UNCHANGED <<status, open_position, pending_action, legs, exch, session>>
      /\ job' = [job EXCEPT !.pc = "await"]
  BY DEF Dispatch, Enter, file
<1>3. Pending' /\ OrderQty' = OrderQty /\ \A l : Exits(l)' = Exits(l) /\ ReduceOnly(l)' = ReduceOnly(l)
  BY <1>1, <1>2 DEF Pending, OrderQty, Exits, ReduceOnly
<1>4. OrdersInv'
  BY <1>1, <1>2, <1>3 DEF HedgeInv, VenueInv, OrdersInv, TypeInv, TypeOK, Order
<1>5. leg = "compensation" => /\ pending_action.kind = "open"
                              /\ fate["variational"] = "filled"
                              /\ fate["lighter"] \in {"none", "no_fill"}
                              /\ legs["lighter"] = "no_fill" \/ (legs["lighter"] = "guarded" /\ EntryOver)
  BY DEF Dispatch, HedgeInv, JobInv, CompensationInHand, InHand, FileInv, KnowsFate,
         NotSent, Terminal, Leg
<1>6. leg = "lighter" => fate["variational"] = "filled" /\ fate["compensation"] = "none"
  BY DEF Dispatch, HedgeInv, JobInv, LighterInHand, InHand
<1>7. LegOrder'
  BY <1>1, <1>2, <1>5, <1>6 DEF HedgeInv, VenueInv, LegOrder, Leg
<1>8. HoldsLighter' /\ HoldsVariational'
  BY <1>1, <1>2 DEF HedgeInv, VenueInv, HoldsLighter, HoldsVariational, Untouched, Partway,
                    Have, Goal, Leg
<1>9. KnowsFate'
  BY <1>1, <1>2 DEF HedgeInv, FileInv, KnowsFate, NotSent, Terminal
<1>10. NoWayBack' /\ PendingStatus'
  BY <1>1, <1>2, <1>5
  DEF HedgeInv, FileInv, NoWayBack, EntryOver, PendingStatus, Pending, Leg
<1>11. job'.pc = "await" /\ job'.leg = leg /\ job'.fresh = job.fresh
  BY <1>2 DEF TypeInv, TypeOK, Job
<1>12. \A l \in Leg : l # leg => fate'[l] = fate[l]
  BY <1>1, <1>2
<1>13. job.pc = "send"
  BY DEF Dispatch
<1>14. LighterInHand'
  BY <1>6, <1>11, <1>12 DEF LighterInHand, InHand, Leg
<1>15. CompensationInHand'
  BY <1>2, <1>5, <1>11, <1>12 DEF CompensationInHand, InHand, EntryOver, Leg
<1>16. JobInv'
  BY <1>11, <1>14, <1>15
  DEF JobInv, FirstSend, GuardedLighter, InHand, SettleAfterFill, SnapshotHolds
<1> QED
  BY <1>3, <1>4, <1>7, <1>8, <1>9, <1>10, <1>16 DEF HedgeInv, VenueInv, FileInv

LEMMA SubmitKeepsHedge == ASSUME TypeInv, SendInv, HedgeInv, SubmitStep PROVE HedgeInv'
<1> USE DEF file, venues, history, Enter, SetLeg
<1>0. /\ job \in Job /\ job.leg \in Leg
      /\ legs \in [Leg -> LegState] /\ fate \in [Leg -> {"none", "flying"} \cup Terminal]
  BY DEF TypeInv, TypeOK, Job
<1>1. CASE FreshQuote
  <2>1. VenueInv'
    BY <1>1, RecordKeepsVenues DEF FreshQuote
  <2>2. FileInv'
    BY <1>1, QuietKeepsFile DEF FreshQuote, HedgeInv, EntryOver
  <2>3. JobInv'
    BY <1>0, <1>1
    DEF FreshQuote, Job, HedgeInv, JobInv, FirstSend, LighterInHand, GuardedLighter,
        CompensationInHand, InHand, SettleAfterFill, SnapshotHolds
  <2> QED
    BY <2>1, <2>2, <2>3 DEF HedgeInv
<1>2. CASE NoFreshQuote
  BY <1>2, ReviewKeepsHedge DEF NoFreshQuote
<1>3. CASE PersistLeg
  <2>1. fate[job.leg] = "none"
    BY <1>0, <1>3 DEF PersistLeg, SendInv, BeforeSubmission, HedgeInv, FileInv, KnowsFate
  <2>2. VenueInv'
    BY <1>3, RecordKeepsVenues DEF PersistLeg
  <2>3. FileInv'
    BY <1>3, <2>1, RecordKeepsFile DEF PersistLeg, InHand, NotSent
  <2>4. JobInv'
    BY <1>0, <1>3
    DEF PersistLeg, Job, HedgeInv, JobInv, FirstSend, LighterInHand, GuardedLighter,
        CompensationInHand, InHand, SettleAfterFill, SnapshotHolds, EntryOver
  <2> QED
    BY <2>2, <2>3, <2>4 DEF HedgeInv
<1>4. CASE StartSubmission
  <2>1. fate[job.leg] = "none"
    BY <1>0, <1>4 DEF StartSubmission, SendInv, BeforeSubmission, HedgeInv, FileInv, KnowsFate
  <2>2. VenueInv'
    BY <1>4, RecordKeepsVenues DEF StartSubmission
  <2>3. FileInv'
    BY <1>4, <2>1, RecordKeepsFile DEF StartSubmission, InHand, NotSent
  <2>4. JobInv'
    BY <1>0, <1>4, <2>1
    DEF StartSubmission, MaySubmit, Job, HedgeInv, JobInv, FirstSend, LighterInHand,
        GuardedLighter, CompensationInHand, InHand, SettleAfterFill, SnapshotHolds, EntryOver
  <2> QED
    BY <2>2, <2>3, <2>4 DEF HedgeInv
<1>5. CASE GuardBlocks
  <2>1. CASE job.leg = "compensation"
    BY <1>5, <2>1, ReviewKeepsHedge DEF GuardBlocks
  <2>2. CASE job.leg # "compensation"
    <3>1. /\ UNCHANGED <<status, open_position, pending_action, wire, fate, exch, session>>
          /\ legs' = [legs EXCEPT ![job.leg] = "guarded"]
          /\ job' = [job EXCEPT !.pc = "answered"]
          /\ job.pc = "guard" /\ ~MaySubmit
      BY <1>5, <2>2 DEF GuardBlocks
    <3>2. fate[job.leg] = "none"
      BY <1>0, <3>1 DEF SendInv, BeforeSubmission, HedgeInv, FileInv, KnowsFate
    <3>3. VenueInv'
      BY <3>1, RecordKeepsVenues
    <3>4. FileInv'
      BY <3>1, <3>2, RecordKeepsFile DEF InHand, NotSent
    <3>5. pending_action.kind = "open" => ~job.fresh \/ EntryOver
      BY <2>2, <3>1 DEF MaySubmit, SessionAllows, EntryOver
    <3>6. job'.pc = "answered" /\ job'.leg = job.leg /\ job'.fresh = job.fresh
      BY <1>0, <3>1 DEF Job
    <3>7. JobInv'
      BY <2>2, <3>1, <3>5, <3>6
      DEF HedgeInv, JobInv, FirstSend, LighterInHand, GuardedLighter, CompensationInHand,
          InHand, SettleAfterFill, SnapshotHolds, EntryOver
    <3> QED
      BY <3>3, <3>4, <3>7 DEF HedgeInv
  <2> QED
    BY <2>1, <2>2
<1>6. CASE Dispatch
  BY <1>6, DispatchKeepsHedge
<1>7. CASE RejectedBeforeSend \/ DispatchRefused \/ LostBeforeSend
  <2>1. PICK result \in {"no_fill", "unknown"} : Unanswered(result)
    BY <1>7 DEF RejectedBeforeSend, DispatchRefused, LostBeforeSend
  <2>2. fate[job.leg] = "none"
    BY <2>1 DEF Unanswered, HedgeInv, JobInv, FirstSend
  <2> QED
    BY <2>1, <2>2, AnswerKeepsHedge DEF Unanswered, NotSent
<1>8. CASE Reply
  <2>1. PICK result \in {"unknown"} \cup ({fate[job.leg]} \cap Terminal) :
           legs' = [legs EXCEPT ![job.leg] = result]
    BY <1>8 DEF Reply
  <2> QED
    BY <1>8, <2>1, AnswerKeepsHedge DEF Reply, NotSent, Terminal
<1> QED
  BY <1>1, <1>2, <1>3, <1>4, <1>5, <1>6, <1>7, <1>8 DEF SubmitStep

-----------------------------------------------------------------------------
(* What follows a leg, and reconciliation *)

LEMMA FollowKeepsHedge == ASSUME TypeInv, SendInv, HedgeInv, FollowStep PROVE HedgeInv'
<1> USE DEF file, venues, history
<1>0. job \in Job /\ job.leg \in Leg
  BY DEF TypeInv, TypeOK, Job
<1>1. CASE HedgeNext
  <2>1. fate["variational"] = "filled" /\ fate["compensation"] = "none"
    BY <1>0, <1>1
    DEF HedgeNext, HedgeInv, FileInv, KnowsFate, Leg, NotSent, Terminal, SendInv, LaterLegs
  <2>2. VenueInv'
    BY <1>1, RecordKeepsVenues DEF HedgeNext
  <2>3. FileInv'
    BY <1>1, QuietKeepsFile DEF HedgeNext, HedgeInv, EntryOver
  <2>4. job'.pc = "quote" /\ job'.leg = "lighter"
    BY <1>0, <1>1 DEF HedgeNext, Job
  <2>5. JobInv'
    BY <1>1, <2>1, <2>4
    DEF HedgeNext, JobInv, FirstSend, LighterInHand, GuardedLighter,
        CompensationInHand, InHand, SettleAfterFill, SnapshotHolds
  <2> QED
    BY <2>2, <2>3, <2>5 DEF HedgeInv
<1>2. CASE Compensate
  <2>1. /\ pending_action.kind = "open" /\ fate["variational"] = "filled"
        /\ legs["lighter"] \in {"no_fill", "guarded"}
        /\ legs["lighter"] = "guarded" => ~job.fresh \/ EntryOver
    BY <1>2
    DEF Compensate, CompensationDue, HedgeInv, JobInv, LighterInHand, GuardedLighter, InHand
  <2>2. VenueInv'
    BY <1>2, RecordKeepsVenues DEF Compensate
  <2>3. FileInv'
    BY <1>2, QuietKeepsFile DEF Compensate, HedgeInv, EntryOver
  <2>4. job'.pc = "persist" /\ job'.leg = "compensation" /\ job'.fresh = job.fresh
    BY <1>0, <1>2 DEF Compensate, Job
  <2>5. JobInv'
    BY <1>2, <2>1, <2>4
    DEF Compensate, JobInv, FirstSend, LighterInHand, GuardedLighter,
        CompensationInHand, InHand, SettleAfterFill, SnapshotHolds, EntryOver
  <2> QED
    BY <2>2, <2>3, <2>5 DEF HedgeInv
<1>3. CASE ReadAfter
  <2>1. job.leg # "variational" /\ fate[job.leg] = "filled"
    BY <1>0, <1>3 DEF ReadAfter, HedgeInv, FileInv, KnowsFate, Terminal
  <2>2. VenueInv'
    BY <1>3, RecordKeepsVenues DEF ReadAfter
  <2>3. FileInv'
    BY <1>3, QuietKeepsFile DEF ReadAfter, HedgeInv, EntryOver
  <2>4. job'.pc = "settle" /\ job'.leg = job.leg
    BY <1>0, <1>3 DEF ReadAfter, Job
  <2>5. JobInv'
    BY <1>3, <2>1, <2>4
    DEF ReadAfter, JobInv, FirstSend, LighterInHand, GuardedLighter,
        CompensationInHand, InHand, SettleAfterFill, SnapshotHolds
  <2> QED
    BY <2>2, <2>3, <2>5 DEF HedgeInv
<1>4. CASE Settle
  BY <1>4, SettleEndsHedged, EndKeepsHedge
<1>5. CASE StopForReview
  BY <1>5, ReviewKeepsHedge DEF StopForReview
<1> QED
  BY <1>1, <1>2, <1>3, <1>4, <1>5 DEF FollowStep

\* Lighter stands at the goal only when its leg filled, and so does
\* Variational in a close.
LEMMA SnapshotTells ==
    ASSUME TypeInv, HedgeInv, Pending
    PROVE  /\ exch["lighter"] = Goal => fate["lighter"] = "filled"
           /\ pending_action.kind = "close" /\ exch["variational"] = Goal =>
                  fate["variational"] = "filled"
<1>1. Goal # Have /\ Goal \in Nat /\ Have \in Nat
  BY GoalIsElsewhere, FatesAreTyped
<1>2. \A l \in {"variational", "lighter"} :
         fate[l] \in {"none", "flying", "filled", "no_fill", "partial"}
  BY FatesAreTyped DEF Leg
<1> QED
  BY <1>1, <1>2 DEF HedgeInv, VenueInv, HoldsLighter, HoldsVariational, Untouched, Partway

\* A Lighter leg is resumed only behind a complete Variational leg that no
\* compensation undoes.
LEMMA ResumeIsSafe ==
    ASSUME TypeInv, HedgeInv, ResumeHedge
    PROVE  fate["variational"] = "filled" /\ fate["compensation"] = "none"
<1>1. Pending
  BY DEF TypeInv, RestShape, ResumeHedge
<1>2. LegOrder
  BY <1>1 DEF HedgeInv, VenueInv
<1>3. CASE CanResumeOpen
  <2>1. fate["variational"] = "filled"
    BY <1>3 DEF CanResumeOpen, HedgeInv, FileInv, KnowsFate, Leg, Terminal
  <2>2. ~EntryOver /\ legs["lighter"] # "no_fill"
    BY <1>3 DEF CanResumeOpen, SessionAllows, EntryOver, NotSent
  <2> QED
    BY <2>1, <2>2 DEF HedgeInv, FileInv, NoWayBack
<1>4. CASE CanResumeClose \/ CanResumePartialClose
  <2>1. pending_action.kind = "close"
    BY <1>4 DEF CanResumeClose, CanResumePartialClose, KeepsLayers
  <2>2. job.snap.variational = Goal
    BY <1>4 DEF CanResumeClose, CanResumePartialClose, VarOnly, Sees, Matches, Goal
  <2>3. fate["variational"] = "filled"
    BY <2>1, <2>2 DEF ResumeHedge, HedgeInv, JobInv, SnapshotHolds
  <2> QED
    BY <1>2, <2>1, <2>3 DEF LegOrder
<1> QED
  BY <1>3, <1>4 DEF ResumeHedge

LEMMA DecideKeepsHedge == ASSUME TypeInv, SendInv, HedgeInv, DecideStep PROVE HedgeInv'
<1> USE DEF file, venues, history
<1>0. job \in Job /\ job.leg \in Leg
  BY DEF TypeInv, TypeOK, Job
<1>1. CASE ReadAccount
  <2>1. Pending
    BY <1>1 DEF ReadAccount, TypeInv, RestShape
  <2>2. VenueInv'
    BY <1>1, RecordKeepsVenues DEF ReadAccount
  <2>3. FileInv'
    BY <1>1, QuietKeepsFile DEF ReadAccount, HedgeInv, EntryOver
  <2>4. PICK snap \in Snapshots : job' = [job EXCEPT !.pc = "decide", !.snap = snap]
    BY <1>1 DEF ReadAccount
  <2>5. snap.variational = exch["variational"] /\ snap.lighter = exch["lighter"]
    BY DEF Snapshots
  <2>6. job'.pc = "decide" /\ job'.snap = snap
    BY <1>0, <2>4 DEF Job
  <2>7. SnapshotHolds'
    BY <1>1, <2>1, <2>5, <2>6, SnapshotTells DEF ReadAccount, SnapshotHolds, Goal
  <2>8. JobInv'
    BY <2>6, <2>7
    DEF JobInv, FirstSend, LighterInHand, GuardedLighter, CompensationInHand, InHand,
        SettleAfterFill
  <2> QED
    BY <2>2, <2>3, <2>8 DEF HedgeInv
<1>2. CASE AccountUnavailable \/ NotExactlyReconciled
  BY <1>2, ReviewKeepsHedge DEF AccountUnavailable, NotExactlyReconciled
<1>3. CASE ResumeHedge
  <2>1. fate["variational"] = "filled" /\ fate["compensation"] = "none"
    BY <1>3, ResumeIsSafe
  <2>2. VenueInv'
    BY <1>3, RecordKeepsVenues DEF ResumeHedge
  <2>3. FileInv'
    BY <1>3, QuietKeepsFile DEF ResumeHedge, HedgeInv, EntryOver
  <2>4. job'.pc = "quote" /\ job'.leg = "lighter"
    BY <1>0, <1>3 DEF ResumeHedge, Job
  <2>5. JobInv'
    BY <1>3, <2>1, <2>4
    DEF ResumeHedge, JobInv, FirstSend, LighterInHand, GuardedLighter,
        CompensationInHand, InHand, SettleAfterFill, SnapshotHolds
  <2> QED
    BY <2>2, <2>3, <2>5 DEF HedgeInv
<1>4. CASE Finalize
  BY <1>4, FinalizeEndsHedged, EndKeepsHedge
<1>5. CASE RestorePrevious
  BY <1>5, RestoreEndsHedged, EndKeepsHedge
<1>6. CASE Raise
  <2>1. VenueInv'
    BY <1>6, RecordKeepsVenues DEF Raise
  <2>2. FileInv'
    BY <1>6, QuietKeepsFile DEF Raise, HedgeInv, EntryOver
  <2>3. JobInv'
    BY <1>6, NoLegNoMemory DEF Raise, Start, Idle
  <2> QED
    BY <2>1, <2>2, <2>3 DEF HedgeInv
<1> QED
  BY <1>1, <1>2, <1>3, <1>4, <1>5, <1>6 DEF DecideStep

-----------------------------------------------------------------------------
(* The venues *)

\* What executing an order does to the position of its venue.
LEMMA ExecuteMoves ==
    ASSUME TypeInv, HedgeInv, NEW o \in wire, Execute(o)
    PROVE  /\ Pending /\ wire' = {}
           /\ fate[o.leg] = "flying" /\ o.leg \in Leg
           /\ \A l \in Leg : l # o.leg => fate'[l] = fate[l]
           /\ \A v \in Venue : v # VenueOf(o.leg) => exch'[v] = exch[v]
           /\ fate'[o.leg] \in {"filled", "partial", "no_fill"}
           /\ fate'[o.leg] = "no_fill" => exch'[VenueOf(o.leg)] = exch[VenueOf(o.leg)]
           /\ fate'[o.leg] = "partial" => Partway(exch'[VenueOf(o.leg)])
           /\ fate'[o.leg] = "filled" =>
                  exch'[VenueOf(o.leg)] = IF o.leg = "compensation" THEN Have ELSE Goal
<1> DEFINE v == VenueOf(o.leg)
<1>1. Pending
  BY DEF HedgeInv, VenueInv, AtRest
<1>2. /\ fate[o.leg] = "flying" /\ o.leg \in Leg /\ o.qty = OrderQty /\ ~o.orphan
      /\ o.exits = Exits(o.leg) /\ o.reduce_only = ReduceOnly(o.leg)
      /\ o.qty \in Nat
  BY <1>1 DEF HedgeInv, VenueInv, OrdersInv, TypeInv, TypeOK, Order
<1>3. wire \ {o} = {}
  BY OneUnderWay DEF HedgeInv
<1>4. v \in Venue /\ exch \in [Venue -> Int]
      /\ fate \in [Leg -> {"none", "flying"} \cup Terminal]
  BY DEF VenueOf, Venue, TypeInv, TypeOK
<1>5. Have \in Nat /\ Goal \in Nat
  BY FatesAreTyped
\* where the venue stands before: at the start, or for a compensation at the goal
<1>6. exch[v] = IF o.leg = "compensation" THEN Goal ELSE Have
  BY <1>1, <1>2
  DEF HedgeInv, VenueInv, LegOrder, HoldsLighter, HoldsVariational, Untouched, VenueOf, Leg
<1>7. o.leg = "compensation" => pending_action.kind = "open"
  BY <1>1, <1>2 DEF HedgeInv, VenueInv, LegOrder
<1> DEFINE room == IF ~o.reduce_only \/ o.qty <= exch[v] THEN o.qty
                   ELSE IF exch[v] > 0 THEN exch[v] ELSE 0
<1>8. /\ pending_action.kind = "open" => o.qty = Goal - Have /\ o.qty > 0
      /\ pending_action.kind = "close" => o.qty = Have - Goal /\ o.qty > 0
      /\ pending_action.kind \in {"open", "close"}
  BY <1>1, <1>2, <1>5, GoalIsElsewhere
<1>9. o.exits <=> o.leg = "compensation" \/ pending_action.kind = "close"
  BY <1>2 DEF Exits
<1>10. room = o.qty
  <2>1. CASE ~o.reduce_only
    BY <2>1
  <2>2. CASE o.reduce_only
    <3>1. o.leg = "compensation" \/ pending_action.kind = "close"
      BY <1>2, <2>2 DEF ReduceOnly
    <3>2. o.qty <= exch[v]
      BY <1>5, <1>6, <1>7, <1>8, <3>1
    <3> QED
      BY <3>2
  <2> QED
    BY <2>1, <2>2
<1>11. PICK done \in 0..room :
         /\ wire' = wire \ {o}
         /\ exch' = [exch EXCEPT ![v] = IF o.exits THEN @ - done ELSE @ + done]
         /\ fate' = IF o.orphan THEN fate
                    ELSE [fate EXCEPT ![o.leg] = IF done = o.qty THEN "filled"
                                                 ELSE IF done = 0 THEN "no_fill"
                                                 ELSE "partial"]
         /\ UNCHANGED <<file, job, session, history>>
  BY DEF Execute
<1>12. done \in Nat /\ done <= o.qty
  BY <1>2, <1>10
<1>13. exch'[v] = IF o.exits THEN exch[v] - done ELSE exch[v] + done
  BY <1>4, <1>11
<1>14. fate'[o.leg] = IF done = o.qty THEN "filled"
                      ELSE IF done = 0 THEN "no_fill" ELSE "partial"
  BY <1>2, <1>4, <1>11
<1>15. fate'[o.leg] = "filled" => exch'[v] = IF o.leg = "compensation" THEN Have ELSE Goal
  BY <1>5, <1>6, <1>7, <1>8, <1>9, <1>12, <1>13, <1>14
<1>16. fate'[o.leg] = "partial" => Partway(exch'[v])
  BY <1>5, <1>6, <1>7, <1>8, <1>9, <1>12, <1>13, <1>14, <1>11 DEF Partway
<1>17. fate'[o.leg] = "no_fill" => exch'[v] = exch[v]
  BY <1>4, <1>12, <1>13, <1>14
<1>18. \A l \in Leg : l # o.leg => fate'[l] = fate[l]
  BY <1>2, <1>4, <1>11
<1>19. \A w \in Venue : w # v => exch'[w] = exch[w]
  BY <1>4, <1>11
<1> QED
  BY <1>1, <1>2, <1>3, <1>11, <1>14, <1>15, <1>16, <1>17, <1>18, <1>19

LEMMA ExecuteKeepsHedge ==
    ASSUME TypeInv, HedgeInv, NEW o \in wire, Execute(o)
    PROVE  HedgeInv'
<1>1. UNCHANGED <<status, open_position, pending_action, legs, job, session>>
  BY DEF Execute, file
<1>2. Pending /\ Pending'
  BY <1>1, ExecuteMoves DEF Pending
<1>3. fate[o.leg] = "flying" /\ o.leg \in Leg /\ \A l \in Leg : l # o.leg => fate'[l] = fate[l]
  BY ExecuteMoves
<1>4. fate'[o.leg] \in {"filled", "partial", "no_fill"}
  BY ExecuteMoves
<1>5. LegOrder /\ HoldsLighter /\ HoldsVariational
  BY <1>2 DEF HedgeInv, VenueInv
<1>6. OrdersInv'
  BY ExecuteMoves DEF OrdersInv
<1>7. LegOrder'
  BY <1>1, <1>3, <1>4, <1>5 DEF LegOrder, Leg
<1>8. HoldsLighter'
  <2>1. CASE o.leg = "lighter"
    BY <1>1, <1>3, <1>4, <1>5, <2>1, ExecuteMoves
    DEF HoldsLighter, Untouched, VenueOf, Partway, Have, Goal
  <2>2. CASE o.leg # "lighter"
    BY <1>1, <1>3, <1>5, <2>2, ExecuteMoves
    DEF HoldsLighter, Untouched, VenueOf, Venue, Leg, Partway, Have, Goal
  <2> QED
    BY <2>1, <2>2
<1>9. HoldsVariational'
  <2>1. CASE o.leg = "lighter"
    BY <1>1, <1>3, <1>5, <2>1, ExecuteMoves
    DEF HoldsVariational, Untouched, VenueOf, Venue, Leg, Partway, Have, Goal
  <2>2. CASE o.leg = "variational"
    <3>1. fate["compensation"] = "none"
      BY <1>3, <1>5, <2>2 DEF LegOrder
    <3> QED
      BY <1>1, <1>3, <1>4, <1>5, <2>2, <3>1, ExecuteMoves
      DEF HoldsVariational, Untouched, VenueOf, Leg, Partway, Have, Goal
  <2>3. CASE o.leg = "compensation"
    <3>1. fate["variational"] = "filled"
      BY <1>3, <1>5, <2>3 DEF LegOrder
    <3> QED
      BY <1>1, <1>3, <1>4, <1>5, <2>3, <3>1, ExecuteMoves
      DEF HoldsVariational, Untouched, VenueOf, Leg, Partway, Have, Goal
  <2> QED
    BY <1>3, <2>1, <2>2, <2>3 DEF Leg
<1>10. FileInv'
  BY <1>1, <1>3, <1>4
  DEF HedgeInv, FileInv, KnowsFate, NoWayBack, EntryOver, PendingStatus, Pending, NotSent,
      Terminal, Leg
<1>11. job.leg \in Leg
  BY FatesAreTyped
<1>12. JobInv'
  BY <1>1, <1>3, <1>11
  DEF HedgeInv, JobInv, FirstSend, LighterInHand, GuardedLighter, CompensationInHand, InHand,
      EntryOver, SettleAfterFill, SnapshotHolds, Goal, Leg
<1> QED
  BY <1>2, <1>6, <1>7, <1>8, <1>9, <1>10, <1>12 DEF HedgeInv, VenueInv

-----------------------------------------------------------------------------
(* Every step *)

\* Time passes: a quote expires, a phase of the session ends.
LEMMA TimeKeepsHedge ==
    ASSUME TypeInv, HedgeInv, QuoteExpires \/ SessionMoves
    PROVE  HedgeInv'
<1> USE DEF file, venues, history
<1>1. job \in Job /\ pending_action \in Action /\ open_position \in Position
      /\ session \in {"open", "cutoff", "closed"}
  BY DEF TypeInv, TypeOK
<1>2. UNCHANGED <<status, legs, wire, fate, exch>>
  BY DEF QuoteExpires, SessionMoves
<1>3. job'.pc = job.pc /\ job'.leg = job.leg /\ job'.snap = job.snap
      /\ (~job.fresh => ~job'.fresh)
  BY <1>1 DEF QuoteExpires, SessionMoves, Job
<1>4. /\ pending_action'.kind = pending_action.kind
      /\ pending_action'.expected = pending_action.expected
      /\ pending_action'.previous.qty = pending_action.previous.qty
      /\ open_position'.qty = open_position.qty
  BY <1>1, PastSessionKeepsQuantity DEF QuoteExpires, SessionMoves, Action
<1>5. EntryOver => EntryOver'
  BY <1>1 DEF QuoteExpires, SessionMoves, EntryOver, Action
<1>6. VenueInv'
  BY <1>2, <1>4, QuietKeepsVenues DEF HedgeInv
<1>7. FileInv'
  BY <1>2, <1>4, <1>5, QuietKeepsFile DEF HedgeInv
<1>8. JobInv'
  BY <1>2, <1>3, <1>4, <1>5
  DEF HedgeInv, JobInv, FirstSend, LighterInHand, GuardedLighter, CompensationInHand, InHand,
      SettleAfterFill, SnapshotHolds, Goal
<1> QED
  BY <1>6, <1>7, <1>8 DEF HedgeInv

LEMMA CrashKeepsHedge == ASSUME HedgeInv, Crash PROVE HedgeInv'
<1> USE DEF file, venues, Crash
<1>1. VenueInv'
  BY RecordKeepsVenues
<1>2. FileInv'
  BY QuietKeepsFile DEF HedgeInv, EntryOver
<1>3. JobInv'
  BY NoLegNoMemory DEF Start, Idle
<1> QED
  BY <1>1, <1>2, <1>3 DEF HedgeInv

LEMMA NoReduction == ASSUME TypeInv, MaxReductions = 0 PROVE ~ForcedReduction
  BY DEF TypeInv, TypeOK, ForcedReduction

LEMMA HedgeInitially == Init => HedgeInv
<1> SUFFICES ASSUME Init PROVE HedgeInv
  OBVIOUS
<1>1. VenueInv
  BY DEF Init, VenueInv, AtRest, Pending, NoAction, NoPosition
<1>2. FileInv
  BY DEF Init, FileInv, KnowsFate, NoWayBack, PendingStatus, Pending, NoAction, NoLegs,
         NoFate, NotSent, Terminal, Leg
<1>3. JobInv
  BY DEF Init, Start, Idle, JobInv, FirstSend, LighterInHand, GuardedLighter,
         CompensationInHand, InHand, SettleAfterFill, SnapshotHolds
<1> QED
  BY <1>1, <1>2, <1>3 DEF HedgeInv

LEMMA EveryStepKeepsHedge ==
    ASSUME MaxReductions = 0, TypeInv, SendInv, HedgeInv, [Next]_vars
    PROVE  HedgeInv'
<1>1. CASE \E size \in Sizes, gradient \in BOOLEAN : BeginOpen(size, gradient)
  BY <1>1, BeginKeepsHedge DEF BeginOpen, Start
<1>2. CASE \E expected \in 0..MaxPosition : BeginClose(expected)
  BY <1>2, BeginKeepsHedge DEF BeginClose, Start
<1>3. CASE ClaimMismatch
  BY <1>3, ReviewKeepsHedge DEF ClaimMismatch
<1>4. CASE LookUpOrders
  BY <1>4, LookUpKeepsHedge
<1>5. CASE ProcessStep
  BY <1>5, SubmitKeepsHedge, FollowKeepsHedge, DecideKeepsHedge DEF ProcessStep
<1>6. CASE \E o \in wire : Execute(o)
  BY <1>6, ExecuteKeepsHedge
<1>7. CASE QuoteExpires \/ SessionMoves
  BY <1>7, TimeKeepsHedge
<1>8. CASE Crash
  BY <1>8, CrashKeepsHedge
<1>9. CASE UNCHANGED vars
  <2>1. UNCHANGED <<status, open_position, pending_action, legs, job, wire, fate, exch, session>>
    BY <1>9 DEF vars, file, venues
  <2>2. VenueInv'
    BY <2>1, RecordKeepsVenues
  <2>3. FileInv'
    BY <2>1, QuietKeepsFile DEF HedgeInv, EntryOver
  <2>4. JobInv'
    BY <2>1 DEF HedgeInv, JobInv, FirstSend, LighterInHand, GuardedLighter, EntryOver,
                CompensationInHand, InHand, SettleAfterFill, SnapshotHolds, Goal
  <2> QED
    BY <2>2, <2>3, <2>4 DEF HedgeInv
<1> QED
  BY <1>1, <1>2, <1>3, <1>4, <1>5, <1>6, <1>7, <1>8, <1>9, NoReduction DEF Next

-----------------------------------------------------------------------------
(* The results *)

LEMMA HedgeImplies ==
    ASSUME TypeInv, HedgeInv
    PROVE  ClaimIsTrue /\ UnresolvedOrderBlocks
<1>1. status \in {"flat", "open"} => ~Pending
  BY DEF HedgeInv, FileInv, PendingStatus
<1>2. ClaimIsTrue
  BY <1>1 DEF HedgeInv, VenueInv, AtRest, ClaimIsTrue
<1>3. UnresolvedOrderBlocks
  BY OneUnderWay DEF HedgeInv, UnresolvedOrderBlocks
<1> QED
  BY <1>2, <1>3

\* As long as no venue reduces a position by itself, a file that says flat
\* or open names exactly what both venues hold.
THEOREM ClaimHolds ==
    ASSUME MaxReductions = 0
    PROVE  Spec => []ClaimIsTrue
<1>1. Init => TypeInv /\ SendInv /\ HedgeInv
  BY TypesInitially, SendsInitially, HedgeInitially
<1>2. TypeInv /\ SendInv /\ HedgeInv /\ [Next]_vars => (TypeInv /\ SendInv /\ HedgeInv)'
  BY EveryStepKeepsTypes, EveryStepKeepsSends, EveryStepKeepsHedge
<1>3. TypeInv /\ SendInv /\ HedgeInv => ClaimIsTrue
  BY HedgeImplies
<1> QED
  BY <1>1, <1>2, <1>3, PTL DEF Spec

\* Under the same assumption, two orders of the coordinator are never under
\* way at once, and none outlives the action it was made for.
THEOREM OneOrderAtATime ==
    ASSUME MaxReductions = 0
    PROVE  Spec => []UnresolvedOrderBlocks
<1>1. Init => TypeInv /\ SendInv /\ HedgeInv
  BY TypesInitially, SendsInitially, HedgeInitially
<1>2. TypeInv /\ SendInv /\ HedgeInv /\ [Next]_vars => (TypeInv /\ SendInv /\ HedgeInv)'
  BY EveryStepKeepsTypes, EveryStepKeepsSends, EveryStepKeepsHedge
<1>3. TypeInv /\ SendInv /\ HedgeInv => UnresolvedOrderBlocks
  BY HedgeImplies
<1> QED
  BY <1>1, <1>2, <1>3, PTL DEF Spec

-----------------------------------------------------------------------------
(* The venues move as PairPosition promises *)

\* The position as PairPosition sees it; everything else is a stutter.
SamePosition ==
    /\ Pending' = Pending
    /\ pending_action'.previous.qty = pending_action.previous.qty
    /\ pending_action'.expected = pending_action.expected
    /\ open_position'.qty = open_position.qty
    /\ exch' = exch

LEMMA StutterIsAllowed ==
    ASSUME SamePosition
    PROVE  UNCHANGED Promise!positionVars
  BY DEF SamePosition, Promise!positionVars

LEMMA PlanIsAllowed ==
    ASSUME TypeInv, HedgeInv, ~Pending,
           NEW kind \in {"open", "close"}, NEW expected \in Nat,
           expected # open_position.qty, Begin(kind, expected)
    PROVE  Promise!Plan
<1>1. Pending' /\ exch' = exch
  BY DEF Begin, Pending, venues
<1>2. /\ pending_action'.previous.qty = open_position.qty
      /\ pending_action'.expected = expected
  BY DEF Begin
<1> QED
  BY <1>1, <1>2 DEF Promise!Plan, Pending

LEMMA EndIsAllowed ==
    ASSUME NEW position, EndsHedged(position)
    PROVE  Promise!Done
<1>1. ~Pending' /\ exch' = exch /\ open_position'.qty = position.qty
  BY DEF EndsHedged, Conclude, Pending, NoAction
<1>2. Pending /\ \A v \in Venue : exch[v] = position.qty
  BY DEF EndsHedged
<1>3. position.qty \in {pending_action.previous.qty, pending_action.expected}
  BY DEF EndsHedged, Have, Goal
<1> QED
  BY <1>1, <1>2, <1>3 DEF Promise!Done, Venue

LEMMA ExecuteIsAllowed ==
    ASSUME TypeInv, HedgeInv, NEW o \in wire, Execute(o)
    PROVE  Promise!FirstLeg \/ Promise!SecondLeg
<1> DEFINE v == VenueOf(o.leg)
<1>1. UNCHANGED <<pending_action, open_position>>
  BY DEF Execute, file
<1>2. Pending /\ Pending' /\ fate[o.leg] = "flying" /\ o.leg \in Leg
  BY <1>1, ExecuteMoves DEF Pending
<1>3. Have \in Nat /\ Goal \in Nat /\ exch["variational"] \in Int /\ exch["lighter"] \in Int
  BY FatesAreTyped
<1>4. exch' \in [Venue -> Int]
  BY ExecuteKeepsTypes DEF TypeInv, TypeOK
<1>5. LegOrder /\ HoldsLighter /\ HoldsVariational
  BY <1>2 DEF HedgeInv, VenueInv
<1>6. exch[v] \in {Have, Goal}
  BY <1>2, <1>5
  DEF LegOrder, HoldsLighter, HoldsVariational, Untouched, VenueOf, Leg
<1>7. exch'[v] \in {Have, Goal} \/ Partway(exch'[v])
  BY <1>6, ExecuteMoves
<1>8. Promise!Between(exch'[v], Have, Goal)
  <2>1. exch'[v] \in Int
    BY <1>4 DEF VenueOf, Venue
  <2> DEFINE n == exch'[v]
  <2> HIDE DEF n
  <2>2. n \in {Have, Goal} \/ (Have < n /\ n < Goal) \/ (Goal < n /\ n < Have)
    BY <1>7 DEF Partway, n
  <2>3. (Have <= n /\ n <= Goal) \/ (Goal <= n /\ n <= Have)
    BY <1>3, <2>1, <2>2 DEF n
  <2> QED
    BY <2>3 DEF Promise!Between, n
<1>9. CASE o.leg = "lighter"
  <2>1. v = "lighter" /\ exch'["variational"] = exch["variational"]
    BY <1>9, ExecuteMoves DEF VenueOf, Venue
  <2>2. exch["variational"] = Goal
    BY <1>2, <1>5, <1>9 DEF LegOrder, HoldsVariational, Untouched
  <2> QED
    BY <1>1, <1>2, <1>4, <1>8, <2>1, <2>2 DEF Promise!SecondLeg, Have, Goal, Venue
<1>10. CASE o.leg # "lighter"
  <2>1. v = "variational" /\ exch'["lighter"] = exch["lighter"]
    BY <1>10, ExecuteMoves DEF VenueOf, Venue
  <2>2. exch["lighter"] = Have
    BY <1>2, <1>5, <1>10, FatesAreTyped DEF LegOrder, HoldsLighter, Untouched, Leg
  <2> QED
    BY <1>1, <1>2, <1>4, <1>8, <2>1, <2>2 DEF Promise!FirstLeg, Have, Goal, Venue
<1> QED
  BY <1>9, <1>10

LEMMA QuietStepsStutter ==
    ASSUME TypeInv, UNCHANGED <<open_position, pending_action, exch>>
    PROVE  SamePosition
  BY DEF SamePosition, Pending

LEMMA ProcessIsAllowed ==
    ASSUME TypeInv, HedgeInv, ProcessStep
    PROVE  Promise!Done \/ SamePosition
<1> USE DEF file, venues, history
<1>1. CASE SubmitStep
  BY <1>1, QuietStepsStutter
  DEF SubmitStep, FreshQuote, NoFreshQuote, PersistLeg, StartSubmission, GuardBlocks,
      Dispatch, RejectedBeforeSend, DispatchRefused, LostBeforeSend, Unanswered, Reply,
      ManualReview
<1>2. CASE Settle
  BY <1>2, SettleEndsHedged, EndIsAllowed
<1>3. CASE HedgeNext \/ Compensate \/ ReadAfter \/ StopForReview
  BY <1>3, QuietStepsStutter
  DEF HedgeNext, Compensate, ReadAfter, StopForReview, ManualReview
<1>4. CASE Finalize
  BY <1>4, FinalizeEndsHedged, EndIsAllowed
<1>5. CASE RestorePrevious
  BY <1>5, RestoreEndsHedged, EndIsAllowed
<1>6. CASE ReadAccount \/ AccountUnavailable \/ ResumeHedge \/ Raise \/ NotExactlyReconciled
  BY <1>6, QuietStepsStutter
  DEF ReadAccount, AccountUnavailable, ResumeHedge, Raise, NotExactlyReconciled, ManualReview
<1> QED
  BY <1>1, <1>2, <1>3, <1>4, <1>5, <1>6 DEF ProcessStep, FollowStep, DecideStep

LEMMA SessionStutters == ASSUME TypeInv, SessionMoves PROVE SamePosition
<1>1. pending_action \in Action /\ open_position \in Position
  BY DEF TypeInv, TypeOK
<1> QED
  BY <1>1, PastSessionKeepsQuantity
  DEF SessionMoves, SamePosition, Pending, Action, venues

LEMMA EveryStepIsAllowed ==
    ASSUME MaxReductions = 0, TypeInv, HedgeInv, [Next]_vars
    PROVE  [Promise!PositionNext]_(Promise!positionVars)
<1> USE DEF file, venues
<1>1. CASE \E size \in Sizes, gradient \in BOOLEAN : BeginOpen(size, gradient)
  <2>1. PICK size \in Sizes, gradient \in BOOLEAN : BeginOpen(size, gradient)
    BY <1>1
  <2>2. open_position.qty \in Nat /\ size \in Nat /\ size > 0
    BY SizesAssumption DEF TypeInv, TypeOK, Position
  <2>3. open_position.qty + size \in Nat /\ open_position.qty + size # open_position.qty
    BY <2>2
  <2>4. Promise!Plan
    BY <2>1, <2>3, PlanIsAllowed DEF BeginOpen
  <2> QED
    BY <2>4 DEF Promise!PositionNext
<1>2. CASE \E expected \in 0..MaxPosition : BeginClose(expected)
  <2>1. PICK expected \in 0..MaxPosition : BeginClose(expected)
    BY <1>2
  <2>2. expected \in Nat /\ open_position.qty \in Nat /\ expected < open_position.qty
    BY <2>1, BoundsAssumption DEF BeginClose, TypeInv, TypeOK, Position
  <2>3. expected # open_position.qty
    BY <2>2
  <2>4. Promise!Plan
    BY <2>1, <2>2, <2>3, PlanIsAllowed DEF BeginClose
  <2> QED
    BY <2>4 DEF Promise!PositionNext
<1>3. CASE ProcessStep
  BY <1>3, ProcessIsAllowed, StutterIsAllowed DEF Promise!PositionNext
<1>4. CASE \E o \in wire : Execute(o)
  BY <1>4, ExecuteIsAllowed DEF Promise!PositionNext
<1>5. CASE ClaimMismatch \/ LookUpOrders \/ QuoteExpires \/ Crash \/ UNCHANGED vars
  <2>1. SamePosition
    BY <1>5, QuietStepsStutter
    DEF ClaimMismatch, ManualReview, LookUpOrders, QuoteExpires, Crash, vars
  <2> QED
    BY <2>1, StutterIsAllowed
<1>6. CASE SessionMoves
  BY <1>6, SessionStutters, StutterIsAllowed
<1> QED
  BY <1>1, <1>2, <1>3, <1>4, <1>5, <1>6, NoReduction DEF Next

LEMMA PromiseInitially == Init => Promise!PositionInit
  BY DEF Init, Promise!PositionInit, Pending, NoAction, NoPosition, Venue

\* The coordinator implements PairPosition: through crashes, lost replies
\* and recoveries Lighter trades only behind a complete Variational leg, and
\* an action ends with both venues at its start or both at its goal.
THEOREM ImplementsPairPosition ==
    ASSUME MaxReductions = 0
    PROVE  Spec => VariationalFirst
<1>1. Init => TypeInv /\ SendInv /\ HedgeInv /\ Promise!PositionInit
  BY TypesInitially, SendsInitially, HedgeInitially, PromiseInitially
<1>2. TypeInv /\ SendInv /\ HedgeInv /\ [Next]_vars => (TypeInv /\ SendInv /\ HedgeInv)'
  BY EveryStepKeepsTypes, EveryStepKeepsSends, EveryStepKeepsHedge
<1>3. TypeInv /\ HedgeInv /\ [Next]_vars => [Promise!PositionNext]_(Promise!positionVars)
  BY EveryStepIsAllowed
<1> QED
  BY <1>1, <1>2, <1>3, PTL DEF Spec, VariationalFirst, Promise!PositionSpec
=============================================================================
