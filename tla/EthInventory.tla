---------------------------- MODULE EthInventory ----------------------------
(***************************************************************************)
(* The live ETH inventory in V4 basis mode: lots, each a Variational leg   *)
(* hedged by a Lighter leg, entered and left by submitting both legs at    *)
(* once. Two tasks work on it, the strategy and the callback of the        *)
(* Variational trade feed; either completes an entry, whichever learns of  *)
(* its fill first. Whatever does not add up ends in a manual review, that  *)
(* stops the runtime; a restart reconciles the file with both venues.      *)
(*                                                                         *)
(* A lot is one unit and positions count lots, the two legs of a lot being *)
(* opposite. Every read of a venue is a step. Left out: prices and the     *)
(* choice of when to trade, partial fills, the reduce-only exit of an      *)
(* already flat venue, the other inventory modes, and the close of single  *)
(* legs before a review, which is the operator's business afterwards.      *)
(***************************************************************************)
EXTENDS Integers, Sequences, FiniteSets

CONSTANTS LotCap, HedgeRetries,   \* the cap of open lots; retries of a Lighter exit
          Faults, MaxMishaps,     \* what may go wrong, and how often
          MaxIntents              \* bound on the entries

VARIABLES
  var, lighter,   \* the venues' positions
  orders,         \* the orders of this process, in the order they were sent
  events,         \* trade events the callback has not taken
  up, stop,       \* the process, and its stop_flag
  held, entry, exit, known,   \* memory: open lots, pending actions, entries whose reply is known
  dirty,          \* memory changed without a write
  task,           \* what the strategy and the callback are doing
  drain,          \* the maintenance drain
  file,           \* the state file: [review, lots, pending]
  made, mishaps   \* bounds

venues == <<var, lighter, orders, events>>
lotMemory == <<held, entry, exit, known, dirty>>
inventoryVars == <<venues, up, stop, lotMemory, task, drain, file, made, mishaps>>

Tasks == {"strategy", "callback"}
NoEntry == [id |-> 0]
Resting == [at |-> "idle"]

Fault(what, venue, purpose) ==
  /\ <<what, venue, purpose>> \in Faults /\ mishaps < MaxMishaps /\ mishaps' = mishaps + 1
NoFault == UNCHANGED mishaps

\* Open lots are known by the id of their entry, and taken together by it.
Ids(lots) == {l.id : l \in lots}
Quantity(ids) == Cardinality({l \in held : l.id \in ids})

Order(venue, purpose, qty) == [venue |-> venue, purpose |-> purpose, qty |-> qty, status |-> "sent"]
Opens(o) == o.purpose \in {"entry", "unwind"}
Position(venue) == IF venue = "var" THEN var ELSE lighter
Sent == {k \in DOMAIN orders : orders[k].status = "sent"}
WithStatus(k, s) == [orders EXCEPT ![k].status = s]

InventoryTypeOK ==
  /\ var \in Int /\ lighter \in Int
  /\ \A k \in DOMAIN orders :
       /\ orders[k].venue \in {"var", "lighter"} /\ orders[k].qty \in 1..MaxIntents
       /\ orders[k].purpose \in {"entry", "exit", "unwind", "close"}
       /\ orders[k].status \in {"sent", "filled", "canceled", "rejected", "refused"}
  /\ up \in BOOLEAN /\ stop \in BOOLEAN /\ dirty \in BOOLEAN
  /\ Ids(held) \subseteq 1..MaxIntents /\ exit \subseteq 1..MaxIntents
  /\ known \subseteq 1..MaxIntents
  /\ entry.id \in 0..MaxIntents
  /\ drain \in {"no", "asked", "seen", "var flat", "done"}
  /\ file.review \in {"no", "resumable", "other"} /\ file.pending \in BOOLEAN
  /\ DOMAIN task = Tasks

InventoryInit ==
  /\ var = 0 /\ lighter = 0 /\ orders = <<>> /\ events = <<>>
  /\ up = FALSE /\ stop = FALSE
  /\ held = {} /\ entry = NoEntry /\ exit = {} /\ known = {} /\ dirty = FALSE
  /\ task = [w \in Tasks |-> Resting] /\ drain = "no"
  /\ file = [review |-> "no", lots |-> {}, pending |-> FALSE]
  /\ made = 0 /\ mishaps = 0

-----------------------------------------------------------------------------
(* The venues. An order that is in flight fills, or what was accepted fails *)
(* later; a reduce-only order that finds less than it reduces is canceled.  *)

\* The feed names side, quantity and status, and tells a later process nothing.
FeedTells(o, status) ==
  IF up /\ o.venue = "var"
  THEN Append(events, [opens |-> Opens(o), qty |-> o.qty, status |-> status]) ELSE events

OrderFills(k) ==
  LET o == orders[k]
      after == Position(o.venue) + (IF Opens(o) THEN o.qty ELSE 0 - o.qty)
  IN
  /\ k \in Sent /\ (Opens(o) \/ Position(o.venue) >= o.qty)
  /\ orders' = WithStatus(k, "filled")
  /\ IF o.venue = "var" THEN var' = after /\ UNCHANGED lighter
                        ELSE lighter' = after /\ UNCHANGED var
  /\ \/ events' = FeedTells(o, "filled") /\ NoFault
     \/ UNCHANGED events /\ up /\ o.venue = "var" /\ Fault("lost", "var", "event")
  /\ UNCHANGED <<up, stop, lotMemory, task, drain, file, made>>

OrderFails(k) ==
  LET o == orders[k] IN
  /\ k \in Sent
  /\ \/ ~Opens(o) /\ Position(o.venue) < o.qty /\ NoFault
     \/ Fault(IF o.venue = "var" THEN "rejected" ELSE "canceled", o.venue, o.purpose)
  /\ orders' = WithStatus(k, IF o.venue = "var" THEN "rejected" ELSE "canceled")
  /\ events' = FeedTells(o, "rejected")
  /\ UNCHANGED <<var, lighter, up, stop, lotMemory, task, drain, file, made>>

-----------------------------------------------------------------------------
(* The state file. A write holds the memory of that moment; a write without *)
(* a review replaces the review that an earlier one asked for.              *)

Write(review) ==
  /\ file' = [review |-> review, lots |-> held', pending |-> entry' # NoEntry \/ exit' # {}]
  /\ dirty' = FALSE
Persist == Write("no") /\ UNCHANGED stop
Review(reason) == Write(reason) /\ stop' = TRUE

Flush ==
  /\ up /\ ~stop /\ dirty /\ UNCHANGED <<held, entry, exit, known>> /\ Persist
  /\ UNCHANGED <<venues, up, task, drain, made, mishaps>>

Does(w, next) == task' = [task EXCEPT ![w] = next]
Strategy(next) == Does("strategy", next)

\* Unless the venue may be late, it has settled what was taken back and told
\* every fill before the strategy, that waits for several samples, acts again.
Prompt == events = <<>> /\ \A k \in Sent : orders[k].purpose # "unwind"
StrategyTick == /\ up /\ ~stop /\ task["strategy"] = Resting
                /\ Prompt \/ <<"late", "var", "any">> \in Faults

-----------------------------------------------------------------------------
(* Entries. The intent is saved before the two legs leave. *)

ProposeEntry ==
  /\ StrategyTick /\ entry = NoEntry /\ drain \in {"no", "asked"} /\ made < MaxIntents
  /\ held = {} \/ (exit = {} /\ Cardinality(held) < LotCap)
  /\ made' = made + 1
  /\ entry' = [id |-> made', var |-> Len(orders) + 1, lighter |-> Len(orders) + 2]
  /\ orders' = Append(Append(orders, Order("var", "entry", 1)), Order("lighter", "entry", 1))
  /\ Strategy([at |-> "entering", e |-> entry'])
  /\ UNCHANGED <<held, exit, known>> /\ Persist
  /\ UNCHANGED <<var, lighter, events, up, drain, mishaps>>

\* Both replies are there. Only a leg that was refused for certain drops the intent.
EntryReplied ==
  LET e == task["strategy"].e IN
  /\ up /\ task["strategy"].at = "entering" /\ Strategy(Resting)
  /\ UNCHANGED <<held, exit>>
  /\ \/ NoFault /\ known' = known \cup {e.id} /\ UNCHANGED <<orders, entry>> /\ Persist
     \/ Fault("unknown", "var", "entry") /\ UNCHANGED <<orders, entry, known>> /\ Review("other")
     \/ /\ Fault("refused", "var", "entry") /\ e.var \in Sent
        /\ orders' = WithStatus(e.var, "refused") /\ entry' = NoEntry
        /\ UNCHANGED known /\ Review("other")
     \/ /\ Fault("refused", "lighter", "entry") /\ e.lighter \in Sent
        /\ orders' = WithStatus(e.lighter, "refused")
        /\ UNCHANGED <<entry, known>> /\ Review("other")
  /\ UNCHANGED <<var, lighter, events, up, drain, made>>

\* The callback matches an event with a pending action of its side and quantity.
TakeEvent ==
  LET ev == Head(events)
      isEntry == ev.opens /\ entry # NoEntry /\ ev.qty = 1
      isExit == ~ev.opens /\ exit # {} /\ ev.qty = Quantity(exit)
  IN
  /\ up /\ events # <<>> /\ task["callback"] = Resting
  /\ events' = Tail(events)
  /\ entry' = IF isEntry THEN NoEntry ELSE entry
  /\ exit' = IF isExit THEN {} ELSE exit
  /\ UNCHANGED <<held, known>>
  /\ IF ~isEntry /\ ~isExit THEN UNCHANGED <<stop, dirty, file>>
     ELSE IF ev.status = "rejected" THEN Review("other") ELSE Persist
  /\ Does("callback", IF isEntry /\ ev.status = "filled" THEN [at |-> "completing", e |-> entry]
                      ELSE Resting)
  /\ UNCHANGED <<var, lighter, orders, up, drain, made, mishaps>>

\* The strategy asks for the fate of a pending entry's Variational order, and
\* acts on the entry it asked for when the answer is there.
Lookup ==
  /\ StrategyTick /\ entry # NoEntry /\ entry.id \in known
  /\ Strategy([at |-> "looking", e |-> entry, answer |-> orders[entry.var].status])
  /\ UNCHANGED <<venues, up, stop, lotMemory, drain, file, made, mishaps>>

LookupAnswered ==
  LET t == task["strategy"] IN
  /\ up /\ t.at = "looking" /\ UNCHANGED <<held, exit, known>>
  /\ \/ /\ t.answer = "filled" /\ NoFault
        /\ entry' = IF entry = t.e THEN NoEntry ELSE entry
        /\ dirty' = (dirty \/ entry = t.e) /\ UNCHANGED <<stop, file>>
        /\ Strategy([at |-> "completing", e |-> t.e])
     \/ /\ t.answer = "rejected" /\ NoFault
        /\ entry' = IF entry = t.e THEN NoEntry ELSE entry
        /\ Strategy(Resting) /\ Review("other")
     \/ t.answer = "sent" /\ NoFault /\ Strategy(Resting) /\ UNCHANGED <<entry, dirty, stop, file>>
     \/ t.answer = "sent" /\ Fault("slow", "var", "entry") /\ Strategy(Resting)
        /\ UNCHANGED entry /\ Review("other")
  /\ UNCHANGED <<venues, up, drain, made>>

\* What an order has to be for its lot to count as hedged.
Submitted(status) == status # "refused"   \* mutant
Hedged(status) == status = "filled"

\* The Lighter leg must have filled; at too bad a price both legs are closed again.
Complete(w) ==
  LET e == task[w].e
      hedge == orders[e.lighter].status
  IN
  /\ up /\ task[w].at = "completing" /\ UNCHANGED <<entry, exit, known>>
  /\ \/ e.id \notin known /\ NoFault /\ UNCHANGED held /\ Review("other") /\ Does(w, Resting)
     \/ /\ e.id \in known /\ Hedged(hedge) /\ NoFault
        /\ held' = held \cup {[id |-> e.id, by |-> w]} /\ Persist /\ Does(w, Resting)
     \/ /\ e.id \in known /\ UNCHANGED held /\ Review("other") /\ Does(w, Resting)
        /\ \/ hedge = "canceled" /\ NoFault
           \/ hedge = "sent" /\ Fault("slow", "lighter", "entry")
     \/ /\ e.id \in known /\ hedge = "filled" /\ Fault("breach", "lighter", "entry")
        /\ Does(w, [at |-> "closing"]) /\ UNCHANGED <<held, dirty, stop, file>>
  /\ UNCHANGED <<venues, up, drain, made>>

CloseBoth(w) ==
  /\ up /\ task[w].at = "closing" /\ Does(w, [at |-> "verifying"])
  /\ \/ /\ NoFault
        /\ orders' = Append(Append(orders, Order("var", "close", 1)), Order("lighter", "close", 1))
     \/ /\ Fault("refused", "both", "close")
        /\ \E venue \in {"var", "lighter"} : orders' = Append(orders, Order(venue, "close", 1))
  /\ UNCHANGED <<var, lighter, events, up, stop, lotMemory, drain, file, made>>

\* Polled until it holds or the time is over.
Verify(w) ==
  LET agree == var = Cardinality(held) /\ lighter = Cardinality(held) IN
  /\ up /\ task[w].at = "verifying" /\ Does(w, Resting)
  /\ agree \/ Sent = {}
  /\ UNCHANGED <<held, entry, exit, known>> /\ IF agree THEN Persist ELSE Review("other")
  /\ UNCHANGED <<venues, up, drain, made, mishaps>>

-----------------------------------------------------------------------------
(* Exits: any group of lots, of one tier or all. *)

BeginExit(ids) ==
  /\ StrategyTick /\ entry = NoEntry /\ ids # {} /\ ids \subseteq Ids(held)
  /\ exit' = ids /\ UNCHANGED <<held, entry, known>> /\ Persist
  /\ orders' = Append(Append(orders, Order("var", "exit", Quantity(ids))),
                      Order("lighter", "exit", Quantity(ids)))
  /\ Strategy([at |-> "leaving", ids |-> ids, qty |-> Quantity(ids), var |-> Len(orders) + 1,
               hedge |-> Len(orders) + 2, tries |-> 0])
  /\ UNCHANGED <<var, lighter, events, up, drain, made, mishaps>>

ExitReplied ==
  LET t == task["strategy"] IN
  /\ up /\ t.at = "leaving" /\ UNCHANGED <<held, entry, known>>
  /\ \/ /\ NoFault /\ Strategy([t EXCEPT !.at = "hedging"])
        /\ UNCHANGED <<orders, exit, dirty, stop, file>>
     \/ /\ Fault("unknown", "var", "exit") /\ Strategy(Resting)
        /\ UNCHANGED <<orders, exit>> /\ Review("other")
     \/ /\ Fault("refused", "var", "exit") /\ t.var \in Sent /\ Strategy(Resting)
        /\ orders' = WithStatus(t.var, "refused") /\ exit' = {} /\ Review("other")
     \/ /\ Fault("refused", "lighter", "exit") /\ t.hedge \in Sent
        /\ orders' = WithStatus(t.hedge, "refused")
        /\ Strategy([t EXCEPT !.at = "recovering"]) /\ UNCHANGED <<exit, dirty, stop, file>>
     \/ \* the order left, and its acknowledgement was lost
        /\ Fault("lost", "lighter", "exit")
        /\ Strategy([t EXCEPT !.at = "recovering"]) /\ UNCHANGED <<orders, exit, dirty, stop, file>>
  /\ UNCHANGED <<var, lighter, events, up, drain, made>>

\* Two more attempts at the hedge, then the Variational leg is taken back.
Rehedge ==
  LET t == task["strategy"] IN
  /\ up /\ t.at = "recovering" /\ t.tries < 2
  /\ \/ /\ orders' = Append(orders, Order("lighter", "exit", t.qty))
        /\ Strategy([t EXCEPT !.at = "hedging", !.hedge = Len(orders) + 1, !.tries = 0])
     \/ /\ UNCHANGED orders /\ Strategy([t EXCEPT !.tries = @ + 1])
  /\ UNCHANGED <<var, lighter, events, up, stop, lotMemory, drain, file, made, mishaps>>

Unwind ==
  LET t == task["strategy"] IN
  /\ up /\ t.at = "recovering" /\ t.tries = 2 /\ Strategy(Resting)
  /\ UNCHANGED <<held, entry, known>>
  /\ \/ /\ NoFault /\ orders' = Append(orders, Order("var", "unwind", t.qty))
        /\ exit' = {} /\ dirty' = TRUE /\ UNCHANGED <<stop, file>>
     \/ Fault("refused", "var", "unwind") /\ UNCHANGED <<orders, exit>> /\ Review("other")
  /\ UNCHANGED <<var, lighter, events, up, drain, made>>

\* The Lighter fill ends the exit; nothing waits for the Variational one. A
\* canceled order is tried again, what is slow is left to the operator.
SettleExit ==
  LET t == task["strategy"]
      hedge == orders[t.hedge].status
  IN
  /\ up /\ t.at = "hedging" /\ UNCHANGED <<entry, known>>
  /\ \/ /\ hedge = "filled" /\ NoFault
        /\ held' = {l \in held : l.id \notin t.ids} /\ exit' = {}
        /\ Persist /\ Strategy(Resting) /\ UNCHANGED orders
     \/ /\ hedge = "canceled" /\ t.tries < HedgeRetries /\ NoFault
        /\ orders' = Append(orders, Order("lighter", "exit", t.qty))
        /\ Strategy([t EXCEPT !.hedge = Len(orders) + 1, !.tries = @ + 1])
        /\ UNCHANGED <<held, exit, dirty, stop, file>>
     \/ /\ \/ hedge = "canceled" /\ t.tries = HedgeRetries /\ NoFault
           \/ hedge = "sent" /\ Fault("slow", "lighter", "exit")
        /\ UNCHANGED <<orders, held, exit>> /\ Review("resumable") /\ Strategy(Resting)
  /\ UNCHANGED <<var, lighter, events, up, drain, made>>

-----------------------------------------------------------------------------
(* The drain: entries stop, and once nothing is open both venues are read, *)
(* one after the other, before the receipt is written.                     *)

AskDrain ==
  /\ up /\ ~stop /\ drain = "no" /\ drain' = "asked"
  /\ UNCHANGED <<venues, up, stop, lotMemory, task, file, made, mishaps>>

SeeDrain ==
  /\ up /\ ~stop /\ drain = "asked" /\ drain' = "seen"
  /\ UNCHANGED <<held, entry, exit, known>> /\ Persist
  /\ UNCHANGED <<venues, up, task, made, mishaps>>

NothingOpen == held = {}   \* mutant
Nothing == held = {} /\ entry = NoEntry /\ exit = {}

DrainReadsVar ==
  /\ up /\ ~stop /\ drain = "seen" /\ Nothing /\ var = 0 /\ drain' = "var flat"
  /\ UNCHANGED <<venues, up, stop, lotMemory, task, file, made, mishaps>>

GivenUp(flat) == IF flat THEN "done" ELSE "no"   \* mutant
Verdict(flat) == IF flat THEN "done" ELSE "seen"

DrainReadsRest ==
  LET flat == lighter = 0 /\ \A k \in Sent : orders[k].venue # "var" IN
  /\ up /\ ~stop /\ drain = "var flat" /\ UNCHANGED <<held, entry, exit, known>>
  /\ drain' = Verdict(flat)
  /\ IF flat THEN Write("no") /\ stop' = TRUE ELSE UNCHANGED <<dirty, stop, file>>
  /\ UNCHANGED <<venues, up, task, made, mishaps>>

-----------------------------------------------------------------------------
(* The end of the process, and the next start. A start is only made when no *)
(* order of the dead process is in flight any more.                         *)

Gone == /\ up' = FALSE /\ stop' = FALSE /\ held' = {} /\ entry' = NoEntry /\ exit' = {}
        /\ known' = {} /\ dirty' = FALSE /\ task' = [w \in Tasks |-> Resting] /\ events' = <<>>
        /\ UNCHANGED <<var, lighter, orders, drain, made>>

\* close() saves what is dirty, and asks for a review when an entry is unresolved.
CloseRuntime ==
  /\ up /\ stop /\ Gone /\ NoFault
  /\ file' = IF entry = NoEntry /\ ~dirty THEN file
             ELSE [review |-> IF entry = NoEntry THEN "no" ELSE "resumable",
                   lots |-> held, pending |-> entry # NoEntry \/ exit # {}]

InventoryDies == up /\ ~stop /\ Gone /\ Fault("crash", "process", "any") /\ UNCHANGED file

Startable == file.review = "no" \/ (file.review = "resumable" /\ file.lots # {})

StartRuntime ==
  LET agree == var = Cardinality(file.lots) /\ lighter = Cardinality(file.lots) IN
  /\ ~up /\ Sent = {} /\ Startable /\ drain # "done"
  /\ orders' = <<>> /\ drain' = "no" /\ up' = agree
  /\ held' = IF agree THEN file.lots ELSE {}
  /\ file' = [file EXCEPT !.review = IF agree THEN "no" ELSE "other", !.pending = ~agree /\ @]
  /\ UNCHANGED <<var, lighter, events, stop, entry, exit, known, dirty, task, made, mishaps>>

\* The operator flattens both venues by hand and starts with the reset flag.
OperatorReset ==
  /\ ~up /\ Sent = {} /\ ~Startable
  /\ var' = 0 /\ lighter' = 0 /\ file' = [review |-> "no", lots |-> {}, pending |-> FALSE]
  /\ UNCHANGED <<orders, events, up, stop, lotMemory, task, drain, made, mishaps>>

-----------------------------------------------------------------------------
Venue == \E k \in DOMAIN orders : OrderFills(k) \/ OrderFails(k)
Strategic ==
  \/ EntryReplied \/ Lookup \/ LookupAnswered \/ ExitReplied \/ Rehedge \/ Unwind \/ SettleExit
  \/ Complete("strategy") \/ CloseBoth("strategy") \/ Verify("strategy")
Callback == TakeEvent \/ Complete("callback") \/ CloseBoth("callback") \/ Verify("callback")
Drain == SeeDrain \/ DrainReadsVar \/ DrainReadsRest

InventoryNext ==
  \/ Venue \/ Strategic \/ Callback \/ Drain \/ Flush
  \/ ProposeEntry \/ \E ids \in SUBSET Ids(held) : BeginExit(ids)
  \/ AskDrain \/ CloseRuntime \/ InventoryDies \/ StartRuntime \/ OperatorReset

InventorySpec == InventoryInit /\ [][InventoryNext]_inventoryVars
Fairness == /\ WF_inventoryVars(Venue)
            /\ WF_inventoryVars(Strategic) /\ WF_inventoryVars(Callback) /\ WF_inventoryVars(Drain)
FairInventory == InventorySpec /\ Fairness

-----------------------------------------------------------------------------
(* Properties. *)

\* The faults under which the books of memory can be trusted. Each of those left
\* out ends, with at most one more, in a runtime that trades on while the venues
\* hold something else: the reply of an exit's hedge is lost though it fills, what
\* takes a position back is rejected or canceled later, nobody waits for the feed,
\* or a close is refused. A close follows a breach, so one mishap refuses none.
FaultsAssumption ==
  /\ MaxMishaps \in Nat
  /\ {<<"late", "var", "any">>, <<"lost", "lighter", "exit">>, <<"rejected", "var", "exit">>,
      <<"rejected", "var", "unwind">>, <<"rejected", "var", "close">>,
      <<"canceled", "lighter", "close">>} \cap Faults = {}
  /\ MaxMishaps <= 1 \/ <<"refused", "both", "close">> \notin Faults

NothingUnderWay == up /\ ~stop /\ entry = NoEntry /\ exit = {} /\ Sent = {} /\ events = <<>>
         /\ task = [w \in Tasks |-> Resting]

\* A runtime that keeps trading, with nothing pending and nothing in flight,
\* holds in memory what the two venues hold.
TradingMatchesVenues == NothingUnderWay => var = Cardinality(held) /\ lighter = Cardinality(held)

\* The receipt of a drain says that both venues are flat and stay so.
DrainReceiptIsFlat ==
  drain = "done" => var = 0 /\ lighter = 0 /\ \A k \in Sent : ~Opens(orders[k])

\* A drain whose runtime has closed its last lot is answered, unless the
\* runtime stops for a review or dies.
DrainIsAnswered == (drain = "seen" /\ held = {}) ~> (drain = "done" \/ stop \/ ~up \/ held # {})

=============================================================================
