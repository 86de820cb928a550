------------------------- MODULE EthInventoryProofs -------------------------
(***************************************************************************)
(* Memory agrees with the venues whenever nothing is under way, the        *)
(* receipt of a drain is true, an entry becomes one lot, quantities stay   *)
(* within their types, and a file that says flat is right, for every cap,  *)
(* any number of retries, of entries and of mishaps, under                 *)
(* FaultsAssumption.                                                       *)
(*                                                                         *)
(* The first two follow from books that a running inventory keeps of each  *)
(* venue: it holds the open lots, what entries have filled that are no     *)
(* lots yet, and what exits that nobody waits for have not taken; it lacks *)
(* what an exit under way took already, and what is still to be taken      *)
(* back. Orders are counted as pairs, <<order, unit>>, so that their sum   *)
(* is a cardinality. That an entry is one lot needs no books, and holds    *)
(* while a runtime stops too: whoever learns of the fill takes the entry   *)
(* from what is pending, and nothing that opens is still in flight then.   *)
(***************************************************************************)
EXTENDS EthInventory, FiniteSetTheorems, SequenceTheorems, TLAPS

-----------------------------------------------------------------------------
(* The inductive invariant.                                                *)

OrderStatuses == {"sent", "filled", "canceled", "rejected", "refused"}
OrderRecords ==
  [venue : {"var", "lighter"}, purpose : {"entry", "exit", "unwind", "close"}, qty : Nat \ {0},
   status : OrderStatuses]
EventRecords == [opens : BOOLEAN, qty : Nat \ {0}, status : {"filled", "rejected"}]
LotRecords == [id : Nat \ {0}, by : Tasks]
Intents == [id : Nat \ {0}, var : Nat \ {0}, lighter : Nat \ {0}]
Files == [review : {"no", "resumable", "other"}, lots : SUBSET LotRecords, pending : BOOLEAN]
Exits ==
  [at : {"leaving", "hedging", "recovering"}, ids : SUBSET (Nat \ {0}), qty : Nat \ {0},
   var : Nat \ {0}, hedge : Nat \ {0}, tries : Nat]
Endings == {Resting} \cup [at : {"completing"}, e : Intents] \cup [at : {"closing", "verifying"}]
Courses ==
  Endings \cup [at : {"entering"}, e : Intents]
          \cup [at : {"looking"}, e : Intents, answer : OrderStatuses] \cup Exits

KindsOK ==
  /\ var \in Int /\ lighter \in Int
  /\ orders \in Seq(OrderRecords) /\ events \in Seq(EventRecords)
  /\ up \in BOOLEAN /\ stop \in BOOLEAN /\ dirty \in BOOLEAN
  /\ held \in SUBSET LotRecords /\ IsFiniteSet(held)
  /\ file \in Files /\ IsFiniteSet(file.lots)
  /\ entry \in {NoEntry} \cup Intents /\ exit \in SUBSET (Nat \ {0}) /\ known \in SUBSET (Nat \ {0})
  /\ task \in [Tasks -> Courses] /\ task["callback"] \in Endings
  /\ drain \in {"no", "asked", "seen", "var flat", "done"}
  /\ made \in Nat /\ mishaps \in Nat

\* A dead runtime has no memory, and is told nothing.
DownIsEmpty ==
  ~up => /\ ~stop /\ held = {} /\ entry = NoEntry /\ events = <<>>
         /\ task = [w \in Tasks |-> Resting]

\* No entry is known that was not made, and a breach is a mishap.
EntriesWereMade ==
  /\ \A l \in held \cup file.lots : l.id <= made
  /\ entry.id <= made
  /\ \A w \in Tasks : /\ task[w].at \in {"entering", "looking", "completing"} => task[w].e.id <= made
                      /\ task[w].at = "closing" => mishaps # 0

Running == up /\ ~stop
Leaves == task["strategy"].at \in {"leaving", "hedging", "recovering"}
Completes(w) == task[w].at = "completing"
IsOrder(os, k, venue, purpose) ==
  k \in DOMAIN os /\ os[k].venue = venue /\ os[k].purpose = purpose
IsEntry(os, e) ==
  /\ IsOrder(os, e.var, "var", "entry") /\ IsOrder(os, e.lighter, "lighter", "entry")
  /\ os[e.var].qty = 1 /\ os[e.lighter].qty = 1
Filled(os, k) == os[k].status = "filled"

\* What memory names are the orders it means, and each is named once.
OrdersAreNamed ==
  LET s == task["strategy"] IN
  /\ entry # NoEntry => IsEntry(orders, entry)
  /\ \A w \in Tasks : Completes(w) => IsEntry(orders, task[w].e) /\ Filled(orders, task[w].e.var)
  /\ Leaves => /\ IsOrder(orders, s.hedge, "lighter", "exit") /\ orders[s.hedge].qty = s.qty
               /\ entry = NoEntry
               /\ s.at = "recovering" => orders[s.hedge].status \notin {"sent", "filled"}

NamedOnce ==
  /\ \A w \in Tasks :
       Completes(w) => /\ task[w].e.id \notin Ids(held)
                       /\ entry # NoEntry => /\ entry.id # task[w].e.id
                                             /\ entry.lighter # task[w].e.lighter
  /\ entry # NoEntry => entry.id \notin Ids(held)
  /\ Completes("strategy") /\ Completes("callback") =>
       /\ task["strategy"].e.id # task["callback"].e.id
       /\ task["strategy"].e.lighter # task["callback"].e.lighter

\* What is in flight is named, but for what only leaves.
Named(k) ==
  /\ orders[k].purpose = "unwind" =>
       orders[k].venue = "var" /\ entry = NoEntry /\ task["strategy"] = Resting
  /\ IsOrder(orders, k, "var", "entry") => entry # NoEntry /\ k = entry.var
  /\ IsOrder(orders, k, "lighter", "entry") =>
       \/ entry # NoEntry /\ k = entry.lighter
       \/ \E w \in Tasks : Completes(w) /\ k = task[w].e.lighter
  /\ IsOrder(orders, k, "lighter", "exit") => Leaves /\ k = task["strategy"].hedge
SentIsNamed == \A k \in Sent : Named(k)

\* News of a fill, or an answer that says so, is about the pending entry.
NewsIsTrue ==
  LET s == task["strategy"] IN
  /\ \A n \in DOMAIN events :
       events[n].opens /\ events[n].status = "filled" /\ entry # NoEntry => Filled(orders, entry.var)
  /\ s.at = "looking" /\ s.answer = "filled" =>
       /\ entry = s.e /\ Filled(orders, entry.var)
       /\ \A n \in DOMAIN events : ~events[n].opens

\* What orders in flight will move: the units of each are pairs, so that their
\* sum is a cardinality.
Class(o) ==
  CASE o.purpose = "entry" -> "entry" [] o.purpose = "unwind" -> "return" [] OTHER -> o.venue
Units(k, qty) == {k} \X (1..qty)
Flying(os, class) ==
  UNION {Units(k, os[k].qty) : k \in {j \in DOMAIN os : os[j].status = "sent" /\ Class(os[j]) = class}}
Flight(os, class) == Cardinality(Flying(os, class))

One(b) == IF b THEN 1 ELSE 0
Leg(e, venue) == IF venue = "var" THEN e.var ELSE e.lighter
Pending(venue) == One(entry # NoEntry /\ Filled(orders, Leg(entry, venue)))
Custody(w, venue) ==
  One(task[w].at = "closing" \/ (Completes(w) /\ Filled(orders, Leg(task[w].e, venue))))
Promised(venue) ==
  IF Leaves /\ (venue = "var" \/ orders[task["strategy"].hedge].status \in {"sent", "filled"})
  THEN task["strategy"].qty ELSE 0
Unreturned(venue) == IF venue = "var" THEN Flight(orders, "return") ELSE 0

\* A venue holds the open lots, the legs of entries that are no lots yet, and
\* what has not left; not what an exit promised or what is still to return.
Booked ==
  \A venue \in {"var", "lighter"} :
    Position(venue) =
      Cardinality(held) + Pending(venue) + Custody("strategy", venue) + Custody("callback", venue)
      + Flight(orders, venue) - Promised(venue) - Unreturned(venue)

LotsCoverExits ==
  /\ Leaves => /\ task["strategy"].ids \subseteq Ids(held)
               /\ Quantity(task["strategy"].ids) = task["strategy"].qty
  /\ Flight(orders, "return") <= Cardinality(held)

RunningInv ==
  /\ OrdersAreNamed /\ NamedOnce /\ SentIsNamed /\ NewsIsTrue /\ Booked /\ LotsCoverExits

\* Between the reads of a drain, and after its receipt.
Receipt ==
  /\ var = 0 /\ lighter = 0 /\ entry = NoEntry /\ (up => stop)
  /\ \A k \in Sent : ~Opens(orders[k])
  /\ task["strategy"].at \in {"idle", "entering", "looking", "verifying"}
  /\ task["callback"].at \in {"idle", "verifying"}
  /\ task["strategy"].at = "looking" => task["strategy"].answer # "filled"
DrainHolds ==
  /\ drain = "var flat" /\ Running => var = 0 /\ held = {} /\ entry = NoEntry
  /\ drain = "done" => Receipt

InventoryInv ==
  KindsOK /\ DownIsEmpty /\ EntriesWereMade /\ (Running => RunningInv) /\ DrainHolds
-----------------------------------------------------------------------------
(* Lemmas about orders in flight.                                          *)

\* The units of an order are as many as its quantity.
LEMMA UnitsAreQuantity ==
  ASSUME NEW k, NEW qty \in Nat
  PROVE  IsFiniteSet(Units(k, qty)) /\ Cardinality(Units(k, qty)) = qty
<1>1. IsFiniteSet(1..qty) /\ Cardinality(1..qty) = qty
  BY FS_Interval
<1>2. IsFiniteSet({k}) /\ Cardinality({k}) = 1
  BY FS_Singleton
<1>3. /\ IsFiniteSet({k} \X (1..qty))
      /\ Cardinality({k} \X (1..qty)) = Cardinality({k}) * Cardinality(1..qty)
  BY <1>1, <1>2, FS_Product
<1> QED BY <1>1, <1>2, <1>3 DEF Units

LEMMA OrderIs ==
  ASSUME NEW os \in Seq(OrderRecords), NEW k \in DOMAIN os
  PROVE  /\ Len(os) \in Nat /\ DOMAIN os = 1..Len(os) /\ os[k] \in OrderRecords
         /\ os[k].qty \in Nat \ {0} /\ os[k].status \in OrderStatuses
         /\ os[k].venue \in {"var", "lighter"} /\ os[k].purpose \in {"entry", "exit", "unwind", "close"}
<1>1. os[k] \in OrderRecords
  OBVIOUS
<1>2. Len(os) \in Nat /\ DOMAIN os = 1..Len(os)
  OBVIOUS
<1> QED BY <1>1, <1>2 DEF OrderRecords

LEMMA InFlight ==
  ASSUME NEW os, NEW class, NEW x
  PROVE  x \in Flying(os, class) <=>
           \E k \in DOMAIN os : /\ os[k].status = "sent" /\ Class(os[k]) = class
                                /\ x \in Units(k, os[k].qty)
BY DEF Flying

LEMMA FlightIsNat ==
  ASSUME NEW os \in Seq(OrderRecords), NEW class
  PROVE  IsFiniteSet(Flying(os, class)) /\ Flight(os, class) \in Nat
<1> DEFINE K == {j \in DOMAIN os : os[j].status = "sent" /\ Class(os[j]) = class}
           U(k) == Units(k, os[k].qty)
           S == {U(k) : k \in K}
<1>1. DOMAIN os = 1..Len(os) /\ Len(os) \in Nat
  OBVIOUS
<1>2. IsFiniteSet(1..Len(os))
  BY <1>1, FS_Interval
<1>3. IsFiniteSet(K)
  BY <1>1, <1>2, FS_Subset
<1>4. [k \in K |-> U(k)] \in Surjection(K, S)
  BY DEF Surjection
<1> HIDE DEF U
<1>5. IsFiniteSet(S)
  BY <1>3, <1>4, FS_Surjection
<1>6. \A T \in S : IsFiniteSet(T)
  <2>1. ASSUME NEW k \in K PROVE os[k].qty \in Nat
    BY OrderIs
  <2> QED BY <2>1, UnitsAreQuantity DEF U
<1>7. Flying(os, class) = UNION S
  BY DEF Flying, U
<1>8. IsFiniteSet(Flying(os, class))
  BY <1>5, <1>6, <1>7, FS_UNION
<1> QED BY <1>8, FS_CardinalityType DEF Flight

\* What is sent adds its quantity to its class.
LEMMA FlightAppend ==
  ASSUME NEW os \in Seq(OrderRecords), NEW o \in OrderRecords, o.status = "sent", NEW class
  PROVE  Flight(Append(os, o), class) = Flight(os, class) + (IF Class(o) = class THEN o.qty ELSE 0)
<1> DEFINE n == Len(os) + 1
           F == Flying(os, class)
           added == IF Class(o) = class THEN Units(n, o.qty) ELSE {}
<1>1. /\ Append(os, o) \in Seq(OrderRecords) /\ Len(os) \in Nat
      /\ DOMAIN os = 1..Len(os) /\ DOMAIN Append(os, o) = 1..n
      /\ Append(os, o)[n] = o /\ \A k \in 1..Len(os) : Append(os, o)[k] = os[k]
  OBVIOUS
<1>2. IsFiniteSet(F) /\ Cardinality(F) \in Nat
  BY FlightIsNat DEF Flight
<1>3. IsFiniteSet(added) /\ Cardinality(added) = (IF Class(o) = class THEN o.qty ELSE 0)
  BY UnitsAreQuantity, FS_EmptySet DEF OrderRecords
<1>4. Flying(Append(os, o), class) = F \cup added
  <2>1. ASSUME NEW x PROVE x \in Flying(Append(os, o), class) <=> x \in F \cup added
    <3>1. x \in Flying(Append(os, o), class) <=>
            \E k \in 1..n : /\ Append(os, o)[k].status = "sent" /\ Class(Append(os, o)[k]) = class
                            /\ x \in Units(k, Append(os, o)[k].qty)
      BY <1>1, InFlight
    <3>2. x \in F <=> \E k \in 1..Len(os) : /\ os[k].status = "sent" /\ Class(os[k]) = class
                                            /\ x \in Units(k, os[k].qty)
      BY <1>1, InFlight
    <3>3. 1..n = 1..Len(os) \cup {n}
      BY <1>1
    <3>4. x \in Flying(Append(os, o), class) <=>
            \/ \E k \in 1..Len(os) : /\ os[k].status = "sent" /\ Class(os[k]) = class
                                     /\ x \in Units(k, os[k].qty)
            \/ Class(o) = class /\ x \in Units(n, o.qty)
      BY <1>1, <3>1, <3>3, Zenon
    <3> QED BY <3>2, <3>4
  <2> QED BY <2>1
<1>5. F \cap added = {}
  <2>1. ASSUME NEW x \in F, x \in added PROVE FALSE
    <3>1. PICK k \in 1..Len(os) : x \in Units(k, os[k].qty)
      BY <1>1, InFlight
    <3>2. x[1] = k /\ x[1] = n
      BY <2>1, <3>1 DEF Units
    <3> QED BY <1>1, <3>2
  <2> QED BY <2>1
<1>6. Cardinality(F \cup added) = Cardinality(F) + Cardinality(added) - Cardinality({})
  BY <1>2, <1>3, <1>5, FS_Union
<1> HIDE DEF F, added
<1>7. Cardinality(added) \in Nat
  BY <1>3, FS_CardinalityType
<1> QED BY <1>2, <1>3, <1>4, <1>6, <1>7, FS_EmptySet DEF Flight, F

\* What ends, in whatever way, takes its quantity from its class.
LEMMA FlightDrop ==
  ASSUME NEW os \in Seq(OrderRecords), NEW k \in DOMAIN os, os[k].status = "sent",
         NEW s \in OrderStatuses, s # "sent", NEW class
  PROVE  /\ [os EXCEPT ![k].status = s] \in Seq(OrderRecords)
         /\ Flight([os EXCEPT ![k].status = s], class) =
              Flight(os, class) - (IF Class(os[k]) = class THEN os[k].qty ELSE 0)
         /\ Class(os[k]) = class => os[k].qty <= Flight(os, class)
<1> DEFINE new == [os EXCEPT ![k].status = s]
           F == Flying(os, class)
           gone == IF Class(os[k]) = class THEN Units(k, os[k].qty) ELSE {}
<1>1. /\ Len(os) \in Nat /\ DOMAIN os = 1..Len(os) /\ os[k] \in OrderRecords
      /\ [os[k] EXCEPT !.status = s] \in OrderRecords
  BY OrderIs DEF OrderRecords
<1>2. new \in Seq(OrderRecords) /\ DOMAIN new = DOMAIN os /\ new[k] = [os[k] EXCEPT !.status = s]
      /\ \A j \in DOMAIN os \ {k} : new[j] = os[j]
  <2>1. new = [os EXCEPT ![k] = [os[k] EXCEPT !.status = s]]
    BY <1>1
  <2>2. new \in Seq(OrderRecords)
    BY <1>1, <2>1
  <2> QED BY <1>1, <2>1, <2>2
<1>3. IsFiniteSet(F) /\ Cardinality(F) \in Nat
  BY FlightIsNat DEF Flight
<1>4. IsFiniteSet(gone) /\ Cardinality(gone) = (IF Class(os[k]) = class THEN os[k].qty ELSE 0)
  BY <1>1, UnitsAreQuantity, FS_EmptySet DEF OrderRecords
<1>5. gone \subseteq F
  BY InFlight
<1>6. new[k].status = s
  BY <1>1, <1>2 DEF OrderRecords
<1>7. Flying(new, class) = F \ gone
  <2>1. ASSUME NEW x PROVE x \in Flying(new, class) <=> x \in F /\ x \notin gone
    <3> DEFINE In(j) == os[j].status = "sent" /\ Class(os[j]) = class /\ x \in Units(j, os[j].qty)
    <3>1. x \in Flying(new, class) <=>
            \E j \in DOMAIN os : /\ new[j].status = "sent" /\ Class(new[j]) = class
                                 /\ x \in Units(j, new[j].qty)
      BY <1>2, InFlight
    <3>2. x \in Flying(new, class) <=> \E j \in DOMAIN os \ {k} : In(j)
      BY <1>2, <1>6, <3>1
    <3>3. x \in F <=> \E j \in DOMAIN os : In(j)
      BY InFlight
    <3>4. x \in gone <=> In(k)
      OBVIOUS
    <3>5. ASSUME NEW j \in DOMAIN os \ {k}, In(j) PROVE ~ In(k)
      BY <3>5 DEF Units
    <3> QED BY <3>2, <3>3, <3>4, <3>5
  <2> QED BY <2>1
<1>8. Cardinality(F \ gone) = Cardinality(F) - Cardinality(F \cap gone) /\ F \cap gone = gone
  BY <1>3, <1>5, FS_Difference
<1>9. Cardinality(gone) <= Cardinality(F)
  BY <1>3, <1>5, FS_Subset
<1> QED BY <1>2, <1>3, <1>4, <1>7, <1>8, <1>9 DEF Flight

\* A class without an order in flight has no flight, and only such a class.
LEMMA NoFlight ==
  ASSUME NEW os \in Seq(OrderRecords), NEW class
  PROVE  Flight(os, class) = 0 <=>
           \A k \in DOMAIN os : os[k].status = "sent" => Class(os[k]) # class
<1>1. Flight(os, class) = 0 <=> Flying(os, class) = {}
  BY FlightIsNat, FS_EmptySet DEF Flight
<1>2. ASSUME NEW k \in DOMAIN os, os[k].status = "sent", Class(os[k]) = class
      PROVE  Flying(os, class) # {}
  <2>1. os[k].qty \in Nat \ {0}
    BY OrderIs
  <2>2. <<k, 1>> \in Units(k, os[k].qty)
    BY <2>1 DEF Units
  <2> QED BY <1>2, <2>2, InFlight
<1>3. ASSUME Flying(os, class) # {} PROVE \E k \in DOMAIN os : os[k].status = "sent" /\ Class(os[k]) = class
  <2>1. PICK x : x \in Flying(os, class)
    BY <1>3
  <2> QED BY <2>1, InFlight
<1> QED BY <1>1, <1>2, <1>3

-----------------------------------------------------------------------------
(* Kinds.                                                                  *)

LEMMA FieldsAre ==
  ASSUME KindsOK
  PROVE  /\ var \in Int /\ lighter \in Int /\ made \in Nat /\ mishaps \in Nat
         /\ orders \in Seq(OrderRecords) /\ Len(orders) \in Nat /\ DOMAIN orders = 1..Len(orders)
         /\ events \in Seq(EventRecords) /\ stop \in BOOLEAN /\ up \in BOOLEAN
         /\ held \in SUBSET LotRecords /\ IsFiniteSet(held) /\ Cardinality(held) \in Nat
<1>1. orders \in Seq(OrderRecords) /\ IsFiniteSet(held)
  BY DEF KindsOK
<1>2. Len(orders) \in Nat /\ DOMAIN orders = 1..Len(orders)
  BY <1>1
<1>3. Cardinality(held) \in Nat
  BY <1>1, FS_CardinalityType
<1> QED BY <1>1, <1>2, <1>3 DEF KindsOK

\* A mishap is counted, if there is one.
LEMMA FaultIs ==
  ASSUME KindsOK, NoFault \/ \E what, venue, purpose : Fault(what, venue, purpose)
  PROVE  mishaps' \in Nat /\ mishaps' >= mishaps
<1>1. mishaps' = mishaps \/ mishaps' = mishaps + 1
  BY DEF NoFault, Fault
<1> QED BY <1>1, FieldsAre

LEMMA CourseIs ==
  ASSUME KindsOK, NEW w \in Tasks
  PROVE  /\ task[w].at \in {"idle", "entering", "looking", "completing", "closing", "verifying",
                            "leaving", "hedging", "recovering"}
         /\ task[w].at = "idle" <=> task[w] = Resting
         /\ task[w].at \in {"entering", "looking", "completing"} =>
              /\ task[w].e \in Intents /\ task[w].e.id \in Nat \ {0}
              /\ task[w].e.var \in Nat \ {0} /\ task[w].e.lighter \in Nat \ {0}
         /\ task[w].at = "looking" => task[w].answer \in OrderStatuses
         /\ task[w].at \in {"leaving", "hedging", "recovering"} =>
              /\ task[w] \in Exits /\ task[w].qty \in Nat \ {0} /\ task[w].tries \in Nat
              /\ task[w].ids \in SUBSET (Nat \ {0})
         /\ w = "callback" => task[w].at \in {"idle", "completing", "closing", "verifying"}
<1>1. task[w] \in Courses /\ (w = "callback" => task[w] \in Endings)
  BY DEF KindsOK
<1>2. ASSUME NEW t \in Courses
      PROVE  /\ t.at \in {"idle", "entering", "looking", "completing", "closing", "verifying",
                            "leaving", "hedging", "recovering"}
             /\ t.at = "idle" <=> t = Resting
             /\ t.at \in {"entering", "looking", "completing"} => t.e \in Intents
             /\ t.at = "looking" => t.answer \in OrderStatuses
             /\ t.at \in {"leaving", "hedging", "recovering"} => t \in Exits
             /\ t \in Endings => t.at \in {"idle", "completing", "closing", "verifying"}
  <2>1. CASE t = Resting
    BY <2>1 DEF Resting, Endings
  <2>2. CASE t \in [at : {"completing"}, e : Intents]
    BY <2>2 DEF Resting, Endings
  <2>3. CASE t \in [at : {"closing", "verifying"}]
    BY <2>3 DEF Resting, Endings
  <2>4. CASE t \in [at : {"entering"}, e : Intents]
    BY <2>4 DEF Resting, Endings
  <2>5. CASE t \in [at : {"looking"}, e : Intents, answer : OrderStatuses]
    BY <2>5 DEF Resting, Endings
  <2>6. CASE t \in Exits
    BY <2>6 DEF Resting, Endings, Exits
  <2> QED BY <2>1, <2>2, <2>3, <2>4, <2>5, <2>6 DEF Courses, Endings
<1>3. ASSUME NEW e \in Intents PROVE e.id \in Nat \ {0} /\ e.var \in Nat \ {0} /\ e.lighter \in Nat \ {0}
  BY DEF Intents
<1>4. ASSUME NEW t \in Exits
      PROVE  t.qty \in Nat \ {0} /\ t.tries \in Nat /\ t.ids \in SUBSET (Nat \ {0})
  BY DEF Exits
<1> QED BY <1>1, <1>2, <1>3, <1>4

\* What a task does next leaves the other where it is.
LEMMA DoesIs ==
  ASSUME KindsOK, NEW w \in Tasks, NEW next \in Courses, w = "callback" => next \in Endings,
         Does(w, next)
  PROVE  /\ task' \in [Tasks -> Courses] /\ task'["callback"] \in Endings
         /\ task'[w] = next /\ \A v \in Tasks \ {w} : task'[v] = task[v]
BY DEF KindsOK, Does, Tasks

LEMMA EndingsAre ==
  /\ Resting \in Endings /\ [at |-> "closing"] \in Endings /\ [at |-> "verifying"] \in Endings
  /\ \A e \in Intents : [at |-> "completing", e |-> e] \in Endings
  /\ \A e \in Intents : [at |-> "entering", e |-> e] \in Courses
  /\ \A e \in Intents, a \in OrderStatuses : [at |-> "looking", e |-> e, answer |-> a] \in Courses
  /\ Endings \subseteq Courses /\ Exits \subseteq Courses
BY DEF Endings, Courses

LEMMA WriteIs ==
  ASSUME KindsOK, NEW review \in {"no", "resumable", "other"}, Write(review),
         held' \in SUBSET LotRecords, IsFiniteSet(held')
  PROVE  /\ file' \in Files /\ IsFiniteSet(file'.lots) /\ file'.lots = held' /\ dirty' = FALSE
<1> DEFINE p == entry' # NoEntry \/ exit' # {}
<1>1. p \in BOOLEAN
  OBVIOUS
<1>2. file' = [review |-> review, lots |-> held', pending |-> p] /\ dirty' = FALSE
  BY DEF Write
<1> HIDE DEF p
<1>3. file' \in Files /\ file'.lots = held'
  BY <1>1, <1>2 DEF Files
<1> QED BY <1>2, <1>3

LEMMA OrderKinds ==
  /\ Order("var", "entry", 1) \in OrderRecords /\ Order("lighter", "entry", 1) \in OrderRecords
  /\ \A q \in Nat \ {0}, v \in {"var", "lighter"}, p \in {"entry", "exit", "unwind", "close"} :
       /\ Order(v, p, q) \in OrderRecords /\ Order(v, p, q).venue = v /\ Order(v, p, q).purpose = p
       /\ Order(v, p, q).qty = q /\ Order(v, p, q).status = "sent"
BY DEF Order, OrderRecords, OrderStatuses

LEMMA PositionIs ==
  ASSUME KindsOK, NEW k \in Sent
  PROVE  /\ orders[k] \in OrderRecords /\ orders[k].qty \in Nat \ {0} /\ orders[k].status = "sent"
         /\ k \in DOMAIN orders /\ orders[k].venue \in {"var", "lighter"}
         /\ \A s \in OrderStatuses : WithStatus(k, s) \in Seq(OrderRecords)
<1>1. k \in DOMAIN orders /\ orders[k].status = "sent" /\ orders \in Seq(OrderRecords)
  BY DEF Sent, KindsOK
<1>2. /\ orders[k] \in OrderRecords /\ orders[k].qty \in Nat \ {0} /\ orders[k].venue \in {"var", "lighter"}
  BY <1>1, OrderIs
<1>3. ASSUME NEW s \in OrderStatuses PROVE WithStatus(k, s) \in Seq(OrderRecords)
  <2>1. [orders[k] EXCEPT !.status = s] \in OrderRecords
    BY <1>2 DEF OrderRecords
  <2>2. WithStatus(k, s) = [orders EXCEPT ![k] = [orders[k] EXCEPT !.status = s]]
    BY DEF WithStatus
  <2> QED BY <1>1, <2>1, <2>2
<1> QED BY <1>1, <1>2, <1>3

LEMMA TellIs ==
  ASSUME KindsOK, NEW o \in OrderRecords, NEW s \in {"filled", "rejected"}
  PROVE  FeedTells(o, s) \in Seq(EventRecords)
<1>1. Opens(o) \in BOOLEAN
  BY DEF Opens
<1> DEFINE b == Opens(o)
<1>2. FeedTells(o, s) = IF up /\ o.venue = "var"
                        THEN Append(events, [opens |-> b, qty |-> o.qty, status |-> s]) ELSE events
  BY DEF FeedTells
<1> HIDE DEF b
<1>3. [opens |-> b, qty |-> o.qty, status |-> s] \in EventRecords
  BY <1>1 DEF EventRecords, OrderRecords, b
<1>4. events \in Seq(EventRecords)
  BY FieldsAre
<1> QED BY <1>2, <1>3, <1>4

\* Fields of the invariant of kinds that an action leaves alone.
LEMMA VenueKinds ==
  ASSUME KindsOK, NEW k \in DOMAIN orders, OrderFills(k) \/ OrderFails(k)
  PROVE  KindsOK'
<1>1. k \in Sent /\ UNCHANGED <<up, stop, lotMemory, task, drain, file, made>>
  BY DEF OrderFills, OrderFails
<1>2. orders' \in Seq(OrderRecords)
  BY <1>1, PositionIs DEF OrderFills, OrderFails, OrderStatuses
<1>3. events' \in Seq(EventRecords)
  BY <1>1, PositionIs, TellIs DEF OrderFills, OrderFails, KindsOK
<1>4. var' \in Int /\ lighter' \in Int
  BY <1>1, PositionIs, FieldsAre DEF OrderFills, OrderFails, Position
<1>5. mishaps' \in Nat
  <2>1. NoFault \/ \E what, venue, purpose : Fault(what, venue, purpose)
    BY DEF OrderFills, OrderFails
  <2> QED BY <2>1, FaultIs
<1> QED BY <1>1, <1>2, <1>3, <1>4, <1>5 DEF KindsOK, lotMemory

\* Two orders that leave together.
LEMMA AppendTwo ==
  ASSUME KindsOK, NEW a \in OrderRecords, NEW b \in OrderRecords
  PROVE  /\ Append(orders, a) \in Seq(OrderRecords)
         /\ Append(Append(orders, a), b) \in Seq(OrderRecords)
         /\ Len(orders) \in Nat
BY FieldsAre

LEMMA EntryKinds ==
  ASSUME KindsOK, Running => RunningInv,
         ProposeEntry \/ EntryReplied \/ Lookup \/ LookupAnswered \/ TakeEvent
  PROVE  KindsOK'
<1>1. CASE ProposeEntry
  <2>1. /\ made' = made + 1 /\ made \in Nat /\ Len(orders) \in Nat
        /\ entry' = [id |-> made', var |-> Len(orders) + 1, lighter |-> Len(orders) + 2]
        /\ Does("strategy", [at |-> "entering", e |-> entry'])
        /\ UNCHANGED <<held, exit, known>> /\ Write("no") /\ UNCHANGED stop
        /\ UNCHANGED <<var, lighter, events, up, drain, mishaps>>
        /\ orders' = Append(Append(orders, Order("var", "entry", 1)), Order("lighter", "entry", 1))
    BY <1>1, FieldsAre DEF ProposeEntry, Strategy, Persist
  <2>2. entry' \in Intents
    BY <2>1 DEF Intents
  <2>3. task' \in [Tasks -> Courses] /\ task'["callback"] \in Endings
    BY <2>1, <2>2, EndingsAre, DoesIs DEF Tasks
  <2>4. file' \in Files /\ IsFiniteSet(file'.lots) /\ dirty' = FALSE
    BY <2>1, WriteIs DEF KindsOK
  <2>5. orders' \in Seq(OrderRecords)
    <3>1. Order("var", "entry", 1) \in OrderRecords /\ Order("lighter", "entry", 1) \in OrderRecords
      BY OrderKinds
    <3> QED BY <2>1, <3>1, AppendTwo
  <2>6. made' \in Nat /\ UNCHANGED <<var, lighter, events, up, stop, held, exit, known, drain, mishaps>>
    BY <2>1
  <2> QED BY <2>2, <2>3, <2>4, <2>5, <2>6 DEF KindsOK
<1>2. CASE EntryReplied
  <2> DEFINE e == task["strategy"].e
  <2>1. e \in Intents /\ e.id \in Nat \ {0}
    BY <1>2, CourseIs DEF EntryReplied, Tasks
  <2>2. Does("strategy", Resting) /\ UNCHANGED <<held, exit>> /\ UNCHANGED <<var, lighter, events, up, drain, made>>
    BY <1>2 DEF EntryReplied, Strategy
  <2>3. task' \in [Tasks -> Courses] /\ task'["callback"] \in Endings
    BY <2>2, EndingsAre, DoesIs DEF Tasks
  <2>4. (Write("no") \/ Write("other")) /\ stop' \in BOOLEAN
    BY <1>2 DEF EntryReplied, Persist, Review, KindsOK
  <2>5. file' \in Files /\ IsFiniteSet(file'.lots) /\ dirty' = FALSE
    BY <2>2, <2>4, WriteIs DEF KindsOK
  <2>6. orders' \in Seq(OrderRecords)
    BY <1>2, PositionIs DEF EntryReplied, OrderStatuses, KindsOK
  <2>7. known' \in SUBSET (Nat \ {0}) /\ entry' \in {NoEntry} \cup Intents
    BY <1>2, <2>1 DEF EntryReplied, KindsOK
  <2>8. mishaps' \in Nat
    <3>1. NoFault \/ \E what, venue, purpose : Fault(what, venue, purpose)
      BY <1>2 DEF EntryReplied
    <3> QED BY <3>1, FaultIs
  <2> QED BY <2>2, <2>3, <2>4, <2>5, <2>6, <2>7, <2>8 DEF KindsOK
<1>3. CASE Lookup
  <2>1. /\ entry # NoEntry /\ Does("strategy", [at |-> "looking", e |-> entry, answer |-> orders[entry.var].status])
        /\ entry.id \in known
        /\ UNCHANGED <<venues, up, stop, lotMemory, drain, file, made, mishaps>>
    BY <1>3 DEF Lookup, Strategy
  <2>2. entry \in Intents
    BY <2>1 DEF KindsOK
  <2>3. orders[entry.var].status \in OrderStatuses
    BY <1>3, <2>1, OrderIs, FieldsAre DEF Lookup, StrategyTick, Running, RunningInv, OrdersAreNamed,
         IsEntry, IsOrder
  <2>4. task' \in [Tasks -> Courses] /\ task'["callback"] \in Endings
    BY <2>1, <2>2, <2>3, EndingsAre, DoesIs DEF Tasks
  <2> QED BY <2>1, <2>4 DEF KindsOK, venues, lotMemory
<1>4. CASE LookupAnswered
  <2> DEFINE t == task["strategy"]
  <2>1. t.e \in Intents
    BY <1>4, CourseIs DEF LookupAnswered, Tasks
  <2>2. UNCHANGED <<held, exit, known>> /\ UNCHANGED <<venues, up, drain, made>>
    BY <1>4 DEF LookupAnswered
  <2>3. Does("strategy", Resting) \/ Does("strategy", [at |-> "completing", e |-> t.e])
    BY <1>4 DEF LookupAnswered, Strategy
  <2>4. task' \in [Tasks -> Courses] /\ task'["callback"] \in Endings
    BY <2>1, <2>3, EndingsAre, DoesIs DEF Tasks
  <2>5. stop' \in BOOLEAN /\ entry' \in {NoEntry} \cup Intents
    BY <1>4 DEF LookupAnswered, Review, KindsOK
  <2>6. file' \in Files /\ IsFiniteSet(file'.lots) /\ dirty' \in BOOLEAN
    <3>1. CASE Write("other")
      BY <2>2, <3>1, WriteIs DEF KindsOK
    <3>2. CASE UNCHANGED file /\ dirty' \in BOOLEAN
      BY <3>2 DEF KindsOK
    <3>3. Write("other") \/ (UNCHANGED file /\ dirty' \in BOOLEAN)
      BY <1>4 DEF LookupAnswered, Review, KindsOK
    <3> QED BY <3>1, <3>2, <3>3
  <2>7. mishaps' \in Nat
    <3>1. NoFault \/ \E what, venue, purpose : Fault(what, venue, purpose)
      BY <1>4 DEF LookupAnswered
    <3> QED BY <3>1, FaultIs
  <2> QED BY <2>2, <2>4, <2>5, <2>6, <2>7 DEF KindsOK, venues
<1>5. CASE TakeEvent
  <2>1. UNCHANGED <<held, known>> /\ UNCHANGED <<var, lighter, orders, up, drain, made, mishaps>>
    BY <1>5 DEF TakeEvent
  <2>2. events' \in Seq(EventRecords)
    BY <1>5, FieldsAre DEF TakeEvent
  <2>3. entry' \in {NoEntry} \cup Intents /\ exit' \in SUBSET (Nat \ {0})
    BY <1>5 DEF TakeEvent, KindsOK
  <2>4. Does("callback", Resting) \/ (entry # NoEntry /\ Does("callback", [at |-> "completing", e |-> entry]))
    BY <1>5 DEF TakeEvent
  <2>5. task' \in [Tasks -> Courses] /\ task'["callback"] \in Endings
    BY <2>4, EndingsAre, DoesIs DEF Tasks, KindsOK
  <2>6. Write("other") \/ Write("no") \/ UNCHANGED <<file, dirty>>
    BY <1>5 DEF TakeEvent, Review, Persist
  <2>7. file' \in Files /\ IsFiniteSet(file'.lots) /\ dirty' \in BOOLEAN
    BY <2>1, <2>6, WriteIs DEF KindsOK
  <2>8. stop' \in BOOLEAN
    BY <1>5 DEF TakeEvent, Review, Persist, KindsOK
  <2> QED BY <2>1, <2>2, <2>3, <2>5, <2>7, <2>8 DEF KindsOK
<1> QED BY <1>1, <1>2, <1>3, <1>4, <1>5

LEMMA CompletionKinds ==
  ASSUME KindsOK, NEW w \in Tasks, Complete(w) \/ CloseBoth(w) \/ Verify(w)
  PROVE  KindsOK'
<1>1. ASSUME NEW next \in Endings, Does(w, next)
      PROVE  task' \in [Tasks -> Courses] /\ task'["callback"] \in Endings
  BY <1>1, EndingsAre, DoesIs
<1>2. CASE Complete(w)
  <2> DEFINE e == task[w].e
  <2>1. e.id \in Nat \ {0} /\ UNCHANGED <<entry, exit, known>> /\ UNCHANGED <<venues, up, drain, made>>
    BY <1>2, CourseIs DEF Complete
  <2>2. /\ Does(w, Resting) \/ Does(w, [at |-> "closing"])
        /\ held' = held \/ held' = held \cup {[id |-> e.id, by |-> w]}
        /\ Write("no") \/ Write("other") \/ UNCHANGED <<dirty, file>>
        /\ stop' \in BOOLEAN
    BY <1>2, FieldsAre DEF Complete, Persist, Review
  <2>3. task' \in [Tasks -> Courses] /\ task'["callback"] \in Endings
    BY <1>1, <2>2, EndingsAre
  <2>4. held' \in SUBSET LotRecords /\ IsFiniteSet(held')
    <3>1. [id |-> e.id, by |-> w] \in LotRecords
      BY <2>1 DEF LotRecords
    <3>2. IsFiniteSet(held \cup {[id |-> e.id, by |-> w]})
      BY FieldsAre, FS_AddElement
    <3> QED BY <2>2, <3>1, <3>2, FieldsAre
  <2>5. file' \in Files /\ IsFiniteSet(file'.lots) /\ dirty' \in BOOLEAN
    BY <2>2, <2>4, WriteIs DEF KindsOK
  <2>6. mishaps' \in Nat
    <3>1. NoFault \/ \E what, venue, purpose : Fault(what, venue, purpose)
      BY <1>2 DEF Complete
    <3> QED BY <3>1, FaultIs
  <2> QED BY <2>1, <2>2, <2>3, <2>4, <2>5, <2>6 DEF KindsOK, venues
<1>3. CASE CloseBoth(w)
  <2>1. task' \in [Tasks -> Courses] /\ task'["callback"] \in Endings
    BY <1>1, <1>3, EndingsAre DEF CloseBoth
  <2>2. Order("var", "close", 1) \in OrderRecords /\ Order("lighter", "close", 1) \in OrderRecords
    BY OrderKinds
  <2>3. orders' \in Seq(OrderRecords)
    <3>1. \/ orders' = Append(Append(orders, Order("var", "close", 1)), Order("lighter", "close", 1))
          \/ orders' = Append(orders, Order("var", "close", 1))
          \/ orders' = Append(orders, Order("lighter", "close", 1))
      BY <1>3 DEF CloseBoth
    <3> QED BY <2>2, <3>1, AppendTwo
  <2>4. mishaps' \in Nat
    <3>1. NoFault \/ \E what, venue, purpose : Fault(what, venue, purpose)
      BY <1>3 DEF CloseBoth
    <3> QED BY <3>1, FaultIs
  <2>5. UNCHANGED <<var, lighter, events, up, stop, lotMemory, drain, file, made>>
    BY <1>3 DEF CloseBoth
  <2> QED BY <2>1, <2>3, <2>4, <2>5 DEF KindsOK, lotMemory
<1>4. CASE Verify(w)
  <2>1. /\ Does(w, Resting) /\ UNCHANGED <<held, entry, exit, known>>
        /\ UNCHANGED <<venues, up, drain, made, mishaps>>
        /\ Write("no") \/ Write("other")
        /\ stop' \in BOOLEAN
    BY <1>4, FieldsAre DEF Verify, Persist, Review
  <2>2. task' \in [Tasks -> Courses] /\ task'["callback"] \in Endings
    BY <1>1, <2>1, EndingsAre
  <2>3. file' \in Files /\ IsFiniteSet(file'.lots) /\ dirty' = FALSE
    BY <2>1, FieldsAre, WriteIs
  <2> QED BY <2>1, <2>2, <2>3 DEF KindsOK, venues
<1> QED BY <1>2, <1>3, <1>4

\* As many lots as a group of ids takes.
LEMMA QuantityIs ==
  ASSUME KindsOK, NEW ids
  PROVE  /\ Quantity(ids) \in Nat /\ Quantity(ids) <= Cardinality(held)
         /\ ids # {} /\ ids \subseteq Ids(held) => Quantity(ids) # 0
         /\ Cardinality({l \in held : l.id \notin ids}) = Cardinality(held) - Quantity(ids)
         /\ IsFiniteSet({l \in held : l.id \notin ids})
<1> DEFINE T == {l \in held : l.id \in ids}
<1>1. IsFiniteSet(held) /\ Cardinality(held) \in Nat
  BY FieldsAre
<1>2. IsFiniteSet(T) /\ Cardinality(T) <= Cardinality(held) /\ Cardinality(T) \in Nat
  BY <1>1, FS_Subset, FS_CardinalityType
<1>3. {l \in held : l.id \notin ids} = held \ T /\ held \cap T = T
  OBVIOUS
<1>5. ids # {} /\ ids \subseteq Ids(held) => T # {}
  BY DEF Ids
<1> HIDE DEF T
<1>4. Cardinality(held \ T) = Cardinality(held) - Cardinality(T) /\ IsFiniteSet(held \ T)
  BY <1>1, <1>3, FS_Difference
<1>6. T # {} => Cardinality(T) # 0
  BY <1>2, FS_EmptySet
<1> QED BY <1>2, <1>3, <1>4, <1>5, <1>6 DEF Quantity, T

LEMMA KindsOfExits ==
  ASSUME KindsOK,
         (\E ids \in SUBSET Ids(held) : BeginExit(ids)) \/ ExitReplied \/ Rehedge \/ Unwind \/ SettleExit
  PROVE  KindsOK'
<1> DEFINE t == task["strategy"]
<1>1. ASSUME NEW next \in Courses, Strategy(next)
      PROVE  task' \in [Tasks -> Courses] /\ task'["callback"] \in Endings
  BY <1>1, EndingsAre, DoesIs DEF Strategy, Tasks
<1>2. ASSUME NEW ids \in SUBSET Ids(held), BeginExit(ids) PROVE KindsOK'
  <2>1. /\ ids # {} /\ exit' = ids /\ UNCHANGED <<held, entry, known>> /\ Write("no") /\ stop' = stop
        /\ orders' = Append(Append(orders, Order("var", "exit", Quantity(ids))), Order("lighter", "exit", Quantity(ids)))
        /\ Strategy([at |-> "leaving", ids |-> ids, qty |-> Quantity(ids), var |-> Len(orders) + 1,
                     hedge |-> Len(orders) + 2, tries |-> 0])
        /\ UNCHANGED <<var, lighter, events, up, drain, made, mishaps>>
    BY <1>2 DEF BeginExit, Persist
  <2>2. ids \in SUBSET (Nat \ {0}) /\ Quantity(ids) \in Nat \ {0}
    <3>1. Ids(held) \subseteq Nat \ {0}
      BY FieldsAre DEF Ids, LotRecords
    <3> QED BY <2>1, <3>1, QuantityIs
  <2>3. Order("var", "exit", Quantity(ids)) \in OrderRecords /\ Order("lighter", "exit", Quantity(ids)) \in OrderRecords
    BY <2>2, OrderKinds
  <2>4. orders' \in Seq(OrderRecords)
    BY <2>1, <2>3, AppendTwo
  <2>5. [at |-> "leaving", ids |-> ids, qty |-> Quantity(ids), var |-> Len(orders) + 1,
         hedge |-> Len(orders) + 2, tries |-> 0] \in Exits
    BY <2>2, FieldsAre DEF Exits
  <2>6. task' \in [Tasks -> Courses] /\ task'["callback"] \in Endings
    BY <1>1, <2>1, <2>5, EndingsAre
  <2>7. file' \in Files /\ IsFiniteSet(file'.lots) /\ dirty' = FALSE
    BY <2>1, FieldsAre, WriteIs
  <2> QED BY <2>1, <2>2, <2>4, <2>6, <2>7 DEF KindsOK
<1>3. CASE ExitReplied
  <2>1. t \in Exits
    BY <1>3, CourseIs DEF ExitReplied, Tasks
  <2>2. [t EXCEPT !.at = "hedging"] \in Exits /\ [t EXCEPT !.at = "recovering"] \in Exits
    BY <2>1 DEF Exits
  <2>3. task' \in [Tasks -> Courses] /\ task'["callback"] \in Endings
    <3>1. Strategy(Resting) \/ Strategy([t EXCEPT !.at = "hedging"]) \/ Strategy([t EXCEPT !.at = "recovering"])
      BY <1>3 DEF ExitReplied
    <3> QED BY <1>1, <2>2, <3>1, EndingsAre
  <2>4. orders' \in Seq(OrderRecords)
    <3>1. UNCHANGED orders \/ \E k \in Sent : orders' = WithStatus(k, "refused")
      BY <1>3 DEF ExitReplied
    <3> QED BY <3>1, FieldsAre, PositionIs DEF OrderStatuses
  <2>5. /\ UNCHANGED <<held, entry, known>> /\ UNCHANGED <<var, lighter, events, up, drain, made>>
        /\ exit' = exit \/ exit' = {}
        /\ Write("other") \/ UNCHANGED <<dirty, file>>
        /\ stop' \in BOOLEAN
    BY <1>3, FieldsAre DEF ExitReplied, Review
  <2>6. file' \in Files /\ IsFiniteSet(file'.lots) /\ dirty' \in BOOLEAN
    BY <2>5, WriteIs DEF KindsOK
  <2>7. mishaps' \in Nat
    <3>1. NoFault \/ \E what, venue, purpose : Fault(what, venue, purpose)
      BY <1>3 DEF ExitReplied
    <3> QED BY <3>1, FaultIs
  <2> QED BY <2>3, <2>4, <2>5, <2>6, <2>7 DEF KindsOK
<1>4. CASE Rehedge
  <2>1. t \in Exits /\ t.qty \in Nat \ {0} /\ t.tries \in Nat
    BY <1>4, CourseIs DEF Rehedge, Tasks
  <2>2. /\ [t EXCEPT !.at = "hedging", !.hedge = Len(orders) + 1, !.tries = 0] \in Exits
        /\ [t EXCEPT !.tries = @ + 1] \in Exits
    <3>1. Len(orders) + 1 \in Nat \ {0} /\ t.tries + 1 \in Nat
      BY <2>1, FieldsAre
    <3> QED BY <2>1, <3>1 DEF Exits
  <2>3. Order("lighter", "exit", t.qty) \in OrderRecords
    BY <2>1, OrderKinds
  <2>4. /\ task' \in [Tasks -> Courses] /\ task'["callback"] \in Endings
        /\ orders' \in Seq(OrderRecords)
    <3>1. \/ orders' = Append(orders, Order("lighter", "exit", t.qty))
             /\ Strategy([t EXCEPT !.at = "hedging", !.hedge = Len(orders) + 1, !.tries = 0])
          \/ UNCHANGED orders /\ Strategy([t EXCEPT !.tries = @ + 1])
      BY <1>4 DEF Rehedge
    <3> QED BY <1>1, <2>2, <2>3, <3>1, AppendTwo, FieldsAre, EndingsAre
  <2>5. UNCHANGED <<var, lighter, events, up, stop, lotMemory, drain, file, made, mishaps>>
    BY <1>4 DEF Rehedge
  <2> QED BY <2>4, <2>5 DEF KindsOK, lotMemory
<1>5. CASE Unwind
  <2>1. t.qty \in Nat \ {0}
    BY <1>5, CourseIs DEF Unwind, Tasks
  <2>2. Order("var", "unwind", t.qty) \in OrderRecords
    BY <2>1, OrderKinds
  <2>3. orders' \in Seq(OrderRecords)
    BY <1>5, <2>2, AppendTwo, FieldsAre DEF Unwind
  <2>4. task' \in [Tasks -> Courses] /\ task'["callback"] \in Endings
    BY <1>1, <1>5, EndingsAre DEF Unwind
  <2>5. /\ UNCHANGED <<held, entry, known>> /\ UNCHANGED <<var, lighter, events, up, drain, made>>
        /\ exit' = exit \/ exit' = {}
        /\ Write("other") \/ (dirty' = TRUE /\ UNCHANGED file)
        /\ stop' \in BOOLEAN
    BY <1>5, FieldsAre DEF Unwind, Review
  <2>6. file' \in Files /\ IsFiniteSet(file'.lots) /\ dirty' \in BOOLEAN
    BY <2>5, WriteIs DEF KindsOK
  <2>7. mishaps' \in Nat
    <3>1. NoFault \/ \E what, venue, purpose : Fault(what, venue, purpose)
      BY <1>5 DEF Unwind
    <3> QED BY <3>1, FaultIs
  <2> QED BY <2>3, <2>4, <2>5, <2>6, <2>7 DEF KindsOK
<1>6. CASE SettleExit
  <2>1. t \in Exits /\ t.qty \in Nat \ {0} /\ t.tries \in Nat
    BY <1>6, CourseIs DEF SettleExit, Tasks
  <2>2. [t EXCEPT !.hedge = Len(orders) + 1, !.tries = @ + 1] \in Exits
    <3>1. Len(orders) + 1 \in Nat \ {0} /\ t.tries + 1 \in Nat
      BY <2>1, FieldsAre
    <3> QED BY <2>1, <3>1 DEF Exits
  <2>3. Order("lighter", "exit", t.qty) \in OrderRecords
    BY <2>1, OrderKinds
  <2>4. orders' \in Seq(OrderRecords)
    <3>1. orders' = Append(orders, Order("lighter", "exit", t.qty)) \/ UNCHANGED orders
      BY <1>6 DEF SettleExit
    <3> QED BY <2>3, <3>1, AppendTwo, FieldsAre
  <2>5. task' \in [Tasks -> Courses] /\ task'["callback"] \in Endings
    <3>1. Strategy(Resting) \/ Strategy([t EXCEPT !.hedge = Len(orders) + 1, !.tries = @ + 1])
      BY <1>6 DEF SettleExit
    <3> QED BY <1>1, <2>2, <3>1, EndingsAre
  <2>6. /\ UNCHANGED <<entry, known>> /\ UNCHANGED <<var, lighter, events, up, drain, made>>
        /\ exit' = exit \/ exit' = {}
        /\ held' = held \/ held' = {l \in held : l.id \notin t.ids}
        /\ Write("no") \/ Write("resumable") \/ UNCHANGED <<dirty, file>>
        /\ stop' \in BOOLEAN
    BY <1>6, FieldsAre DEF SettleExit, Review, Persist
  <2>7. held' \in SUBSET LotRecords /\ IsFiniteSet(held')
    BY <2>6, FieldsAre, QuantityIs
  <2>8. file' \in Files /\ IsFiniteSet(file'.lots) /\ dirty' \in BOOLEAN
    BY <2>6, <2>7, WriteIs DEF KindsOK
  <2>9. mishaps' \in Nat
    <3>1. NoFault \/ \E what, venue, purpose : Fault(what, venue, purpose)
      BY <1>6 DEF SettleExit
    <3> QED BY <3>1, FaultIs
  <2> QED BY <2>4, <2>5, <2>6, <2>7, <2>8, <2>9 DEF KindsOK
<1> QED BY <1>2, <1>3, <1>4, <1>5, <1>6

LEMMA EmptyIs ==
  /\ <<>> \in Seq(OrderRecords) /\ <<>> \in Seq(EventRecords)
  /\ {} \in SUBSET LotRecords /\ IsFiniteSet({}) /\ {} \in SUBSET (Nat \ {0})
BY FS_EmptySet

LEMMA RestKinds ==
  ASSUME KindsOK,
         Flush \/ Drain \/ AskDrain \/ CloseRuntime \/ InventoryDies \/ StartRuntime \/ OperatorReset
  PROVE  KindsOK'
<1>1. CASE Flush
  <2>1. /\ UNCHANGED <<held, entry, exit, known>> /\ Write("no") /\ stop' = stop
        /\ UNCHANGED <<venues, up, task, drain, made, mishaps>>
    BY <1>1 DEF Flush, Persist
  <2>2. file' \in Files /\ IsFiniteSet(file'.lots) /\ dirty' = FALSE
    BY <2>1, FieldsAre, WriteIs
  <2> QED BY <2>1, <2>2 DEF KindsOK, venues
<1>2. CASE Drain
  <2>1. /\ UNCHANGED <<held, entry, exit, known>> /\ UNCHANGED <<venues, up, task, made, mishaps>>
        /\ Write("no") \/ UNCHANGED <<dirty, file>>
        /\ stop' \in BOOLEAN /\ drain' \in {"seen", "var flat", "done"}
    BY <1>2, FieldsAre
       DEF Drain, SeeDrain, DrainReadsVar, DrainReadsRest, Persist, Verdict, lotMemory
  <2>2. file' \in Files /\ IsFiniteSet(file'.lots) /\ dirty' \in BOOLEAN
    BY <2>1, WriteIs DEF KindsOK
  <2> QED BY <2>1, <2>2 DEF KindsOK, venues
<1>3. CASE AskDrain
  BY <1>3 DEF AskDrain, KindsOK, venues, lotMemory
<1>4. CASE CloseRuntime \/ InventoryDies
  <2>1. Gone
    BY <1>4 DEF CloseRuntime, InventoryDies
  <2>2. task' \in [Tasks -> Courses] /\ task'["callback"] \in Endings
    BY <2>1, EndingsAre DEF Gone, Tasks
  <2>3. file' \in Files /\ IsFiniteSet(file'.lots)
    <3>1. CASE UNCHANGED file
      BY <3>1 DEF KindsOK
    <3>2. CASE ~ UNCHANGED file
      <4> DEFINE p == entry # NoEntry \/ exit # {}
                 r == IF entry = NoEntry THEN "no" ELSE "resumable"
      <4>1. p \in BOOLEAN /\ r \in {"no", "resumable"}
        OBVIOUS
      <4>2. file' = [review |-> r, lots |-> held, pending |-> p]
        BY <1>4, <3>2 DEF CloseRuntime, InventoryDies
      <4> HIDE DEF p, r
      <4> QED BY <4>1, <4>2, FieldsAre DEF Files
    <3> QED BY <3>1, <3>2
  <2>4. mishaps' \in Nat
    <3>1. NoFault \/ \E what, venue, purpose : Fault(what, venue, purpose)
      BY <1>4 DEF CloseRuntime, InventoryDies
    <3> QED BY <3>1, FaultIs
  <2>5. /\ up' = FALSE /\ stop' = FALSE /\ held' = {} /\ entry' = NoEntry /\ exit' = {}
        /\ known' = {} /\ dirty' = FALSE /\ events' = <<>>
        /\ UNCHANGED <<var, lighter, orders, drain, made>>
    BY <2>1 DEF Gone
  <2>6. KindsOK
    OBVIOUS
  <2> QED BY <2>2, <2>3, <2>4, <2>5, <2>6, EmptyIs DEF KindsOK
<1>5. CASE StartRuntime
  <2>1. /\ orders' = <<>> /\ drain' = "no" /\ up' \in BOOLEAN
        /\ held' = file.lots \/ held' = {}
        /\ UNCHANGED <<var, lighter, events, stop, entry, exit, known, dirty, task, made, mishaps>>
    BY <1>5 DEF StartRuntime
  <2>2. file' \in Files /\ file'.lots = file.lots
    <3> DEFINE agree == var = Cardinality(file.lots) /\ lighter = Cardinality(file.lots)
               p == ~agree /\ file.pending
               r == IF agree THEN "no" ELSE "other"
    <3>1. file' = [file EXCEPT !.review = r, !.pending = p]
      BY <1>5 DEF StartRuntime
    <3>2. p \in BOOLEAN /\ r \in {"no", "other"} /\ file \in Files
      BY DEF KindsOK, Files
    <3> HIDE DEF p, r
    <3> QED BY <3>1, <3>2 DEF Files
  <2>3. held' \in SUBSET LotRecords /\ IsFiniteSet(held')
    BY <2>1, FS_EmptySet DEF KindsOK, Files
  <2> QED BY <2>1, <2>2, <2>3, EmptyIs DEF KindsOK
<1>6. CASE OperatorReset
  <2>1. [review |-> "no", lots |-> {}, pending |-> FALSE] \in Files /\ IsFiniteSet({})
    BY FS_EmptySet DEF Files
  <2>2. /\ var' = 0 /\ lighter' = 0 /\ file' = [review |-> "no", lots |-> {}, pending |-> FALSE]
        /\ UNCHANGED <<orders, events, up, stop, lotMemory, task, drain, made, mishaps>>
    BY <1>6 DEF OperatorReset
  <2>3. file' \in Files /\ IsFiniteSet(file'.lots)
    BY <2>1, <2>2
  <2>4. /\ var' \in Int /\ lighter' \in Int
        /\ UNCHANGED <<orders, events, up, stop, lotMemory, task, drain, made, mishaps>>
    BY <2>2
  <2> QED BY <2>3, <2>4 DEF KindsOK, lotMemory
<1> QED BY <1>1, <1>2, <1>3, <1>4, <1>5, <1>6

LEMMA KindsInit == InventoryInit => KindsOK
<1> SUFFICES ASSUME InventoryInit PROVE KindsOK
  OBVIOUS
<1>1. file \in Files /\ file.lots = {} /\ IsFiniteSet({})
  BY FS_EmptySet DEF InventoryInit, Files
<1>2. task \in [Tasks -> Courses] /\ task["callback"] \in Endings
  BY EndingsAre DEF InventoryInit, Tasks
<1>3. /\ var \in Int /\ lighter \in Int /\ made \in Nat /\ mishaps \in Nat
      /\ orders = <<>> /\ events = <<>> /\ held = {} /\ exit = {} /\ known = {}
      /\ up = FALSE /\ stop = FALSE /\ dirty = FALSE /\ entry = NoEntry /\ drain = "no"
  BY DEF InventoryInit
<1> QED BY <1>1, <1>2, <1>3, EmptyIs DEF KindsOK

LEMMA KindsNext ==
  ASSUME KindsOK, Running => RunningInv, [InventoryNext]_inventoryVars
  PROVE  KindsOK'
<1>1. CASE UNCHANGED inventoryVars
  BY <1>1 DEF inventoryVars, venues, lotMemory, KindsOK
<1>2. CASE InventoryNext
  <2>1. \/ \E k \in DOMAIN orders : OrderFills(k) \/ OrderFails(k)
        \/ ProposeEntry \/ EntryReplied \/ Lookup \/ LookupAnswered \/ TakeEvent
        \/ \E w \in Tasks : Complete(w) \/ CloseBoth(w) \/ Verify(w)
        \/ (\E ids \in SUBSET Ids(held) : BeginExit(ids)) \/ ExitReplied \/ Rehedge \/ Unwind \/ SettleExit
        \/ Flush \/ Drain \/ AskDrain \/ CloseRuntime \/ InventoryDies \/ StartRuntime \/ OperatorReset
    BY <1>2 DEF InventoryNext, Venue, Strategic, Callback, Tasks
  <2> QED BY <2>1, VenueKinds, EntryKinds, CompletionKinds, KindsOfExits, RestKinds
<1> QED BY <1>1, <1>2

-----------------------------------------------------------------------------
(* A dead runtime; entries that were made.                                 *)

LEMMA DownNext ==
  ASSUME DownIsEmpty, InventoryNext
  PROVE  DownIsEmpty'
<1>1. ASSUME NEW k \in DOMAIN orders, OrderFills(k) \/ OrderFails(k) PROVE DownIsEmpty'
  <2>1. UNCHANGED <<up, stop, lotMemory, task>> /\ (~up => UNCHANGED events)
    BY <1>1 DEF OrderFills, OrderFails, FeedTells
  <2> QED BY <2>1 DEF DownIsEmpty, lotMemory
<1>2. CASE CloseRuntime \/ InventoryDies
  BY <1>2 DEF CloseRuntime, InventoryDies, Gone, DownIsEmpty
<1>3. CASE StartRuntime
  BY <1>3 DEF StartRuntime, DownIsEmpty
<1>4. CASE OperatorReset
  BY <1>4 DEF OperatorReset, DownIsEmpty, lotMemory
<1>5. CASE /\ ~ \E k \in DOMAIN orders : OrderFills(k) \/ OrderFails(k)
           /\ ~CloseRuntime /\ ~InventoryDies /\ ~StartRuntime /\ ~OperatorReset
  <2>1. up'
    <3>1. CASE Strategic
      BY <3>1 DEF Strategic, EntryReplied, Lookup, LookupAnswered, ExitReplied, Rehedge, Unwind,
                  SettleExit, Complete, CloseBoth, Verify, StrategyTick
    <3>2. CASE Callback
      BY <3>2 DEF Callback, TakeEvent, Complete, CloseBoth, Verify
    <3>3. CASE Drain \/ Flush \/ AskDrain
      <4>1. up /\ UNCHANGED up
        BY <3>3, Zenon DEF Drain, SeeDrain, DrainReadsVar, DrainReadsRest, Flush, AskDrain
      <4> QED BY <4>1
    <3>4. CASE ProposeEntry \/ \E ids \in SUBSET Ids(held) : BeginExit(ids)
      <4>1. up /\ UNCHANGED up
        BY <3>4, Zenon DEF ProposeEntry, BeginExit, StrategyTick
      <4> QED BY <4>1
    <3> QED BY <1>5, <3>1, <3>2, <3>3, <3>4 DEF InventoryNext, Venue
  <2> QED BY <2>1 DEF DownIsEmpty
<1> QED BY <1>1, <1>2, <1>3, <1>4, <1>5

\* An action that makes no entry and starts no close keeps what was made.
LEMMA MadeKept ==
  ASSUME KindsOK, KindsOK', EntriesWereMade, made' >= made, mishaps' >= mishaps,
         \A l \in held' \cup file'.lots :
           \/ l \in held \cup file.lots
           \/ \E w \in Tasks : Completes(w) /\ l.id = task[w].e.id,
         entry' = entry \/ entry' = NoEntry \/ entry'.id <= made',
         \A w \in Tasks :
           \/ task'[w] = task[w]
           \/ task'[w].at \in {"idle", "verifying", "leaving", "hedging", "recovering"}
           \/ task'[w].at \in {"entering", "looking", "completing"} /\ task'[w].e.id <= made'
           \/ task'[w].at = "closing" /\ mishaps' # 0
  PROVE  EntriesWereMade'
<1>1. made \in Nat /\ made' \in Nat /\ mishaps \in Nat /\ mishaps' \in Nat
  BY DEF KindsOK
<1>2. ASSUME NEW l \in held' \cup file'.lots PROVE l.id <= made'
  <2>1. l.id \in Nat
    BY <1>2 DEF KindsOK, Files, LotRecords
  <2>2. CASE l \in held \cup file.lots
    BY <1>1, <2>1, <2>2 DEF EntriesWereMade
  <2>3. ASSUME NEW w \in Tasks, Completes(w), l.id = task[w].e.id PROVE l.id <= made'
    BY <1>1, <2>1, <2>3 DEF EntriesWereMade, Completes
  <2> QED BY <2>2, <2>3
<1>3. entry'.id <= made'
  <2>1. entry = NoEntry \/ entry \in Intents
    BY DEF KindsOK
  <2>2. entry.id \in Nat /\ NoEntry.id = 0
    BY <2>1 DEF Intents, NoEntry
  <2> QED BY <1>1, <2>2 DEF EntriesWereMade
<1>4. ASSUME NEW w \in Tasks
      PROVE  /\ task'[w].at \in {"entering", "looking", "completing"} => task'[w].e.id <= made'
             /\ task'[w].at = "closing" => mishaps' # 0
  <2>1. CASE task'[w] = task[w]
    <3>1. task[w].at \in {"entering", "looking", "completing"} => task[w].e.id \in Nat
      BY CourseIs
    <3> QED BY <1>1, <2>1, <3>1 DEF EntriesWereMade
  <2> QED BY <2>1
<1> QED BY <1>2, <1>3, <1>4 DEF EntriesWereMade

LEMMA WriteLots == ASSUME NEW review, Write(review) PROVE file'.lots = held'
BY DEF Write

LEMMA MadeNext ==
  ASSUME KindsOK, KindsOK', EntriesWereMade, DownIsEmpty, InventoryNext
  PROVE  EntriesWereMade'
<1> USE FieldsAre
<1> DEFINE t == task["strategy"]
           Counted == NoFault \/ \E what, venue, purpose : Fault(what, venue, purpose)
           Harmless == {"idle", "verifying", "leaving", "hedging", "recovering"}
<1>0. ASSUME Counted PROVE mishaps' >= mishaps
  BY <1>0, FaultIs
<1>1. ASSUME NEW w \in Tasks, NEW next, Does(w, next)
      PROVE  task'[w] = next /\ \A v \in Tasks : v # w => task'[v] = task[v]
  BY <1>1 DEF Does, KindsOK
<1>2. ASSUME NEW k \in DOMAIN orders, OrderFills(k) \/ OrderFails(k) PROVE EntriesWereMade'
  <2>1. Counted /\ UNCHANGED <<held, entry, task, file, made>>
    BY <1>2 DEF OrderFills, OrderFails, lotMemory
  <2>2. mishaps' >= mishaps
    BY <2>1, <1>0
  <2> QED BY <2>1, <2>2, MadeKept
<1>3. CASE ProposeEntry
  <2>1. /\ made' = made + 1 /\ entry'.id = made' /\ UNCHANGED <<held, mishaps>> /\ file'.lots = held'
        /\ Does("strategy", [at |-> "entering", e |-> entry'])
    BY <1>3, WriteLots DEF ProposeEntry, Strategy, Persist
  <2>2. task'["strategy"].e.id = made' /\ task'["strategy"].at = "entering" /\ task'["callback"] = task["callback"]
    BY <2>1, <1>1 DEF Tasks
  <2> QED BY <2>1, <2>2, MadeKept DEF Tasks
<1>4. CASE EntryReplied
  <2>1. /\ UNCHANGED <<held, made>> /\ file'.lots = held' /\ Counted
        /\ entry' = entry \/ entry' = NoEntry
        /\ Does("strategy", Resting)
    BY <1>4, WriteLots DEF EntryReplied, Strategy, Persist, Review
  <2>2. task'["strategy"].at = "idle" /\ task'["callback"] = task["callback"]
    BY <2>1, <1>1 DEF Tasks, Resting
  <2>3. mishaps' >= mishaps
    BY <2>1, <1>0
  <2> QED BY <2>1, <2>2, <2>3, MadeKept DEF Tasks
<1>5. CASE Lookup
  <2>1. /\ UNCHANGED <<held, made, entry, file, mishaps>> /\ entry # NoEntry
        /\ Does("strategy", [at |-> "looking", e |-> entry, answer |-> orders[entry.var].status])
    BY <1>5 DEF Lookup, Strategy, lotMemory
  <2>2. task'["strategy"].at = "looking" /\ task'["strategy"].e = entry /\ task'["callback"] = task["callback"]
    BY <2>1, <1>1 DEF Tasks
  <2>3. entry.id <= made'
    BY <2>1 DEF EntriesWereMade
  <2> QED BY <2>1, <2>2, <2>3, MadeKept DEF Tasks
<1>6. CASE LookupAnswered
  <2>1. /\ UNCHANGED <<held, made>> /\ Counted
        /\ file'.lots = held' \/ file' = file
        /\ entry' = entry \/ entry' = NoEntry
        /\ Does("strategy", Resting) \/ Does("strategy", [at |-> "completing", e |-> t.e])
        /\ t.at = "looking"
    BY <1>6, WriteLots DEF LookupAnswered, Strategy, Persist, Review
  <2>2. /\ \/ task'["strategy"].at = "idle"
           \/ task'["strategy"].at = "completing" /\ task'["strategy"].e = t.e
        /\ task'["callback"] = task["callback"]
    BY <2>1, <1>1 DEF Tasks, Resting
  <2>3. t.e.id <= made'
    BY <2>1 DEF EntriesWereMade, Tasks
  <2>4. mishaps' >= mishaps
    BY <2>1, <1>0
  <2> QED BY <2>1, <2>2, <2>3, <2>4, MadeKept DEF Tasks
<1>7. CASE TakeEvent
  <2>1. /\ UNCHANGED <<held, made, mishaps>>
        /\ file'.lots = held' \/ file' = file
        /\ entry' = entry \/ entry' = NoEntry
        /\ \/ Does("callback", Resting)
           \/ Does("callback", [at |-> "completing", e |-> entry])
    BY <1>7, WriteLots DEF TakeEvent, Persist, Review
  <2>2. /\ \/ task'["callback"].at = "idle"
           \/ task'["callback"].at = "completing" /\ task'["callback"].e = entry
        /\ task'["strategy"] = task["strategy"]
    BY <2>1, <1>1 DEF Tasks, Resting
  <2>3. entry.id <= made'
    BY <2>1 DEF EntriesWereMade
  <2> QED BY <2>1, <2>2, <2>3, MadeKept DEF Tasks
<1>8. ASSUME NEW w \in Tasks, Complete(w) PROVE EntriesWereMade'
  <2>1. /\ UNCHANGED <<entry, made>> /\ Completes(w)
        /\ file'.lots = held' \/ file' = file
        /\ held' = held \/ held' = held \cup {[id |-> task[w].e.id, by |-> w]}
        /\ \/ Does(w, Resting) /\ Counted
           \/ Does(w, [at |-> "closing"]) /\ \E what, venue, purpose : Fault(what, venue, purpose)
    BY <1>8, WriteLots DEF Complete, Persist, Review, Completes
  <2>2. /\ \A v \in Tasks : v # w => task'[v] = task[v]
        /\ task'[w].at = "idle" \/ (task'[w].at = "closing" /\ mishaps' # 0)
    <3>1. (\E what, venue, purpose : Fault(what, venue, purpose)) => mishaps' # 0
      BY DEF Fault
    <3> QED BY <2>1, <3>1, <1>1 DEF Resting
  <2>3. mishaps' >= mishaps
    BY <2>1, <1>0
  <2>4. \A l \in held' \cup file'.lots :
          l \in held \cup file.lots \/ (Completes(w) /\ l.id = task[w].e.id)
    BY <2>1
  <2> QED BY <2>1, <2>2, <2>3, <2>4, MadeKept
<1>9. ASSUME NEW w \in Tasks, CloseBoth(w) \/ Verify(w) PROVE EntriesWereMade'
  <2>1. /\ UNCHANGED <<held, entry, made>> /\ Counted
        /\ file'.lots = held' \/ file' = file
        /\ Does(w, Resting) \/ Does(w, [at |-> "verifying"])
    BY <1>9, WriteLots DEF CloseBoth, Verify, Persist, Review, lotMemory, NoFault
  <2>2. task'[w].at \in Harmless /\ \A v \in Tasks : v # w => task'[v] = task[v]
    BY <2>1, <1>1 DEF Resting
  <2>3. mishaps' >= mishaps
    BY <2>1, <1>0
  <2> QED BY <2>1, <2>2, <2>3, MadeKept
<1>10. CASE (\E ids \in SUBSET Ids(held) : BeginExit(ids)) \/ ExitReplied \/ Rehedge \/ Unwind \/ SettleExit
  <2>1. /\ UNCHANGED <<entry, made>> /\ held' \subseteq held
        /\ file'.lots = held' \/ file' = file
    <3>1. CASE \E ids \in SUBSET Ids(held) : BeginExit(ids)
      BY <3>1, WriteLots DEF BeginExit, Persist
    <3>2. CASE ExitReplied
      BY <3>2, WriteLots DEF ExitReplied, Review
    <3>3. CASE Rehedge
      BY <3>3 DEF Rehedge, lotMemory
    <3>4. CASE Unwind
      BY <3>4, WriteLots DEF Unwind, Review
    <3>5. CASE SettleExit
      BY <3>5, WriteLots DEF SettleExit, Review, Persist
    <3> QED BY <1>10, <3>1, <3>2, <3>3, <3>4, <3>5
  <2>2. Counted
    BY <1>10 DEF BeginExit, ExitReplied, Rehedge, Unwind, SettleExit, NoFault
  <2>3. \E next : Does("strategy", next) /\ next.at \in Harmless
    <3>1. CASE \E ids \in SUBSET Ids(held) : BeginExit(ids)
      BY <3>1 DEF BeginExit, Strategy
    <3>2. CASE ExitReplied \/ Rehedge \/ Unwind \/ SettleExit
      <4>1. t \in Exits
        BY <3>2, CourseIs DEF ExitReplied, Rehedge, Unwind, SettleExit, Tasks
      <4>2. /\ [t EXCEPT !.at = "hedging"].at \in Harmless /\ [t EXCEPT !.at = "recovering"].at \in Harmless
            /\ \A n, m : /\ [t EXCEPT !.at = "hedging", !.hedge = n, !.tries = m].at \in Harmless
                         /\ [t EXCEPT !.hedge = n, !.tries = m].at \in Harmless
                         /\ [t EXCEPT !.tries = n].at \in Harmless
            /\ Resting.at \in Harmless
        BY <4>1 DEF Exits, Resting
      <4>3. CASE ExitReplied
        BY <4>2, <4>3 DEF ExitReplied, Strategy
      <4>4. CASE Rehedge
        BY <4>2, <4>4 DEF Rehedge, Strategy
      <4>5. CASE Unwind
        BY <4>2, <4>5 DEF Unwind, Strategy
      <4>6. CASE SettleExit
        BY <4>2, <4>6 DEF SettleExit, Strategy
      <4> QED BY <3>2, <4>3, <4>4, <4>5, <4>6
    <3> QED BY <1>10, <3>1, <3>2
  <2>4. task'["callback"] = task["callback"] /\ task'["strategy"].at \in Harmless
    BY <2>3, <1>1 DEF Tasks
  <2>5. mishaps' >= mishaps
    BY <2>2, <1>0
  <2> QED BY <2>1, <2>4, <2>5, MadeKept DEF Tasks
<1>11. CASE Flush \/ Drain \/ AskDrain
  <2>1. UNCHANGED <<held, entry, made, task, mishaps>> /\ (file'.lots = held' \/ file' = file)
    BY <1>11, WriteLots
       DEF Flush, Drain, SeeDrain, DrainReadsVar, DrainReadsRest, AskDrain, Persist, lotMemory
  <2> QED BY <2>1, MadeKept
<1>12. CASE CloseRuntime \/ InventoryDies
  <2>1. /\ held' = {} /\ entry' = NoEntry /\ \A w \in Tasks : task'[w].at = "idle"
        /\ UNCHANGED made /\ Counted
        /\ file' = file \/ file'.lots = held
    BY <1>12 DEF CloseRuntime, InventoryDies, Gone, Resting
  <2>2. mishaps' >= mishaps
    BY <2>1, <1>0
  <2> QED BY <2>1, <2>2, MadeKept
<1>13. CASE StartRuntime \/ OperatorReset
  <2>1. /\ UNCHANGED <<entry, task, made, mishaps>>
        /\ held' = {} \/ held' = file.lots \/ held' = held
        /\ file'.lots = file.lots \/ file'.lots = {}
    <3>1. \A r, p : [file EXCEPT !.review = r, !.pending = p].lots = file.lots
      BY DEF KindsOK, Files
    <3>2. CASE StartRuntime
      BY <3>1, <3>2 DEF StartRuntime
    <3>3. CASE OperatorReset
      BY <3>3 DEF OperatorReset, lotMemory
    <3> QED BY <1>13, <3>2, <3>3
  <2> QED BY <2>1, MadeKept
<1> QED BY <1>2, <1>3, <1>4, <1>5, <1>6, <1>7, <1>8, <1>9, <1>10, <1>11, <1>12, <1>13
        DEF InventoryNext, Venue, Strategic, Callback, Tasks

-----------------------------------------------------------------------------
(* Books.                                                                  *)

Venues == {"var", "lighter"}

\* The terms of the books are numbers.
LEMMA TermsAre ==
  ASSUME KindsOK, NEW venue \in Venues
  PROVE  /\ Position(venue) \in Int /\ Cardinality(held) \in Nat
         /\ Pending(venue) \in {0, 1} /\ \A w \in Tasks : Custody(w, venue) \in {0, 1}
         /\ Flight(orders, venue) \in Nat /\ Unreturned(venue) \in Nat
         /\ Promised(venue) \in Nat
<1>1. orders \in Seq(OrderRecords)
  BY FieldsAre
<1>2. Flight(orders, venue) \in Nat /\ Flight(orders, "return") \in Nat
  BY <1>1, FlightIsNat
<1>3. Leaves => task["strategy"].qty \in Nat
  BY CourseIs DEF Leaves, Tasks
<1> QED BY <1>2, <1>3, FieldsAre DEF Venues, Position, Pending, Custody, One, Unreturned, Promised

LEMMA AppendIs ==
  ASSUME NEW os \in Seq(OrderRecords), NEW o \in OrderRecords
  PROVE  /\ Append(os, o) \in Seq(OrderRecords)
         /\ Len(os) \in Nat /\ DOMAIN os = 1..Len(os) /\ DOMAIN Append(os, o) = 1..(Len(os) + 1)
         /\ Len(Append(os, o)) = Len(os) + 1
         /\ \A k \in DOMAIN os : Append(os, o)[k] = os[k]
         /\ Append(os, o)[Len(os) + 1] = o
OBVIOUS

LEMMA DropIs ==
  ASSUME NEW os \in Seq(OrderRecords), NEW k \in DOMAIN os, NEW s \in OrderStatuses
  PROVE  LET new == [os EXCEPT ![k].status = s] IN
         /\ new \in Seq(OrderRecords) /\ DOMAIN new = DOMAIN os
         /\ \A j \in DOMAIN os : j # k => new[j] = os[j]
         /\ new[k].status = s
         /\ \A j \in DOMAIN os : /\ new[j].venue = os[j].venue /\ new[j].purpose = os[j].purpose
                                 /\ new[j].qty = os[j].qty
<1> DEFINE r == [os[k] EXCEPT !.status = s]
           new == [os EXCEPT ![k] = r]
<1>1. os[k] \in OrderRecords
  BY OrderIs
<1>2. r \in OrderRecords /\ r.status = s /\ r.venue = os[k].venue /\ r.purpose = os[k].purpose /\ r.qty = os[k].qty
  BY <1>1 DEF OrderRecords
<1> HIDE DEF r
<1>3. new \in Seq(OrderRecords) /\ DOMAIN new = DOMAIN os /\ new[k] = r /\ \A j \in DOMAIN os : j # k => new[j] = os[j]
  BY <1>2
<1>4. [os EXCEPT ![k].status = s] = new
  BY DEF r
<1> HIDE DEF new
<1>5. /\ new \in Seq(OrderRecords) /\ DOMAIN new = DOMAIN os
      /\ \A j \in DOMAIN os : j # k => new[j] = os[j]
      /\ new[k].status = s
      /\ \A j \in DOMAIN os : /\ new[j].venue = os[j].venue /\ new[j].purpose = os[j].purpose
                              /\ new[j].qty = os[j].qty
  BY <1>2, <1>3
<1> QED BY <1>4, <1>5

\* Orders keep what they are; one that has ended keeps how.
Carried(os, new) ==
  /\ DOMAIN os \subseteq DOMAIN new
  /\ \A k \in DOMAIN os :
       /\ new[k].venue = os[k].venue /\ new[k].purpose = os[k].purpose /\ new[k].qty = os[k].qty
       /\ os[k].status # "sent" => new[k].status = os[k].status

LEMMA CarriedIs ==
  ASSUME NEW os, NEW new, Carried(os, new)
  PROVE  /\ \A e : IsEntry(os, e) => IsEntry(new, e)
         /\ \A e : IsEntry(os, e) /\ Filled(os, e.var) => Filled(new, e.var)
         /\ \A k, v, p : IsOrder(os, k, v, p) =>
              /\ IsOrder(new, k, v, p) /\ new[k].qty = os[k].qty
              /\ os[k].status # "sent" => new[k].status = os[k].status
BY DEF Carried, IsEntry, IsOrder, Filled

LEMMA AppendCarries ==
  ASSUME NEW os \in Seq(OrderRecords), NEW o \in OrderRecords
  PROVE  Carried(os, Append(os, o))
BY AppendIs DEF Carried

LEMMA DropCarries ==
  ASSUME NEW os \in Seq(OrderRecords), NEW k \in DOMAIN os, os[k].status = "sent", NEW s \in OrderStatuses
  PROVE  Carried(os, [os EXCEPT ![k].status = s])
<1> DEFINE new == [os EXCEPT ![k].status = s]
<1>1. /\ DOMAIN new = DOMAIN os /\ \A j \in DOMAIN os : j # k => new[j] = os[j]
      /\ \A j \in DOMAIN os : /\ new[j].venue = os[j].venue /\ new[j].purpose = os[j].purpose
                              /\ new[j].qty = os[j].qty
  BY DropIs
<1> HIDE DEF new
<1>2. Carried(os, new)
  BY <1>1 DEF Carried
<1> QED BY <1>2 DEF new

CalmPhases == {"idle", "entering", "looking", "verifying"}

\* A step of a task that moves nothing and learns nothing.
LEMMA QuietStep ==
  ASSUME KindsOK, RunningInv, UNCHANGED <<var, lighter, orders, events, held, entry>>,
         NEW w \in Tasks, \A v \in Tasks : v # w => task'[v] = task[v],
         task[w].at \in CalmPhases, task'[w].at \in CalmPhases,
         task'[w].at = "looking" =>
           \/ task'[w] = task[w]
           \/ task'[w].answer # "filled"
           \/ events = <<>> /\ entry # NoEntry /\ task'[w].e = entry /\ Filled(orders, entry.var),
         w = "strategy" => \/ task'[w] = Resting
                           \/ \A k \in Sent : orders[k].purpose # "unwind"
  PROVE  RunningInv'
<1>1. ASSUME NEW v \in Tasks
      PROVE  (Completes(v)' <=> Completes(v)) /\ (Completes(v) => task'[v] = task[v])
  BY DEF Completes, CalmPhases
<1>2. (Leaves' <=> Leaves) /\ (Leaves => task'["strategy"] = task["strategy"])
  BY DEF Leaves, CalmPhases, Tasks
<1>3. Sent' = Sent
  BY DEF Sent
<1>4. OrdersAreNamed'
  BY <1>1, <1>2 DEF OrdersAreNamed, RunningInv
<1>5. NamedOnce'
  BY <1>1 DEF NamedOnce, RunningInv, Tasks
<1>6. SentIsNamed'
  <2> SUFFICES ASSUME NEW k \in Sent
               PROVE  /\ orders[k].purpose = "unwind" =>
                           orders[k].venue = "var" /\ entry = NoEntry /\ task'["strategy"] = Resting
                      /\ IsOrder(orders, k, "var", "entry") => entry # NoEntry /\ k = entry.var
                      /\ IsOrder(orders, k, "lighter", "entry") =>
                           \/ entry # NoEntry /\ k = entry.lighter
                           \/ \E v \in Tasks : Completes(v)' /\ k = task'[v].e.lighter
                      /\ IsOrder(orders, k, "lighter", "exit") => Leaves' /\ k = task'["strategy"].hedge
    BY <1>3 DEF SentIsNamed, Named
  <2>1. orders[k].purpose = "unwind" => task'["strategy"] = Resting
    BY DEF RunningInv, SentIsNamed, Named, Tasks
  <2> QED BY <1>1, <1>2, <2>1 DEF RunningInv, SentIsNamed, Named
<1>7. NewsIsTrue'
  <2>1. task'["strategy"].at = "looking" /\ task'["strategy"].answer = "filled" =>
          \/ task'["strategy"] = task["strategy"]
          \/ events = <<>> /\ entry # NoEntry /\ task'["strategy"].e = entry /\ Filled(orders, entry.var)
    BY DEF Tasks
  <2>2. events = <<>> => DOMAIN events = {}
    OBVIOUS
  <2> QED BY <2>1, <2>2 DEF NewsIsTrue, RunningInv
<1>8. Booked'
  <2> SUFFICES ASSUME NEW venue \in Venues
               PROVE  Position(venue)' =
                        Cardinality(held') + Pending(venue)' + Custody("strategy", venue)' + Custody("callback", venue)'
                        + Flight(orders', venue) - Promised(venue)' - Unreturned(venue)'
    BY DEF Booked, Venues
  <2>1. ASSUME NEW v \in Tasks PROVE Custody(v, venue)' = Custody(v, venue)
    <3>1. task'[v].at = "closing" <=> task[v].at = "closing"
      BY DEF CalmPhases
    <3> QED BY <1>1, <3>1 DEF Custody
  <2>2. Promised(venue)' = Promised(venue)
    BY <1>2 DEF Promised
  <2>3. Position(venue)' = Position(venue) /\ Pending(venue)' = Pending(venue) /\ Unreturned(venue)' = Unreturned(venue)
    BY DEF Position, Pending, Unreturned
  <2> QED BY <2>1, <2>2, <2>3 DEF RunningInv, Booked, Tasks, Venues
<1>9. LotsCoverExits'
  BY <1>2 DEF LotsCoverExits, RunningInv, Quantity
<1> QED BY <1>4, <1>5, <1>6, <1>7, <1>8, <1>9 DEF RunningInv


\* Orders that are only joined by others.
OrdersKept(os, new) == DOMAIN os \subseteq DOMAIN new /\ \A k \in DOMAIN os : new[k] = os[k]

LEMMA KeptIs ==
  ASSUME NEW os, NEW new, OrdersKept(os, new)
  PROVE  /\ \A e : IsEntry(os, e) =>
              /\ IsEntry(new, e) /\ Filled(new, e.var) = Filled(os, e.var)
              /\ Filled(new, e.lighter) = Filled(os, e.lighter)
         /\ \A k, v, p : IsOrder(os, k, v, p) => IsOrder(new, k, v, p) /\ new[k] = os[k]
BY DEF OrdersKept, IsEntry, IsOrder, Filled

LEMMA AppendKeeps ==
  ASSUME NEW os \in Seq(OrderRecords), NEW a \in OrderRecords
  PROVE  /\ OrdersKept(os, Append(os, a))
         /\ \A b \in OrderRecords :
              /\ OrdersKept(os, Append(Append(os, a), b)) /\ Append(Append(os, a), b) \in Seq(OrderRecords)
              /\ DOMAIN Append(Append(os, a), b) = 1..(Len(os) + 2)
              /\ Append(Append(os, a), b)[Len(os) + 1] = a /\ Append(Append(os, a), b)[Len(os) + 2] = b
<1>1. OrdersKept(os, Append(os, a)) /\ Append(os, a) \in Seq(OrderRecords)
  BY AppendIs DEF OrdersKept
<1>2. ASSUME NEW b \in OrderRecords
      PROVE  /\ OrdersKept(os, Append(Append(os, a), b)) /\ Append(Append(os, a), b) \in Seq(OrderRecords)
             /\ DOMAIN Append(Append(os, a), b) = 1..(Len(os) + 2)
             /\ Append(Append(os, a), b)[Len(os) + 1] = a /\ Append(Append(os, a), b)[Len(os) + 2] = b
  <2> DEFINE m == Append(os, a)
             n == Append(m, b)
  <2>1. /\ m \in Seq(OrderRecords) /\ Len(os) \in Nat /\ DOMAIN os = 1..Len(os) /\ DOMAIN m = 1..(Len(os) + 1)
        /\ Len(m) = Len(os) + 1 /\ \A k \in DOMAIN os : m[k] = os[k]
        /\ m[Len(os) + 1] = a
    BY AppendIs
  <2> HIDE DEF m
  <2>2. /\ n \in Seq(OrderRecords) /\ DOMAIN n = 1..(Len(m) + 1)
        /\ \A k \in DOMAIN m : n[k] = m[k]
        /\ n[Len(m) + 1] = b
    BY <2>1, AppendIs
  <2> HIDE DEF n
  <2>3. n \in Seq(OrderRecords) /\ DOMAIN n = 1..(Len(os) + 2) /\ n[Len(os) + 1] = a /\ n[Len(os) + 2] = b
        /\ \A k \in DOMAIN os : k \in DOMAIN n /\ n[k] = os[k]
    BY <2>1, <2>2
  <2>4. OrdersKept(os, n)
    BY <2>3 DEF OrdersKept
  <2> QED BY <2>3, <2>4 DEF n, m
<1> QED BY <1>1, <1>2

\* A task that rests or moves on has no return on its way.
LEMMA NoReturn ==
  ASSUME KindsOK, RunningInv, task["strategy"] # Resting
  PROVE  Flight(orders, "return") = 0 /\ \A k \in Sent : orders[k].purpose # "unwind"
<1>1. \A k \in Sent : orders[k].purpose # "unwind"
  BY DEF RunningInv, SentIsNamed, Named
<1>2. orders \in Seq(OrderRecords)
  BY FieldsAre
<1>3. \A k \in DOMAIN orders : orders[k].status = "sent" => Class(orders[k]) # "return"
  <2> SUFFICES ASSUME NEW k \in DOMAIN orders, orders[k].status = "sent" PROVE Class(orders[k]) # "return"
    OBVIOUS
  <2>1. orders[k].purpose # "unwind" /\ orders[k].venue \in {"var", "lighter"}
    BY <1>1, <1>2, OrderIs DEF Sent
  <2> QED BY <2>1 DEF Class
<1> QED BY <1>1, <1>2, <1>3, NoFlight

\* What an exit promised and what is to return are lots that are open.
LEMMA Backing ==
  ASSUME KindsOK, RunningInv, NEW venue \in Venues
  PROVE  /\ Promised(venue) + Unreturned(venue) <= Cardinality(held)
         /\ Position(venue) >= Flight(orders, venue)
<1>1. /\ Promised(venue) \in Nat /\ Unreturned(venue) \in Nat /\ Cardinality(held) \in Nat
      /\ Position(venue) \in Int /\ Pending(venue) \in {0, 1}
      /\ Custody("strategy", venue) \in {0, 1} /\ Custody("callback", venue) \in {0, 1}
      /\ Flight(orders, venue) \in Nat
  BY TermsAre DEF Tasks
<1>2. CASE Leaves
  <2>1. Unreturned(venue) = 0
    BY <1>2, NoReturn DEF Leaves, Resting, Unreturned
  <2>2. Promised(venue) \in {0, Quantity(task["strategy"].ids)}
    BY <1>2 DEF Promised, RunningInv, LotsCoverExits
  <2>3. Quantity(task["strategy"].ids) <= Cardinality(held)
    BY FS_Subset, FieldsAre DEF Quantity
  <2> QED BY <1>1, <2>1, <2>2, <2>3 DEF RunningInv, Booked, Venues
<1>3. CASE ~Leaves
  <2>1. Promised(venue) = 0 /\ Unreturned(venue) <= Cardinality(held)
    BY <1>1, <1>3 DEF Promised, Unreturned, RunningInv, LotsCoverExits
  <2> QED BY <1>1, <2>1 DEF RunningInv, Booked, Venues
<1> QED BY <1>2, <1>3

\* The orders an exit, an entry and a completion name exist.
LEMMA NamesAre ==
  ASSUME KindsOK, RunningInv
  PROVE  /\ Leaves => task["strategy"].hedge \in DOMAIN orders
         /\ entry # NoEntry => entry.var \in DOMAIN orders /\ entry.lighter \in DOMAIN orders /\ entry \in Intents
         /\ \A w \in Tasks : Completes(w) => task[w].e.var \in DOMAIN orders /\ task[w].e.lighter \in DOMAIN orders
BY DEF RunningInv, OrdersAreNamed, IsEntry, IsOrder, KindsOK

\* Orders that are added leave what is in custody and what is pending.
LEMMA KeptTerms ==
  ASSUME KindsOK, RunningInv, NEW new, OrdersKept(orders, new), NEW venue \in Venues
  PROVE  /\ entry # NoEntry => Filled(new, Leg(entry, venue)) = Filled(orders, Leg(entry, venue))
         /\ \A w \in Tasks : Completes(w) =>
              Filled(new, Leg(task[w].e, venue)) = Filled(orders, Leg(task[w].e, venue))
         /\ Leaves => new[task["strategy"].hedge] = orders[task["strategy"].hedge]
BY NamesAre DEF OrdersKept, Filled, Leg

\* An exit that goes on as it was.
LEMMA ExitTurns ==
  ASSUME KindsOK, RunningInv, UNCHANGED <<var, lighter, orders, events, held, entry>>,
         Leaves, task'["callback"] = task["callback"],
         task'["strategy"].at \in {"hedging", "recovering"},
         task'["strategy"].ids = task["strategy"].ids, task'["strategy"].qty = task["strategy"].qty,
         task'["strategy"].hedge = task["strategy"].hedge,
         task'["strategy"].at = "recovering" => task["strategy"].at = "recovering"
  PROVE  RunningInv'
<1>1. Leaves' /\ ~Completes("strategy") /\ ~Completes("strategy")' /\ Completes("callback")' = Completes("callback")
  BY DEF Leaves, Completes
<1>2. Sent' = Sent /\ task["strategy"] # Resting
  BY DEF Sent, Leaves, Resting
<1>3. OrdersAreNamed'
  BY <1>1 DEF OrdersAreNamed, RunningInv, Tasks, Leaves
<1>4. NamedOnce'
  BY <1>1 DEF NamedOnce, RunningInv, Tasks
<1>5. SentIsNamed'
  BY <1>1, <1>2 DEF SentIsNamed, Named, RunningInv, Tasks
<1>6. NewsIsTrue'
  BY DEF NewsIsTrue, RunningInv
<1>7. Booked'
  <2> SUFFICES ASSUME NEW venue \in Venues
               PROVE  Position(venue)' =
                        Cardinality(held') + Pending(venue)' + Custody("strategy", venue)' + Custody("callback", venue)'
                        + Flight(orders', venue) - Promised(venue)' - Unreturned(venue)'
    BY DEF Booked, Venues
  <2>1. Custody("strategy", venue)' = Custody("strategy", venue) /\ Custody("callback", venue)' = Custody("callback", venue)
    BY <1>1 DEF Custody, Completes, Leaves
  <2>2. Promised(venue)' = Promised(venue)
    BY <1>1 DEF Promised
  <2>3. Position(venue)' = Position(venue) /\ Pending(venue)' = Pending(venue) /\ Unreturned(venue)' = Unreturned(venue)
    BY DEF Position, Pending, Unreturned
  <2> QED BY <2>1, <2>2, <2>3 DEF RunningInv, Booked, Venues
<1>8. LotsCoverExits'
  BY <1>1 DEF LotsCoverExits, RunningInv, Quantity
<1> QED BY <1>3, <1>4, <1>5, <1>6, <1>7, <1>8 DEF RunningInv

\* The books of a venue, and their terms.
LEMMA BooksAre ==
  ASSUME KindsOK, RunningInv, NEW venue \in Venues
  PROVE  /\ Position(venue) =
              Cardinality(held) + Pending(venue) + Custody("strategy", venue) + Custody("callback", venue)
              + Flight(orders, venue) - Promised(venue) - Unreturned(venue)
         /\ Promised(venue) \in Nat /\ Unreturned(venue) \in Nat /\ Cardinality(held) \in Nat
         /\ Position(venue) \in Int /\ Pending(venue) \in {0, 1}
         /\ Custody("strategy", venue) \in {0, 1} /\ Custody("callback", venue) \in {0, 1}
         /\ Flight(orders, venue) \in Nat /\ Flight(orders, "return") \in Nat
<1>1. Flight(orders, "return") \in Nat
  BY FieldsAre, FlightIsNat
<1> QED BY <1>1, TermsAre DEF Tasks, RunningInv, Booked, Venues

\* What is in flight stays named, if what names it stays.
LEMMA StaysNamed ==
  ASSUME KindsOK, RunningInv, NEW k \in Sent, k \in DOMAIN orders',
         orders'[k].venue = orders[k].venue, orders'[k].purpose = orders[k].purpose,
         orders[k].purpose = "unwind" => entry' = entry /\ task'["strategy"] = Resting,
         IsOrder(orders, k, "var", "entry") => entry' = entry,
         IsOrder(orders, k, "lighter", "entry") =>
           /\ entry' = entry
           /\ \A w \in Tasks : Completes(w) => Completes(w)' /\ task'[w].e.lighter = task[w].e.lighter,
         IsOrder(orders, k, "lighter", "exit") => Leaves' /\ task'["strategy"].hedge = task["strategy"].hedge
  PROVE  Named(k)'
<1>1. Named(k) /\ k \in DOMAIN orders
  BY DEF RunningInv, SentIsNamed, Sent
<1>2. \A v, p : IsOrder(orders', k, v, p) <=> IsOrder(orders, k, v, p)
  BY <1>1 DEF IsOrder
<1>3. orders'[k].purpose = "unwind" =>
         orders'[k].venue = "var" /\ entry' = NoEntry /\ task'["strategy"] = Resting
  BY <1>1 DEF Named
<1>4. IsOrder(orders', k, "var", "entry") => entry' # NoEntry /\ k = entry'.var
  BY <1>1, <1>2 DEF Named
<1>5. IsOrder(orders', k, "lighter", "entry") =>
         \/ entry' # NoEntry /\ k = entry'.lighter
         \/ \E w \in Tasks : Completes(w)' /\ k = task'[w].e.lighter
  BY <1>1, <1>2 DEF Named
<1>6. IsOrder(orders', k, "lighter", "exit") => Leaves' /\ k = task'["strategy"].hedge
  BY <1>1, <1>2 DEF Named
<1> QED BY <1>3, <1>4, <1>5, <1>6 DEF Named

\* The new books of a venue hold, one by one.
LEMMA Balanced ==
  ASSUME \A venue \in Venues :
           Position(venue)' =
             Cardinality(held') + Pending(venue)' + Custody("strategy", venue)' + Custody("callback", venue)'
             + Flight(orders', venue) - Promised(venue)' - Unreturned(venue)'
  PROVE  Booked'
BY DEF Booked, Venues

-----------------------------------------------------------------------------
(* Exits.                                                                  *)

\* The hedge of an exit that is sent again, the last one being over.
LEMMA HedgeSentAgain ==
  ASSUME KindsOK, RunningInv, UNCHANGED <<var, lighter, events, held, entry>>,
         Leaves, task'["callback"] = task["callback"],
         orders[task["strategy"].hedge].status \notin {"sent", "filled"},
         orders' = Append(orders, Order("lighter", "exit", task["strategy"].qty)),
         task'["strategy"].at = "hedging", task'["strategy"].ids = task["strategy"].ids,
         task'["strategy"].qty = task["strategy"].qty, task'["strategy"].hedge = Len(orders) + 1
  PROVE  RunningInv'
<1> DEFINE s == task["strategy"]
           o == Order("lighter", "exit", s.qty)
           n == Len(orders) + 1
<1>1. s.qty \in Nat \ {0} /\ s # Resting
  BY CourseIs DEF Leaves, Tasks, Resting
<1>2. o \in OrderRecords /\ o.venue = "lighter" /\ o.purpose = "exit" /\ o.qty = s.qty /\ o.status = "sent"
  BY <1>1, OrderKinds
<1> HIDE DEF o
<1>3. orders' = Append(orders, o) /\ orders \in Seq(OrderRecords)
  BY FieldsAre DEF o
<1>4. /\ n \in Nat /\ n \notin DOMAIN orders /\ DOMAIN orders' = DOMAIN orders \cup {n} /\ orders'[n] = o
      /\ \A k \in DOMAIN orders : orders'[k] = orders[k]
  BY <1>2, <1>3, AppendIs
<1>5. OrdersKept(orders, orders')
  BY <1>4 DEF OrdersKept
<1>6. Leaves /\ Leaves' /\ ~Completes("strategy") /\ ~Completes("strategy")' /\ Completes("callback")' = Completes("callback")
  BY DEF Leaves, Completes
<1>7. Sent' = Sent \cup {n}
  BY <1>2, <1>4 DEF Sent
<1>8. OrdersAreNamed'
  <2>1. /\ entry # NoEntry => IsEntry(orders', entry)
        /\ Completes("callback")' => IsEntry(orders', task'["callback"].e) /\ Filled(orders', task'["callback"].e.var)
    BY <1>5, <1>6, KeptIs DEF RunningInv, OrdersAreNamed, Tasks
  <2>2. IsOrder(orders', n, "lighter", "exit") /\ orders'[n].qty = s.qty /\ entry = NoEntry
    BY <1>2, <1>4, <1>6 DEF IsOrder, RunningInv, OrdersAreNamed
  <2> QED BY <2>1, <2>2, <1>6 DEF OrdersAreNamed, Tasks
<1>9. NamedOnce'
  BY <1>6 DEF NamedOnce, RunningInv, Tasks
<1>10. SentIsNamed'
  <2>1. ASSUME NEW k, k = n PROVE Named(k)'
    BY <2>1, <1>2, <1>4, <1>6 DEF Named, IsOrder
  <2>2. ASSUME NEW k \in Sent PROVE Named(k)'
    <3>1. k \in DOMAIN orders /\ orders'[k] = orders[k] /\ orders[k].status = "sent" /\ Named(k)
      BY <1>4 DEF Sent, RunningInv, SentIsNamed
    <3>2. ~IsOrder(orders, k, "lighter", "exit") /\ orders[k].purpose # "unwind"
      BY <3>1, <1>1 DEF Named
    <3>3. \A w \in Tasks : Completes(w) => Completes(w)' /\ task'[w].e.lighter = task[w].e.lighter
      BY <1>6 DEF Tasks
    <3>4. k \in DOMAIN orders' /\ orders'[k].venue = orders[k].venue /\ orders'[k].purpose = orders[k].purpose
      BY <3>1, <1>4
    <3> QED BY <2>2, <3>2, <3>3, <3>4, StaysNamed
  <2> QED BY <2>1, <2>2, <1>7 DEF SentIsNamed
<1>11. NewsIsTrue'
  <2>1. entry = NoEntry
    BY <1>6 DEF RunningInv, OrdersAreNamed
  <2> QED BY <2>1 DEF NewsIsTrue
<1>12. Booked'
  <2> SUFFICES ASSUME NEW venue \in Venues
               PROVE  Position(venue)' =
                        Cardinality(held') + Pending(venue)' + Custody("strategy", venue)' + Custody("callback", venue)'
                        + Flight(orders', venue) - Promised(venue)' - Unreturned(venue)'
    BY Balanced
  <2>1. /\ Custody("strategy", venue)' = Custody("strategy", venue)
        /\ Custody("callback", venue)' = Custody("callback", venue)
    <3>1. task["strategy"].at # "closing"
      BY <1>6 DEF Leaves
    <3> QED BY <1>5, <1>6, <3>1, KeptTerms DEF Custody, Tasks
  <2>2. Class(o) = "lighter"
    BY <1>2 DEF Class
  <2>3. /\ Flight(orders', venue) = Flight(orders, venue) + (IF venue = "lighter" THEN s.qty ELSE 0)
        /\ Flight(orders', "return") = Flight(orders, "return")
    <3>1. Flight(orders, "return") \in Nat
      BY <1>3, FlightIsNat
    <3> QED BY <3>1, <2>2, <1>2, <1>3, FlightAppend DEF Venues
  <2>4. Promised(venue)' = Promised(venue) + (IF venue = "lighter" THEN s.qty ELSE 0)
    <3>1. orders'[task'["strategy"].hedge].status = "sent"
      BY <1>2, <1>4
    <3> QED BY <1>1, <1>6, <3>1 DEF Promised, Venues
  <2>5. /\ Position(venue)' = Position(venue) /\ Pending(venue)' = Pending(venue)
        /\ Unreturned(venue)' = Unreturned(venue)
    <3>1. entry = NoEntry
      BY <1>6 DEF RunningInv, OrdersAreNamed
    <3> QED BY <2>3, <3>1 DEF Position, Pending, Unreturned
  <2> QED BY <2>1, <2>3, <2>4, <2>5, BooksAre, <1>1
<1>13. LotsCoverExits'
  <2>1. Flight(orders', "return") = Flight(orders, "return")
    <3>1. Flight(orders, "return") \in Nat
      BY <1>3, FlightIsNat
    <3>2. Class(o) # "return"
      BY <1>2 DEF Class
    <3> QED BY <3>1, <3>2, <1>2, <1>3, FlightAppend
  <2> QED BY <2>1, <1>6 DEF LotsCoverExits, RunningInv, Quantity
<1> QED BY <1>8, <1>9, <1>10, <1>11, <1>12, <1>13 DEF RunningInv

\* An order that is over.
LEMMA Ended ==
  ASSUME KindsOK, NEW k \in Sent, NEW s \in OrderStatuses, s # "sent", orders' = WithStatus(k, s)
  PROVE  /\ orders' \in Seq(OrderRecords) /\ Carried(orders, orders') /\ Sent' = Sent \ {k}
         /\ DOMAIN orders' = DOMAIN orders /\ orders'[k].status = s
         /\ \A j \in DOMAIN orders : j # k => orders'[j] = orders[j]
         /\ \A j \in DOMAIN orders : /\ orders'[j].venue = orders[j].venue
                                     /\ orders'[j].purpose = orders[j].purpose /\ orders'[j].qty = orders[j].qty
<1>1. k \in DOMAIN orders /\ orders[k].status = "sent" /\ orders \in Seq(OrderRecords)
  BY FieldsAre DEF Sent
<1>2. orders' = [orders EXCEPT ![k].status = s]
  BY DEF WithStatus
<1>3. /\ orders' \in Seq(OrderRecords) /\ DOMAIN orders' = DOMAIN orders /\ orders'[k].status = s
      /\ \A j \in DOMAIN orders : j # k => orders'[j] = orders[j]
      /\ \A j \in DOMAIN orders : /\ orders'[j].venue = orders[j].venue
                                  /\ orders'[j].purpose = orders[j].purpose /\ orders'[j].qty = orders[j].qty
  BY <1>1, <1>2, DropIs
<1>4. Carried(orders, orders')
  BY <1>1, <1>2, DropCarries
<1>5. Sent' = Sent \ {k}
  BY <1>1, <1>3 DEF Sent
<1> QED BY <1>3, <1>4, <1>5

LEMMA EndedFlight ==
  ASSUME KindsOK, NEW k \in Sent, NEW s \in OrderStatuses, s # "sent", orders' = WithStatus(k, s), NEW class
  PROVE  /\ Flight(orders', class) =
              Flight(orders, class) - (IF Class(orders[k]) = class THEN orders[k].qty ELSE 0)
         /\ Class(orders[k]) = class => orders[k].qty <= Flight(orders, class)
<1>1. k \in DOMAIN orders /\ orders[k].status = "sent" /\ orders \in Seq(OrderRecords)
  BY FieldsAre DEF Sent
<1>2. /\ Flight([orders EXCEPT ![k].status = s], class) =
           Flight(orders, class) - (IF Class(orders[k]) = class THEN orders[k].qty ELSE 0)
      /\ Class(orders[k]) = class => orders[k].qty <= Flight(orders, class)
  BY <1>1, FlightDrop
<1>3. Flight(orders', class) = Flight([orders EXCEPT ![k].status = s], class)
  BY DEF WithStatus
<1> QED BY <1>2, <1>3

\* A hedge that failed: what it would have moved is promised no more.
LEMMA HedgeFails ==
  ASSUME KindsOK, RunningInv, UNCHANGED <<var, lighter, events, held, entry>>,
         Leaves, NEW status \in {"refused", "canceled"}, task["strategy"].hedge \in Sent,
         orders' = WithStatus(task["strategy"].hedge, status),
         task'["callback"] = task["callback"],
         task'["strategy"].at \in {"leaving", "hedging", "recovering"},
         task'["strategy"].ids = task["strategy"].ids, task'["strategy"].qty = task["strategy"].qty,
         task'["strategy"].hedge = task["strategy"].hedge
  PROVE  RunningInv'
<1> DEFINE s == task["strategy"]
<1>a. PICK k \in Sent : k = s.hedge
  OBVIOUS
<1>1. s.qty \in Nat \ {0} /\ s # Resting
  BY CourseIs DEF Leaves, Tasks, Resting
<1>2. /\ Carried(orders, orders') /\ Sent' = Sent \ {k}
      /\ DOMAIN orders' = DOMAIN orders /\ orders'[k].status = status
      /\ \A j \in DOMAIN orders : j # k => orders'[j] = orders[j]
      /\ \A j \in DOMAIN orders : /\ orders'[j].venue = orders[j].venue
                                  /\ orders'[j].purpose = orders[j].purpose /\ orders'[j].qty = orders[j].qty
  BY <1>a, Ended DEF OrderStatuses
<1>b. \A class : Flight(orders', class) =
                   Flight(orders, class) - (IF Class(orders[k]) = class THEN orders[k].qty ELSE 0)
  BY <1>a, EndedFlight DEF OrderStatuses
<1>3. IsOrder(orders, k, "lighter", "exit") /\ orders[k].qty = s.qty /\ entry = NoEntry
  BY <1>a DEF RunningInv, OrdersAreNamed
<1>4. Leaves /\ Leaves' /\ ~Completes("strategy") /\ ~Completes("strategy")' /\ Completes("callback")' = Completes("callback")
  BY DEF Leaves, Completes
<1>5. OrdersAreNamed'
  <2>1. Completes("callback")' => IsEntry(orders', task'["callback"].e) /\ Filled(orders', task'["callback"].e.var)
    BY <1>2, <1>4, CarriedIs DEF RunningInv, OrdersAreNamed, Tasks
  <2>2. IsOrder(orders', s.hedge, "lighter", "exit") /\ orders'[s.hedge].qty = s.qty
    BY <1>a, <1>2, <1>3, CarriedIs
  <2> QED BY <2>1, <2>2, <1>a, <1>2, <1>3, <1>4 DEF OrdersAreNamed, Tasks
<1>6. NamedOnce'
  BY <1>4 DEF NamedOnce, RunningInv, Tasks
<1>7. SentIsNamed'
  <2>1. ASSUME NEW j \in Sent PROVE Named(j)'
    <3>1. j \in DOMAIN orders' /\ orders'[j].venue = orders[j].venue /\ orders'[j].purpose = orders[j].purpose
      BY <1>2 DEF Sent
    <3>2. orders[j].purpose # "unwind"
      BY <1>1 DEF RunningInv, SentIsNamed, Named
    <3>3. \A w \in Tasks : Completes(w) => Completes(w)' /\ task'[w].e.lighter = task[w].e.lighter
      BY <1>4 DEF Tasks
    <3> QED BY <2>1, <3>1, <3>2, <3>3, <1>4, StaysNamed
  <2> QED BY <2>1, <1>2 DEF SentIsNamed
<1>8. NewsIsTrue'
  BY <1>3, <1>4 DEF NewsIsTrue, Leaves
<1>9. Class(orders[k]) = "lighter"
  BY <1>3 DEF IsOrder, Class
<1>10. Flight(orders', "return") = Flight(orders, "return")
  <2>1. Flight(orders, "return") \in Nat
    BY FieldsAre, FlightIsNat
  <2> QED BY <2>1, <1>b, <1>9
<1>11. Booked'
  <2> SUFFICES ASSUME NEW venue \in Venues
               PROVE  Position(venue)' =
                        Cardinality(held') + Pending(venue)' + Custody("strategy", venue)' + Custody("callback", venue)'
                        + Flight(orders', venue) - Promised(venue)' - Unreturned(venue)'
    BY Balanced
  <2>1. /\ Custody("strategy", venue)' = Custody("strategy", venue)
        /\ Custody("callback", venue)' = Custody("callback", venue)
    <3>1. s.at # "closing" /\ task'["strategy"].at # "closing"
      BY <1>4 DEF Leaves
    <3>2. Completes("callback") => Filled(orders', Leg(task["callback"].e, venue)) = Filled(orders, Leg(task["callback"].e, venue))
      <4> SUFFICES ASSUME Completes("callback")
                   PROVE  orders'[Leg(task["callback"].e, venue)] = orders[Leg(task["callback"].e, venue)]
        BY DEF Filled
      <4>1. Leg(task["callback"].e, venue) \in DOMAIN orders /\ orders[Leg(task["callback"].e, venue)].purpose = "entry"
        BY DEF RunningInv, OrdersAreNamed, IsEntry, IsOrder, Leg, Tasks
      <4> QED BY <4>1, <1>2, <1>3 DEF IsOrder
    <3> QED BY <1>4, <3>1, <3>2 DEF Custody
  <2>2. Flight(orders', venue) = Flight(orders, venue) - (IF venue = "lighter" THEN s.qty ELSE 0)
    BY <1>b, <1>3, <1>9
  <2>3. Promised(venue)' = Promised(venue) - (IF venue = "lighter" THEN s.qty ELSE 0)
    <3>1. orders'[task'["strategy"].hedge].status \notin {"sent", "filled"} /\ orders[s.hedge].status = "sent"
      BY <1>a, <1>2 DEF Sent
    <3> QED BY <1>1, <1>4, <3>1 DEF Promised, Venues
  <2>4. /\ Position(venue)' = Position(venue) /\ Pending(venue)' = Pending(venue)
        /\ Unreturned(venue)' = Unreturned(venue)
    BY <1>3, <1>10 DEF Position, Pending, Unreturned
  <2> QED BY <2>1, <2>2, <2>3, <2>4, BooksAre, <1>1
<1>12. LotsCoverExits'
  BY <1>4, <1>10 DEF LotsCoverExits, RunningInv, Quantity
<1> QED BY <1>5, <1>6, <1>7, <1>8, <1>11, <1>12 DEF RunningInv

LEMMA FlightAppendTwo ==
  ASSUME NEW os \in Seq(OrderRecords), NEW a \in OrderRecords, a.status = "sent",
         NEW b \in OrderRecords, b.status = "sent", NEW class
  PROVE  Flight(Append(Append(os, a), b), class) =
           Flight(os, class) + (IF Class(a) = class THEN a.qty ELSE 0) + (IF Class(b) = class THEN b.qty ELSE 0)
<1>1. Flight(Append(os, a), class) = Flight(os, class) + (IF Class(a) = class THEN a.qty ELSE 0)
  BY FlightAppend
<1>2. Append(os, a) \in Seq(OrderRecords)
  OBVIOUS
<1>3. Flight(Append(Append(os, a), b), class) = Flight(Append(os, a), class) + (IF Class(b) = class THEN b.qty ELSE 0)
  BY <1>2, FlightAppend
<1> QED BY <1>1, <1>3

\* A step of the strategy that comes when nothing is to be told or returned.
LEMMA PromptIs ==
  ASSUME FaultsAssumption, KindsOK, StrategyTick
  PROVE  Running /\ task["strategy"] = Resting /\ events = <<>> /\ \A k \in Sent : orders[k].purpose # "unwind"
<1>1. <<"late", "var", "any">> \notin Faults
  BY DEF FaultsAssumption
<1> QED BY <1>1 DEF StrategyTick, Prompt, Running

\* An exit begins.
LEMMA ExitBegins ==
  ASSUME FaultsAssumption, KindsOK, RunningInv, NEW ids \in SUBSET Ids(held), BeginExit(ids)
  PROVE  RunningInv'
<1> DEFINE q == Quantity(ids)
           a == Order("var", "exit", q)
           b == Order("lighter", "exit", q)
           n == Len(orders)
<1>1. /\ task["strategy"] = Resting /\ events = <<>> /\ \A k \in Sent : orders[k].purpose # "unwind"
  BY PromptIs DEF BeginExit
<1>2. q \in Nat \ {0}
  BY QuantityIs DEF BeginExit
<1> HIDE DEF q
<1>3. /\ a \in OrderRecords /\ a.venue = "var" /\ a.purpose = "exit" /\ a.qty = q /\ a.status = "sent"
      /\ b \in OrderRecords /\ b.venue = "lighter" /\ b.purpose = "exit" /\ b.qty = q /\ b.status = "sent"
  BY <1>2, OrderKinds
<1> HIDE DEF a, b
<1>4. /\ orders' = Append(Append(orders, a), b) /\ orders \in Seq(OrderRecords) /\ n \in Nat /\ DOMAIN orders = 1..n
  BY FieldsAre DEF BeginExit, a, b, q
<1>5. /\ UNCHANGED <<var, lighter, events, held, entry>> /\ entry = NoEntry
      /\ task' = [task EXCEPT !["strategy"] = [at |-> "leaving", ids |-> ids, qty |-> q, var |-> n + 1,
                                               hedge |-> n + 2, tries |-> 0]]
  BY DEF BeginExit, Strategy, Does, q
<1>6. task'["callback"] = task["callback"] /\ task'["strategy"].at = "leaving" /\ task'["strategy"].ids = ids
      /\ task'["strategy"].qty = q /\ task'["strategy"].hedge = n + 2
  BY <1>5 DEF KindsOK, Tasks
<1>7. /\ OrdersKept(orders, orders') /\ DOMAIN orders' = 1..(n + 2) /\ orders'[n + 1] = a /\ orders'[n + 2] = b
  BY <1>3, <1>4, AppendKeeps
<1>8. /\ ~Leaves /\ Leaves' /\ ~Completes("strategy") /\ ~Completes("strategy")'
      /\ Completes("callback")' = Completes("callback")
  BY <1>1, <1>6 DEF Leaves, Completes, Resting
<1>9. Sent' = Sent \cup {n + 1, n + 2}
  BY <1>3, <1>4, <1>7 DEF Sent, OrdersKept
<1>10. OrdersAreNamed'
  <2>1. Completes("callback")' => IsEntry(orders', task'["callback"].e) /\ Filled(orders', task'["callback"].e.var)
    BY <1>7, <1>6, <1>8, KeptIs DEF RunningInv, OrdersAreNamed, Tasks
  <2>2. IsOrder(orders', n + 2, "lighter", "exit") /\ orders'[n + 2].qty = q
    BY <1>3, <1>4, <1>7 DEF IsOrder
  <2> QED BY <2>1, <2>2, <1>5, <1>6, <1>8 DEF OrdersAreNamed, Tasks
<1>11. NamedOnce'
  BY <1>5, <1>6, <1>8 DEF NamedOnce, RunningInv, Tasks
<1>12. SentIsNamed'
  <2>1. ASSUME NEW k, k = n + 1 PROVE Named(k)'
    BY <2>1, <1>3, <1>7 DEF Named, IsOrder
  <2>2. ASSUME NEW k, k = n + 2 PROVE Named(k)'
    BY <2>2, <1>3, <1>6, <1>7, <1>8 DEF Named, IsOrder
  <2>3. ASSUME NEW k \in Sent PROVE Named(k)'
    <3>1. k \in DOMAIN orders /\ orders'[k] = orders[k] /\ Named(k) /\ orders[k].purpose # "unwind"
      BY <1>1, <1>7 DEF Sent, RunningInv, SentIsNamed, OrdersKept
    <3>2. ~IsOrder(orders, k, "lighter", "exit")
      BY <3>1, <1>8 DEF Named
    <3>3. \A w \in Tasks : Completes(w) => Completes(w)' /\ task'[w].e.lighter = task[w].e.lighter
      BY <1>6, <1>8 DEF Tasks
    <3>4. k \in DOMAIN orders' /\ orders'[k].venue = orders[k].venue /\ orders'[k].purpose = orders[k].purpose
      BY <3>1, <1>7 DEF OrdersKept
    <3> QED BY <2>3, <3>1, <3>2, <3>3, <3>4, <1>5, StaysNamed
  <2> QED BY <2>1, <2>2, <2>3, <1>9 DEF SentIsNamed
<1>13. NewsIsTrue'
  BY <1>5, <1>6 DEF NewsIsTrue
<1>14. Class(a) = "var" /\ Class(b) = "lighter"
  BY <1>3 DEF Class
<1>15. \A class : Flight(orders', class) =
           Flight(orders, class) + (IF "var" = class THEN q ELSE 0) + (IF "lighter" = class THEN q ELSE 0)
  BY <1>3, <1>4, <1>14, FlightAppendTwo
<1>16. Flight(orders', "return") = Flight(orders, "return")
  <2>1. Flight(orders, "return") \in Nat
    BY <1>4, FlightIsNat
  <2> QED BY <2>1, <1>15
<1>17. Booked'
  <2> SUFFICES ASSUME NEW venue \in Venues
               PROVE  Position(venue)' =
                        Cardinality(held') + Pending(venue)' + Custody("strategy", venue)' + Custody("callback", venue)'
                        + Flight(orders', venue) - Promised(venue)' - Unreturned(venue)'
    BY Balanced
  <2>1. /\ Custody("strategy", venue)' = Custody("strategy", venue)
        /\ Custody("callback", venue)' = Custody("callback", venue)
    <3>1. task["strategy"].at # "closing" /\ task'["strategy"].at # "closing"
      BY <1>1, <1>6 DEF Resting
    <3> QED BY <1>6, <1>7, <1>8, <3>1, KeptTerms DEF Custody, Tasks
  <2>2. Flight(orders', venue) = Flight(orders, venue) + q
    <3>1. Flight(orders, venue) \in Nat
      BY BooksAre
    <3> QED BY <3>1, <1>15, <1>2 DEF Venues
  <2>3. Promised(venue) = 0 /\ Promised(venue)' = q
    <3>1. orders'[task'["strategy"].hedge].status = "sent"
      BY <1>3, <1>6, <1>7
    <3> QED BY <3>1, <1>6, <1>8 DEF Promised
  <2>4. /\ Position(venue)' = Position(venue) /\ Pending(venue)' = Pending(venue)
        /\ Unreturned(venue)' = Unreturned(venue)
    BY <1>5, <1>16 DEF Position, Pending, Unreturned
  <2> QED BY <2>1, <2>2, <2>3, <2>4, BooksAre, <1>2, <1>5
<1>18. LotsCoverExits'
  <2>1. Quantity(ids)' = q /\ Ids(held') = Ids(held)
    BY <1>5 DEF Quantity, q
  <2> QED BY <2>1, <1>5, <1>6, <1>16 DEF LotsCoverExits, RunningInv
<1> QED BY <1>10, <1>11, <1>12, <1>13, <1>17, <1>18 DEF RunningInv

\* An exit without a hedge is taken back.
LEMMA ExitReturns ==
  ASSUME KindsOK, RunningInv, Unwind, orders' = Append(orders, Order("var", "unwind", task["strategy"].qty))
  PROVE  RunningInv'
<1> DEFINE s == task["strategy"]
           o == Order("var", "unwind", s.qty)
           n == Len(orders) + 1
<1>1. s.at = "recovering" /\ Leaves /\ s # Resting /\ s.qty \in Nat \ {0}
  BY CourseIs DEF Unwind, Leaves, Tasks, Resting
<1>2. o \in OrderRecords /\ o.venue = "var" /\ o.purpose = "unwind" /\ o.qty = s.qty /\ o.status = "sent"
  BY <1>1, OrderKinds
<1> HIDE DEF o
<1>3. orders' = Append(orders, o) /\ orders \in Seq(OrderRecords)
  BY FieldsAre DEF o
<1>4. /\ n \in Nat /\ n \notin DOMAIN orders /\ DOMAIN orders' = DOMAIN orders \cup {n} /\ orders'[n] = o
      /\ \A k \in DOMAIN orders : orders'[k] = orders[k]
  BY <1>2, <1>3, AppendIs
<1>5. OrdersKept(orders, orders')
  BY <1>4 DEF OrdersKept
<1>6. /\ UNCHANGED <<var, lighter, events, held, entry>> /\ task' = [task EXCEPT !["strategy"] = Resting]
      /\ entry = NoEntry
  BY <1>1 DEF Unwind, Strategy, Does, RunningInv, OrdersAreNamed
<1>7. task'["strategy"] = Resting /\ task'["callback"] = task["callback"]
  BY <1>6 DEF KindsOK, Tasks
<1>8. ~Leaves' /\ ~Completes("strategy") /\ ~Completes("strategy")' /\ Completes("callback")' = Completes("callback")
  BY <1>1, <1>7 DEF Leaves, Completes, Resting
<1>9. Sent' = Sent \cup {n}
  BY <1>2, <1>4 DEF Sent
<1>10. OrdersAreNamed'
  <2>1. Completes("callback")' => IsEntry(orders', task'["callback"].e) /\ Filled(orders', task'["callback"].e.var)
    BY <1>5, <1>7, <1>8, KeptIs DEF RunningInv, OrdersAreNamed, Tasks
  <2> QED BY <2>1, <1>6, <1>8 DEF OrdersAreNamed, Tasks
<1>11. NamedOnce'
  BY <1>6, <1>7, <1>8 DEF NamedOnce, RunningInv, Tasks
<1>12. orders[s.hedge].status \notin {"sent", "filled"}
  BY <1>1 DEF RunningInv, OrdersAreNamed
<1>13. SentIsNamed'
  <2>1. ASSUME NEW k, k = n PROVE Named(k)'
    BY <2>1, <1>2, <1>4, <1>6, <1>7 DEF Named, IsOrder
  <2>2. ASSUME NEW k \in Sent PROVE Named(k)'
    <3>1. k \in DOMAIN orders /\ orders'[k] = orders[k] /\ orders[k].status = "sent" /\ Named(k)
      BY <1>4 DEF Sent, RunningInv, SentIsNamed
    <3>2. ~IsOrder(orders, k, "lighter", "exit") /\ orders[k].purpose # "unwind"
      BY <3>1, <1>1, <1>12 DEF Named
    <3>3. \A w \in Tasks : Completes(w) => Completes(w)' /\ task'[w].e.lighter = task[w].e.lighter
      BY <1>7, <1>8 DEF Tasks
    <3>4. k \in DOMAIN orders' /\ orders'[k].venue = orders[k].venue /\ orders'[k].purpose = orders[k].purpose
      BY <3>1, <1>4
    <3> QED BY <2>2, <3>2, <3>3, <3>4, <1>6, StaysNamed
  <2> QED BY <2>1, <2>2, <1>9 DEF SentIsNamed
<1>14. NewsIsTrue'
  BY <1>6, <1>7 DEF NewsIsTrue, Resting
<1>15. Class(o) = "return"
  BY <1>2 DEF Class
<1>16. Flight(orders, "return") = 0
  BY <1>1, NoReturn
<1>17. Flight(orders', "return") = s.qty
  <2>1. Flight(orders', "return") = Flight(orders, "return") + s.qty
    BY <1>2, <1>3, <1>15, FlightAppend
  <2> QED BY <1>1, <1>16, <2>1
<1>18. Booked'
  <2> SUFFICES ASSUME NEW venue \in Venues
               PROVE  Position(venue)' =
                        Cardinality(held') + Pending(venue)' + Custody("strategy", venue)' + Custody("callback", venue)'
                        + Flight(orders', venue) - Promised(venue)' - Unreturned(venue)'
    BY Balanced
  <2>1. /\ Custody("strategy", venue)' = Custody("strategy", venue)
        /\ Custody("callback", venue)' = Custody("callback", venue)
    <3>1. task["strategy"].at # "closing" /\ task'["strategy"].at # "closing"
      BY <1>1, <1>7 DEF Resting
    <3> QED BY <1>5, <1>7, <1>8, <3>1, KeptTerms DEF Custody, Tasks
  <2>2. Flight(orders', venue) = Flight(orders, venue)
    <3>1. Flight(orders, venue) \in Nat
      BY BooksAre
    <3> QED BY <3>1, <1>2, <1>3, <1>15, FlightAppend DEF Venues
  <2>3. Promised(venue)' = 0 /\ Promised(venue) = IF venue = "var" THEN s.qty ELSE 0
    BY <1>1, <1>8, <1>12 DEF Promised
  <2>4. Unreturned(venue)' = (IF venue = "var" THEN s.qty ELSE 0) /\ Unreturned(venue) = 0
    BY <1>16, <1>17 DEF Unreturned
  <2>5. Position(venue)' = Position(venue) /\ Pending(venue)' = Pending(venue)
    BY <1>6 DEF Position, Pending
  <2> QED BY <2>1, <2>2, <2>3, <2>4, <2>5, BooksAre, <1>1, <1>6
<1>19. LotsCoverExits'
  <2>1. s.qty <= Cardinality(held)
    BY <1>1, QuantityIs DEF RunningInv, LotsCoverExits
  <2> QED BY <2>1, <1>6, <1>8, <1>17 DEF LotsCoverExits
<1> QED BY <1>10, <1>11, <1>13, <1>14, <1>18, <1>19 DEF RunningInv

\* A hedge that filled ends the exit, and takes its lots.
LEMMA ExitSettles ==
  ASSUME KindsOK, RunningInv, Leaves, orders[task["strategy"].hedge].status = "filled",
         UNCHANGED <<var, lighter, orders, events, entry>>,
         held' = {l \in held : l.id \notin task["strategy"].ids}, Strategy(Resting)
  PROVE  RunningInv'
<1> DEFINE s == task["strategy"]
<1>1. s # Resting /\ s.qty \in Nat \ {0} /\ entry = NoEntry /\ s.at # "closing"
  BY CourseIs DEF Leaves, Tasks, Resting, RunningInv, OrdersAreNamed
<1>2. task'["strategy"] = Resting /\ task'["callback"] = task["callback"]
  BY DEF KindsOK, Tasks, Strategy, Does
<1>3. ~Leaves' /\ ~Completes("strategy") /\ ~Completes("strategy")' /\ Completes("callback")' = Completes("callback")
  BY <1>2 DEF Leaves, Completes, Resting
<1>4. Sent' = Sent
  BY DEF Sent
<1>5. OrdersAreNamed'
  BY <1>1, <1>2, <1>3 DEF OrdersAreNamed, RunningInv, Tasks
<1>6. NamedOnce'
  <2>1. Ids(held') \subseteq Ids(held)
    BY DEF Ids
  <2> QED BY <2>1, <1>1, <1>2, <1>3 DEF NamedOnce, RunningInv, Tasks
<1>7. SentIsNamed'
  <2>1. ASSUME NEW k \in Sent PROVE Named(k)'
    <3>1. k \in DOMAIN orders /\ orders[k].status = "sent" /\ Named(k)
      BY DEF Sent, RunningInv, SentIsNamed
    <3>2. ~IsOrder(orders, k, "lighter", "exit") /\ orders[k].purpose # "unwind"
      BY <3>1, <1>1 DEF Named
    <3>3. \A w \in Tasks : Completes(w) => Completes(w)' /\ task'[w].e.lighter = task[w].e.lighter
      BY <1>2, <1>3 DEF Tasks
    <3> QED BY <2>1, <3>1, <3>2, <3>3, StaysNamed
  <2> QED BY <2>1, <1>4 DEF SentIsNamed
<1>8. NewsIsTrue'
  BY <1>1, <1>2 DEF NewsIsTrue, Resting
<1>9. Quantity(s.ids) = s.qty /\ Cardinality(held') = Cardinality(held) - s.qty
      /\ s.qty <= Cardinality(held) /\ Cardinality(held) \in Nat
  BY QuantityIs, FieldsAre DEF RunningInv, LotsCoverExits
<1>10. Booked'
  <2> SUFFICES ASSUME NEW venue \in Venues
               PROVE  Position(venue)' =
                        Cardinality(held') + Pending(venue)' + Custody("strategy", venue)' + Custody("callback", venue)'
                        + Flight(orders', venue) - Promised(venue)' - Unreturned(venue)'
    BY Balanced
  <2>1. /\ Custody("strategy", venue)' = Custody("strategy", venue)
        /\ Custody("callback", venue)' = Custody("callback", venue)
    BY <1>1, <1>2, <1>3 DEF Custody, Resting
  <2>2. Promised(venue)' = 0 /\ Promised(venue) = s.qty
    BY <1>3 DEF Promised
  <2>3. Position(venue)' = Position(venue) /\ Pending(venue)' = Pending(venue) /\ Unreturned(venue)' = Unreturned(venue)
    BY DEF Position, Pending, Unreturned
  <2>4. Flight(orders', venue) = Flight(orders, venue)
    OBVIOUS
  <2> QED BY <2>1, <2>2, <2>3, <2>4, BooksAre, <1>1, <1>9
<1>11. LotsCoverExits'
  <2>1. Flight(orders', "return") = 0 /\ Cardinality(held') \in Nat
    BY <1>1, <1>9, NoReturn
  <2> QED BY <2>1, <1>3 DEF LotsCoverExits
<1> QED BY <1>5, <1>6, <1>7, <1>8, <1>10, <1>11 DEF RunningInv

-----------------------------------------------------------------------------
(* Entries.                                                                *)

\* An entry is proposed: its legs leave, and the intent names them.
LEMMA EntryLeaves ==
  ASSUME FaultsAssumption, KindsOK, EntriesWereMade, RunningInv, ProposeEntry
  PROVE  RunningInv'
<1> DEFINE a == Order("var", "entry", 1)
           b == Order("lighter", "entry", 1)
           n == Len(orders)
<1>1. /\ task["strategy"] = Resting /\ events = <<>> /\ \A k \in Sent : orders[k].purpose # "unwind"
  BY PromptIs DEF ProposeEntry
<1>2. /\ a \in OrderRecords /\ a.venue = "var" /\ a.purpose = "entry" /\ a.qty = 1 /\ a.status = "sent"
      /\ b \in OrderRecords /\ b.venue = "lighter" /\ b.purpose = "entry" /\ b.qty = 1 /\ b.status = "sent"
  BY OrderKinds
<1> HIDE DEF a, b
<1>3. /\ orders' = Append(Append(orders, a), b) /\ orders \in Seq(OrderRecords) /\ n \in Nat /\ DOMAIN orders = 1..n
      /\ made \in Nat
  BY FieldsAre DEF ProposeEntry, a, b
<1>4. /\ UNCHANGED <<var, lighter, events, held>> /\ entry = NoEntry
      /\ entry' = [id |-> made + 1, var |-> n + 1, lighter |-> n + 2]
      /\ task' = [task EXCEPT !["strategy"] = [at |-> "entering", e |-> entry']]
  BY DEF ProposeEntry, Strategy, Does
<1>5. task'["callback"] = task["callback"] /\ task'["strategy"].at = "entering"
  BY <1>4 DEF KindsOK, Tasks
<1>6. /\ entry'.id = made + 1 /\ entry'.var = n + 1 /\ entry'.lighter = n + 2 /\ entry' # NoEntry
  BY <1>3, <1>4 DEF NoEntry
<1>7. /\ OrdersKept(orders, orders') /\ DOMAIN orders' = 1..(n + 2) /\ orders'[n + 1] = a /\ orders'[n + 2] = b
  BY <1>2, <1>3, AppendKeeps
<1>8. /\ ~Leaves /\ ~Leaves' /\ ~Completes("strategy") /\ ~Completes("strategy")'
      /\ Completes("callback")' = Completes("callback")
  BY <1>1, <1>5 DEF Leaves, Completes, Resting
<1>9. Sent' = Sent \cup {n + 1, n + 2}
  BY <1>2, <1>3, <1>7 DEF Sent, OrdersKept
<1>10. OrdersAreNamed'
  <2>1. Completes("callback")' => IsEntry(orders', task'["callback"].e) /\ Filled(orders', task'["callback"].e.var)
    BY <1>7, <1>5, <1>8, KeptIs DEF RunningInv, OrdersAreNamed, Tasks
  <2>2. IsEntry(orders', entry')
    BY <1>2, <1>3, <1>6, <1>7 DEF IsEntry, IsOrder
  <2> QED BY <2>1, <2>2, <1>8 DEF OrdersAreNamed, Tasks
<1>11. NamedOnce'
  <2>1. Completes("callback") => task["callback"].e.id \in Nat /\ task["callback"].e.id <= made
    BY CourseIs DEF EntriesWereMade, Completes, Tasks
  <2>2. Completes("callback") => task["callback"].e.lighter \in 1..n
    BY <1>3, NamesAre DEF Tasks
  <2>3. entry'.id \notin Ids(held)
    <3>1. \A l \in held : l.id \in Nat /\ l.id <= made
      BY FieldsAre DEF EntriesWereMade, LotRecords
    <3> QED BY <3>1, <1>3, <1>6 DEF Ids
  <2>4. Completes("callback") => task["callback"].e.id # entry'.id /\ task["callback"].e.lighter # entry'.lighter
    BY <2>1, <2>2, <1>3, <1>6
  <2>5. Completes("callback") => task["callback"].e.id \notin Ids(held)
    BY DEF RunningInv, NamedOnce, Tasks
  <2>6. Ids(held)' = Ids(held) /\ Ids(held') = Ids(held)
    BY <1>4
  <2> QED BY <2>3, <2>4, <2>5, <2>6, <1>5, <1>8 DEF NamedOnce, Tasks
<1>12. SentIsNamed'
  <2>1. ASSUME NEW k, k = n + 1 PROVE Named(k)'
    BY <2>1, <1>2, <1>6, <1>7 DEF Named, IsOrder
  <2>2. ASSUME NEW k, k = n + 2 PROVE Named(k)'
    BY <2>2, <1>2, <1>6, <1>7 DEF Named, IsOrder
  <2>3. ASSUME NEW k \in Sent PROVE Named(k)'
    <3>1. k \in DOMAIN orders /\ orders'[k] = orders[k] /\ Named(k) /\ orders[k].purpose # "unwind"
      BY <1>1, <1>7 DEF Sent, RunningInv, SentIsNamed, OrdersKept
    <3>2. ~IsOrder(orders, k, "lighter", "exit") /\ ~IsOrder(orders, k, "var", "entry")
      BY <3>1, <1>4, <1>8 DEF Named
    <3>3. k \in DOMAIN orders' /\ \A v, p : IsOrder(orders', k, v, p) <=> IsOrder(orders, k, v, p)
      BY <3>1, <1>7 DEF IsOrder, OrdersKept
    <3>4. IsOrder(orders, k, "lighter", "entry") => Completes("callback") /\ k = task["callback"].e.lighter
      BY <3>1, <1>4, <1>8 DEF Named, Tasks
    <3> QED BY <3>1, <3>2, <3>3, <3>4, <1>5, <1>8 DEF Named, Tasks
  <2> QED BY <2>1, <2>2, <2>3, <1>9 DEF SentIsNamed
<1>13. NewsIsTrue'
  <2>1. events' = <<>> /\ DOMAIN events' = {}
    BY <1>1, <1>4
  <2> QED BY <2>1, <1>5 DEF NewsIsTrue
<1>14. Class(a) = "entry" /\ Class(b) = "entry"
  BY <1>2 DEF Class
<1>15. \A class : class # "entry" /\ Flight(orders, class) \in Nat => Flight(orders', class) = Flight(orders, class)
  <2>1. \A class : Flight(orders', class) =
           Flight(orders, class) + (IF "entry" = class THEN 1 ELSE 0) + (IF "entry" = class THEN 1 ELSE 0)
    BY <1>2, <1>3, <1>14, FlightAppendTwo
  <2> QED BY <2>1
<1>16. Flight(orders', "return") = Flight(orders, "return")
  BY <1>3, <1>15, FlightIsNat
<1>17. Booked'
  <2> SUFFICES ASSUME NEW venue \in Venues
               PROVE  Position(venue)' =
                        Cardinality(held') + Pending(venue)' + Custody("strategy", venue)' + Custody("callback", venue)'
                        + Flight(orders', venue) - Promised(venue)' - Unreturned(venue)'
    BY Balanced
  <2>1. /\ Custody("strategy", venue)' = Custody("strategy", venue)
        /\ Custody("callback", venue)' = Custody("callback", venue)
    <3>1. task["strategy"].at # "closing" /\ task'["strategy"].at # "closing"
      BY <1>1, <1>5 DEF Resting
    <3> QED BY <1>5, <1>7, <1>8, <3>1, KeptTerms DEF Custody, Tasks
  <2>2. Flight(orders', venue) = Flight(orders, venue)
    <3>1. Flight(orders, venue) \in Nat
      BY BooksAre
    <3> QED BY <3>1, <1>15 DEF Venues
  <2>3. Promised(venue) = 0 /\ Promised(venue)' = 0
    BY <1>8 DEF Promised
  <2>4. Pending(venue) = 0 /\ Pending(venue)' = 0
    <3>1. ~Filled(orders', Leg(entry', venue))
      BY <1>2, <1>6, <1>7 DEF Filled, Leg
    <3> QED BY <3>1, <1>4 DEF Pending, One
  <2>5. Position(venue)' = Position(venue) /\ Unreturned(venue)' = Unreturned(venue)
    BY <1>4, <1>16 DEF Position, Unreturned
  <2> QED BY <2>1, <2>2, <2>3, <2>4, <2>5, BooksAre, <1>4
<1>18. LotsCoverExits'
  BY <1>4, <1>8, <1>16 DEF LotsCoverExits, RunningInv
<1> QED BY <1>10, <1>11, <1>12, <1>13, <1>17, <1>18 DEF RunningInv

\* A pending entry whose Variational order filled is taken for completion.
LEMMA EntryTaken ==
  ASSUME KindsOK, RunningInv, UNCHANGED <<var, lighter, orders, held>>,
         entry # NoEntry, Filled(orders, entry.var), entry' = NoEntry,
         NEW w \in Tasks, Does(w, [at |-> "completing", e |-> entry]),
         w = "callback" => task["callback"] = Resting,
         w = "strategy" => task["strategy"].at = "looking",
         task'["strategy"].at = "looking" => task'["strategy"].answer # "filled"
  PROVE  RunningInv'
<1>1. /\ task'[w].at = "completing" /\ task'[w].e = entry /\ \A v \in Tasks : v # w => task'[v] = task[v]
  BY DEF Does, KindsOK
<1>2. ~Leaves /\ ~Leaves' /\ ~Completes(w) /\ Completes(w)' /\ \A v \in Tasks : v # w => Completes(v)' = Completes(v)
  <2>1. ~Leaves
    BY DEF RunningInv, OrdersAreNamed
  <2>2. ~Leaves'
    BY <1>1, <2>1 DEF Leaves, Tasks
  <2> QED BY <1>1, <2>1, <2>2 DEF Completes, Tasks, Resting
<1>3. Sent' = Sent
  BY DEF Sent
<1>4. OrdersAreNamed'
  BY <1>1, <1>2 DEF OrdersAreNamed, RunningInv, Tasks
<1>5. NamedOnce'
  BY <1>1, <1>2 DEF NamedOnce, RunningInv, Tasks
<1>6. SentIsNamed'
  <2>1. ASSUME NEW k \in Sent PROVE Named(k)'
    <3>1. k \in DOMAIN orders /\ orders[k].status = "sent" /\ Named(k)
      BY DEF Sent, RunningInv, SentIsNamed
    <3>2. /\ orders[k].purpose # "unwind" /\ ~IsOrder(orders, k, "lighter", "exit")
          /\ ~IsOrder(orders, k, "var", "entry")
      BY <3>1, <1>2 DEF Named, Filled
    <3>3. IsOrder(orders, k, "lighter", "entry") => \E v \in Tasks : Completes(v)' /\ k = task'[v].e.lighter
      <4>1. ASSUME NEW v \in Tasks, Completes(v) PROVE v # w /\ Completes(v)' /\ task'[v] = task[v]
        BY <4>1, <1>1, <1>2
      <4> QED BY <3>1, <4>1, <1>1, <1>2 DEF Named
    <3> QED BY <3>2, <3>3 DEF Named
  <2> QED BY <2>1, <1>3 DEF SentIsNamed
<1>7. NewsIsTrue'
  BY DEF NewsIsTrue
<1>8. Booked'
  <2> SUFFICES ASSUME NEW venue \in Venues
               PROVE  Position(venue)' =
                        Cardinality(held') + Pending(venue)' + Custody("strategy", venue)' + Custody("callback", venue)'
                        + Flight(orders', venue) - Promised(venue)' - Unreturned(venue)'
    BY Balanced
  <2>1. Pending(venue) = One(Filled(orders, Leg(entry, venue))) /\ Pending(venue)' = 0
    BY DEF Pending, One
  <2>2. task[w].at # "closing" /\ task'[w].at # "closing"
    BY <1>1 DEF Tasks, Resting
  <2>3. Custody(w, venue) = 0 /\ Custody(w, venue)' = One(Filled(orders, Leg(entry, venue)))
    BY <1>1, <1>2, <2>2 DEF Custody, One
  <2>4. \A v \in Tasks : v # w => Custody(v, venue)' = Custody(v, venue)
    BY <1>1, <1>2 DEF Custody
  <2>5. Promised(venue)' = Promised(venue)
    BY <1>2 DEF Promised
  <2>6. /\ Position(venue)' = Position(venue) /\ Unreturned(venue)' = Unreturned(venue)
        /\ Flight(orders', venue) = Flight(orders, venue)
    BY DEF Position, Unreturned
  <2>7. Pending(venue)' + Custody("strategy", venue)' + Custody("callback", venue)'
          = Pending(venue) + Custody("strategy", venue) + Custody("callback", venue)
    BY <2>1, <2>3, <2>4, BooksAre DEF Tasks
  <2> QED BY <2>1, <2>3, <2>4, <2>5, <2>6, <2>7, BooksAre DEF Tasks
<1>9. LotsCoverExits'
  BY <1>2 DEF LotsCoverExits, RunningInv
<1> QED BY <1>4, <1>5, <1>6, <1>7, <1>8, <1>9 DEF RunningInv

\* A hedged entry becomes a lot.
LEMMA LotOpens ==
  ASSUME KindsOK, RunningInv, NEW w \in Tasks, Completes(w), Filled(orders, task[w].e.lighter),
         UNCHANGED <<var, lighter, orders, events, entry>>,
         held' = held \cup {[id |-> task[w].e.id, by |-> w]}, Does(w, Resting)
  PROVE  RunningInv'
<1> DEFINE e == task[w].e
           new == [id |-> e.id, by |-> w]
<1>1. task'[w] = Resting /\ \A v \in Tasks : v # w => task'[v] = task[v]
  BY DEF Does, KindsOK
<1>2. /\ ~Completes(w)' /\ \A v \in Tasks : v # w => Completes(v)' = Completes(v)
      /\ Leaves' = Leaves /\ (Leaves => w # "strategy" /\ task'["strategy"] = task["strategy"])
  BY <1>1 DEF Completes, Leaves, Resting, Tasks
<1>3. Sent' = Sent
  BY DEF Sent
<1>4. /\ e.id \notin Ids(held) /\ Filled(orders, e.var) /\ Filled(orders, e.lighter)
      /\ entry # NoEntry => entry.id # e.id
      /\ \A v \in Tasks : v # w /\ Completes(v) => task[v].e.id # e.id
  BY DEF RunningInv, NamedOnce, OrdersAreNamed, Tasks
<1>5. new.id = e.id /\ new \notin held
  BY <1>4 DEF Ids
<1>6. IsFiniteSet(held) /\ Cardinality(held) \in Nat /\ Cardinality(held') = Cardinality(held) + 1
  BY <1>5, FieldsAre, FS_AddElement
<1> HIDE DEF new
<1>7. Ids(held') = Ids(held) \cup {e.id}
  BY <1>5 DEF Ids, new
<1>8. OrdersAreNamed'
  BY <1>1, <1>2 DEF OrdersAreNamed, RunningInv, Tasks
<1>9. NamedOnce'
  <2>1. ASSUME NEW v \in Tasks, Completes(v)' PROVE v # w /\ Completes(v) /\ task'[v] = task[v]
    BY <2>1, <1>1, <1>2
  <2>2. \A v \in Tasks :
       Completes(v)' => /\ task'[v].e.id \notin Ids(held')
                        /\ entry # NoEntry => /\ entry.id # task'[v].e.id
                                              /\ entry.lighter # task'[v].e.lighter
    BY <2>1, <1>4, <1>7 DEF RunningInv, NamedOnce
  <2>3. entry # NoEntry => entry.id \notin Ids(held')
    BY <1>4, <1>7 DEF RunningInv, NamedOnce
  <2>4. ~(Completes("strategy")' /\ Completes("callback")')
    BY <1>2 DEF Tasks
  <2> QED BY <2>2, <2>3, <2>4 DEF NamedOnce
<1>10. SentIsNamed'
  <2>1. ASSUME NEW k \in Sent PROVE Named(k)'
    <3>1. k \in DOMAIN orders /\ orders[k].status = "sent" /\ Named(k) /\ k # e.lighter
      BY <1>4 DEF Sent, RunningInv, SentIsNamed, Filled
    <3>2. orders[k].purpose = "unwind" => orders[k].venue = "var" /\ entry = NoEntry /\ task'["strategy"] = Resting
      BY <3>1, <1>1 DEF Named, Tasks
    <3>3. IsOrder(orders, k, "lighter", "entry") =>
            \/ entry # NoEntry /\ k = entry.lighter
            \/ \E v \in Tasks : Completes(v)' /\ k = task'[v].e.lighter
      <4>1. ASSUME NEW v \in Tasks, Completes(v), k = task[v].e.lighter
            PROVE  Completes(v)' /\ task'[v] = task[v]
        BY <4>1, <3>1, <1>1, <1>2
      <4> QED BY <3>1, <4>1 DEF Named
    <3>4. IsOrder(orders, k, "lighter", "exit") => Leaves' /\ k = task'["strategy"].hedge
      BY <3>1, <1>2 DEF Named
    <3> QED BY <3>1, <3>2, <3>3, <3>4 DEF Named
  <2> QED BY <2>1, <1>3 DEF SentIsNamed
<1>11. NewsIsTrue'
  <2>1. task'["strategy"].at = "looking" => task'["strategy"] = task["strategy"]
    BY <1>1 DEF Resting, Tasks
  <2> QED BY <2>1 DEF NewsIsTrue, RunningInv
<1>12. Booked'
  <2> SUFFICES ASSUME NEW venue \in Venues
               PROVE  Position(venue)' =
                        Cardinality(held') + Pending(venue)' + Custody("strategy", venue)' + Custody("callback", venue)'
                        + Flight(orders', venue) - Promised(venue)' - Unreturned(venue)'
    BY Balanced
  <2>1. Custody(w, venue) = 1
    BY <1>4 DEF Custody, One, Leg
  <2>2. Custody(w, venue)' = 0
    BY <1>1, <1>2 DEF Custody, One, Resting
  <2>3. \A v \in Tasks : v # w => Custody(v, venue)' = Custody(v, venue)
    BY <1>1, <1>2 DEF Custody
  <2>4. Custody("strategy", venue)' + Custody("callback", venue)'
          = Custody("strategy", venue) + Custody("callback", venue) - 1
    BY <2>1, <2>2, <2>3, BooksAre DEF Tasks
  <2>5. Promised(venue)' = Promised(venue)
    BY <1>2 DEF Promised
  <2>6. /\ Position(venue)' = Position(venue) /\ Unreturned(venue)' = Unreturned(venue)
        /\ Flight(orders', venue) = Flight(orders, venue) /\ Pending(venue)' = Pending(venue)
    BY DEF Position, Unreturned, Pending
  <2>7. Custody("strategy", venue)' \in {0, 1} /\ Custody("callback", venue)' \in {0, 1}
    BY DEF Custody, One
  <2> QED BY <2>4, <2>5, <2>6, <2>7, <1>6, BooksAre
<1>13. LotsCoverExits'
  <2>1. Flight(orders', "return") <= Cardinality(held')
    <3>1. Flight(orders, "return") \in Nat
      BY FieldsAre, FlightIsNat
    <3> QED BY <3>1, <1>6 DEF RunningInv, LotsCoverExits
  <2>2. ASSUME Leaves' PROVE task'["strategy"].ids \subseteq Ids(held')
                             /\ Quantity(task["strategy"].ids)' = task'["strategy"].qty
    <3> DEFINE s == task["strategy"]
    <3>1. s.ids \subseteq Ids(held) /\ Quantity(s.ids) = s.qty /\ task'["strategy"] = s
      BY <2>2, <1>2 DEF RunningInv, LotsCoverExits
    <3>2. {l \in held' : l.id \in s.ids} = {l \in held : l.id \in s.ids}
      BY <3>1, <1>4, <1>5 DEF new
    <3>3. Quantity(task["strategy"].ids)' = Cardinality({l \in held' : l.id \in s.ids})
      BY <3>1 DEF Quantity
    <3> QED BY <3>1, <3>2, <3>3, <1>7 DEF Quantity
  <2> QED BY <2>1, <2>2 DEF LotsCoverExits
<1> QED BY <1>8, <1>9, <1>10, <1>11, <1>12, <1>13 DEF RunningInv

\* An entry at too bad a price is to be closed again.
LEMMA BreachIsClosed ==
  ASSUME KindsOK, RunningInv, NEW w \in Tasks, Completes(w), Filled(orders, task[w].e.lighter),
         UNCHANGED <<var, lighter, orders, events, entry, held>>, Does(w, [at |-> "closing"])
  PROVE  RunningInv'
<1> DEFINE e == task[w].e
<1>1. task'[w].at = "closing" /\ \A v \in Tasks : v # w => task'[v] = task[v]
  BY DEF Does, KindsOK
<1>2. /\ ~Completes(w)' /\ \A v \in Tasks : v # w => Completes(v)' = Completes(v)
      /\ Leaves' = Leaves /\ (Leaves => task'["strategy"] = task["strategy"])
  BY <1>1 DEF Completes, Leaves, Tasks
<1>3. Sent' = Sent
  BY DEF Sent
<1>4. Filled(orders, e.var) /\ Filled(orders, e.lighter)
  BY DEF RunningInv, OrdersAreNamed
<1>8. OrdersAreNamed'
  BY <1>1, <1>2 DEF OrdersAreNamed, RunningInv, Tasks
<1>9. NamedOnce'
  BY <1>1, <1>2 DEF NamedOnce, RunningInv, Tasks
<1>10. SentIsNamed'
  <2>1. ASSUME NEW k \in Sent PROVE Named(k)'
    <3>1. k \in DOMAIN orders /\ orders[k].status = "sent" /\ Named(k) /\ k # e.lighter
      BY <1>4 DEF Sent, RunningInv, SentIsNamed, Filled
    <3>2. orders[k].purpose = "unwind" => orders[k].venue = "var" /\ entry = NoEntry /\ task'["strategy"] = Resting
      BY <3>1, <1>1 DEF Named, Tasks, Completes, Resting
    <3>3. IsOrder(orders, k, "lighter", "entry") =>
            \/ entry # NoEntry /\ k = entry.lighter
            \/ \E v \in Tasks : Completes(v)' /\ k = task'[v].e.lighter
      <4>1. ASSUME NEW v \in Tasks, Completes(v), k = task[v].e.lighter
            PROVE  Completes(v)' /\ task'[v] = task[v]
        BY <4>1, <3>1, <1>1, <1>2
      <4> QED BY <3>1, <4>1 DEF Named
    <3>4. IsOrder(orders, k, "lighter", "exit") => Leaves' /\ k = task'["strategy"].hedge
      BY <3>1, <1>2 DEF Named
    <3> QED BY <3>1, <3>2, <3>3, <3>4 DEF Named
  <2> QED BY <2>1, <1>3 DEF SentIsNamed
<1>11. NewsIsTrue'
  <2>1. task'["strategy"].at = "looking" => task'["strategy"] = task["strategy"]
    BY <1>1 DEF Tasks
  <2> QED BY <2>1 DEF NewsIsTrue, RunningInv
<1>12. Booked'
  <2> SUFFICES ASSUME NEW venue \in Venues
               PROVE  Position(venue)' =
                        Cardinality(held') + Pending(venue)' + Custody("strategy", venue)' + Custody("callback", venue)'
                        + Flight(orders', venue) - Promised(venue)' - Unreturned(venue)'
    BY Balanced
  <2>1. Custody(w, venue) = 1
    BY <1>4 DEF Custody, One, Leg
  <2>2. Custody(w, venue)' = 1
    BY <1>1 DEF Custody, One
  <2>3. \A v \in Tasks : v # w => Custody(v, venue)' = Custody(v, venue)
    BY <1>1, <1>2 DEF Custody
  <2>5. Promised(venue)' = Promised(venue)
    BY <1>2 DEF Promised
  <2>6. /\ Position(venue)' = Position(venue) /\ Unreturned(venue)' = Unreturned(venue)
        /\ Flight(orders', venue) = Flight(orders, venue) /\ Pending(venue)' = Pending(venue)
    BY DEF Position, Unreturned, Pending
  <2> QED BY <2>1, <2>2, <2>3, <2>5, <2>6, BooksAre DEF Tasks
<1>13. LotsCoverExits'
  BY <1>2 DEF LotsCoverExits, RunningInv, Quantity
<1> QED BY <1>8, <1>9, <1>10, <1>11, <1>12, <1>13 DEF RunningInv

\* Both legs of a breach are closed.
LEMMA BothClose ==
  ASSUME FaultsAssumption, KindsOK, EntriesWereMade, RunningInv, NEW w \in Tasks, CloseBoth(w)
  PROVE  RunningInv'
<1> DEFINE a == Order("var", "close", 1)
           b == Order("lighter", "close", 1)
           n == Len(orders)
<1>1. task[w].at = "closing" /\ mishaps # 0
  BY DEF CloseBoth, EntriesWereMade
<1>2. /\ a \in OrderRecords /\ a.venue = "var" /\ a.purpose = "close" /\ a.qty = 1 /\ a.status = "sent"
      /\ b \in OrderRecords /\ b.venue = "lighter" /\ b.purpose = "close" /\ b.qty = 1 /\ b.status = "sent"
  BY OrderKinds
<1>3. /\ orders' = Append(Append(orders, a), b) /\ UNCHANGED <<var, lighter, events, held, entry>>
      /\ Does(w, [at |-> "verifying"])
  <2>1. ~Fault("refused", "both", "close")
    <3>1. mishaps \in Nat /\ MaxMishaps \in Nat
      BY FieldsAre DEF FaultsAssumption
    <3> QED BY <3>1, <1>1 DEF Fault, FaultsAssumption
  <2> QED BY <2>1 DEF CloseBoth, lotMemory
<1> HIDE DEF a, b
<1>4. orders \in Seq(OrderRecords) /\ n \in Nat /\ DOMAIN orders = 1..n
  BY FieldsAre
<1>5. task'[w].at = "verifying" /\ \A v \in Tasks : v # w => task'[v] = task[v]
  BY <1>3 DEF Does, KindsOK
<1>6. /\ ~Completes(w) /\ ~Completes(w)' /\ \A v \in Tasks : Completes(v)' = Completes(v)
      /\ Leaves' = Leaves /\ (Leaves => task'["strategy"] = task["strategy"])
      /\ \A v \in Tasks : Completes(v) => task'[v] = task[v]
  BY <1>1, <1>5 DEF Completes, Leaves, Tasks
<1>7. /\ OrdersKept(orders, orders') /\ DOMAIN orders' = 1..(n + 2) /\ orders'[n + 1] = a /\ orders'[n + 2] = b
  BY <1>2, <1>3, <1>4, AppendKeeps
<1>8. Sent' = Sent \cup {n + 1, n + 2}
  BY <1>2, <1>4, <1>7 DEF Sent, OrdersKept
<1>9. OrdersAreNamed'
  <2>1. \A v \in Tasks : Completes(v)' => IsEntry(orders', task'[v].e) /\ Filled(orders', task'[v].e.var)
    BY <1>6, <1>7, KeptIs DEF RunningInv, OrdersAreNamed
  <2>2. entry' # NoEntry => IsEntry(orders', entry')
    BY <1>3, <1>7, KeptIs DEF RunningInv, OrdersAreNamed
  <2>3. ASSUME Leaves'
        PROVE  LET s == task["strategy"] IN
               /\ task'["strategy"] = s /\ IsOrder(orders', s.hedge, "lighter", "exit")
               /\ orders'[s.hedge].qty = s.qty
               /\ entry' = NoEntry
               /\ s.at = "recovering" => orders'[s.hedge].status \notin {"sent", "filled"}
    <3> DEFINE s == task["strategy"]
    <3>1. /\ task'["strategy"] = s /\ IsOrder(orders, s.hedge, "lighter", "exit")
          /\ orders[s.hedge].qty = s.qty /\ entry = NoEntry
          /\ s.at = "recovering" => orders[s.hedge].status \notin {"sent", "filled"}
      BY <2>3, <1>6 DEF RunningInv, OrdersAreNamed
    <3>2. IsOrder(orders', s.hedge, "lighter", "exit") /\ orders'[s.hedge] = orders[s.hedge]
      BY <3>1, <1>7, KeptIs
    <3> QED BY <3>1, <3>2, <1>3
  <2> QED BY <2>1, <2>2, <2>3 DEF OrdersAreNamed
<1>10. NamedOnce'
  BY <1>3, <1>6 DEF NamedOnce, RunningInv, Tasks
<1>11. SentIsNamed'
  <2>1. ASSUME NEW k, k = n + 1 PROVE Named(k)'
    BY <2>1, <1>2, <1>7 DEF Named, IsOrder
  <2>2. ASSUME NEW k, k = n + 2 PROVE Named(k)'
    BY <2>2, <1>2, <1>7 DEF Named, IsOrder
  <2>3. ASSUME NEW k \in Sent PROVE Named(k)'
    <3>1. k \in DOMAIN orders /\ orders'[k] = orders[k] /\ Named(k) /\ k \in DOMAIN orders'
      BY <1>7 DEF Sent, RunningInv, SentIsNamed, OrdersKept
    <3>2. orders[k].purpose = "unwind" => task["strategy"] = Resting
      BY <3>1 DEF Named
    <3>3. task["strategy"] = Resting => task'["strategy"] = Resting
      BY <1>1, <1>5 DEF Resting, Tasks
    <3>4. \A v \in Tasks : Completes(v) => Completes(v)' /\ task'[v].e.lighter = task[v].e.lighter
      BY <1>6
    <3>5. IsOrder(orders, k, "lighter", "exit") => Leaves' /\ task'["strategy"].hedge = task["strategy"].hedge
      BY <3>1, <1>6 DEF Named
    <3> QED BY <2>3, <3>1, <3>2, <3>3, <3>4, <3>5, <1>3, StaysNamed
  <2> QED BY <2>1, <2>2, <2>3, <1>8 DEF SentIsNamed
<1>12. NewsIsTrue'
  <2>1. task'["strategy"].at = "looking" => task'["strategy"] = task["strategy"]
    BY <1>5 DEF Tasks
  <2>2. entry # NoEntry => Filled(orders', entry.var) = Filled(orders, entry.var)
    BY <1>7, KeptIs DEF RunningInv, OrdersAreNamed
  <2>3. task["strategy"].at = "looking" /\ task["strategy"].answer = "filled" =>
          entry # NoEntry
    <3>1. task["strategy"].at = "looking" => task["strategy"].e \in Intents
      BY CourseIs DEF Tasks
    <3>2. NoEntry \notin Intents
      BY DEF NoEntry, Intents
    <3> QED BY <3>1, <3>2 DEF RunningInv, NewsIsTrue
  <2> QED BY <2>1, <2>2, <2>3, <1>3 DEF NewsIsTrue, RunningInv
<1>13. Class(a) = "var" /\ Class(b) = "lighter"
  BY <1>2 DEF Class
<1>14. \A class : Flight(orders', class) =
           Flight(orders, class) + (IF "var" = class THEN 1 ELSE 0) + (IF "lighter" = class THEN 1 ELSE 0)
  BY <1>2, <1>3, <1>4, <1>13, FlightAppendTwo
<1>15. Flight(orders', "return") = Flight(orders, "return")
  <2>1. Flight(orders, "return") \in Nat
    BY <1>4, FlightIsNat
  <2> QED BY <2>1, <1>14
<1>16. Booked'
  <2> SUFFICES ASSUME NEW venue \in Venues
               PROVE  Position(venue)' =
                        Cardinality(held') + Pending(venue)' + Custody("strategy", venue)' + Custody("callback", venue)'
                        + Flight(orders', venue) - Promised(venue)' - Unreturned(venue)'
    BY Balanced
  <2>1. Custody(w, venue) = 1 /\ Custody(w, venue)' = 0
    BY <1>1, <1>5, <1>6 DEF Custody, One
  <2>2. \A v \in Tasks : v # w => Custody(v, venue)' = Custody(v, venue)
    BY <1>5, <1>6, <1>7, KeptTerms DEF Custody
  <2>3. Flight(orders', venue) = Flight(orders, venue) + 1
    <3>1. Flight(orders, venue) \in Nat
      BY BooksAre
    <3> QED BY <3>1, <1>14 DEF Venues
  <2>4. Promised(venue)' = Promised(venue)
    BY <1>6, <1>7, KeptTerms DEF Promised
  <2>5. Pending(venue)' = Pending(venue)
    BY <1>3, <1>7, KeptTerms DEF Pending
  <2>6. Position(venue)' = Position(venue) /\ Unreturned(venue)' = Unreturned(venue)
    BY <1>3, <1>15 DEF Position, Unreturned
  <2>7. Custody("strategy", venue)' + Custody("callback", venue)'
          = Custody("strategy", venue) + Custody("callback", venue) - 1
    BY <2>1, <2>2, BooksAre DEF Tasks
  <2>8. Custody("strategy", venue)' \in {0, 1} /\ Custody("callback", venue)' \in {0, 1}
    BY DEF Custody, One
  <2>9. held' = held
    BY <1>3
  <2> QED BY <2>3, <2>4, <2>5, <2>6, <2>7, <2>8, <2>9, BooksAre
<1>17. LotsCoverExits'
  BY <1>3, <1>6, <1>15 DEF LotsCoverExits, RunningInv, Quantity
<1> QED BY <1>9, <1>10, <1>11, <1>12, <1>16, <1>17 DEF RunningInv

-----------------------------------------------------------------------------
(* The venues.                                                             *)

\* The end of an order leaves the names that memory has for orders.
LEMMA NamesOutlive ==
  ASSUME KindsOK, RunningInv, NEW k \in Sent, NEW s \in OrderStatuses, s # "sent", orders' = WithStatus(k, s),
         UNCHANGED <<held, entry, task>>
  PROVE  OrdersAreNamed' /\ NamedOnce' /\ SentIsNamed' /\ LotsCoverExits'
<1>1. /\ Carried(orders, orders') /\ Sent' = Sent \ {k} /\ DOMAIN orders' = DOMAIN orders
      /\ \A j \in DOMAIN orders : /\ orders'[j].venue = orders[j].venue
                                  /\ orders'[j].purpose = orders[j].purpose
  BY Ended
<1>2. /\ Leaves' = Leaves /\ \A w \in Tasks : Completes(w)' = Completes(w)
  BY DEF Leaves, Completes
<1>3. OrdersAreNamed'
  <2>1. \A v \in Tasks : Completes(v)' => IsEntry(orders', task'[v].e) /\ Filled(orders', task'[v].e.var)
    BY <1>1, <1>2, CarriedIs DEF RunningInv, OrdersAreNamed
  <2>2. entry' # NoEntry => IsEntry(orders', entry')
    BY <1>1, CarriedIs DEF RunningInv, OrdersAreNamed
  <2>3. ASSUME Leaves'
        PROVE  LET t == task["strategy"] IN
               /\ task'["strategy"] = t /\ IsOrder(orders', t.hedge, "lighter", "exit")
               /\ orders'[t.hedge].qty = t.qty
               /\ entry' = NoEntry
               /\ t.at = "recovering" => orders'[t.hedge].status \notin {"sent", "filled"}
    <3> DEFINE t == task["strategy"]
    <3>1. /\ IsOrder(orders, t.hedge, "lighter", "exit")
          /\ orders[t.hedge].qty = t.qty /\ entry = NoEntry
          /\ t.at = "recovering" => orders[t.hedge].status \notin {"sent", "filled"}
      BY <2>3, <1>2 DEF RunningInv, OrdersAreNamed
    <3>2. /\ IsOrder(orders', t.hedge, "lighter", "exit") /\ orders'[t.hedge].qty = orders[t.hedge].qty
          /\ orders[t.hedge].status # "sent" => orders'[t.hedge].status = orders[t.hedge].status
      BY <3>1, <1>1, CarriedIs
    <3> QED BY <3>1, <3>2
  <2> QED BY <2>1, <2>2, <2>3 DEF OrdersAreNamed
<1>4. NamedOnce'
  <2>1. Ids(held') = Ids(held) /\ entry' = entry /\ task' = task
    OBVIOUS
  <2> QED BY <1>2, <2>1 DEF NamedOnce, RunningInv, Tasks
<1>5. SentIsNamed'
  <2>1. ASSUME NEW j \in Sent PROVE Named(j)'
    <3>1. /\ j \in DOMAIN orders' /\ orders'[j].venue = orders[j].venue /\ orders'[j].purpose = orders[j].purpose
          /\ Named(j)
      BY <1>1 DEF Sent, RunningInv, SentIsNamed
    <3>2. orders[j].purpose = "unwind" => task'["strategy"] = Resting
      BY <3>1 DEF Named
    <3>3. \A w \in Tasks : Completes(w) => Completes(w)' /\ task'[w].e.lighter = task[w].e.lighter
      BY <1>2
    <3>4. IsOrder(orders, j, "lighter", "exit") => Leaves' /\ task'["strategy"].hedge = task["strategy"].hedge
      BY <3>1, <1>2 DEF Named
    <3> QED BY <2>1, <3>1, <3>2, <3>3, <3>4, StaysNamed
  <2> QED BY <2>1, <1>1 DEF SentIsNamed
<1>6. LotsCoverExits'
  <2>1. Flight(orders', "return") <= Flight(orders, "return")
    <3>1. Flight(orders, "return") \in Nat /\ orders[k].qty \in Nat
      BY PositionIs, FieldsAre, FlightIsNat
    <3> QED BY <3>1, EndedFlight
  <2>2. Flight(orders, "return") \in Nat /\ Cardinality(held) \in Nat
    BY FieldsAre, FlightIsNat
  <2>3. Flight(orders', "return") <= Cardinality(held')
    <3>1. Flight(orders', "return") \in Nat
      BY Ended, FlightIsNat
    <3> QED BY <3>1, <2>1, <2>2 DEF RunningInv, LotsCoverExits
  <2> QED BY <2>3, <1>2 DEF LotsCoverExits, RunningInv, Quantity
<1> QED BY <1>3, <1>4, <1>5, <1>6

\* News that is added, or lost.
LEMMA NewsAdded ==
  ASSUME KindsOK, RunningInv, NEW k \in Sent, NEW s \in OrderStatuses, s # "sent", orders' = WithStatus(k, s),
         UNCHANGED <<entry, task>>, NEW ev \in EventRecords,
         events' = events \/ events' = Append(events, ev),
         ev.opens /\ ev.status = "filled" /\ entry # NoEntry => Filled(orders', entry.var),
         ev.opens => ~(task["strategy"].at = "looking" /\ task["strategy"].answer = "filled")
  PROVE  NewsIsTrue'
<1> DEFINE t == task["strategy"]
<1>1. entry # NoEntry /\ Filled(orders, entry.var) => Filled(orders', entry.var)
  <2>1. entry # NoEntry /\ Filled(orders, entry.var) => IsEntry(orders, entry)
    BY DEF RunningInv, OrdersAreNamed
  <2> QED BY <2>1, Ended, CarriedIs
<1>2. events \in Seq(EventRecords)
  BY FieldsAre
<1>3. ASSUME NEW n \in DOMAIN events' PROVE (n \in DOMAIN events /\ events'[n] = events[n]) \/ events'[n] = ev
  BY <1>2
<1>4. t.at = "looking" /\ t.answer = "filled" => entry # NoEntry
  <2>1. t.at = "looking" => t.e \in Intents
    BY CourseIs DEF Tasks
  <2>2. NoEntry \notin Intents
    BY DEF NoEntry, Intents
  <2> QED BY <2>1, <2>2 DEF RunningInv, NewsIsTrue
<1>5. \A n \in DOMAIN events' :
       events'[n].opens /\ events'[n].status = "filled" /\ entry' # NoEntry => Filled(orders', entry'.var)
  BY <1>1, <1>3 DEF RunningInv, NewsIsTrue
<1>6. t.at = "looking" /\ t.answer = "filled" =>
       /\ entry' = t.e /\ Filled(orders', entry'.var)
       /\ \A n \in DOMAIN events' : ~events'[n].opens
  BY <1>1, <1>3, <1>4 DEF RunningInv, NewsIsTrue
<1> QED BY <1>5, <1>6 DEF NewsIsTrue

\* What is in custody and pending does not change, unless a leg of an entry fills.
LEMMA LegsStay ==
  ASSUME KindsOK, RunningInv, NEW k \in Sent, NEW s \in OrderStatuses, s # "sent", orders' = WithStatus(k, s),
         UNCHANGED <<held, entry, task>>, s # "filled" \/ orders[k].purpose # "entry", NEW venue \in Venues
  PROVE  Pending(venue)' = Pending(venue) /\ \A w \in Tasks : Custody(w, venue)' = Custody(w, venue)
<1>1. /\ orders[k].status = "sent" /\ orders'[k].status = s
      /\ \A j \in DOMAIN orders : j # k => orders'[j] = orders[j]
  BY Ended DEF Sent
<1>2. ASSUME NEW j \in DOMAIN orders, orders[j].purpose = "entry" PROVE Filled(orders', j) = Filled(orders, j)
  BY <1>1, <1>2 DEF Filled
<1>3. entry # NoEntry => Filled(orders', Leg(entry, venue)) = Filled(orders, Leg(entry, venue))
  BY <1>2 DEF Leg, RunningInv, OrdersAreNamed, IsEntry, IsOrder
<1>4. \A w \in Tasks : Completes(w) =>
        Filled(orders', Leg(task[w].e, venue)) = Filled(orders, Leg(task[w].e, venue))
  BY <1>2 DEF Leg, RunningInv, OrdersAreNamed, IsEntry, IsOrder
<1>5. Pending(venue)' = Pending(venue)
  BY <1>3 DEF Pending
<1>6. ASSUME NEW w \in Tasks PROVE Custody(w, venue)' = Custody(w, venue)
  BY <1>4 DEF Custody, Completes
<1> QED BY <1>5, <1>6

\* The Variational leg of an entry fills.
LEMMA VarLegFills ==
  ASSUME KindsOK, RunningInv, NEW k \in Sent, OrderFills(k), IsOrder(orders, k, "var", "entry")
  PROVE  RunningInv'
<1>1. /\ orders[k].venue = "var" /\ orders[k].purpose = "entry" /\ entry # NoEntry /\ k = entry.var
      /\ orders[k].qty = 1 /\ orders[k].status = "sent" /\ k \in DOMAIN orders /\ orders[k] \in OrderRecords
  BY PositionIs DEF IsOrder, RunningInv, SentIsNamed, Named, OrdersAreNamed, IsEntry, Sent
<1>2. /\ orders' = WithStatus(k, "filled") /\ var' = var + 1 /\ UNCHANGED <<lighter, held, entry, task>>
      /\ events' = FeedTells(orders[k], "filled") \/ events' = events
  BY <1>1 DEF OrderFills, Opens, Position, lotMemory
<1>3. /\ orders'[k].status = "filled" /\ "filled" \in OrderStatuses
      /\ \A j \in DOMAIN orders : j # k => orders'[j] = orders[j]
  BY <1>2, Ended DEF OrderStatuses
<1>4. OrdersAreNamed' /\ NamedOnce' /\ SentIsNamed' /\ LotsCoverExits'
  BY <1>2, <1>3, NamesOutlive
<1>5. Filled(orders', entry.var) /\ ~Filled(orders, entry.var)
  BY <1>1, <1>3 DEF Filled
<1>6. NewsIsTrue'
  <2> DEFINE ev == [opens |-> TRUE, qty |-> 1, status |-> "filled"]
  <2>1. ev \in EventRecords /\ ev.opens = TRUE /\ ev.status = "filled"
    BY DEF EventRecords
  <2>2. events' = events \/ events' = Append(events, ev)
    BY <1>1, <1>2 DEF FeedTells, Opens
  <2>3. ~(task["strategy"].at = "looking" /\ task["strategy"].answer = "filled")
    BY <1>5 DEF RunningInv, NewsIsTrue
  <2> HIDE DEF ev
  <2> QED BY <2>1, <2>2, <2>3, <1>2, <1>3, <1>5, NewsAdded
<1>7. Booked'
  <2> SUFFICES ASSUME NEW venue \in Venues
               PROVE  Position(venue)' =
                        Cardinality(held') + Pending(venue)' + Custody("strategy", venue)' + Custody("callback", venue)'
                        + Flight(orders', venue) - Promised(venue)' - Unreturned(venue)'
    BY Balanced
  <2>1. Class(orders[k]) = "entry"
    BY <1>1 DEF Class
  <2>2. /\ Flight(orders', venue) = Flight(orders, venue)
        /\ Flight(orders', "return") = Flight(orders, "return")
    <3>1. Flight(orders, venue) \in Nat /\ Flight(orders, "return") \in Nat
      BY BooksAre
    <3> QED BY <3>1, <2>1, <1>2, <1>3, EndedFlight DEF Venues
  <2>3. /\ entry.lighter # k /\ entry.lighter \in DOMAIN orders
        /\ \A w \in Tasks : Completes(w) => /\ task[w].e.var # k /\ task[w].e.lighter # k
                                            /\ task[w].e.var \in DOMAIN orders /\ task[w].e.lighter \in DOMAIN orders
    BY <1>1 DEF RunningInv, OrdersAreNamed, IsEntry, IsOrder, Filled
  <2>4. ASSUME NEW w \in Tasks PROVE Custody(w, venue)' = Custody(w, venue)
    <3>1. Completes(w) => Filled(orders', Leg(task[w].e, venue)) = Filled(orders, Leg(task[w].e, venue))
      BY <2>3, <1>3 DEF Filled, Leg
    <3> QED BY <3>1, <1>2 DEF Custody, Completes
  <2>5. Pending("var")' = 1 /\ Pending("var") = 0
    BY <1>1, <1>2, <1>5 DEF Pending, One, Leg
  <2>6. Pending("lighter")' = Pending("lighter")
    <3>1. Filled(orders', Leg(entry, "lighter")) = Filled(orders, Leg(entry, "lighter"))
      BY <2>3, <1>3 DEF Filled, Leg
    <3> QED BY <3>1, <1>2 DEF Pending
  <2>7. Promised(venue)' = 0 /\ Promised(venue) = 0
    BY <1>1, <1>2 DEF Promised, RunningInv, OrdersAreNamed, Leaves
  <2>8. Unreturned(venue)' = Unreturned(venue) /\ held' = held
    BY <2>2, <1>2 DEF Unreturned
  <2>9. CASE venue = "var"
    <3>1. Position(venue)' = Position(venue) + 1
      BY <2>9, <1>2 DEF Position
    <3> QED BY <3>1, <2>2, <2>4, <2>5, <2>7, <2>8, <2>9, BooksAre DEF Tasks
  <2>10. CASE venue = "lighter"
    <3>1. Position(venue)' = Position(venue)
      BY <2>10, <1>2 DEF Position
    <3> QED BY <3>1, <2>2, <2>4, <2>6, <2>7, <2>8, <2>10, BooksAre DEF Tasks
  <2> QED BY <2>9, <2>10 DEF Venues
<1> QED BY <1>4, <1>6, <1>7 DEF RunningInv

\* The Lighter leg of an entry fills: the entry is pending, or one task has it.
LEMMA LighterLegFills ==
  ASSUME KindsOK, RunningInv, NEW k \in Sent, OrderFills(k), IsOrder(orders, k, "lighter", "entry")
  PROVE  RunningInv'
<1>1. /\ orders[k].venue = "lighter" /\ orders[k].purpose = "entry"
      /\ orders[k].status = "sent" /\ k \in DOMAIN orders /\ orders[k] \in OrderRecords
  BY PositionIs DEF IsOrder
<1>2. /\ \/ entry # NoEntry /\ k = entry.lighter
         \/ \E w \in Tasks : Completes(w) /\ k = task[w].e.lighter
      /\ orders[k].qty = 1
  <2>1. Named(k)
    BY DEF RunningInv, SentIsNamed
  <2> QED BY <2>1 DEF Named, RunningInv, OrdersAreNamed, IsEntry
<1>3. /\ orders' = WithStatus(k, "filled") /\ lighter' = lighter + 1 /\ UNCHANGED <<var, held, entry, task>>
      /\ events' = events
  BY <1>1, <1>2 DEF OrderFills, Opens, Position, lotMemory, FeedTells
<1>4. /\ orders'[k].status = "filled" /\ "filled" \in OrderStatuses
      /\ \A j \in DOMAIN orders : j # k => orders'[j] = orders[j]
  BY <1>3, Ended DEF OrderStatuses
<1>5. OrdersAreNamed' /\ NamedOnce' /\ SentIsNamed' /\ LotsCoverExits'
  BY <1>3, <1>4, NamesOutlive
<1>6. NewsIsTrue'
  <2> DEFINE ev == [opens |-> FALSE, qty |-> 1, status |-> "filled"]
  <2>1. ev \in EventRecords /\ ev.opens = FALSE
    BY DEF EventRecords
  <2> HIDE DEF ev
  <2> QED BY <2>1, <1>3, <1>4, NewsAdded
<1>7. Filled(orders', k) /\ ~Filled(orders, k)
  BY <1>1, <1>4 DEF Filled
<1>8. Booked'
  <2> SUFFICES ASSUME NEW venue \in Venues
               PROVE  Position(venue)' =
                        Cardinality(held') + Pending(venue)' + Custody("strategy", venue)' + Custody("callback", venue)'
                        + Flight(orders', venue) - Promised(venue)' - Unreturned(venue)'
    BY Balanced
  <2>1. Class(orders[k]) = "entry"
    BY <1>1 DEF Class
  <2>2. /\ Flight(orders', venue) = Flight(orders, venue)
        /\ Flight(orders', "return") = Flight(orders, "return")
    <3>1. Flight(orders, venue) \in Nat /\ Flight(orders, "return") \in Nat
      BY BooksAre
    <3> QED BY <3>1, <2>1, <1>3, <1>4, EndedFlight DEF Venues
  <2>3. Promised(venue)' = Promised(venue)
    <3>1. Leaves => task["strategy"].hedge \in DOMAIN orders /\ task["strategy"].hedge # k
      BY <1>1 DEF RunningInv, OrdersAreNamed, IsOrder
    <3>2. Leaves => orders'[task["strategy"].hedge] = orders[task["strategy"].hedge]
      BY <3>1, <1>4
    <3> QED BY <3>2, <1>3 DEF Promised, Leaves
  <2>4. Unreturned(venue)' = Unreturned(venue) /\ held' = held
    BY <2>2, <1>3 DEF Unreturned
  <2>5. ASSUME NEW e, IsEntry(orders, e)
        PROVE  /\ e.var # k /\ e.var \in DOMAIN orders /\ e.lighter \in DOMAIN orders
               /\ Filled(orders', e.var) = Filled(orders, e.var)
               /\ e.lighter # k => Filled(orders', e.lighter) = Filled(orders, e.lighter)
    <3>1. e.var # k /\ e.var \in DOMAIN orders /\ e.lighter \in DOMAIN orders
      BY <2>5, <1>1 DEF IsEntry, IsOrder
    <3> QED BY <3>1, <1>4 DEF Filled
  <2>6. /\ entry # NoEntry => IsEntry(orders, entry)
        /\ \A w \in Tasks : Completes(w) => IsEntry(orders, task[w].e)
    BY DEF RunningInv, OrdersAreNamed
  <2>7. CASE venue = "var"
    <3>1. Pending(venue)' = Pending(venue)
      BY <2>5, <2>6, <2>7, <1>3 DEF Pending, Leg
    <3>2. ASSUME NEW w \in Tasks PROVE Custody(w, venue)' = Custody(w, venue)
      BY <2>5, <2>6, <2>7, <1>3 DEF Custody, Completes, Leg
    <3>3. Position(venue)' = Position(venue)
      BY <2>7, <1>3 DEF Position
    <3> QED BY <3>1, <3>2, <3>3, <2>2, <2>3, <2>4, BooksAre DEF Tasks
  <2>8. CASE venue = "lighter"
    <3> DEFINE Owns(w) == Completes(w) /\ task[w].e.lighter = k
               Waits == entry # NoEntry /\ entry.lighter = k
    <3>1. Position(venue)' = Position(venue) + 1
      BY <2>8, <1>3 DEF Position
    <3>2. Waits => Pending(venue) = 0 /\ Pending(venue)' = 1
      BY <2>8, <1>3, <1>7 DEF Pending, Leg, One
    <3>3. ~Waits => Pending(venue)' = Pending(venue)
      BY <2>5, <2>6, <2>8, <1>3 DEF Pending, Leg
    <3>4. ASSUME NEW w \in Tasks, Owns(w) PROVE Custody(w, venue) = 0 /\ Custody(w, venue)' = 1
      <4>1. task[w].at # "closing" /\ task'[w] = task[w]
        BY <3>4, <1>3 DEF Completes
      <4> QED BY <3>4, <4>1, <2>8, <1>7 DEF Custody, Completes, Leg, One
    <3>5. ASSUME NEW w \in Tasks, ~Owns(w) PROVE Custody(w, venue)' = Custody(w, venue)
      BY <3>5, <2>5, <2>6, <2>8, <1>3 DEF Custody, Completes, Leg
    <3>6. /\ Waits => ~Owns("strategy") /\ ~Owns("callback")
          /\ ~(Owns("strategy") /\ Owns("callback"))
      BY DEF RunningInv, NamedOnce, Tasks
    <3>7. Waits \/ Owns("strategy") \/ Owns("callback")
      BY <1>2 DEF Tasks
    <3> HIDE DEF Owns, Waits
    <3>8. Pending(venue)' + Custody("strategy", venue)' + Custody("callback", venue)'
            = Pending(venue) + Custody("strategy", venue) + Custody("callback", venue) + 1
      BY <3>2, <3>3, <3>4, <3>5, <3>6, <3>7, BooksAre DEF Tasks
    <3>9. Pending(venue)' \in {0, 1} /\ Custody("strategy", venue)' \in {0, 1} /\ Custody("callback", venue)' \in {0, 1}
      BY DEF Pending, Custody, One
    <3> QED BY <3>1, <3>8, <3>9, <2>2, <2>3, <2>4, BooksAre
  <2> QED BY <2>7, <2>8 DEF Venues
<1> QED BY <1>5, <1>6, <1>8 DEF RunningInv

\* What was taken back returns.
LEMMA ReturnFills ==
  ASSUME KindsOK, RunningInv, NEW k \in Sent, OrderFills(k), orders[k].purpose = "unwind"
  PROVE  RunningInv'
<1> DEFINE q == orders[k].qty
<1>1. /\ orders[k].venue = "var" /\ entry = NoEntry /\ task["strategy"] = Resting
      /\ orders[k].status = "sent" /\ k \in DOMAIN orders /\ q \in Nat \ {0}
  BY PositionIs DEF RunningInv, SentIsNamed, Named
<1>2. /\ orders' = WithStatus(k, "filled") /\ var' = var + q /\ UNCHANGED <<lighter, held, entry, task>>
      /\ events' = FeedTells(orders[k], "filled") \/ events' = events
  BY <1>1 DEF OrderFills, Opens, Position, lotMemory
<1>3. "filled" \in OrderStatuses
  BY DEF OrderStatuses
<1>4. OrdersAreNamed' /\ NamedOnce' /\ SentIsNamed' /\ LotsCoverExits'
  BY <1>2, <1>3, NamesOutlive
<1>5. NewsIsTrue'
  BY <1>1, <1>2 DEF NewsIsTrue, Resting
<1>6. Booked'
  <2> SUFFICES ASSUME NEW venue \in Venues
               PROVE  Position(venue)' =
                        Cardinality(held') + Pending(venue)' + Custody("strategy", venue)' + Custody("callback", venue)'
                        + Flight(orders', venue) - Promised(venue)' - Unreturned(venue)'
    BY Balanced
  <2>1. Class(orders[k]) = "return"
    BY DEF Class
  <2>2. /\ Flight(orders', venue) = Flight(orders, venue)
        /\ Flight(orders', "return") = Flight(orders, "return") - q
    <3>1. Flight(orders, venue) \in Nat /\ Flight(orders, "return") \in Nat
      BY BooksAre
    <3> QED BY <3>1, <2>1, <1>2, <1>3, EndedFlight DEF Venues
  <2>3. Pending(venue)' = Pending(venue) /\ \A w \in Tasks : Custody(w, venue)' = Custody(w, venue)
    BY <1>2, <1>3, LegsStay
  <2>4. Promised(venue)' = 0 /\ Promised(venue) = 0
    BY <1>1, <1>2 DEF Promised, Leaves, Resting
  <2>5. held' = held
    BY <1>2
  <2>6. CASE venue = "var"
    <3>1. /\ Position(venue)' = Position(venue) + q /\ Unreturned(venue) = Flight(orders, "return")
          /\ Unreturned(venue)' = Flight(orders', "return")
      BY <2>6, <1>2 DEF Position, Unreturned
    <3> QED BY <3>1, <2>2, <2>3, <2>4, <2>5, <1>1, BooksAre DEF Tasks
  <2>7. CASE venue = "lighter"
    <3>1. /\ Position(venue)' = Position(venue) /\ Unreturned(venue) = 0
          /\ Unreturned(venue)' = 0
      BY <2>7, <1>2 DEF Position, Unreturned
    <3> QED BY <3>1, <2>2, <2>3, <2>4, <2>5, BooksAre DEF Tasks
  <2> QED BY <2>6, <2>7 DEF Venues
<1> QED BY <1>4, <1>5, <1>6 DEF RunningInv

\* An order that reduces fills.
LEMMA ReducingFills ==
  ASSUME KindsOK, RunningInv, NEW k \in Sent, OrderFills(k), ~Opens(orders[k])
  PROVE  RunningInv'
<1> DEFINE q == orders[k].qty
           of == orders[k].venue
<1>1. /\ of \in Venues /\ orders[k].purpose \in {"exit", "close"}
      /\ orders[k].status = "sent" /\ k \in DOMAIN orders /\ q \in Nat \ {0} /\ orders[k] \in OrderRecords
  BY PositionIs DEF Venues, Opens, OrderRecords
<1>2. /\ orders' = WithStatus(k, "filled") /\ UNCHANGED <<held, entry, task>>
      /\ events' = FeedTells(orders[k], "filled") \/ events' = events
      /\ IF of = "var" THEN var' = Position(of) + (0 - q) /\ UNCHANGED lighter
                       ELSE lighter' = Position(of) + (0 - q) /\ UNCHANGED var
  BY DEF OrderFills, lotMemory
<1>3. "filled" \in OrderStatuses
  BY DEF OrderStatuses
<1>4. OrdersAreNamed' /\ NamedOnce' /\ SentIsNamed' /\ LotsCoverExits'
  BY <1>2, <1>3, NamesOutlive
<1>5. NewsIsTrue'
  <2> DEFINE ev == [opens |-> FALSE, qty |-> q, status |-> "filled"]
  <2>1. ev \in EventRecords /\ ev.opens = FALSE
    BY <1>1 DEF EventRecords
  <2>2. events' = events \/ events' = Append(events, ev)
    <3>1. Opens(orders[k]) = FALSE
      BY DEF Opens
    <3>2. FeedTells(orders[k], "filled") = IF up /\ of = "var" THEN Append(events, ev) ELSE events
      BY <3>1 DEF FeedTells
    <3> HIDE DEF ev
    <3> QED BY <3>2, <1>2
  <2> HIDE DEF ev
  <2> QED BY <2>1, <2>2, <1>2, <1>3, NewsAdded
<1>6. Booked'
  <2> SUFFICES ASSUME NEW venue \in Venues
               PROVE  Position(venue)' =
                        Cardinality(held') + Pending(venue)' + Custody("strategy", venue)' + Custody("callback", venue)'
                        + Flight(orders', venue) - Promised(venue)' - Unreturned(venue)'
    BY Balanced
  <2>1. Class(orders[k]) = of
    BY <1>1 DEF Class
  <2>2. /\ Flight(orders', venue) = Flight(orders, venue) - (IF of = venue THEN q ELSE 0)
        /\ Flight(orders', "return") = Flight(orders, "return")
    <3>1. Flight(orders, venue) \in Nat /\ Flight(orders, "return") \in Nat /\ of # "return"
      BY BooksAre, <1>1 DEF Venues
    <3> QED BY <3>1, <2>1, <1>2, <1>3, EndedFlight
  <2>3. Pending(venue)' = Pending(venue) /\ \A w \in Tasks : Custody(w, venue)' = Custody(w, venue)
    BY <1>1, <1>2, <1>3, LegsStay
  <2>4. Promised(venue)' = Promised(venue)
    <3>1. \A j \in DOMAIN orders : orders'[j].status \in {"sent", "filled"} <=> orders[j].status \in {"sent", "filled"}
      BY <1>1, <1>2, <1>3, Ended
    <3> QED BY <3>1, <1>2, NamesAre DEF Promised, Leaves
  <2>5. Unreturned(venue)' = Unreturned(venue) /\ held' = held
    BY <2>2, <1>2 DEF Unreturned
  <2>6. Position(venue)' = Position(venue) - (IF of = venue THEN q ELSE 0)
    <3>1. var \in Int /\ lighter \in Int
      BY FieldsAre
    <3> QED BY <3>1, <1>1, <1>2 DEF Position, Venues
  <2> QED BY <2>2, <2>3, <2>4, <2>5, <2>6, <1>1, BooksAre DEF Tasks
<1> QED BY <1>4, <1>5, <1>6 DEF RunningInv

LEMMA VenueFills ==
  ASSUME KindsOK, RunningInv, NEW k \in DOMAIN orders, OrderFills(k)
  PROVE  RunningInv'
<1>1. k \in Sent
  BY DEF OrderFills
<1>2. orders[k].venue \in {"var", "lighter"} /\ orders[k].purpose \in {"entry", "exit", "unwind", "close"}
  BY FieldsAre, OrderIs
<1>3. CASE ~Opens(orders[k])
  BY <1>1, <1>3, ReducingFills
<1>4. CASE orders[k].purpose = "unwind"
  BY <1>1, <1>4, ReturnFills
<1>5. CASE orders[k].purpose = "entry"
  BY <1>1, <1>2, <1>5, VarLegFills, LighterLegFills DEF IsOrder
<1> QED BY <1>3, <1>4, <1>5 DEF Opens

\* An order fails at its venue: never for want of a position.
LEMMA VenueFails ==
  ASSUME FaultsAssumption, KindsOK, RunningInv, NEW k \in DOMAIN orders, OrderFails(k)
  PROVE  RunningInv'
<1> DEFINE q == orders[k].qty
           of == orders[k].venue
           status == IF of = "var" THEN "rejected" ELSE "canceled"
<1>1. /\ k \in Sent /\ of \in Venues /\ q \in Nat \ {0} /\ orders[k] \in OrderRecords /\ orders[k].status = "sent"
      /\ orders[k].purpose \in {"entry", "exit", "unwind", "close"}
  BY PositionIs DEF OrderFails, Venues, OrderRecords
<1>2. /\ orders' = WithStatus(k, status) /\ UNCHANGED <<var, lighter, held, entry, task>>
      /\ events' = FeedTells(orders[k], "rejected")
      /\ status \in OrderStatuses /\ status # "sent" /\ status # "filled"
  BY DEF OrderFails, lotMemory, OrderStatuses
<1>3. ~Opens(orders[k]) => Position(of) >= q
  <2> SUFFICES ASSUME ~Opens(orders[k]) PROVE Position(of) >= q
    OBVIOUS
  <2>1. Class(orders[k]) = of
    BY <1>1 DEF Class, Opens
  <2>2. q <= Flight(orders, of)
    BY <2>1, <1>1, <1>2, EndedFlight
  <2>3. Position(of) >= Flight(orders, of) /\ Position(of) \in Int /\ Flight(orders, of) \in Nat
    BY <1>1, Backing, BooksAre
  <2> QED BY <2>2, <2>3, <1>1
<1>4. Fault(IF of = "var" THEN "rejected" ELSE "canceled", of, orders[k].purpose)
  <2>1. ~(~Opens(orders[k]) /\ Position(of) < q)
    <3>1. Position(of) \in Int
      BY <1>1, BooksAre
    <3> QED BY <3>1, <1>1, <1>3
  <2> QED BY <2>1 DEF OrderFails
<1>5. IsOrder(orders, k, "var", "entry") \/ IsOrder(orders, k, "lighter", "entry") \/ IsOrder(orders, k, "lighter", "exit")
  <2>1. orders[k].purpose = "unwind" => of = "var"
    BY <1>1 DEF RunningInv, SentIsNamed, Named
  <2> QED BY <2>1, <1>1, <1>4 DEF Fault, FaultsAssumption, IsOrder, Venues
<1>6. OrdersAreNamed' /\ NamedOnce' /\ SentIsNamed' /\ LotsCoverExits'
  BY <1>1, <1>2, NamesOutlive
<1>7. NewsIsTrue'
  <2> DEFINE b == Opens(orders[k])
             ev == [opens |-> b, qty |-> q, status |-> "rejected"]
  <2>1. ev \in EventRecords /\ ev.opens = b /\ ev.status = "rejected"
    BY <1>1 DEF EventRecords, Opens
  <2>2. events' = events \/ events' = Append(events, ev)
    <3>1. FeedTells(orders[k], "rejected") = IF up /\ of = "var" THEN Append(events, ev) ELSE events
      BY DEF FeedTells
    <3> HIDE DEF ev
    <3> QED BY <3>1, <1>2
  <2>3. b /\ of = "var" => ~(task["strategy"].at = "looking" /\ task["strategy"].answer = "filled")
    <3>1. b /\ of = "var" => k = entry.var /\ ~Filled(orders, k)
      BY <1>1, <1>5 DEF Opens, IsOrder, RunningInv, SentIsNamed, Named, Filled
    <3> QED BY <3>1 DEF RunningInv, NewsIsTrue
  <2>4. of # "var" => events' = events
    BY <1>2 DEF FeedTells
  <2>5. CASE of = "var"
    <3> HIDE DEF ev
    <3> QED BY <2>1, <2>2, <2>3, <2>5, <1>1, <1>2, NewsAdded
  <2>6. CASE of # "var"
    <3> DEFINE quiet == [opens |-> FALSE, qty |-> q, status |-> "rejected"]
    <3>1. quiet \in EventRecords /\ quiet.opens = FALSE
      BY <1>1 DEF EventRecords
    <3> HIDE DEF quiet
    <3> QED BY <3>1, <2>4, <2>6, <1>1, <1>2, NewsAdded
  <2> QED BY <2>5, <2>6
<1>8. CASE IsOrder(orders, k, "lighter", "exit")
  <2>1. Leaves /\ k = task["strategy"].hedge
    BY <1>1, <1>8 DEF RunningInv, SentIsNamed, Named
  <2>2. status = "canceled" /\ UNCHANGED <<var, lighter, events, held, entry>>
    BY <1>2, <1>8 DEF IsOrder, FeedTells
  <2> QED BY <2>1, <2>2, <1>1, <1>2, HedgeFails DEF Leaves
<1>9. CASE orders[k].purpose = "entry"
  <2>1. Booked'
    <3> SUFFICES ASSUME NEW venue \in Venues
                 PROVE  Position(venue)' =
                          Cardinality(held') + Pending(venue)' + Custody("strategy", venue)' + Custody("callback", venue)'
                          + Flight(orders', venue) - Promised(venue)' - Unreturned(venue)'
      BY Balanced
    <3>1. Class(orders[k]) = "entry"
      BY <1>9 DEF Class
    <3>2. /\ Flight(orders', venue) = Flight(orders, venue)
          /\ Flight(orders', "return") = Flight(orders, "return")
      <4>1. Flight(orders, venue) \in Nat /\ Flight(orders, "return") \in Nat
        BY BooksAre
      <4> QED BY <4>1, <3>1, <1>1, <1>2, EndedFlight DEF Venues
    <3>3. Pending(venue)' = Pending(venue) /\ \A w \in Tasks : Custody(w, venue)' = Custody(w, venue)
      BY <1>1, <1>2, LegsStay
    <3>4. Promised(venue)' = Promised(venue)
      <4>1. Leaves => task["strategy"].hedge \in DOMAIN orders /\ task["strategy"].hedge # k
        BY <1>9 DEF RunningInv, OrdersAreNamed, IsOrder
      <4>2. Leaves => orders'[task["strategy"].hedge] = orders[task["strategy"].hedge]
        BY <4>1, <1>1, <1>2, Ended
      <4> QED BY <4>2, <1>2 DEF Promised, Leaves
    <3>5. Unreturned(venue)' = Unreturned(venue) /\ held' = held /\ Position(venue)' = Position(venue)
      BY <3>2, <1>2 DEF Unreturned, Position
    <3> QED BY <3>2, <3>3, <3>4, <3>5, BooksAre DEF Tasks
  <2> QED BY <2>1, <1>6, <1>7 DEF RunningInv
<1> QED BY <1>5, <1>8, <1>9 DEF IsOrder

-----------------------------------------------------------------------------
(* Every step.                                                             *)

LEMMA BooksStand ==
  ASSUME RunningInv, UNCHANGED <<var, lighter, orders, held, entry, task>>
  PROVE  OrdersAreNamed' /\ NamedOnce' /\ SentIsNamed' /\ Booked' /\ LotsCoverExits'
<1>1. Leaves' = Leaves /\ \A w \in Tasks : Completes(w)' = Completes(w)
  BY DEF Leaves, Completes
<1>2. Sent' = Sent
  BY DEF Sent
<1>3. OrdersAreNamed'
  BY <1>1 DEF OrdersAreNamed, RunningInv
<1>4. NamedOnce'
  BY <1>1 DEF NamedOnce, RunningInv, Tasks
<1>5. SentIsNamed'
  <2>1. ASSUME NEW k \in Sent PROVE Named(k)'
    <3>1. Named(k)
      BY DEF RunningInv, SentIsNamed
    <3> QED BY <3>1, <1>1 DEF Named, Tasks
  <2> QED BY <2>1, <1>2 DEF SentIsNamed
<1>6. Booked'
  <2> SUFFICES ASSUME NEW venue \in Venues
               PROVE  Position(venue)' =
                        Cardinality(held') + Pending(venue)' + Custody("strategy", venue)' + Custody("callback", venue)'
                        + Flight(orders', venue) - Promised(venue)' - Unreturned(venue)'
    BY Balanced
  <2>1. ASSUME NEW w \in Tasks PROVE Custody(w, venue)' = Custody(w, venue)
    BY DEF Custody, Completes
  <2>2. Promised(venue)' = Promised(venue)
    BY DEF Promised, Leaves
  <2>3. Position(venue)' = Position(venue) /\ Pending(venue)' = Pending(venue) /\ Unreturned(venue)' = Unreturned(venue)
    BY DEF Position, Pending, Unreturned
  <2> QED BY <2>1, <2>2, <2>3 DEF RunningInv, Booked, Tasks, Venues
<1>7. LotsCoverExits'
  BY <1>1 DEF LotsCoverExits, RunningInv, Quantity
<1> QED BY <1>3, <1>4, <1>5, <1>6, <1>7

\* News that says nothing of the pending entry passes.
LEMMA EventPasses ==
  ASSUME KindsOK, RunningInv, UNCHANGED <<var, lighter, orders, held, entry, task>>,
         events' = events \/ (events # <<>> /\ events' = Tail(events))
  PROVE  RunningInv'
<1>1. OrdersAreNamed' /\ NamedOnce' /\ SentIsNamed' /\ Booked' /\ LotsCoverExits'
  BY BooksStand
<1>2. NewsIsTrue'
  <2>1. events \in Seq(EventRecords)
    BY FieldsAre
  <2>2. \A n \in DOMAIN events' : \E m \in DOMAIN events : events'[n] = events[m]
    <3>1. CASE events' = events
      BY <3>1
    <3>2. CASE events # <<>> /\ events' = Tail(events)
      <4>1. /\ Len(events) \in Nat \ {0} /\ DOMAIN events = 1..Len(events) /\ DOMAIN events' = 1..(Len(events) - 1)
            /\ \A n \in 1..(Len(events) - 1) : events'[n] = events[n + 1]
        BY <2>1, <3>2
      <4> QED BY <4>1
    <3> QED BY <3>1, <3>2
  <2> QED BY <2>2 DEF NewsIsTrue, RunningInv
<1> QED BY <1>1, <1>2 DEF RunningInv

\* A runtime starts with the lots of its file, that both venues confirm.
LEMMA StartAgrees ==
  ASSUME KindsOK, DownIsEmpty, StartRuntime, up'
  PROVE  RunningInv'
<1>1. /\ var = Cardinality(file.lots) /\ lighter = Cardinality(file.lots) /\ held' = file.lots
      /\ orders' = <<>> /\ UNCHANGED <<var, lighter, events, entry, task>> /\ ~up
  BY DEF StartRuntime
<1>2. /\ entry' = NoEntry /\ events' = <<>> /\ task' = [w \in Tasks |-> Resting]
      /\ DOMAIN events' = {}
  BY <1>1 DEF DownIsEmpty
<1>3. \A w \in Tasks : task'[w] = Resting
  BY <1>2
<1>4. ~Leaves' /\ \A w \in Tasks : ~Completes(w)'
  BY <1>3 DEF Leaves, Completes, Resting, Tasks
<1>5. <<>> \in Seq(OrderRecords) /\ DOMAIN <<>> = {}
  BY EmptyIs
<1>6. \A class : Flight(<<>>, class) = 0
  BY <1>5, NoFlight
<1>7. Cardinality(held') \in Nat
  BY <1>1, FS_CardinalityType DEF KindsOK
<1>8. OrdersAreNamed' /\ NamedOnce' /\ LotsCoverExits'
  BY <1>1, <1>2, <1>4, <1>6, <1>7 DEF OrdersAreNamed, NamedOnce, LotsCoverExits, Tasks
<1>9. SentIsNamed'
  BY <1>1, <1>5 DEF SentIsNamed, Sent
<1>10. NewsIsTrue'
  BY <1>2, <1>3 DEF NewsIsTrue, Resting, Tasks
<1>11. Booked'
  <2> SUFFICES ASSUME NEW venue \in Venues
               PROVE  Position(venue)' =
                        Cardinality(held') + Pending(venue)' + Custody("strategy", venue)' + Custody("callback", venue)'
                        + Flight(orders', venue) - Promised(venue)' - Unreturned(venue)'
    BY Balanced
  <2>1. Position(venue)' = Cardinality(held')
    BY <1>1 DEF Position
  <2>2. Pending(venue)' = 0 /\ Promised(venue)' = 0
    BY <1>2, <1>4 DEF Pending, Promised, One
  <2>3. \A w \in Tasks : Custody(w, venue)' = 0
    BY <1>3, <1>4 DEF Custody, One, Resting
  <2>4. Flight(orders', venue) = 0 /\ Unreturned(venue)' = 0
    BY <1>1, <1>6 DEF Unreturned
  <2> QED BY <2>1, <2>2, <2>3, <2>4, <1>7 DEF Tasks
<1> QED BY <1>8, <1>9, <1>10, <1>11 DEF RunningInv

LEMMA EntrySteps ==
  ASSUME FaultsAssumption, KindsOK, EntriesWereMade, Running => RunningInv, Running',
         ProposeEntry \/ EntryReplied \/ Lookup \/ LookupAnswered \/ TakeEvent
  PROVE  RunningInv'
<1> DEFINE t == task["strategy"]
<1>1. up' = TRUE /\ stop' = FALSE
  <2>1. up' /\ ~stop'
    BY DEF Running
  <2>2. KindsOK'
    BY EntryKinds
  <2> QED BY <2>1, <2>2 DEF KindsOK
<1>2. CASE ProposeEntry
  <2>1. RunningInv
    BY <1>2 DEF ProposeEntry, StrategyTick, Running
  <2> QED BY <1>2, <2>1, EntryLeaves
<1>3. CASE EntryReplied
  <2>1. /\ UNCHANGED <<var, lighter, orders, events, held, entry, stop>> /\ up /\ t.at = "entering"
        /\ Does("strategy", Resting)
    BY <1>1, <1>3 DEF EntryReplied, Persist, Review, Strategy
  <2>2. RunningInv
    BY <2>1, <1>1 DEF Running
  <2>3. task'["strategy"] = Resting /\ \A v \in Tasks : v # "strategy" => task'[v] = task[v]
    BY <2>1 DEF Does, KindsOK, Tasks
  <2> QED BY <2>1, <2>2, <2>3, QuietStep DEF CalmPhases, Resting, Tasks
<1>4. CASE Lookup
  <2>1. RunningInv /\ entry # NoEntry
    BY <1>4 DEF Lookup, StrategyTick, Running
  <2>2. task["strategy"] = Resting /\ events = <<>> /\ \A k \in Sent : orders[k].purpose # "unwind"
    BY <1>4, PromptIs DEF Lookup
  <2>3. /\ UNCHANGED <<var, lighter, orders, events, held, entry>>
        /\ Does("strategy", [at |-> "looking", e |-> entry, answer |-> orders[entry.var].status])
    BY <1>4 DEF Lookup, Strategy, venues, lotMemory
  <2>4. /\ task'["strategy"].at = "looking" /\ task'["strategy"].e = entry
        /\ task'["strategy"].answer = orders[entry.var].status
        /\ \A v \in Tasks : v # "strategy" => task'[v] = task[v]
    BY <2>3 DEF Does, KindsOK, Tasks
  <2>5. task'["strategy"].answer = "filled" => Filled(orders, entry.var)
    BY <2>4 DEF Filled
  <2>6. "strategy" \in Tasks /\ t.at \in CalmPhases /\ task'["strategy"].at \in CalmPhases
    BY <2>2, <2>4 DEF CalmPhases, Tasks, Resting
  <2> QED BY <2>1, <2>2, <2>3, <2>4, <2>5, <2>6, QuietStep
<1>5. CASE LookupAnswered
  <2>1. /\ up /\ t.at = "looking" /\ UNCHANGED <<var, lighter, orders, events, held, stop>>
        /\ \/ /\ t.answer = "filled" /\ Does("strategy", [at |-> "completing", e |-> t.e])
              /\ entry' = IF entry = t.e THEN NoEntry ELSE entry
           \/ entry' = entry /\ Does("strategy", Resting)
    BY <1>1, <1>5 DEF LookupAnswered, Review, Strategy, venues
  <2>2. RunningInv
    BY <2>1, <1>1 DEF Running
  <2>3. CASE t.answer = "filled" /\ Does("strategy", [at |-> "completing", e |-> t.e])
             /\ entry' = IF entry = t.e THEN NoEntry ELSE entry
    <3>1. entry = t.e /\ Filled(orders, entry.var)
      BY <2>1, <2>2, <2>3 DEF RunningInv, NewsIsTrue
    <3>2. entry # NoEntry
      BY <2>1, <3>1, CourseIs DEF Tasks, NoEntry
    <3>3. task'["strategy"].at = "completing"
      BY <2>3 DEF Does, KindsOK, Tasks
    <3>4. Does("strategy", [at |-> "completing", e |-> entry]) /\ entry' = NoEntry
      BY <2>3, <3>1
    <3> QED BY <2>1, <2>2, <3>1, <3>2, <3>3, <3>4, EntryTaken DEF Tasks
  <2>4. CASE entry' = entry /\ Does("strategy", Resting)
    <3>1. task'["strategy"] = Resting /\ \A v \in Tasks : v # "strategy" => task'[v] = task[v]
      BY <2>4 DEF Does, KindsOK, Tasks
    <3> QED BY <2>1, <2>2, <2>4, <3>1, QuietStep DEF CalmPhases, Resting, Tasks
  <2> QED BY <2>1, <2>3, <2>4
<1>6. CASE TakeEvent
  <2> DEFINE ev == Head(events)
             isEntry == ev.opens /\ entry # NoEntry /\ ev.qty = 1
  <2>1. /\ up /\ events # <<>> /\ task["callback"] = Resting /\ events' = Tail(events)
        /\ UNCHANGED <<var, lighter, orders, held, stop>>
        /\ \/ /\ isEntry /\ ev.status = "filled" /\ entry' = NoEntry
              /\ Does("callback", [at |-> "completing", e |-> entry])
           \/ entry' = entry /\ Does("callback", Resting)
    <3>1. ev.status \in {"filled", "rejected"}
      <4>1. ev \in EventRecords
        BY <1>6, FieldsAre DEF TakeEvent
      <4> QED BY <4>1 DEF EventRecords
    <3> QED BY <1>1, <1>6, <3>1 DEF TakeEvent, Review, Persist
  <2>2. RunningInv
    BY <2>1, <1>1 DEF Running
  <2>3. CASE isEntry /\ ev.status = "filled" /\ entry' = NoEntry
             /\ Does("callback", [at |-> "completing", e |-> entry])
    <3>1. 1 \in DOMAIN events /\ events[1] = ev
      BY <2>1, FieldsAre
    <3>2. Filled(orders, entry.var)
      BY <2>2, <2>3, <3>1 DEF RunningInv, NewsIsTrue
    <3>3. ~(t.at = "looking" /\ t.answer = "filled")
      BY <2>2, <2>3, <3>1 DEF RunningInv, NewsIsTrue
    <3>4. task'["strategy"] = t
      BY <2>3 DEF Does, KindsOK, Tasks
    <3> QED BY <2>1, <2>2, <2>3, <3>2, <3>3, <3>4, EntryTaken DEF Tasks
  <2>4. CASE entry' = entry /\ Does("callback", Resting)
    <3>1. task' = task
      BY <2>1, <2>4 DEF Does, KindsOK, Tasks
    <3> QED BY <2>1, <2>2, <2>4, <3>1, EventPasses
  <2> QED BY <2>1, <2>3, <2>4
<1> QED BY <1>2, <1>3, <1>4, <1>5, <1>6

LEMMA CompletionSteps ==
  ASSUME FaultsAssumption, KindsOK, EntriesWereMade, Running => RunningInv, Running',
         NEW w \in Tasks, Complete(w) \/ CloseBoth(w) \/ Verify(w)
  PROVE  RunningInv'
<1>1. up' = TRUE /\ stop' = FALSE
  <2>1. up' /\ ~stop'
    BY DEF Running
  <2>2. KindsOK'
    BY CompletionKinds
  <2> QED BY <2>1, <2>2 DEF KindsOK
<1>2. CASE Complete(w)
  <2>1. /\ up /\ Completes(w) /\ UNCHANGED <<var, lighter, orders, events, entry, stop>>
        /\ Filled(orders, task[w].e.lighter)
        /\ \/ held' = held \cup {[id |-> task[w].e.id, by |-> w]} /\ Does(w, Resting)
           \/ held' = held /\ Does(w, [at |-> "closing"])
    BY <1>1, <1>2 DEF Complete, Completes, Persist, Review, Hedged, Filled, venues
  <2>2. RunningInv
    BY <2>1, <1>1 DEF Running
  <2> QED BY <2>1, <2>2, LotOpens, BreachIsClosed
<1>3. CASE CloseBoth(w)
  <2>1. RunningInv
    BY <1>1, <1>3 DEF CloseBoth, Running
  <2> QED BY <1>3, <2>1, BothClose
<1>4. CASE Verify(w)
  <2>1. /\ up /\ task[w].at = "verifying" /\ UNCHANGED <<var, lighter, orders, events, held, entry, stop>>
        /\ Does(w, Resting)
    BY <1>1, <1>4 DEF Verify, Persist, Review, venues
  <2>2. RunningInv
    BY <2>1, <1>1 DEF Running
  <2>3. task'[w] = Resting /\ \A v \in Tasks : v # w => task'[v] = task[v]
    BY <2>1 DEF Does, KindsOK
  <2> QED BY <2>1, <2>2, <2>3, QuietStep DEF CalmPhases, Resting
<1> QED BY <1>2, <1>3, <1>4

LEMMA ExitSteps ==
  ASSUME FaultsAssumption, KindsOK, Running => RunningInv, Running',
         (\E ids \in SUBSET Ids(held) : BeginExit(ids)) \/ ExitReplied \/ Rehedge \/ Unwind \/ SettleExit
  PROVE  RunningInv'
<1> DEFINE t == task["strategy"]
<1>1. up' = TRUE /\ stop' = FALSE
  <2>1. up' /\ ~stop'
    BY DEF Running
  <2>2. KindsOK'
    BY KindsOfExits
  <2> QED BY <2>1, <2>2 DEF KindsOK
<1>2. CASE \E ids \in SUBSET Ids(held) : BeginExit(ids)
  <2>1. RunningInv
    BY <1>2 DEF BeginExit, StrategyTick, Running
  <2> QED BY <1>2, <2>1, ExitBegins
<1>3. ASSUME Leaves
      PROVE  /\ t \in Exits
             /\ \A a, n, m : LET u == [t EXCEPT !.at = a, !.hedge = n, !.tries = m] IN
                  u.at = a /\ u.hedge = n /\ u.ids = t.ids /\ u.qty = t.qty
             /\ \A a : LET u == [t EXCEPT !.at = a] IN
                  u.at = a /\ u.hedge = t.hedge /\ u.ids = t.ids /\ u.qty = t.qty
             /\ \A n, m : LET u == [t EXCEPT !.hedge = n, !.tries = m] IN
                  u.at = t.at /\ u.hedge = n /\ u.ids = t.ids /\ u.qty = t.qty
             /\ \A m : LET u == [t EXCEPT !.tries = m] IN
                  u.at = t.at /\ u.hedge = t.hedge /\ u.ids = t.ids /\ u.qty = t.qty
  <2>1. t \in Exits
    BY <1>3, CourseIs DEF Leaves, Tasks
  <2> QED BY <2>1 DEF Exits
<1>4. ASSUME NEW next, Strategy(next) PROVE task'["strategy"] = next /\ task'["callback"] = task["callback"]
  BY <1>4 DEF Strategy, Does, KindsOK, Tasks
<1>5. CASE ExitReplied
  <2>1. /\ up /\ t.at = "leaving" /\ Leaves /\ UNCHANGED <<var, lighter, events, held, entry, stop>>
        /\ \/ Strategy([t EXCEPT !.at = "hedging"]) /\ UNCHANGED orders
           \/ /\ t.hedge \in Sent /\ orders' = WithStatus(t.hedge, "refused")
              /\ Strategy([t EXCEPT !.at = "recovering"])
    <3>1. ~Fault("lost", "lighter", "exit")
      BY DEF Fault, FaultsAssumption
    <3> QED BY <1>1, <1>5, <3>1 DEF ExitReplied, Leaves, Review
  <2>2. RunningInv
    BY <2>1, <1>1 DEF Running
  <2>3. CASE Strategy([t EXCEPT !.at = "hedging"]) /\ UNCHANGED orders
    <3>1. /\ task'["strategy"] = [t EXCEPT !.at = "hedging"] /\ task'["callback"] = task["callback"]
      BY <2>3, <1>4
    <3>2. /\ task'["strategy"].at = "hedging" /\ task'["strategy"].ids = t.ids
          /\ task'["strategy"].qty = t.qty /\ task'["strategy"].hedge = t.hedge
      BY <3>1, <2>1, <1>3
    <3> QED BY <2>1, <2>2, <2>3, <3>1, <3>2, ExitTurns
  <2>4. CASE t.hedge \in Sent /\ orders' = WithStatus(t.hedge, "refused") /\ Strategy([t EXCEPT !.at = "recovering"])
    <3>1. /\ task'["strategy"] = [t EXCEPT !.at = "recovering"] /\ task'["callback"] = task["callback"]
      BY <2>4, <1>4
    <3>2. /\ task'["strategy"].at = "recovering" /\ task'["strategy"].ids = t.ids
          /\ task'["strategy"].qty = t.qty /\ task'["strategy"].hedge = t.hedge
      BY <3>1, <2>1, <1>3
    <3> QED BY <2>1, <2>2, <2>4, <3>1, <3>2, HedgeFails
  <2> QED BY <2>1, <2>3, <2>4
<1>6. CASE Rehedge
  <2>1. /\ up /\ t.at = "recovering" /\ Leaves /\ UNCHANGED <<var, lighter, events, held, entry, stop>>
        /\ \/ /\ orders' = Append(orders, Order("lighter", "exit", t.qty))
              /\ Strategy([t EXCEPT !.at = "hedging", !.hedge = Len(orders) + 1, !.tries = 0])
           \/ UNCHANGED orders /\ Strategy([t EXCEPT !.tries = @ + 1])
    BY <1>6 DEF Rehedge, Leaves, lotMemory
  <2>2. RunningInv
    BY <2>1, <1>1 DEF Running
  <2>3. CASE /\ orders' = Append(orders, Order("lighter", "exit", t.qty))
             /\ Strategy([t EXCEPT !.at = "hedging", !.hedge = Len(orders) + 1, !.tries = 0])
    <3>1. /\ task'["strategy"] = [t EXCEPT !.at = "hedging", !.hedge = Len(orders) + 1, !.tries = 0]
          /\ task'["callback"] = task["callback"]
      BY <2>3, <1>4
    <3>2. /\ task'["strategy"].at = "hedging" /\ task'["strategy"].ids = t.ids
          /\ task'["strategy"].qty = t.qty /\ task'["strategy"].hedge = Len(orders) + 1
      BY <3>1, <2>1, <1>3
    <3>3. orders[t.hedge].status \notin {"sent", "filled"}
      BY <2>1, <2>2 DEF RunningInv, OrdersAreNamed
    <3> QED BY <2>1, <2>2, <2>3, <3>1, <3>2, <3>3, HedgeSentAgain
  <2>4. CASE UNCHANGED orders /\ Strategy([t EXCEPT !.tries = @ + 1])
    <3>1. /\ task'["strategy"] = [t EXCEPT !.tries = t.tries + 1] /\ task'["callback"] = task["callback"]
      BY <2>4, <1>4
    <3>2. /\ task'["strategy"].at = "recovering" /\ task'["strategy"].ids = t.ids
          /\ task'["strategy"].qty = t.qty /\ task'["strategy"].hedge = t.hedge
      BY <3>1, <2>1, <1>3
    <3> QED BY <2>1, <2>2, <2>4, <3>1, <3>2, ExitTurns
  <2> QED BY <2>1, <2>3, <2>4
<1>7. CASE Unwind
  <2>1. up /\ stop' = stop /\ orders' = Append(orders, Order("var", "unwind", t.qty))
    BY <1>1, <1>7 DEF Unwind, Review
  <2>2. RunningInv
    BY <2>1, <1>1 DEF Running
  <2> QED BY <1>7, <2>1, <2>2, ExitReturns
<1>8. CASE SettleExit
  <2>1. /\ up /\ t.at = "hedging" /\ Leaves /\ UNCHANGED <<var, lighter, events, entry, stop>>
        /\ \/ /\ orders[t.hedge].status = "filled" /\ UNCHANGED orders
              /\ held' = {l \in held : l.id \notin t.ids} /\ Strategy(Resting)
           \/ /\ orders[t.hedge].status = "canceled" /\ UNCHANGED held
              /\ orders' = Append(orders, Order("lighter", "exit", t.qty))
              /\ Strategy([t EXCEPT !.hedge = Len(orders) + 1, !.tries = @ + 1])
    BY <1>1, <1>8 DEF SettleExit, Leaves, Persist, Review
  <2>2. RunningInv
    BY <2>1, <1>1 DEF Running
  <2>3. CASE /\ orders[t.hedge].status = "filled" /\ UNCHANGED orders
             /\ held' = {l \in held : l.id \notin t.ids} /\ Strategy(Resting)
    BY <2>1, <2>2, <2>3, ExitSettles
  <2>4. CASE /\ orders[t.hedge].status = "canceled" /\ UNCHANGED held
             /\ orders' = Append(orders, Order("lighter", "exit", t.qty))
             /\ Strategy([t EXCEPT !.hedge = Len(orders) + 1, !.tries = @ + 1])
    <3>1. /\ task'["strategy"] = [t EXCEPT !.hedge = Len(orders) + 1, !.tries = t.tries + 1]
          /\ task'["callback"] = task["callback"]
      BY <2>4, <1>4
    <3>2. /\ task'["strategy"].at = "hedging" /\ task'["strategy"].ids = t.ids
          /\ task'["strategy"].qty = t.qty /\ task'["strategy"].hedge = Len(orders) + 1
      BY <3>1, <2>1, <1>3
    <3> QED BY <2>1, <2>2, <2>4, <3>1, <3>2, HedgeSentAgain
  <2> QED BY <2>1, <2>3, <2>4
<1> QED BY <1>2, <1>5, <1>6, <1>7, <1>8

LEMMA RunningNext ==
  ASSUME FaultsAssumption, KindsOK, DownIsEmpty, EntriesWereMade, Running => RunningInv, InventoryNext, Running'
  PROVE  RunningInv'
<1>1. ASSUME NEW k \in DOMAIN orders, OrderFills(k) \/ OrderFails(k) PROVE RunningInv'
  <2>1. RunningInv
    BY <1>1 DEF OrderFills, OrderFails, Running
  <2> QED BY <1>1, <2>1, VenueFills, VenueFails
<1>2. CASE Flush \/ Drain \/ AskDrain
  <2>1. up /\ ~stop /\ UNCHANGED <<var, lighter, orders, events, held, entry, task>>
    BY <1>2 DEF Flush, Drain, SeeDrain, DrainReadsVar, DrainReadsRest, AskDrain, venues, lotMemory
  <2>2. RunningInv
    BY <2>1 DEF Running
  <2> QED BY <2>1, <2>2, EventPasses
<1>3. ~CloseRuntime /\ ~InventoryDies
  BY DEF CloseRuntime, InventoryDies, Gone, Running
<1>4. CASE StartRuntime
  BY <1>4, StartAgrees DEF Running
<1>5. ~OperatorReset
  BY DEF OperatorReset, Running
<1>6. \/ \E k \in DOMAIN orders : OrderFills(k) \/ OrderFails(k)
      \/ ProposeEntry \/ EntryReplied \/ Lookup \/ LookupAnswered \/ TakeEvent
      \/ \E w \in Tasks : Complete(w) \/ CloseBoth(w) \/ Verify(w)
      \/ (\E ids \in SUBSET Ids(held) : BeginExit(ids)) \/ ExitReplied \/ Rehedge \/ Unwind \/ SettleExit
      \/ Flush \/ Drain \/ AskDrain \/ StartRuntime
  BY <1>3, <1>5 DEF InventoryNext, Venue, Strategic, Callback, Tasks
<1> QED BY <1>1, <1>2, <1>4, <1>6, EntrySteps, CompletionSteps, ExitSteps

-----------------------------------------------------------------------------
(* The drain.                                                              *)

\* A flat Variational account without lots and entries: nothing is under way there.
LEMMA FlatIsStill ==
  ASSUME KindsOK, RunningInv, var = 0, held = {}, entry = NoEntry
  PROVE  /\ ~Leaves /\ \A w \in Tasks : ~Completes(w) /\ task[w].at # "closing"
         /\ \A k \in Sent : orders[k].venue # "var" /\ ~Opens(orders[k])
         /\ ~(task["strategy"].at = "looking" /\ task["strategy"].answer = "filled")
<1>1. Cardinality(held) = 0
  BY FS_EmptySet
<1>2. ~Leaves
  <2> SUFFICES ASSUME Leaves PROVE FALSE
    OBVIOUS
  <2>1. task["strategy"].qty \in Nat \ {0}
    BY CourseIs DEF Leaves, Tasks
  <2>2. Quantity(task["strategy"].ids) \in Nat /\ Quantity(task["strategy"].ids) <= 0
    BY <1>1, QuantityIs
  <2> QED BY <2>1, <2>2 DEF RunningInv, LotsCoverExits
<1>3. /\ Custody("strategy", "var") = 0 /\ Custody("callback", "var") = 0 /\ Flight(orders, "var") = 0
      /\ Flight(orders, "return") = 0
  <2>1. Position("var") = 0 /\ Pending("var") = 0 /\ Promised("var") = 0
    BY <1>2 DEF Position, Pending, Promised, One
  <2>2. Unreturned("var") = 0 /\ Flight(orders, "return") = 0
    <3>1. Flight(orders, "return") \in Nat /\ Flight(orders, "return") <= 0
      BY <1>1, FieldsAre, FlightIsNat DEF RunningInv, LotsCoverExits
    <3> QED BY <3>1 DEF Unreturned
  <2>3. "var" \in Venues
    BY DEF Venues
  <2> QED BY <1>1, <2>1, <2>2, <2>3, BooksAre
<1>4. ASSUME NEW w \in Tasks PROVE ~Completes(w) /\ task[w].at # "closing"
  <2>1. Custody(w, "var") = 0
    BY <1>3 DEF Tasks
  <2>2. task[w].at # "closing" /\ ~(Completes(w) /\ Filled(orders, task[w].e.var))
    BY <2>1 DEF Custody, One, Leg
  <2> QED BY <2>2 DEF RunningInv, OrdersAreNamed
<1>5. ASSUME NEW k \in Sent PROVE orders[k].venue # "var" /\ ~Opens(orders[k])
  <2>1. /\ k \in DOMAIN orders /\ orders[k].status = "sent" /\ orders[k].venue \in {"var", "lighter"}
        /\ orders[k].purpose \in {"entry", "exit", "unwind", "close"} /\ orders \in Seq(OrderRecords)
    BY FieldsAre, OrderIs DEF Sent
  <2>2. Class(orders[k]) # "return" /\ Class(orders[k]) # "var"
    BY <1>3, <2>1, NoFlight
  <2>3. orders[k].purpose # "unwind" /\ (orders[k].purpose # "entry" => orders[k].venue # "var")
    BY <2>1, <2>2 DEF Class
  <2>4. orders[k].purpose # "entry"
    BY <1>4, <2>1 DEF IsOrder, RunningInv, SentIsNamed, Named
  <2> QED BY <2>3, <2>4 DEF Opens
<1>6. ~(task["strategy"].at = "looking" /\ task["strategy"].answer = "filled")
  <2>1. task["strategy"].at = "looking" => task["strategy"].e # NoEntry
    BY CourseIs DEF Tasks, NoEntry
  <2> QED BY <2>1 DEF RunningInv, NewsIsTrue
<1> QED BY <1>2, <1>4, <1>5, <1>6

\* From the read of the Variational account to that of the rest nothing moves there.
LEMMA FlatStays ==
  ASSUME FaultsAssumption, KindsOK, DownIsEmpty, Running => RunningInv, DrainHolds, InventoryNext,
         drain' = "var flat", Running'
  PROVE  var' = 0 /\ held' = {} /\ entry' = NoEntry
<1>1. CASE DrainReadsVar
  BY <1>1 DEF DrainReadsVar, Nothing, venues, lotMemory
<1>2. CASE drain = "var flat" /\ Running
  <2>1. var = 0 /\ held = {} /\ entry = NoEntry /\ RunningInv
    BY <1>2 DEF DrainHolds
  <2>2. /\ ~Leaves /\ \A w \in Tasks : ~Completes(w) /\ task[w].at # "closing"
        /\ \A k \in Sent : orders[k].venue # "var" /\ ~Opens(orders[k])
        /\ ~(task["strategy"].at = "looking" /\ task["strategy"].answer = "filled")
    BY <2>1, FlatIsStill
  <2>3. ASSUME NEW k \in DOMAIN orders, OrderFills(k) \/ OrderFails(k) PROVE UNCHANGED <<var, held, entry>>
    BY <2>2, <2>3 DEF OrderFills, OrderFails, lotMemory
  <2>4. CASE EntryReplied \/ Lookup \/ LookupAnswered \/ TakeEvent
    BY <2>1, <2>2, <2>4 DEF EntryReplied, Lookup, LookupAnswered, TakeEvent, venues, lotMemory
  <2>5. ASSUME NEW w \in Tasks, Complete(w) \/ CloseBoth(w) \/ Verify(w) PROVE UNCHANGED <<var, held, entry>>
    BY <2>2, <2>5 DEF Complete, CloseBoth, Verify, Completes, venues, lotMemory
  <2>6. ~ProposeEntry
    BY <1>2 DEF ProposeEntry
  <2>7. ~(\E ids \in SUBSET Ids(held) : BeginExit(ids)) /\ ~ExitReplied /\ ~Rehedge /\ ~Unwind /\ ~SettleExit
    BY <2>1, <2>2 DEF BeginExit, ExitReplied, Rehedge, Unwind, SettleExit, Leaves, Ids
  <2>8. CASE Flush \/ Drain \/ AskDrain
    BY <2>1, <2>8 DEF Flush, Drain, SeeDrain, DrainReadsVar, DrainReadsRest, AskDrain, venues, lotMemory
  <2>9. ~CloseRuntime /\ ~InventoryDies /\ ~StartRuntime /\ ~OperatorReset
    BY <1>2 DEF CloseRuntime, InventoryDies, Gone, StartRuntime, OperatorReset, Running
  <2> QED BY <2>1, <2>3, <2>4, <2>5, <2>6, <2>7, <2>8, <2>9
          DEF InventoryNext, Venue, Strategic, Callback, Tasks
<1>3. DrainReadsVar \/ (drain = "var flat" /\ Running)
  <2>1. ~StartRuntime
    BY DEF StartRuntime
  <2>2. ~CloseRuntime /\ ~InventoryDies /\ ~OperatorReset
    BY DEF CloseRuntime, InventoryDies, Gone, OperatorReset, Running
  <2>3. CASE \/ \E k \in DOMAIN orders : OrderFills(k) \/ OrderFails(k)
             \/ Flush \/ AskDrain \/ SeeDrain \/ DrainReadsRest
    <3>1. up' = up /\ stop' = stop /\ (drain' = drain \/ drain' # "var flat")
      <4>1. CASE \E k \in DOMAIN orders : OrderFills(k) \/ OrderFails(k)
        BY <4>1 DEF OrderFills, OrderFails
      <4>2. CASE Flush \/ AskDrain \/ SeeDrain
        BY <4>2 DEF Flush, AskDrain, SeeDrain, Persist
      <4>3. CASE DrainReadsRest
        BY <4>3 DEF DrainReadsRest, Verdict, Running
      <4> QED BY <2>3, <4>1, <4>2, <4>3
    <3> QED BY <3>1 DEF Running
  <2>4. CASE ProposeEntry \/ \E ids \in SUBSET Ids(held) : BeginExit(ids)
    <3>1. UNCHANGED drain /\ up /\ ~stop
      BY <2>4 DEF ProposeEntry, BeginExit, StrategyTick
    <3> QED BY <3>1 DEF Running
  <2>5. CASE EntryReplied \/ Lookup \/ LookupAnswered \/ TakeEvent
    <3>1. UNCHANGED drain /\ up /\ (stop' = stop \/ stop' = TRUE)
      BY <2>5 DEF EntryReplied, Lookup, LookupAnswered, TakeEvent, StrategyTick, Persist, Review
    <3> QED BY <3>1, FieldsAre DEF Running
  <2>6. CASE \E w \in Tasks : Complete(w) \/ CloseBoth(w) \/ Verify(w)
    <3>1. UNCHANGED drain /\ up /\ (stop' = stop \/ stop' = TRUE)
      BY <2>6 DEF Complete, CloseBoth, Verify, Persist, Review
    <3> QED BY <3>1, FieldsAre DEF Running
  <2>7. CASE ExitReplied \/ Rehedge \/ Unwind \/ SettleExit
    <3>1. UNCHANGED drain /\ up /\ (stop' = stop \/ stop' = TRUE)
      BY <2>7 DEF ExitReplied, Rehedge, Unwind, SettleExit, Persist, Review
    <3> QED BY <3>1, FieldsAre DEF Running
  <2> QED BY <2>1, <2>2, <2>3, <2>4, <2>5, <2>6, <2>7
          DEF InventoryNext, Venue, Strategic, Callback, Drain, Tasks
<1> QED BY <1>1, <1>2, <1>3

\* The receipt is written when nothing is left that could open anything.
LEMMA ReceiptIsWritten ==
  ASSUME KindsOK, Running => RunningInv, DrainHolds, DrainReadsRest, drain' = "done"
  PROVE  Receipt'
<1>1. /\ up /\ ~stop /\ drain = "var flat" /\ UNCHANGED <<var, lighter, orders, held, entry, task>>
      /\ lighter = 0 /\ stop' = TRUE
  BY DEF DrainReadsRest, Verdict, venues
<1>2. RunningInv /\ var = 0 /\ held = {} /\ entry = NoEntry
  BY <1>1 DEF Running, DrainHolds
<1>3. /\ ~Leaves /\ \A w \in Tasks : ~Completes(w) /\ task[w].at # "closing"
      /\ \A k \in Sent : ~Opens(orders[k])
      /\ ~(task["strategy"].at = "looking" /\ task["strategy"].answer = "filled")
  BY <1>2, FlatIsStill
<1>4. /\ task["strategy"].at \in {"idle", "entering", "looking", "verifying"}
      /\ task["callback"].at \in {"idle", "verifying"}
  BY <1>3, CourseIs DEF Leaves, Completes, Tasks
<1>5. Sent' = Sent
  BY <1>1 DEF Sent
<1> QED BY <1>1, <1>2, <1>3, <1>4, <1>5 DEF Receipt, Opens

\* Once written, it stays true.
LEMMA ReceiptStays ==
  ASSUME KindsOK, Receipt, drain = "done", InventoryNext
  PROVE  Receipt'
<1> DEFINE t == task["strategy"]
<1>1. ~StrategyTick /\ ~Flush /\ ~Drain /\ ~AskDrain /\ ~InventoryDies /\ ~StartRuntime
  BY DEF Receipt, StrategyTick, Flush, Drain, SeeDrain, DrainReadsVar, DrainReadsRest, AskDrain,
         InventoryDies, StartRuntime
<1>2. ~ProposeEntry /\ ~Lookup /\ ~(\E ids \in SUBSET Ids(held) : BeginExit(ids))
  BY <1>1 DEF ProposeEntry, Lookup, BeginExit
<1>3. ~ExitReplied /\ ~Rehedge /\ ~Unwind /\ ~SettleExit /\ \A w \in Tasks : ~Complete(w) /\ ~CloseBoth(w)
  BY DEF Receipt, ExitReplied, Rehedge, Unwind, SettleExit, Complete, CloseBoth, Tasks
<1>4. ASSUME NEW k \in Sent, NEW s \in OrderStatuses, s # "sent", orders' = WithStatus(k, s)
      PROVE  \A j \in Sent' : ~Opens(orders'[j])
  <2>1. /\ Sent' = Sent \ {k} /\ \A j \in DOMAIN orders : j # k => orders'[j] = orders[j]
    BY <1>4, Ended
  <2> QED BY <2>1 DEF Receipt, Sent, Opens
<1>5. UNCHANGED orders => \A j \in Sent' : ~Opens(orders'[j])
  BY DEF Receipt, Sent, Opens
<1>6. ASSUME NEW k \in DOMAIN orders, OrderFills(k) PROVE FALSE
  <2>1. orders[k].qty \in Nat \ {0} /\ ~Opens(orders[k])
    BY <1>6, PositionIs DEF OrderFills, Receipt
  <2> QED BY <1>6, <2>1 DEF OrderFills, Receipt, Position
<1>7. ASSUME NEW k \in DOMAIN orders, OrderFails(k) PROVE Receipt'
  <2>1. /\ k \in Sent /\ orders' = WithStatus(k, IF orders[k].venue = "var" THEN "rejected" ELSE "canceled")
        /\ UNCHANGED <<var, lighter, entry, up, stop, task>>
    BY <1>7 DEF OrderFails, lotMemory
  <2>2. \A j \in Sent' : ~Opens(orders'[j])
    BY <2>1, <1>4 DEF OrderStatuses
  <2> QED BY <2>1, <2>2 DEF Receipt
<1>8. CASE EntryReplied
  <2>1. /\ UNCHANGED <<var, lighter, up>> /\ (stop' = stop \/ stop' = TRUE) /\ entry' \in {entry, NoEntry}
        /\ Does("strategy", Resting)
    BY <1>8 DEF EntryReplied, Persist, Review, Strategy
  <2>2. task'["strategy"] = Resting /\ task'["callback"] = task["callback"]
    BY <2>1 DEF Does, KindsOK, Tasks
  <2>3. \A j \in Sent' : ~Opens(orders'[j])
    <3>1. UNCHANGED orders \/ (t.e.var \in Sent /\ orders' = WithStatus(t.e.var, "refused"))
          \/ (t.e.lighter \in Sent /\ orders' = WithStatus(t.e.lighter, "refused"))
      BY <1>8 DEF EntryReplied
    <3> QED BY <3>1, <1>4, <1>5 DEF OrderStatuses
  <2> QED BY <2>1, <2>2, <2>3 DEF Receipt, Resting
<1>9. CASE LookupAnswered
  <2>1. /\ UNCHANGED <<var, lighter, orders, up>> /\ (stop' = stop \/ stop' = TRUE) /\ entry' \in {entry, NoEntry}
        /\ Does("strategy", Resting)
    BY <1>9 DEF LookupAnswered, Review, Strategy, Receipt, venues
  <2>2. task'["strategy"] = Resting /\ task'["callback"] = task["callback"]
    BY <2>1 DEF Does, KindsOK, Tasks
  <2> QED BY <2>1, <2>2, <1>5 DEF Receipt, Resting
<1>10. CASE TakeEvent
  <2>1. /\ UNCHANGED <<var, lighter, orders, up, entry>> /\ (stop' = stop \/ stop' = TRUE)
        /\ Does("callback", Resting)
    BY <1>10 DEF TakeEvent, Review, Persist, Receipt
  <2>2. task'["callback"] = Resting /\ task'["strategy"] = task["strategy"]
    BY <2>1 DEF Does, KindsOK, Tasks
  <2> QED BY <2>1, <2>2, <1>5 DEF Receipt, Resting
<1>11. ASSUME NEW w \in Tasks, Verify(w) PROVE Receipt'
  <2>1. /\ UNCHANGED <<var, lighter, orders, up, entry>> /\ (stop' = stop \/ stop' = TRUE)
        /\ Does(w, Resting)
    BY <1>11 DEF Verify, Review, Persist, venues
  <2>2. task'[w] = Resting /\ \A v \in Tasks : v # w => task'[v] = task[v]
    BY <2>1 DEF Does, KindsOK
  <2>3. \A v \in Tasks : task'[v] = task[v] \/ task'[v] = Resting
    BY <2>2
  <2> QED BY <2>1, <2>3, <1>5 DEF Receipt, Resting, Tasks
<1>12. CASE CloseRuntime
  <2>1. /\ up' = FALSE /\ entry' = NoEntry /\ UNCHANGED <<var, lighter, orders>>
        /\ task' = [w \in Tasks |-> Resting]
    BY <1>12 DEF CloseRuntime, Gone
  <2>2. task'["callback"] = Resting /\ task'["strategy"] = Resting
    BY <2>1 DEF Tasks
  <2> QED BY <2>1, <2>2, <1>5 DEF Receipt, Resting
<1>13. CASE OperatorReset
  <2>1. /\ var' = 0 /\ lighter' = 0 /\ UNCHANGED <<orders, up, stop, entry, task>>
    BY <1>13 DEF OperatorReset, lotMemory
  <2> QED BY <2>1, <1>5 DEF Receipt
<1> QED BY <1>1, <1>2, <1>3, <1>6, <1>7, <1>8, <1>9, <1>10, <1>11, <1>12, <1>13
        DEF InventoryNext, Venue, Strategic, Callback, Tasks

\* What is written when, seen from the step after.
LEMMA DrainMoves ==
  ASSUME InventoryNext, drain' = "done"
  PROVE  drain = "done" \/ DrainReadsRest
<1>1. ASSUME NEW k \in DOMAIN orders, OrderFills(k) \/ OrderFails(k) PROVE drain' = drain
  BY <1>1 DEF OrderFills, OrderFails
<1>2. CASE Flush \/ AskDrain \/ SeeDrain \/ DrainReadsVar
  BY <1>2 DEF Flush, AskDrain, SeeDrain, DrainReadsVar
<1>3. CASE ProposeEntry \/ (\E ids \in SUBSET Ids(held) : BeginExit(ids)) \/ ExitReplied \/ Rehedge \/ Unwind \/ SettleExit
  BY <1>3 DEF ProposeEntry, BeginExit, ExitReplied, Rehedge, Unwind, SettleExit
<1>4. CASE EntryReplied \/ Lookup \/ LookupAnswered \/ TakeEvent
  BY <1>4 DEF EntryReplied, Lookup, LookupAnswered, TakeEvent
<1>5. ASSUME NEW w \in Tasks, Complete(w) \/ CloseBoth(w) \/ Verify(w) PROVE drain' = drain
  BY <1>5 DEF Complete, CloseBoth, Verify
<1>6. CASE CloseRuntime \/ InventoryDies \/ StartRuntime \/ OperatorReset
  BY <1>6 DEF CloseRuntime, InventoryDies, Gone, StartRuntime, OperatorReset
<1> QED BY <1>1, <1>2, <1>3, <1>4, <1>5, <1>6 DEF InventoryNext, Venue, Strategic, Callback, Drain, Tasks

-----------------------------------------------------------------------------
(* The theorems.                                                           *)

LEMMA InventoryStarts == InventoryInit => InventoryInv
<1> SUFFICES ASSUME InventoryInit PROVE InventoryInv
  OBVIOUS
<1>1. KindsOK
  BY KindsInit
<1>2. /\ up = FALSE /\ stop = FALSE /\ held = {} /\ entry = NoEntry /\ events = <<>>
      /\ task = [w \in Tasks |-> Resting] /\ drain = "no" /\ made = 0 /\ file.lots = {}
  BY DEF InventoryInit
<1>3. DownIsEmpty /\ DrainHolds /\ ~Running
  BY <1>2 DEF DownIsEmpty, DrainHolds, Running
<1>4. EntriesWereMade
  <2>1. entry.id = 0 /\ \A w \in Tasks : task[w].at = "idle"
    BY <1>2 DEF NoEntry, Resting
  <2> QED BY <1>2, <2>1 DEF EntriesWereMade
<1> QED BY <1>1, <1>3, <1>4 DEF InventoryInv

LEMMA InventoryStays ==
  ASSUME FaultsAssumption, InventoryInv, [InventoryNext]_inventoryVars
  PROVE  InventoryInv'
<1>0. KindsOK /\ DownIsEmpty /\ EntriesWereMade /\ (Running => RunningInv) /\ DrainHolds
  BY DEF InventoryInv
<1>1. KindsOK'
  BY <1>0, KindsNext
<1>2. CASE UNCHANGED inventoryVars
  <2>1. UNCHANGED <<var, lighter, orders, events, up, stop, held, entry, exit, known, dirty, task, drain, file, made, mishaps>>
    BY <1>2 DEF inventoryVars, venues, lotMemory
  <2>2. DownIsEmpty' /\ EntriesWereMade'
    BY <1>0, <2>1 DEF DownIsEmpty, EntriesWereMade
  <2>3. Running' => RunningInv'
    BY <1>0, <2>1, EventPasses DEF Running
  <2>4. DrainHolds'
    BY <1>0, <2>1 DEF DrainHolds, Receipt, Running, Sent, Opens
  <2> QED BY <1>1, <2>2, <2>3, <2>4 DEF InventoryInv
<1>3. CASE InventoryNext
  <2>1. DownIsEmpty' /\ EntriesWereMade'
    BY <1>0, <1>1, <1>3, DownNext, MadeNext
  <2>2. Running' => RunningInv'
    BY <1>0, <1>3, RunningNext
  <2>3. DrainHolds'
    <3>1. drain' = "var flat" /\ Running' => var' = 0 /\ held' = {} /\ entry' = NoEntry
      BY <1>0, <1>3, FlatStays
    <3>2. drain' = "done" => Receipt'
      BY <1>0, <1>3, DrainMoves, ReceiptIsWritten, ReceiptStays DEF DrainHolds
    <3> QED BY <3>1, <3>2 DEF DrainHolds
  <2> QED BY <1>1, <2>1, <2>2, <2>3 DEF InventoryInv
<1> QED BY <1>2, <1>3

\* A running inventory with nothing under way has booked what the venues hold.
LEMMA BooksMatch ==
  ASSUME InventoryInv
  PROVE  TradingMatchesVenues
<1> SUFFICES ASSUME NothingUnderWay
             PROVE  var = Cardinality(held) /\ lighter = Cardinality(held)
  BY DEF TradingMatchesVenues
<1>1. KindsOK /\ RunningInv /\ entry = NoEntry /\ Sent = {} /\ \A w \in Tasks : task[w] = Resting
  BY DEF NothingUnderWay, InventoryInv, Running
<1>2. ~Leaves /\ \A w \in Tasks : ~Completes(w) /\ task[w].at # "closing"
  BY <1>1 DEF Leaves, Completes, Resting, Tasks
<1>3. \A class : Flight(orders, class) = 0
  <2>1. \A k \in DOMAIN orders : orders[k].status # "sent"
    BY <1>1 DEF Sent
  <2> QED BY <1>1, <2>1, FieldsAre, NoFlight
<1>4. ASSUME NEW venue \in Venues PROVE Position(venue) = Cardinality(held)
  <2>1. Pending(venue) = 0 /\ Promised(venue) = 0 /\ Unreturned(venue) = 0 /\ Flight(orders, venue) = 0
    BY <1>1, <1>2, <1>3 DEF Pending, Promised, Unreturned, One
  <2>2. \A w \in Tasks : Custody(w, venue) = 0
    BY <1>2 DEF Custody, One
  <2> QED BY <1>1, <2>1, <2>2, BooksAre DEF Tasks
<1> QED BY <1>4 DEF Venues, Position

\* A runtime that keeps trading, with nothing pending and nothing in flight, holds
\* in memory what the venues hold: whichever of the strategy and the callback of
\* the trade feed completed an entry, and however an exit was hedged.
THEOREM MemoryMatchesVenues ==
  ASSUME FaultsAssumption
  PROVE  InventorySpec => []TradingMatchesVenues
<1>1. InventoryInit => InventoryInv
  BY InventoryStarts
<1>2. InventoryInv /\ [InventoryNext]_inventoryVars => InventoryInv'
  BY InventoryStays
<1>3. InventoryInv => TradingMatchesVenues
  BY BooksMatch
<1> QED BY <1>1, <1>2, <1>3, PTL DEF InventorySpec

\* A drain's receipt is written when both venues are flat, and no order that was
\* sent before it opens a position after it.
THEOREM ReceiptIsFlat ==
  ASSUME FaultsAssumption
  PROVE  InventorySpec => []DrainReceiptIsFlat
<1>1. InventoryInit => InventoryInv
  BY InventoryStarts
<1>2. InventoryInv /\ [InventoryNext]_inventoryVars => InventoryInv'
  BY InventoryStays
<1>3. InventoryInv => DrainReceiptIsFlat
  BY DEF InventoryInv, DrainHolds, Receipt, DrainReceiptIsFlat
<1> QED BY <1>1, <1>2, <1>3, PTL DEF InventorySpec

-----------------------------------------------------------------------------
(* One lot of each entry. It needs neither the books nor a runtime that    *)
(* trades on: it holds while one stops, too.                               *)

\* No entry is the origin of two lots.
OneOfEach(lots) == \A l, m \in lots : l.id = m.id => l = m
EntryIsOneLot == OneOfEach(held) /\ OneOfEach(file.lots)

\* An entry is pending, on its way to a lot, or one, and not two of these.
EntriesComeOnce ==
  /\ entry # NoEntry => entry.id \notin Ids(held)
  /\ \A w \in Tasks : Completes(w) => /\ task[w].e.id \notin Ids(held)
                                      /\ entry # NoEntry => entry.id # task[w].e.id
  /\ Completes("strategy") /\ Completes("callback") => task["strategy"].e.id # task["callback"].e.id

\* An order that opens on Variational is the pending entry's as long as it is in
\* flight, or takes a position back while nothing is pending. Once the feed tells of
\* it, or the strategy has its answer, it is over.
EntryAnswered(e) == orders[e.var].status # "sent"
OpeningsArePending ==
  LET s == task["strategy"] IN
  /\ entry # NoEntry => IsOrder(orders, entry.var, "var", "entry")
  /\ \A k \in Sent : /\ IsOrder(orders, k, "var", "entry") => entry # NoEntry /\ k = entry.var
                     /\ orders[k].purpose = "unwind" => entry = NoEntry /\ s = Resting
  /\ \A n \in DOMAIN events : events[n].opens /\ entry # NoEntry => EntryAnswered(entry)
  /\ s.at = "entering" => IsOrder(orders, s.e.var, "var", "entry")
  /\ s.at = "looking" /\ s.answer = "filled" =>
       entry = s.e /\ \A n \in DOMAIN events : ~events[n].opens
  /\ s.at = "looking" /\ s.answer \in {"filled", "rejected"} /\ entry = s.e => EntryAnswered(entry)
  /\ Leaves => entry = NoEntry

OneLotInv == EntryIsOneLot /\ (up => EntriesComeOnce /\ OpeningsArePending)

-----------------------------------------------------------------------------
\* Where no lot, no pending entry and no completion is new.
LEMMA NothingNew ==
  ASSUME EntryIsOneLot, up' => up /\ EntriesComeOnce, held' \subseteq held, entry' \in {entry, NoEntry},
         file'.lots \in {held', held, file.lots},
         \A w \in Tasks : Completes(w)' => task'[w] = task[w]
  PROVE  EntryIsOneLot' /\ (up' => EntriesComeOnce')
<1>1. EntryIsOneLot'
  BY DEF EntryIsOneLot, OneOfEach
<1>2. ASSUME up' PROVE EntriesComeOnce'
  <2>1. EntriesComeOnce /\ Ids(held)' \subseteq Ids(held)
    BY <1>2 DEF Ids
  <2>2. \A w \in Tasks : Completes(w)' => Completes(w) /\ task'[w] = task[w]
    BY DEF Completes
  <2> QED BY <2>1, <2>2 DEF EntriesComeOnce, Tasks
<1> QED BY <1>1, <1>2

\* Orders go on: what was sent may end, and what is added opens nothing.
GoOn(old, new) ==
  /\ DOMAIN old \subseteq DOMAIN new
  /\ \A k \in DOMAIN old : /\ new[k].venue = old[k].venue /\ new[k].purpose = old[k].purpose
                           /\ new[k].status = "sent" => old[k].status = "sent"
  /\ \A k \in DOMAIN new \ DOMAIN old : new[k].purpose \in {"exit", "close"}

LEMMA SameGoOn == ASSUME KindsOK, UNCHANGED orders PROVE GoOn(orders, orders')
BY DEF GoOn

LEMMA EndGoesOn ==
  ASSUME KindsOK, NEW k \in Sent, NEW s \in OrderStatuses, s # "sent", orders' = WithStatus(k, s)
  PROVE  GoOn(orders, orders') /\ Sent' = Sent \ {k}
BY Ended DEF GoOn, Sent

LEMMA AppendGoesOn ==
  ASSUME KindsOK, NEW o \in OrderRecords, o.purpose \in {"exit", "close"}
  PROVE  /\ GoOn(orders, Append(orders, o))
         /\ \A p \in OrderRecords : p.purpose \in {"exit", "close"} => GoOn(orders, Append(Append(orders, o), p))
<1>1. GoOn(orders, Append(orders, o))
  BY FieldsAre, AppendIs DEF GoOn
<1>2. ASSUME NEW p \in OrderRecords, p.purpose \in {"exit", "close"} PROVE GoOn(orders, Append(Append(orders, o), p))
  BY <1>2, FieldsAre, AppendIs DEF GoOn
<1> QED BY <1>1, <1>2

\* What only goes on leaves what is pending as it is; and what is settled may be
\* dropped, unless the strategy has an answer to act on.
LEMMA OpeningsGoOn ==
  ASSUME KindsOK, KindsOK', OpeningsArePending, GoOn(orders, orders'),
         \A n \in DOMAIN events' : \E m \in DOMAIN events : events'[n] = events[m],
         \/ entry' = entry
         \/ entry' = NoEntry /\ (entry # NoEntry => orders'[entry.var].status # "sent"),
         LET s == task["strategy"]
             t == task'["strategy"]
         IN  \/ t = s /\ (entry' = entry \/ s.at # "looking" \/ s.answer # "filled")
             \/ t = Resting
             \/ s # Resting /\ t.at \in {"completing", "closing", "verifying"}
             \/ Leaves /\ t.at \in {"leaving", "hedging", "recovering"}
  PROVE  OpeningsArePending'
<1> DEFINE s == task["strategy"]
           t == task'["strategy"]
<1>1. \A k \in Sent' : /\ IsOrder(orders', k, "var", "entry") => k \in Sent /\ IsOrder(orders, k, "var", "entry")
                       /\ orders'[k].purpose = "unwind" => k \in Sent /\ orders[k].purpose = "unwind"
  BY DEF GoOn, Sent, IsOrder
<1>2. \A k : IsOrder(orders, k, "var", "entry") => IsOrder(orders', k, "var", "entry")
  BY DEF GoOn, IsOrder
<1>3. Leaves => s # Resting /\ s.at \notin {"entering", "looking"}
  BY DEF Leaves, Resting
<1>4. t = Resting => ~Leaves' /\ t.at \notin {"entering", "looking"}
  BY DEF Leaves, Resting
<1>5. ASSUME NEW e, IsOrder(orders, e.var, "var", "entry"), EntryAnswered(e) PROVE EntryAnswered(e)'
  BY <1>5 DEF GoOn, IsOrder, EntryAnswered
<1>6. entry' # NoEntry => entry' = entry /\ IsOrder(orders', entry'.var, "var", "entry")
  BY <1>2 DEF OpeningsArePending
<1>7. ASSUME NEW k \in Sent'
      PROVE  /\ IsOrder(orders', k, "var", "entry") => entry' # NoEntry /\ k = entry'.var
             /\ orders'[k].purpose = "unwind" => entry' = NoEntry /\ t = Resting
  <2>1. IsOrder(orders', k, "var", "entry") => entry # NoEntry /\ k = entry.var
    BY <1>1 DEF OpeningsArePending
  <2>2. entry' = entry \/ entry = NoEntry \/ k # entry.var
    BY DEF Sent
  <2>3. orders'[k].purpose = "unwind" => entry = NoEntry /\ s = Resting
    BY <1>1 DEF OpeningsArePending
  <2>4. s = Resting => t = Resting
    BY <1>3
  <2> QED BY <2>1, <2>2, <2>3, <2>4
<1>8. ASSUME NEW n \in DOMAIN events', events'[n].opens, entry' # NoEntry PROVE EntryAnswered(entry)'
  BY <1>5, <1>6, <1>8 DEF OpeningsArePending
<1>9. t.at = "entering" => IsOrder(orders', t.e.var, "var", "entry")
  BY <1>2, <1>4 DEF OpeningsArePending
<1>10. ASSUME t.at = "looking"
       PROVE  /\ t.answer = "filled" => entry' = t.e /\ \A n \in DOMAIN events' : ~events'[n].opens
              /\ t.answer \in {"filled", "rejected"} /\ entry' = t.e => EntryAnswered(entry)'
  <2>1. t = s /\ (entry' = entry \/ s.answer # "filled")
    BY <1>4, <1>10
  <2>2. t.e # NoEntry
    BY <1>10, <2>1, CourseIs DEF Tasks, NoEntry
  <2>3. t.answer = "filled" => entry' = t.e /\ \A n \in DOMAIN events' : ~events'[n].opens
    BY <1>10, <2>1 DEF OpeningsArePending
  <2>4. t.answer \in {"filled", "rejected"} /\ entry' = t.e => EntryAnswered(entry)'
    BY <1>5, <1>6, <1>10, <2>1, <2>2 DEF OpeningsArePending
  <2> QED BY <2>3, <2>4
<1>11. Leaves' => entry' = NoEntry
  <2>1. Leaves' => Leaves
    BY <1>4 DEF Leaves
  <2> QED BY <2>1 DEF OpeningsArePending
<1> QED BY <1>6, <1>7, <1>8, <1>9, <1>10, <1>11 DEF OpeningsArePending

\* A step that adds nothing and lets orders go on keeps one lot of each entry.
LEMMA QuietlyOne ==
  ASSUME KindsOK, KindsOK', OneLotInv, up, held' \subseteq held,
         file'.lots \in {held', held, file.lots}, GoOn(orders, orders'),
         \A n \in DOMAIN events' : \E m \in DOMAIN events : events'[n] = events[m],
         \/ entry' = entry
         \/ entry' = NoEntry /\ (entry # NoEntry => orders'[entry.var].status # "sent"),
         \A w \in Tasks : task'[w] = task[w] \/ ~Completes(w)',
         LET s == task["strategy"]
             t == task'["strategy"]
         IN  \/ t = s /\ (entry' = entry \/ s.at # "looking" \/ s.answer # "filled")
             \/ t = Resting
             \/ s # Resting /\ t.at \in {"completing", "closing", "verifying"}
             \/ Leaves /\ t.at \in {"leaving", "hedging", "recovering"}
  PROVE  OneLotInv'
<1>1. EntryIsOneLot /\ EntriesComeOnce /\ OpeningsArePending
  BY DEF OneLotInv
<1>2. EntryIsOneLot' /\ (up' => EntriesComeOnce')
  BY <1>1, NothingNew
<1>3. OpeningsArePending'
  BY <1>1, OpeningsGoOn
<1> QED BY <1>2, <1>3 DEF OneLotInv

LEMMA FlushKeepsOne ==
  ASSUME KindsOK, KindsOK', OneLotInv, Flush \/ Drain \/ AskDrain
  PROVE  OneLotInv'
<1>1. /\ up /\ UNCHANGED <<orders, events, held, entry, task>> /\ file'.lots \in {held', file.lots}
  <2>1. CASE Flush
    BY <2>1, WriteLots DEF Flush, Persist, venues
  <2>2. CASE SeeDrain
    BY <2>2, WriteLots DEF SeeDrain, Persist, venues
  <2>3. CASE DrainReadsVar \/ AskDrain
    BY <2>3 DEF DrainReadsVar, AskDrain, venues, lotMemory
  <2>4. CASE DrainReadsRest
    BY <2>4, WriteLots DEF DrainReadsRest, venues
  <2> QED BY <2>1, <2>2, <2>3, <2>4 DEF Drain
<1>2. GoOn(orders, orders')
  BY <1>1, SameGoOn
<1> QED BY <1>1, <1>2, QuietlyOne

LEMMA EntryReplyKeepsOne ==
  ASSUME KindsOK, KindsOK', OneLotInv, EntryReplied
  PROVE  OneLotInv'
<1> DEFINE e == task["strategy"].e
<1>1. /\ up /\ task["strategy"].at = "entering" /\ UNCHANGED <<held, events>> /\ Does("strategy", Resting)
      /\ file'.lots = held'
      /\ \/ UNCHANGED <<orders, entry>>
         \/ e.var \in Sent /\ orders' = WithStatus(e.var, "refused") /\ entry' = NoEntry
         \/ e.lighter \in Sent /\ orders' = WithStatus(e.lighter, "refused") /\ entry' = entry
  BY WriteLots DEF EntryReplied, Strategy, Persist, Review
<1>2. task'["strategy"] = Resting /\ task'["callback"] = task["callback"]
  BY <1>1, DoesIs, EndingsAre DEF Tasks
<1>3. GoOn(orders, orders')
  BY <1>1, SameGoOn, EndGoesOn DEF OrderStatuses
<1>4. entry' = entry \/ (entry' = NoEntry /\ (entry # NoEntry => orders'[entry.var].status # "sent"))
  <2>1. ASSUME e.var \in Sent, orders' = WithStatus(e.var, "refused"), entry # NoEntry
        PROVE  orders'[entry.var].status # "sent"
    <3>1. e.var = entry.var
      BY <1>1, <2>1 DEF OneLotInv, OpeningsArePending
    <3> QED BY <2>1, <3>1, Ended DEF OrderStatuses
  <2> QED BY <1>1, <2>1
<1>5. \A w \in Tasks : task'[w] = task[w] \/ ~Completes(w)'
  BY <1>2 DEF Tasks, Completes, Resting
<1> QED BY <1>1, <1>2, <1>3, <1>4, <1>5, QuietlyOne

\* The pending entry begins its way to a lot.
LEMMA CompletionComesOnce ==
  ASSUME EntriesComeOnce, entry # NoEntry, entry' = NoEntry, UNCHANGED held, NEW w \in Tasks,
         task'[w].e = entry, ~Completes(w), \A v \in Tasks \ {w} : task'[v] = task[v]
  PROVE  EntriesComeOnce'
<1>1. entry.id \notin Ids(held) /\ Ids(held)' = Ids(held)
  BY DEF EntriesComeOnce, Ids
<1>2. \A v \in Tasks : Completes(v) => task[v].e.id \notin Ids(held) /\ entry.id # task[v].e.id
  BY DEF EntriesComeOnce
<1>3. \A v \in Tasks \ {w} : Completes(v)' <=> Completes(v)
  BY DEF Completes
<1> QED BY <1>1, <1>2, <1>3 DEF EntriesComeOnce, Tasks

LEMMA AnswerKeepsOne ==
  ASSUME KindsOK, KindsOK', OneLotInv, LookupAnswered
  PROVE  OneLotInv'
<1> DEFINE t == task["strategy"]
<1>1. up /\ t.at = "looking" /\ UNCHANGED <<held, orders, events>> /\ OpeningsArePending /\ EntriesComeOnce /\ EntryIsOneLot
  BY DEF LookupAnswered, OneLotInv, venues
<1>2. GoOn(orders, orders') /\ t # Resting /\ t.e # NoEntry
  BY <1>1, SameGoOn, CourseIs DEF Resting, NoEntry, Tasks
<1>3. CASE t.answer # "filled"
  <2>1. /\ Does("strategy", Resting) /\ file'.lots \in {held', file.lots}
        /\ \/ entry' = entry
           \/ entry = t.e /\ entry' = NoEntry /\ t.answer = "rejected"
    BY <1>3, WriteLots DEF LookupAnswered, Strategy, Review
  <2>2. task'["strategy"] = Resting /\ task'["callback"] = task["callback"]
    BY <2>1, DoesIs, EndingsAre DEF Tasks
  <2>3. entry' = entry \/ (entry' = NoEntry /\ orders'[entry.var].status # "sent")
    BY <1>1, <2>1 DEF OpeningsArePending, EntryAnswered
  <2>4. \A w \in Tasks : task'[w] = task[w] \/ ~Completes(w)'
    BY <2>2 DEF Tasks, Completes, Resting
  <2> QED BY <1>1, <1>2, <2>1, <2>2, <2>3, <2>4, QuietlyOne
<1>4. CASE t.answer = "filled"
  <2>1. entry = t.e /\ entry # NoEntry /\ EntryAnswered(entry)
    BY <1>1, <1>2, <1>4 DEF OpeningsArePending
  <2>2. entry' = NoEntry /\ Does("strategy", [at |-> "completing", e |-> t.e]) /\ UNCHANGED file
    BY <1>4, <2>1 DEF LookupAnswered, Strategy
  <2>3. t.e \in Intents
    BY <1>1, CourseIs DEF Tasks
  <2>4. task'["strategy"] = [at |-> "completing", e |-> t.e] /\ \A v \in Tasks \ {"strategy"} : task'[v] = task[v]
    BY <2>2, <2>3, DoesIs, EndingsAre DEF Tasks
  <2>5. task'["strategy"].e = entry /\ task'["strategy"].at = "completing"
    BY <2>1, <2>4
  <2>6. EntriesComeOnce'
    BY <1>1, <2>1, <2>2, <2>4, <2>5, CompletionComesOnce DEF Completes, Tasks
  <2>7. EntryIsOneLot'
    BY <1>1, <2>2 DEF EntryIsOneLot, OneOfEach
  <2>8. OpeningsArePending'
    BY <1>1, <1>2, <2>1, <2>2, <2>5, OpeningsGoOn DEF EntryAnswered
  <2> QED BY <2>6, <2>7, <2>8 DEF OneLotInv
<1> QED BY <1>3, <1>4

LEMMA NewsKeepsOne ==
  ASSUME KindsOK, KindsOK', OneLotInv, TakeEvent
  PROVE  OneLotInv'
<1> DEFINE ev == Head(events)
           isEntry == ev.opens /\ entry # NoEntry /\ ev.qty = 1
<1>1. /\ up /\ events # <<>> /\ events' = Tail(events) /\ UNCHANGED <<held, orders>>
      /\ task["callback"] = Resting /\ file'.lots \in {held', file.lots}
      /\ entry' = IF isEntry THEN NoEntry ELSE entry
      /\ OpeningsArePending /\ EntriesComeOnce /\ EntryIsOneLot
  BY WriteLots DEF TakeEvent, OneLotInv, Persist, Review
<1>2. /\ 1 \in DOMAIN events /\ ev = events[1]
      /\ \A n \in DOMAIN events' : n + 1 \in DOMAIN events /\ events'[n] = events[n + 1]
  BY <1>1, FieldsAre
<1>3. GoOn(orders, orders')
  BY <1>1, SameGoOn
<1>4. Does("callback", IF isEntry /\ ev.status = "filled" THEN [at |-> "completing", e |-> entry] ELSE Resting)
  BY DEF TakeEvent
<1>5. isEntry => entry \in Intents
  BY DEF KindsOK
<1>6. /\ task'["strategy"] = task["strategy"] /\ \A v \in Tasks \ {"callback"} : task'[v] = task[v]
      /\ task'["callback"] = IF isEntry /\ ev.status = "filled" THEN [at |-> "completing", e |-> entry] ELSE Resting
  BY <1>4, <1>5, DoesIs, EndingsAre DEF Tasks
<1>7. isEntry => EntryAnswered(entry) /\ ~(task["strategy"].at = "looking" /\ task["strategy"].answer = "filled")
  BY <1>1, <1>2 DEF OpeningsArePending
<1>8. OpeningsArePending'
  BY <1>1, <1>2, <1>3, <1>6, <1>7, OpeningsGoOn DEF EntryAnswered
<1>9. CASE isEntry /\ ev.status = "filled"
  <2>1. task'["callback"].e = entry
    BY <1>6, <1>9
  <2>2. EntriesComeOnce'
    BY <1>1, <1>6, <1>9, <2>1, CompletionComesOnce DEF Completes, Tasks, Resting
  <2>3. EntryIsOneLot'
    BY <1>1 DEF EntryIsOneLot, OneOfEach
  <2> QED BY <1>8, <2>2, <2>3 DEF OneLotInv
<1>10. CASE ~(isEntry /\ ev.status = "filled")
  <2>1. \A w \in Tasks : Completes(w)' => task'[w] = task[w]
    BY <1>6, <1>10 DEF Completes, Resting, Tasks
  <2>2. EntryIsOneLot' /\ (up' => EntriesComeOnce')
    BY <1>1, <2>1, NothingNew
  <2> QED BY <1>8, <2>2 DEF OneLotInv
<1> QED BY <1>9, <1>10

LEMMA CompletionKeepsOne ==
  ASSUME KindsOK, KindsOK', OneLotInv, NEW w \in Tasks, Complete(w)
  PROVE  OneLotInv'
<1> DEFINE e == task[w].e
           lot == [id |-> e.id, by |-> w]
<1>1. /\ up /\ Completes(w) /\ UNCHANGED <<orders, events, entry>> /\ EntryIsOneLot /\ EntriesComeOnce
  BY DEF Complete, Completes, OneLotInv, venues
<1>2. PICK next \in {Resting, [at |-> "closing"]} : Does(w, next)
  BY DEF Complete
<1>3. /\ task'[w] \in {Resting, [at |-> "closing"]} /\ \A v \in Tasks \ {w} : task'[v] = task[v]
  BY <1>2, DoesIs, EndingsAre
<1>4. task'[w] = Resting \/ task'[w].at = "closing"
  BY <1>3
<1>5. GoOn(orders, orders')
  BY <1>1, SameGoOn
<1>6. ~Completes(w)' /\ \A v \in Tasks : task'[v] = task[v] \/ ~Completes(v)'
  BY <1>3, <1>4 DEF Completes, Resting
<1>7. task["strategy"] # Resting \/ w # "strategy"
  BY <1>1 DEF Completes, Resting
<1>8. \/ task'["strategy"] = task["strategy"]
      \/ task'["strategy"] = Resting
      \/ task["strategy"] # Resting /\ task'["strategy"].at \in {"completing", "closing", "verifying"}
  BY <1>3, <1>4, <1>7 DEF Tasks
<1>9. CASE held' = held
  <2>1. file'.lots \in {held', file.lots}
    BY <1>9, WriteLots DEF Complete, Review, Persist
  <2> QED BY <1>1, <1>5, <1>6, <1>8, <1>9, <2>1, QuietlyOne
<1>10. CASE held' = held \cup {lot} /\ Persist
  <2>1. e.id \notin Ids(held) /\ file'.lots = held'
    BY <1>1, <1>10, WriteLots DEF EntriesComeOnce, Persist
  <2>2. Ids(held)' = Ids(held) \cup {e.id}
    <3>1. lot.id = e.id
      OBVIOUS
    <3> HIDE DEF lot
    <3>2. \A x : x \in Ids(held)' <=> x \in Ids(held) \/ x = lot.id
      BY <1>10 DEF Ids
    <3> QED BY <3>1, <3>2
  <2>3. EntryIsOneLot'
    BY <1>1, <1>10, <2>1 DEF EntryIsOneLot, OneOfEach, Ids
  <2>4. entry' # NoEntry => entry'.id \notin Ids(held)'
    BY <1>1, <2>2 DEF EntriesComeOnce
  <2>5. ASSUME NEW v \in Tasks, Completes(v)'
        PROVE  /\ task'[v].e.id \notin Ids(held)' /\ (entry' # NoEntry => entry'.id # task'[v].e.id)
    <3>1. v # w /\ task'[v] = task[v] /\ Completes(v)
      BY <1>3, <1>6, <2>5 DEF Completes
    <3>2. task[v].e.id # e.id
      BY <1>1, <3>1 DEF EntriesComeOnce, Tasks
    <3> QED BY <1>1, <2>2, <3>1, <3>2 DEF EntriesComeOnce
  <2>6. ~(Completes("strategy")' /\ Completes("callback")')
    BY <1>6 DEF Tasks
  <2>7. EntriesComeOnce'
    BY <2>4, <2>5, <2>6 DEF EntriesComeOnce
  <2>8. OpeningsArePending'
    BY <1>1, <1>5, <1>8, OpeningsGoOn DEF OneLotInv
  <2> QED BY <2>3, <2>7, <2>8 DEF OneLotInv
<1>11. held' = held \/ (held' = held \cup {lot} /\ Persist)
  BY DEF Complete
<1> QED BY <1>9, <1>10, <1>11

LEMMA ClosingKeepsOne ==
  ASSUME KindsOK, KindsOK', OneLotInv, NEW w \in Tasks, CloseBoth(w) \/ Verify(w)
  PROVE  OneLotInv'
<1>1. /\ up /\ task[w].at \in {"closing", "verifying"} /\ UNCHANGED <<events, held, entry>>
      /\ file'.lots \in {held', file.lots}
      /\ Does(w, [at |-> "verifying"]) \/ Does(w, Resting)
  BY WriteLots DEF CloseBoth, Verify, lotMemory, venues, Persist, Review
<1>2. /\ task'[w] \in {Resting, [at |-> "verifying"]} /\ \A v \in Tasks \ {w} : task'[v] = task[v]
  <2>1. PICK next \in {Resting, [at |-> "verifying"]} : Does(w, next)
    BY <1>1
  <2> QED BY <2>1, DoesIs, EndingsAre
<1>3. task'[w] = Resting \/ task'[w].at = "verifying"
  BY <1>2
<1>4. GoOn(orders, orders')
  <2>1. CASE UNCHANGED orders
    BY <2>1, SameGoOn
  <2>2. CASE \E v \in {"var", "lighter"} : orders' = Append(orders, Order(v, "close", 1))
    BY <2>2, AppendGoesOn, OrderKinds
  <2>3. CASE orders' = Append(Append(orders, Order("var", "close", 1)), Order("lighter", "close", 1))
    <3>1. /\ Order("var", "close", 1) \in OrderRecords /\ Order("var", "close", 1).purpose = "close"
          /\ Order("lighter", "close", 1) \in OrderRecords /\ Order("lighter", "close", 1).purpose = "close"
      BY OrderKinds
    <3>2. GoOn(orders, Append(Append(orders, Order("var", "close", 1)), Order("lighter", "close", 1)))
      BY <3>1, AppendGoesOn
    <3> QED BY <2>3, <3>2
  <2> QED BY <2>1, <2>2, <2>3 DEF CloseBoth, Verify, venues
<1>5. \A v \in Tasks : task'[v] = task[v] \/ ~Completes(v)'
  BY <1>2, <1>3 DEF Completes, Resting
<1>6. \/ task'["strategy"] = task["strategy"]
      \/ task'["strategy"] = Resting
      \/ task["strategy"] # Resting /\ task'["strategy"].at \in {"completing", "closing", "verifying"}
  BY <1>1, <1>2, <1>3 DEF Tasks, Resting
<1> QED BY <1>1, <1>4, <1>5, <1>6, QuietlyOne

LEMMA ExitKeepsOne ==
  ASSUME KindsOK, KindsOK', OneLotInv, ExitReplied \/ Rehedge \/ SettleExit
  PROVE  OneLotInv'
<1> DEFINE t == task["strategy"]
<1>1. /\ up /\ Leaves /\ UNCHANGED <<events, entry>>
  BY DEF ExitReplied, Rehedge, SettleExit, Leaves, lotMemory
<1>2. t \in Exits /\ t.qty \in Nat \ {0} /\ t.tries \in Nat /\ Len(orders) \in Nat
  BY <1>1, CourseIs, FieldsAre DEF Leaves, Tasks
<1>3. held' \subseteq held /\ file'.lots \in {held', file.lots}
  <2>1. CASE ExitReplied
    BY <2>1, WriteLots DEF ExitReplied, Review
  <2>2. CASE Rehedge
    BY <2>2 DEF Rehedge, lotMemory
  <2>3. CASE SettleExit
    BY <2>3, WriteLots DEF SettleExit, Persist, Review
  <2> QED BY <2>1, <2>2, <2>3
<1>4. GoOn(orders, orders')
  <2>1. CASE UNCHANGED orders
    BY <2>1, SameGoOn
  <2>2. CASE orders' = Append(orders, Order("lighter", "exit", t.qty))
    <3>1. Order("lighter", "exit", t.qty) \in OrderRecords /\ Order("lighter", "exit", t.qty).purpose = "exit"
      BY <1>2, OrderKinds
    <3> QED BY <2>2, <3>1, AppendGoesOn
  <2>3. CASE \E k \in Sent : orders' = WithStatus(k, "refused")
    BY <2>3, EndGoesOn DEF OrderStatuses
  <2> QED BY <2>1, <2>2, <2>3 DEF ExitReplied, Rehedge, SettleExit
<1>5. \E next \in {Resting} \cup Exits : Strategy(next)
  <2>1. /\ [t EXCEPT !.at = "hedging"] \in Exits /\ [t EXCEPT !.at = "recovering"] \in Exits
        /\ [t EXCEPT !.tries = @ + 1] \in Exits
        /\ [t EXCEPT !.at = "hedging", !.hedge = Len(orders) + 1, !.tries = 0] \in Exits
        /\ [t EXCEPT !.hedge = Len(orders) + 1, !.tries = @ + 1] \in Exits
    <3>1. Len(orders) + 1 \in Nat \ {0} /\ t.tries + 1 \in Nat /\ t.hedge \in Nat \ {0} /\ t.tries \in Nat
      BY <1>2 DEF Exits
    <3>2. \A at \in {"leaving", "hedging", "recovering"}, h \in Nat \ {0}, n \in Nat :
            [t EXCEPT !.at = at, !.hedge = h, !.tries = n] \in Exits
      BY <1>2 DEF Exits
    <3>3. [t EXCEPT !.at = "hedging"] \in Exits /\ [t EXCEPT !.at = "recovering"] \in Exits
      BY <1>2 DEF Exits
    <3>4. [t EXCEPT !.tries = @ + 1] \in Exits
      BY <1>2, <3>1 DEF Exits
    <3>5. [t EXCEPT !.hedge = Len(orders) + 1, !.tries = @ + 1] \in Exits
      BY <1>2, <3>1 DEF Exits
    <3> QED BY <3>1, <3>2, <3>3, <3>4, <3>5
  <2>2. ExitReplied => \E next \in {Resting, [t EXCEPT !.at = "hedging"], [t EXCEPT !.at = "recovering"]} : Strategy(next)
    BY DEF ExitReplied
  <2>3. Rehedge => \E next \in {[t EXCEPT !.at = "hedging", !.hedge = Len(orders) + 1, !.tries = 0], [t EXCEPT !.tries = @ + 1]} : Strategy(next)
    BY DEF Rehedge
  <2>4. SettleExit => \E next \in {Resting, [t EXCEPT !.hedge = Len(orders) + 1, !.tries = @ + 1]} : Strategy(next)
    BY DEF SettleExit
  <2> QED BY <2>1, <2>2, <2>3, <2>4
<1>6. PICK next \in {Resting} \cup Exits : Strategy(next)
  BY <1>5
<1>7. task'["strategy"] = next /\ task'["callback"] = task["callback"]
  BY <1>6, DoesIs, EndingsAre DEF Strategy, Tasks
<1>8. task'["strategy"] = Resting \/ task'["strategy"].at \in {"leaving", "hedging", "recovering"}
  BY <1>7 DEF Exits
<1>9. \A v \in Tasks : task'[v] = task[v] \/ ~Completes(v)'
  BY <1>7, <1>8 DEF Completes, Resting, Tasks
<1> QED BY <1>1, <1>3, <1>4, <1>8, <1>9, QuietlyOne

\* What is taken back is in flight while nothing is pending.
LEMMA UnwindKeepsOne ==
  ASSUME KindsOK, KindsOK', OneLotInv, Unwind
  PROVE  OneLotInv'
<1> DEFINE t == task["strategy"]
           o == Order("var", "unwind", t.qty)
<1>1. /\ up /\ Leaves /\ UNCHANGED <<events, held, entry>> /\ EntryIsOneLot /\ EntriesComeOnce /\ OpeningsArePending
      /\ file'.lots \in {held', file.lots} /\ Does("strategy", Resting)
  BY WriteLots DEF Unwind, Leaves, OneLotInv, Strategy, Review
<1>2. t \in Exits /\ t.qty \in Nat \ {0} /\ entry = NoEntry
  BY <1>1, CourseIs DEF Leaves, Tasks, OpeningsArePending
<1>3. task'["strategy"] = Resting /\ task'["callback"] = task["callback"]
  BY <1>1, DoesIs, EndingsAre DEF Tasks
<1>4. \A v \in Tasks : task'[v] = task[v] \/ ~Completes(v)'
  BY <1>3 DEF Completes, Resting, Tasks
<1>5. CASE UNCHANGED orders
  <2>1. GoOn(orders, orders')
    BY <1>5, SameGoOn
  <2> QED BY <1>1, <1>3, <1>4, <2>1, QuietlyOne
<1>6. CASE orders' = Append(orders, o)
  <2>1. /\ o \in OrderRecords /\ o.venue = "var" /\ o.purpose = "unwind"
    BY <1>2, OrderKinds
  <2>2. /\ DOMAIN orders' = DOMAIN orders \cup {Len(orders) + 1} /\ orders'[Len(orders) + 1] = o
        /\ \A k \in DOMAIN orders : orders'[k] = orders[k]
    BY <1>6, <2>1, FieldsAre, AppendIs
  <2>3. \A k \in Sent' : k \in Sent \/ orders'[k] = o
    BY <2>2 DEF Sent
  <2>4. \A k \in Sent' : ~IsOrder(orders', k, "var", "entry")
    BY <1>1, <1>2, <2>1, <2>2, <2>3 DEF OpeningsArePending, IsOrder, Sent
  <2>5. EntryIsOneLot' /\ (up' => EntriesComeOnce')
    BY <1>1, <1>4, NothingNew
  <2>6. t.at \notin {"looking", "entering"} /\ ~Leaves' /\ task'["strategy"].at \notin {"looking", "entering"}
    BY <1>1, <1>3 DEF Leaves, Resting
  <2>7. OpeningsArePending'
    BY <1>1, <1>2, <1>3, <2>4, <2>6 DEF OpeningsArePending
  <2> QED BY <2>5, <2>7 DEF OneLotInv
<1> QED BY <1>5, <1>6 DEF Unwind

\* What the strategy begins, it begins at rest: nothing opens, and nothing is told of.
LEMMA TickKeepsOne ==
  ASSUME FaultsAssumption, KindsOK, KindsOK', OneLotInv,
         (\E ids \in SUBSET Ids(held) : BeginExit(ids)) \/ Lookup
  PROVE  OneLotInv'
<1>1. /\ up /\ task["strategy"] = Resting /\ events = <<>> /\ \A k \in Sent : orders[k].purpose # "unwind"
  BY PromptIs DEF BeginExit, Lookup, Running
<1>2. /\ EntryIsOneLot /\ EntriesComeOnce /\ OpeningsArePending /\ UNCHANGED <<entry, held, events>>
      /\ file'.lots \in {held', file.lots}
  BY <1>1, WriteLots DEF OneLotInv, BeginExit, Lookup, Persist, venues, lotMemory
<1>3. CASE \E ids \in SUBSET Ids(held) : BeginExit(ids)
  <2>1. PICK ids \in SUBSET Ids(held) : BeginExit(ids)
    BY <1>3
  <2> DEFINE q == Quantity(ids)
             next == [at |-> "leaving", ids |-> ids, qty |-> q, var |-> Len(orders) + 1,
                      hedge |-> Len(orders) + 2, tries |-> 0]
  <2>2. /\ q \in Nat \ {0} /\ ids \in SUBSET (Nat \ {0}) /\ Len(orders) \in Nat
    <3>1. ids # {} /\ ids \subseteq Ids(held)
      BY <2>1 DEF BeginExit
    <3>2. Ids(held) \subseteq Nat \ {0}
      BY FieldsAre DEF Ids, LotRecords
    <3> QED BY <3>1, <3>2, QuantityIs, FieldsAre
  <2>3. entry = NoEntry /\ Does("strategy", next)
        /\ orders' = Append(Append(orders, Order("var", "exit", q)), Order("lighter", "exit", q))
    BY <2>1 DEF BeginExit, Strategy
  <2> HIDE DEF q
  <2>4. next \in Exits
    BY <2>2 DEF Exits
  <2>5. task'["strategy"] = next /\ task'["callback"] = task["callback"]
    BY <2>3, <2>4, DoesIs, EndingsAre DEF Tasks
  <2>6. task'["strategy"].at = "leaving"
    BY <2>5
  <2>7. \A v \in Tasks : task'[v] = task[v] \/ ~Completes(v)'
    BY <2>5, <2>6 DEF Completes, Tasks
  <2>8. EntryIsOneLot' /\ (up' => EntriesComeOnce')
    BY <1>1, <1>2, <2>7, NothingNew
  <2>9. GoOn(orders, orders')
    <3>1. /\ Order("var", "exit", q) \in OrderRecords /\ Order("var", "exit", q).purpose = "exit"
          /\ Order("lighter", "exit", q) \in OrderRecords /\ Order("lighter", "exit", q).purpose = "exit"
      BY <2>2, OrderKinds
    <3>2. GoOn(orders, Append(Append(orders, Order("var", "exit", q)), Order("lighter", "exit", q)))
      BY <3>1, AppendGoesOn
    <3> QED BY <2>3, <3>2
  <2>10. \A k \in Sent' : /\ IsOrder(orders', k, "var", "entry") => k \in Sent /\ IsOrder(orders, k, "var", "entry")
                          /\ orders'[k].purpose = "unwind" => k \in Sent /\ orders[k].purpose = "unwind"
    BY <2>9 DEF GoOn, Sent, IsOrder
  <2>11. \A k \in Sent' : ~IsOrder(orders', k, "var", "entry") /\ orders'[k].purpose # "unwind"
    BY <1>1, <1>2, <2>3, <2>10 DEF OpeningsArePending
  <2>12. OpeningsArePending'
    BY <1>1, <1>2, <2>3, <2>6, <2>11 DEF OpeningsArePending
  <2> QED BY <2>8, <2>12 DEF OneLotInv
<1>4. CASE Lookup
  <2> DEFINE a == orders[entry.var].status
  <2>1. /\ entry # NoEntry /\ entry \in Intents /\ Does("strategy", [at |-> "looking", e |-> entry, answer |-> a])
        /\ UNCHANGED <<orders, file>>
    BY <1>4 DEF Lookup, Strategy, KindsOK, venues
  <2>2. entry.var \in DOMAIN orders
    BY <1>2, <2>1 DEF OpeningsArePending, IsOrder
  <2>3. a \in OrderStatuses
    BY <2>2, OrderIs, FieldsAre
  <2>4. task'["strategy"] = [at |-> "looking", e |-> entry, answer |-> a] /\ task'["callback"] = task["callback"]
    BY <2>1, <2>3, DoesIs, EndingsAre DEF Tasks
  <2>5. /\ task'["strategy"].at = "looking" /\ task'["strategy"].e = entry /\ task'["strategy"].answer = a
        /\ ~Leaves'
    BY <2>4 DEF Leaves
  <2>6. \A v \in Tasks : task'[v] = task[v] \/ ~Completes(v)'
    BY <2>4, <2>5 DEF Completes, Tasks
  <2>7. EntryIsOneLot' /\ (up' => EntriesComeOnce')
    BY <1>1, <1>2, <2>6, NothingNew
  <2>8. \A e : EntryAnswered(e)' <=> EntryAnswered(e)
    BY <2>1 DEF EntryAnswered
  <2>9. Sent' = Sent /\ \A k : IsOrder(orders', k, "var", "entry") <=> IsOrder(orders, k, "var", "entry")
    BY <2>1 DEF Sent
  <2>10. OpeningsArePending'
    BY <1>1, <1>2, <2>1, <2>5, <2>8, <2>9 DEF OpeningsArePending, EntryAnswered
  <2> QED BY <2>7, <2>10 DEF OneLotInv
<1> QED BY <1>3, <1>4

\* A new intent has an id that nothing had, and is what opens.
LEMMA IntentKeepsOne ==
  ASSUME FaultsAssumption, KindsOK, KindsOK', EntriesWereMade, OneLotInv, ProposeEntry
  PROVE  OneLotInv'
<1> DEFINE n == Len(orders)
           a == Order("var", "entry", 1)
           b == Order("lighter", "entry", 1)
           next == [id |-> made + 1, var |-> n + 1, lighter |-> n + 2]
<1>1. /\ up /\ task["strategy"] = Resting /\ events = <<>> /\ \A k \in Sent : orders[k].purpose # "unwind"
  BY PromptIs DEF ProposeEntry, Running
<1>2. /\ EntryIsOneLot /\ EntriesComeOnce /\ OpeningsArePending /\ entry = NoEntry /\ UNCHANGED <<held, events>>
      /\ file'.lots = held' /\ entry' = next /\ orders' = Append(Append(orders, a), b)
      /\ Does("strategy", [at |-> "entering", e |-> next])
  BY <1>1, WriteLots DEF OneLotInv, ProposeEntry, Persist, Strategy
<1>3. n \in Nat /\ made \in Nat /\ next \in Intents
  BY FieldsAre DEF Intents
<1>4. next.id = made + 1 /\ next.var = n + 1
  OBVIOUS
<1>5. task'["strategy"] = [at |-> "entering", e |-> next] /\ task'["callback"] = task["callback"]
  BY <1>2, <1>3, DoesIs, EndingsAre DEF Tasks
<1>6. task'["strategy"].at = "entering" /\ task'["strategy"].e = next
  BY <1>5
<1> HIDE DEF next
<1>7. /\ a \in OrderRecords /\ b \in OrderRecords /\ a.venue = "var" /\ a.purpose = "entry"
      /\ b.venue = "lighter" /\ b.purpose = "entry"
  BY OrderKinds
<1> HIDE DEF a, b
<1>8. /\ DOMAIN orders' = DOMAIN orders \cup {n + 1, n + 2}
      /\ orders'[n + 1] = a /\ orders'[n + 2] = b /\ \A k \in DOMAIN orders : orders'[k] = orders[k]
  <2>1. /\ Append(orders, a) \in Seq(OrderRecords) /\ DOMAIN orders = 1..n /\ DOMAIN Append(orders, a) = 1..(n + 1)
        /\ Len(Append(orders, a)) = n + 1 /\ Append(orders, a)[n + 1] = a
        /\ \A k \in DOMAIN orders : Append(orders, a)[k] = orders[k]
    BY <1>7, FieldsAre, AppendIs
  <2>2. /\ DOMAIN orders' = 1..(n + 1 + 1) /\ orders'[n + 1 + 1] = b
        /\ \A k \in 1..(n + 1) : orders'[k] = Append(orders, a)[k]
    BY <1>2, <1>7, <2>1, AppendIs
  <2>3. n + 1 + 1 = n + 2 /\ 1..(n + 2) = 1..n \cup {n + 1, n + 2} /\ n + 1 \in 1..(n + 1) /\ 1..n \subseteq 1..(n + 1)
    BY <1>3
  <2> QED BY <2>1, <2>2, <2>3
<1>9. \A v \in Tasks : Completes(v)' => v = "callback" /\ Completes(v) /\ task'[v] = task[v]
  BY <1>5, <1>6 DEF Completes, Tasks
<1>10. EntryIsOneLot'
  BY <1>2 DEF EntryIsOneLot, OneOfEach
<1>11. EntriesComeOnce'
  <2>1. next.id \notin Ids(held)'
    <3>1. \A l \in held : l.id <= made /\ l.id \in Nat
      BY FieldsAre DEF EntriesWereMade, LotRecords
    <3> QED BY <1>2, <1>3, <1>4, <3>1 DEF Ids
  <2>2. ASSUME NEW v \in Tasks, Completes(v)' PROVE task'[v].e.id \notin Ids(held)' /\ next.id # task'[v].e.id
    <3>1. Completes(v) /\ task'[v] = task[v] /\ task[v].e.id \in Nat /\ task[v].e.id <= made
      BY <1>9, <2>2, CourseIs DEF EntriesWereMade, Completes
    <3>2. task[v].e.id \notin Ids(held) /\ Ids(held)' = Ids(held)
      BY <1>2, <3>1 DEF EntriesComeOnce, Ids
    <3> QED BY <1>3, <1>4, <3>1, <3>2
  <2>3. ~Completes("strategy")'
    BY <1>9 DEF Tasks
  <2> QED BY <1>2, <2>1, <2>2, <2>3 DEF EntriesComeOnce
<1>12. IsOrder(orders', n + 1, "var", "entry")
  BY <1>7, <1>8 DEF IsOrder
<1>13. ASSUME NEW k \in Sent'
       PROVE  /\ IsOrder(orders', k, "var", "entry") => k = n + 1
              /\ orders'[k].purpose # "unwind"
  <2>1. CASE k \in Sent
    BY <1>1, <1>2, <1>8, <2>1 DEF OpeningsArePending, IsOrder, Sent
  <2>2. CASE k \notin Sent
    BY <1>3, <1>7, <1>8, <2>2 DEF IsOrder, Sent
  <2> QED BY <2>1, <2>2
<1>14. next # NoEntry /\ ~Leaves'
  BY <1>3, <1>4, <1>6 DEF NoEntry, Leaves
<1>15. OpeningsArePending'
  <2>1. DOMAIN events' = {}
    BY <1>1, <1>2
  <2>2. \A k \in Sent' : IsOrder(orders', k, "var", "entry") => entry' # NoEntry /\ k = entry'.var
    BY <1>2, <1>4, <1>13, <1>14
  <2>3. IsOrder(orders', entry'.var, "var", "entry") /\ IsOrder(orders', task'["strategy"].e.var, "var", "entry")
    BY <1>2, <1>4, <1>6, <1>12
  <2> QED BY <1>6, <1>13, <1>14, <2>1, <2>2, <2>3 DEF OpeningsArePending
<1> QED BY <1>10, <1>11, <1>15 DEF OneLotInv

\* An order that opens on Variational ends, and the feed may tell of it.
LEMMA VenueKeepsOne ==
  ASSUME KindsOK, KindsOK', OneLotInv, NEW k \in DOMAIN orders, OrderFills(k) \/ OrderFails(k)
  PROVE  OneLotInv'
<1> DEFINE o == orders[k]
           t == task["strategy"]
<1>1. k \in Sent /\ UNCHANGED <<up, held, entry, task, file>>
  BY DEF OrderFills, OrderFails, lotMemory
<1>2. PICK s \in OrderStatuses \ {"sent"} : orders' = WithStatus(k, s)
  BY DEF OrderFills, OrderFails, OrderStatuses
<1>3. GoOn(orders, orders') /\ orders'[k].status # "sent" /\ Sent' = Sent \ {k}
  BY <1>1, <1>2, EndGoesOn, Ended
<1>4. \A v \in Tasks : task'[v] = task[v]
  BY <1>1
<1>5. EntryIsOneLot' /\ (up' => EntriesComeOnce')
  BY <1>1, <1>4, NothingNew DEF OneLotInv
<1>6. CASE ~up
  BY <1>1, <1>5, <1>6 DEF OneLotInv
<1>7. CASE up
  <2>1. OpeningsArePending
    BY <1>7 DEF OneLotInv
  <2>2. CASE events' = events
    <3>1. OpeningsArePending'
      BY <1>1, <1>3, <2>1, <2>2, OpeningsGoOn
    <3> QED BY <1>5, <3>1 DEF OneLotInv
  <2>3. CASE events' # events
    <3>1. PICK ev \in EventRecords : events' = Append(events, ev) /\ o.venue = "var" /\ (ev.opens <=> Opens(o))
      <4>1. o.qty \in Nat \ {0} /\ Opens(o) \in BOOLEAN
        BY <1>1, PositionIs DEF Opens
      <4>2. ASSUME NEW x \in {"filled", "rejected"}
            PROVE  /\ [opens |-> Opens(o), qty |-> o.qty, status |-> x] \in EventRecords
                   /\ [opens |-> Opens(o), qty |-> o.qty, status |-> x].opens = Opens(o)
        BY <4>1 DEF EventRecords
      <4>3. PICK x \in {"filled", "rejected"} : o.venue = "var" /\ events' = Append(events, [opens |-> Opens(o), qty |-> o.qty, status |-> x])
        BY <2>3 DEF OrderFills, OrderFails, FeedTells
      <4> QED BY <4>2, <4>3
    <3>2. /\ DOMAIN events' = DOMAIN events \cup {Len(events) + 1} /\ events'[Len(events) + 1] = ev
          /\ \A n \in DOMAIN events : events'[n] = events[n]
      BY <3>1, FieldsAre
    <3>3. CASE ~ev.opens
      <4>1. \A n \in DOMAIN events' : events'[n].opens => n \in DOMAIN events /\ events'[n] = events[n]
        BY <3>2, <3>3
      <4>2. \A e : IsOrder(orders, e.var, "var", "entry") /\ EntryAnswered(e) => IsOrder(orders', e.var, "var", "entry") /\ EntryAnswered(e)'
        BY <1>3 DEF GoOn, IsOrder, EntryAnswered
      <4>3. \A j : IsOrder(orders, j, "var", "entry") => IsOrder(orders', j, "var", "entry")
        BY <1>3 DEF GoOn, IsOrder
      <4>4. \A j \in Sent' : /\ j \in Sent /\ (IsOrder(orders', j, "var", "entry") => IsOrder(orders, j, "var", "entry"))
                             /\ orders'[j].purpose = orders[j].purpose
        BY <1>3 DEF GoOn, IsOrder, Sent
      <4>5. Leaves' <=> Leaves
        BY <1>1 DEF Leaves
      <4>6. OpeningsArePending'
        <5>1. t.at = "looking" => t.e # NoEntry
          BY CourseIs DEF Tasks, NoEntry
        <5>2. entry # NoEntry => IsOrder(orders, entry.var, "var", "entry")
          BY <2>1 DEF OpeningsArePending
        <5>3. entry # NoEntry /\ EntryAnswered(entry) => EntryAnswered(entry)'
          BY <1>1, <4>2, <5>2 DEF EntryAnswered
        <5>4. \A n \in DOMAIN events' : events'[n].opens /\ entry # NoEntry => EntryAnswered(entry)
          BY <2>1, <4>1 DEF OpeningsArePending
        <5>5. t.at = "looking" /\ t.answer = "filled" => entry = t.e /\ \A n \in DOMAIN events' : ~events'[n].opens
          BY <2>1, <4>1 DEF OpeningsArePending
        <5> QED BY <1>1, <2>1, <4>3, <4>4, <4>5, <5>1, <5>2, <5>3, <5>4, <5>5 DEF OpeningsArePending
      <4> QED BY <1>5, <4>6 DEF OneLotInv
    <3>4. CASE ev.opens
      <4>1. o.purpose \in {"entry", "unwind"} /\ (o.purpose = "entry" => IsOrder(orders, k, "var", "entry"))
        BY <3>1, <3>4 DEF Opens, IsOrder
      <4>2. \/ entry # NoEntry /\ k = entry.var
            \/ entry = NoEntry /\ t = Resting
        BY <1>1, <2>1, <4>1 DEF OpeningsArePending
      <4>3. entry # NoEntry => EntryAnswered(entry)'
        BY <1>1, <1>3, <4>2 DEF EntryAnswered
      <4>4. ~(t.at = "looking" /\ t.answer = "filled")
        <5>1. Resting.at # "looking"
          BY DEF Resting
        <5>2. k = entry.var => ~EntryAnswered(entry)
          BY <1>1 DEF EntryAnswered, Sent
        <5>3. t.at = "looking" /\ t.answer = "filled" => entry = t.e /\ EntryAnswered(entry)
          BY <2>1 DEF OpeningsArePending
        <5> QED BY <4>2, <5>1, <5>2, <5>3
      <4>5. \A j : IsOrder(orders, j, "var", "entry") => IsOrder(orders', j, "var", "entry")
        BY <1>3 DEF GoOn, IsOrder
      <4>6. \A j \in Sent' : /\ j \in Sent /\ (IsOrder(orders', j, "var", "entry") => IsOrder(orders, j, "var", "entry"))
                             /\ orders'[j].purpose = orders[j].purpose
        BY <1>3 DEF GoOn, IsOrder, Sent
      <4>7. t.at = "looking" => t.e # NoEntry
        BY CourseIs DEF Tasks, NoEntry
      <4>8. Leaves' <=> Leaves
        BY <1>1 DEF Leaves
      <4>9. OpeningsArePending'
        BY <1>1, <2>1, <4>3, <4>4, <4>5, <4>6, <4>7, <4>8 DEF OpeningsArePending
      <4> QED BY <1>5, <4>9 DEF OneLotInv
    <3> QED BY <3>3, <3>4
  <2> QED BY <2>2, <2>3
<1> QED BY <1>6, <1>7

\* A start takes over the lots of the file, and nothing else.
LEMMA StartKeepsOne ==
  ASSUME KindsOK, KindsOK', DownIsEmpty, DownIsEmpty', OneLotInv,
         CloseRuntime \/ InventoryDies \/ StartRuntime \/ OperatorReset
  PROVE  OneLotInv'
<1>1. \A w \in Tasks : task'[w] = Resting /\ ~Completes(w)'
  <2>1. task' = [w \in Tasks |-> Resting]
    BY DEF CloseRuntime, InventoryDies, Gone, StartRuntime, OperatorReset, DownIsEmpty
  <2> QED BY <2>1 DEF Completes, Resting
<1>2. entry' = NoEntry /\ events' = <<>>
  BY DEF CloseRuntime, InventoryDies, Gone, StartRuntime, OperatorReset, DownIsEmpty, lotMemory
<1>3. EntryIsOneLot'
  <2>1. CASE CloseRuntime
    <3>1. held' = {} /\ file'.lots \in {held, file.lots}
      BY <2>1 DEF CloseRuntime, Gone
    <3> QED BY <3>1 DEF OneLotInv, EntryIsOneLot, OneOfEach
  <2>2. CASE InventoryDies
    <3>1. held' = {} /\ file'.lots = file.lots
      BY <2>2 DEF InventoryDies, Gone
    <3> QED BY <3>1 DEF OneLotInv, EntryIsOneLot, OneOfEach
  <2>3. CASE StartRuntime
    <3>1. held' \in {{}, file.lots} /\ file'.lots = file.lots
      BY <2>3 DEF StartRuntime, KindsOK, Files
    <3> QED BY <3>1 DEF OneLotInv, EntryIsOneLot, OneOfEach
  <2>4. CASE OperatorReset
    <3>1. held' = held /\ file'.lots = {}
      BY <2>4 DEF OperatorReset, lotMemory
    <3> QED BY <3>1 DEF OneLotInv, EntryIsOneLot, OneOfEach
  <2> QED BY <2>1, <2>2, <2>3, <2>4
<1>4. EntriesComeOnce'
  BY <1>1, <1>2 DEF EntriesComeOnce, Tasks
<1>5. up' => Sent' = {}
  <2>1. ~StartRuntime => ~up'
    BY DEF CloseRuntime, InventoryDies, Gone, OperatorReset
  <2>2. StartRuntime => orders' = <<>>
    BY DEF StartRuntime
  <2>3. orders' = <<>> => DOMAIN orders' = {}
    OBVIOUS
  <2> QED BY <2>1, <2>2, <2>3 DEF Sent
<1>6. up' => OpeningsArePending'
  <2>1. task'["strategy"].at = "idle"
    BY <1>1 DEF Tasks, Resting
  <2>2. ~Leaves'
    BY <2>1 DEF Leaves
  <2> QED BY <1>2, <1>5, <2>1, <2>2 DEF OpeningsArePending
<1> QED BY <1>3, <1>4, <1>6 DEF OneLotInv

\* One lot of each entry, in every step.
LEMMA OneLotNext ==
  ASSUME FaultsAssumption, InventoryInv, KindsOK', DownIsEmpty', OneLotInv, [InventoryNext]_inventoryVars
  PROVE  OneLotInv'
<1>1. KindsOK /\ EntriesWereMade /\ DownIsEmpty
  BY DEF InventoryInv
<1>2. CASE UNCHANGED inventoryVars
  <2>1. UNCHANGED <<orders, events, up, held, entry, task, file>>
    BY <1>2 DEF inventoryVars, venues, lotMemory
  <2>2. CASE up
    <3>1. GoOn(orders, orders')
      BY <1>1, <2>1, SameGoOn
    <3> QED BY <1>1, <2>1, <2>2, <3>1, QuietlyOne
  <2>3. CASE ~up
    BY <2>1, <2>3 DEF OneLotInv, EntryIsOneLot, OneOfEach
  <2> QED BY <2>2, <2>3
<1>3. CASE Venue
  BY <1>1, <1>3, VenueKeepsOne DEF Venue
<1>4. CASE EntryReplied \/ LookupAnswered \/ TakeEvent
  BY <1>1, <1>4, EntryReplyKeepsOne, AnswerKeepsOne, NewsKeepsOne
<1>5. ASSUME NEW w \in Tasks, Complete(w) \/ CloseBoth(w) \/ Verify(w) PROVE OneLotInv'
  BY <1>1, <1>5, CompletionKeepsOne, ClosingKeepsOne
<1>6. CASE ExitReplied \/ Rehedge \/ SettleExit \/ Unwind
  BY <1>1, <1>6, ExitKeepsOne, UnwindKeepsOne
<1>7. CASE Flush \/ Drain \/ AskDrain
  BY <1>1, <1>7, FlushKeepsOne
<1>8. CASE Lookup \/ (\E ids \in SUBSET Ids(held) : BeginExit(ids)) \/ ProposeEntry
  BY <1>1, <1>8, TickKeepsOne, IntentKeepsOne
<1>9. CASE CloseRuntime \/ InventoryDies \/ StartRuntime \/ OperatorReset
  BY <1>1, <1>9, StartKeepsOne
<1> QED BY <1>2, <1>3, <1>4, <1>5, <1>6, <1>7, <1>8, <1>9
        DEF InventoryNext, Strategic, Callback, Tasks

LEMMA OneLotStarts == InventoryInit => OneLotInv
<1> SUFFICES ASSUME InventoryInit PROVE OneLotInv
  OBVIOUS
<1>1. ~up /\ held = {} /\ file.lots = {}
  BY DEF InventoryInit
<1> QED BY <1>1 DEF OneLotInv, EntryIsOneLot, OneOfEach

\* An entry becomes one lot, in memory and in the file, although the strategy's lookup
\* and the callback of the trade feed may both learn of its fill, and whatever else
\* goes wrong: also while a runtime stops for a review, and over restarts.
THEOREM EntryBecomesOneLot ==
  ASSUME FaultsAssumption
  PROVE  InventorySpec => []EntryIsOneLot
<1>1. InventoryInit => InventoryInv /\ OneLotInv
  BY InventoryStarts, OneLotStarts
<1>2. InventoryInv /\ OneLotInv /\ [InventoryNext]_inventoryVars => InventoryInv' /\ OneLotInv'
  <2> SUFFICES ASSUME InventoryInv, OneLotInv, [InventoryNext]_inventoryVars PROVE InventoryInv' /\ OneLotInv'
    OBVIOUS
  <2>1. InventoryInv'
    BY InventoryStays
  <2>2. KindsOK' /\ DownIsEmpty'
    BY <2>1 DEF InventoryInv
  <2> QED BY <2>1, <2>2, OneLotNext
<1>3. OneLotInv => EntryIsOneLot
  BY DEF OneLotInv
<1> QED BY <1>1, <1>2, <1>3, PTL DEF InventorySpec

-----------------------------------------------------------------------------
(* Types. Quantities are bounded since an entry is one lot.                *)

\* Lots of different entries are as many as the entries made, at most.
LEMMA LotsAreBounded ==
  ASSUME KindsOK, EntriesWereMade, EntryIsOneLot
  PROVE  Cardinality(held) <= made
<1> DEFINE f == [l \in held |-> l.id]
<1>1. made \in Nat /\ IsFiniteSet(held) /\ held \subseteq LotRecords
  BY FieldsAre
<1>2. IsFiniteSet(1..made) /\ Cardinality(1..made) = made
  BY <1>1, FS_Interval
<1>3. \A l \in held : l.id \in 1..made
  BY <1>1 DEF EntriesWereMade, LotRecords
<1>4. f \in Injection(held, 1..made)
  BY <1>3 DEF Injection, IsInjective, EntryIsOneLot, OneOfEach
<1> HIDE DEF f
<1>5. \E g : g \in Injection(held, 1..made)
  BY <1>4
<1> QED BY <1>1, <1>2, <1>5, FS_Injection

CountersBounded ==
  /\ made <= MaxIntents /\ exit \subseteq 1..made /\ known \subseteq 1..made
  /\ \A k \in DOMAIN orders : orders[k].qty <= MaxIntents
  /\ Leaves => task["strategy"].qty <= MaxIntents
  /\ \A w \in Tasks : task[w].at = "closing" => made # 0

\* What is sent, and what an exit waits for, comes from one unit or from lots.
LEMMA OrdersBounded ==
  ASSUME MaxIntents \in Nat, KindsOK, KindsOK', EntriesWereMade, EntryIsOneLot, CountersBounded, InventoryNext
  PROVE  \A k \in DOMAIN orders' : orders'[k].qty <= MaxIntents
<1> DEFINE Small(os) == \A k \in DOMAIN os : os[k].qty <= MaxIntents
           t == task["strategy"]
<1>0. /\ made \in Nat /\ orders \in Seq(OrderRecords) /\ Small(orders)
  BY FieldsAre DEF CountersBounded
<1>1. ASSUME NEW os \in Seq(OrderRecords), Small(os), NEW v \in {"var", "lighter"},
             NEW p \in {"entry", "exit", "unwind", "close"}, NEW q \in Nat \ {0}, q <= MaxIntents
      PROVE  Append(os, Order(v, p, q)) \in Seq(OrderRecords) /\ Small(Append(os, Order(v, p, q)))
  <2>1. Order(v, p, q) \in OrderRecords /\ Order(v, p, q).qty = q
    BY OrderKinds
  <2>2. \A k \in DOMAIN Append(os, Order(v, p, q)) : k \in DOMAIN os \/ k = Len(os) + 1
    BY <2>1, AppendIs
  <2> QED BY <1>1, <2>1, <2>2, AppendIs
<1>2. ASSUME NEW k \in DOMAIN orders, NEW s \in OrderStatuses, orders' = WithStatus(k, s) PROVE Small(orders')
  BY <1>0, <1>2, DropIs DEF WithStatus
<1> HIDE DEF Small
<1>3. Venue => Small(orders')
  BY <1>2 DEF Venue, OrderFills, OrderFails, OrderStatuses
<1>4. EntryReplied => Small(orders')
  BY <1>0, <1>2 DEF EntryReplied, Sent, OrderStatuses
<1>5. ASSUME ProposeEntry PROVE Small(orders')
  <2>1. 1 <= MaxIntents /\ 1 \in Nat \ {0}
    BY <1>0, <1>5 DEF ProposeEntry
  <2>2. /\ Append(orders, Order("var", "entry", 1)) \in Seq(OrderRecords)
        /\ Small(Append(orders, Order("var", "entry", 1)))
    BY <1>0, <1>1, <2>1
  <2>3. Small(Append(Append(orders, Order("var", "entry", 1)), Order("lighter", "entry", 1)))
    BY <1>1, <2>1, <2>2
  <2> QED BY <1>5, <2>3 DEF ProposeEntry
<1>6. ASSUME NEW w \in Tasks, CloseBoth(w) PROVE Small(orders')
  <2>1. 1 <= MaxIntents /\ 1 \in Nat \ {0}
    BY <1>0, <1>6 DEF CloseBoth, CountersBounded
  <2>2. \A v \in {"var", "lighter"} : /\ Append(orders, Order(v, "close", 1)) \in Seq(OrderRecords)
                                      /\ Small(Append(orders, Order(v, "close", 1)))
    BY <1>0, <1>1, <2>1
  <2>3. Small(Append(Append(orders, Order("var", "close", 1)), Order("lighter", "close", 1)))
    BY <1>1, <2>1, <2>2
  <2> QED BY <1>6, <2>2, <2>3 DEF CloseBoth
<1>7. ASSUME NEW ids \in SUBSET Ids(held), BeginExit(ids) PROVE Small(orders')
  <2> DEFINE q == Quantity(ids)
  <2>1. q \in Nat \ {0} /\ q <= Cardinality(held)
    BY <1>7, QuantityIs DEF BeginExit
  <2>2. q <= MaxIntents
    BY <1>0, <2>1, LotsAreBounded, FieldsAre DEF CountersBounded
  <2>3. orders' = Append(Append(orders, Order("var", "exit", q)), Order("lighter", "exit", q))
    BY <1>7 DEF BeginExit
  <2> HIDE DEF q
  <2>4. Append(orders, Order("var", "exit", q)) \in Seq(OrderRecords) /\ Small(Append(orders, Order("var", "exit", q)))
    BY <1>0, <1>1, <2>1, <2>2
  <2>5. Small(Append(Append(orders, Order("var", "exit", q)), Order("lighter", "exit", q)))
    BY <1>1, <2>1, <2>2, <2>4
  <2> QED BY <2>3, <2>5
<1>8. ASSUME ExitReplied \/ Rehedge \/ SettleExit \/ Unwind PROVE Small(orders')
  <2>1. Leaves
    BY <1>8 DEF ExitReplied, Rehedge, SettleExit, Unwind, Leaves
  <2>2. t.qty \in Nat \ {0} /\ t.qty <= MaxIntents
    BY <2>1, CourseIs DEF Leaves, CountersBounded, Tasks
  <2>3. Small(Append(orders, Order("lighter", "exit", t.qty))) /\ Small(Append(orders, Order("var", "unwind", t.qty)))
    BY <1>0, <1>1, <2>2
  <2>4. \/ UNCHANGED orders \/ \E k \in Sent : orders' = WithStatus(k, "refused")
        \/ orders' = Append(orders, Order("lighter", "exit", t.qty))
        \/ orders' = Append(orders, Order("var", "unwind", t.qty))
    BY <1>8 DEF ExitReplied, Rehedge, SettleExit, Unwind
  <2> QED BY <1>0, <1>2, <2>3, <2>4 DEF Sent, OrderStatuses
<1>9. ASSUME Lookup \/ LookupAnswered \/ TakeEvent PROVE Small(orders')
  BY <1>0, <1>9 DEF Lookup, LookupAnswered, TakeEvent, venues
<1>10. ASSUME NEW w \in Tasks, Complete(w) \/ Verify(w) PROVE Small(orders')
  BY <1>0, <1>10 DEF Complete, Verify, venues
<1>11. ASSUME Flush \/ Drain \/ AskDrain PROVE Small(orders')
  BY <1>0, <1>11 DEF Flush, Drain, SeeDrain, DrainReadsVar, DrainReadsRest, AskDrain, venues
<1>12. ASSUME CloseRuntime \/ InventoryDies \/ OperatorReset PROVE Small(orders')
  BY <1>0, <1>12 DEF CloseRuntime, InventoryDies, Gone, OperatorReset
<1>13. ASSUME StartRuntime PROVE Small(orders')
  <2>1. orders' = <<>>
    BY <1>13 DEF StartRuntime
  <2>2. DOMAIN orders' = {}
    BY <2>1
  <2> QED BY <2>2 DEF Small
<1>14. Small(orders')
  BY <1>3, <1>4, <1>5, <1>6, <1>7, <1>8, <1>9, <1>10, <1>11, <1>12, <1>13
     DEF InventoryNext, Strategic, Callback, Tasks
<1> QED BY <1>14 DEF Small

\* Ids are those of entries made, also of what exits and of what is known.
LEMMA IdsBounded ==
  ASSUME MaxIntents \in Nat, KindsOK, EntriesWereMade, CountersBounded, InventoryNext
  PROVE  made' <= MaxIntents /\ exit' \subseteq 1..made' /\ known' \subseteq 1..made'
<1>0. made \in Nat /\ held \subseteq LotRecords
  BY FieldsAre
<1>1. ASSUME made' = made, exit' \subseteq exit, known' \subseteq known
      PROVE  made' <= MaxIntents /\ exit' \subseteq 1..made' /\ known' \subseteq 1..made'
  BY <1>1 DEF CountersBounded
<1>2. CASE Venue
  BY <1>1, <1>2 DEF Venue, OrderFills, OrderFails, lotMemory
<1>3. CASE EntryReplied
  <2>1. task["strategy"].e.id \in 1..made
    BY <1>0, <1>3, CourseIs DEF EntryReplied, EntriesWereMade, Tasks
  <2>2. /\ made' = made /\ exit' = exit /\ known' \in {known, known \cup {task["strategy"].e.id}}
    BY <1>3 DEF EntryReplied
  <2> QED BY <2>1, <2>2 DEF CountersBounded
<1>4. CASE Lookup \/ LookupAnswered \/ TakeEvent
  <2>1. made' = made /\ exit' \subseteq exit /\ known' = known
    BY <1>4 DEF Lookup, LookupAnswered, TakeEvent, lotMemory
  <2> QED BY <1>1, <2>1
<1>5. ASSUME NEW w \in Tasks, Complete(w) \/ CloseBoth(w) \/ Verify(w) PROVE made' = made /\ exit' = exit /\ known' = known
  BY <1>5 DEF Complete, CloseBoth, Verify, lotMemory
<1>6. CASE ExitReplied \/ Rehedge \/ SettleExit \/ Unwind
  <2>1. made' = made /\ exit' \subseteq exit /\ known' = known
    BY <1>6 DEF ExitReplied, Rehedge, SettleExit, Unwind, lotMemory
  <2> QED BY <1>1, <2>1
<1>7. CASE Flush \/ Drain \/ AskDrain
  BY <1>1, <1>7 DEF Flush, Drain, SeeDrain, DrainReadsVar, DrainReadsRest, AskDrain, lotMemory
<1>8. ASSUME NEW ids \in SUBSET Ids(held), BeginExit(ids)
      PROVE  made' <= MaxIntents /\ exit' \subseteq 1..made' /\ known' \subseteq 1..made'
  <2>1. Ids(held) \subseteq 1..made
    BY <1>0 DEF Ids, EntriesWereMade, LotRecords
  <2> QED BY <1>8, <2>1 DEF BeginExit, CountersBounded
<1>9. CASE ProposeEntry
  <2>1. made' = made + 1 /\ made < MaxIntents /\ exit' = exit /\ known' = known
    BY <1>9 DEF ProposeEntry
  <2> QED BY <1>0, <2>1 DEF CountersBounded
<1>10. CASE CloseRuntime \/ InventoryDies \/ StartRuntime \/ OperatorReset
  <2>1. made' = made /\ exit' \subseteq exit /\ known' \subseteq known
    BY <1>10 DEF CloseRuntime, InventoryDies, Gone, StartRuntime, OperatorReset, lotMemory
  <2> QED BY <1>1, <2>1
<1>11. ASSUME NEW w \in Tasks, Complete(w) \/ CloseBoth(w) \/ Verify(w)
       PROVE  made' <= MaxIntents /\ exit' \subseteq 1..made' /\ known' \subseteq 1..made'
  BY <1>1, <1>5, <1>11
<1> QED BY <1>2, <1>3, <1>4, <1>6, <1>7, <1>8, <1>9, <1>10, <1>11 DEF InventoryNext, Strategic, Callback, Tasks

\* What an exit waits for is what it began with; what is closed was made.
LEMMA TasksBounded ==
  ASSUME MaxIntents \in Nat, KindsOK, KindsOK', EntriesWereMade, EntryIsOneLot, CountersBounded, InventoryNext
  PROVE  /\ Leaves' => task'["strategy"].qty <= MaxIntents
         /\ \A w \in Tasks : task'[w].at = "closing" => made' # 0
<1> DEFINE t == task["strategy"]
           Out(next) == next.at \in {"leaving", "hedging", "recovering"}
           Fine == /\ Leaves' => task'["strategy"].qty <= MaxIntents
                   /\ \A w \in Tasks : task'[w].at = "closing" => made' # 0
<1>0. made \in Nat
  BY FieldsAre
<1>1. ASSUME made' = made, \A w \in Tasks : task'[w] = task[w] \/ (~Out(task'[w]) /\ task'[w].at # "closing")
      PROVE  Fine
  BY <1>1 DEF CountersBounded, Leaves, Tasks
<1>2. ASSUME made' = made, NEW w \in Tasks, NEW next \in Courses, w = "callback" => next \in Endings, Does(w, next),
             ~Out(next), next.at # "closing"
      PROVE  Fine
  <2>1. task'[w] = next /\ \A v \in Tasks \ {w} : task'[v] = task[v]
    BY <1>2, DoesIs
  <2> HIDE DEF Fine, Out
  <2>2. \A v \in Tasks : task'[v] = task[v] \/ (~Out(task'[v]) /\ task'[v].at # "closing")
    BY <1>2, <2>1
  <2> QED BY <1>1, <1>2, <2>2
<1>3. ASSUME made' = made, NEW w \in Tasks, NEW next \in Endings, Does(w, next),
             next.at \in {"idle", "verifying", "completing"}
      PROVE  Fine
  <2> HIDE DEF Fine
  <2>1. next \in Courses /\ ~Out(next) /\ next.at # "closing"
    BY <1>3, EndingsAre
  <2> HIDE DEF Out
  <2> QED BY <1>2, <1>3, <2>1
<1>4. ASSUME UNCHANGED task, made' = made PROVE Fine
  BY <1>1, <1>4
<1>5. Resting.at = "idle" /\ [at |-> "verifying"].at = "verifying"
  BY DEF Resting
<1> HIDE DEF Fine
<1>6. CASE Venue \/ Flush \/ Drain \/ AskDrain
  <2>1. UNCHANGED task /\ made' = made
    BY <1>6 DEF Venue, OrderFills, OrderFails, Flush, Drain, SeeDrain, DrainReadsVar, DrainReadsRest, AskDrain
  <2> QED BY <1>4, <2>1 DEF Fine
<1>7. CASE EntryReplied
  <2>1. made' = made /\ Does("strategy", Resting)
    BY <1>7 DEF EntryReplied, Strategy
  <2>2. "strategy" \in Tasks /\ Resting \in Endings
    BY EndingsAre DEF Tasks
  <2> QED BY <1>3, <1>5, <2>1, <2>2 DEF Fine
<1>8. CASE LookupAnswered
  <2>1. t.e \in Intents /\ made' = made
    BY <1>8, CourseIs DEF LookupAnswered, Tasks
  <2>2. Does("strategy", Resting) \/ Does("strategy", [at |-> "completing", e |-> t.e])
    BY <1>8 DEF LookupAnswered, Strategy
  <2>3. [at |-> "completing", e |-> t.e] \in Endings /\ [at |-> "completing", e |-> t.e].at = "completing"
    BY <2>1, EndingsAre
  <2>4. "strategy" \in Tasks /\ Resting \in Endings
    BY EndingsAre DEF Tasks
  <2>5. PICK next \in Endings : Does("strategy", next) /\ next.at \in {"idle", "completing"}
    BY <1>5, <2>2, <2>3, <2>4
  <2> QED BY <1>3, <2>1, <2>4, <2>5 DEF Fine
<1>9. CASE TakeEvent
  <2>1. made' = made /\ (Does("callback", Resting) \/ (entry # NoEntry /\ Does("callback", [at |-> "completing", e |-> entry])))
    BY <1>9 DEF TakeEvent
  <2>2. entry # NoEntry => /\ [at |-> "completing", e |-> entry] \in Endings
                           /\ [at |-> "completing", e |-> entry].at = "completing"
    BY EndingsAre DEF KindsOK
  <2>3. "callback" \in Tasks /\ Resting \in Endings
    BY EndingsAre DEF Tasks
  <2>4. PICK next \in Endings : Does("callback", next) /\ next.at \in {"idle", "completing"}
    BY <1>5, <2>1, <2>2, <2>3
  <2> QED BY <1>3, <2>1, <2>3, <2>4 DEF Fine
<1>10. ASSUME NEW w \in Tasks, CloseBoth(w) \/ Verify(w) PROVE Fine
  <2>1. made' = made /\ (Does(w, Resting) \/ Does(w, [at |-> "verifying"]))
    BY <1>10 DEF CloseBoth, Verify
  <2> QED BY <1>3, <1>5, <2>1, EndingsAre
<1>11. ASSUME NEW w \in Tasks, Complete(w) PROVE Fine
  <2>1. made' = made /\ made # 0
    <3>1. task[w].e.id \in Nat \ {0} /\ task[w].e.id <= made
      BY <1>11, CourseIs DEF Complete, EntriesWereMade
    <3> QED BY <1>0, <1>11, <3>1 DEF Complete
  <2>2. CASE Does(w, Resting)
    BY <1>3, <1>5, <2>1, <2>2, EndingsAre
  <2>3. CASE Does(w, [at |-> "closing"])
    <3>1. task'[w] = [at |-> "closing"] /\ \A v \in Tasks \ {w} : task'[v] = task[v]
      BY <2>3, DoesIs, EndingsAre
    <3>2. task'[w].at = "closing"
      BY <3>1
    <3> QED BY <2>1, <3>1, <3>2 DEF Fine, CountersBounded, Leaves, Tasks
  <2> QED BY <1>11, <2>2, <2>3 DEF Complete
<1>12. CASE Lookup \/ ProposeEntry
  <2>1. made' \in Nat /\ made' >= made
    BY <1>0, <1>12 DEF Lookup, ProposeEntry
  <2>2. task'["strategy"].at \in {"looking", "entering"} /\ task'["callback"] = task["callback"]
    <3>1. PICK next : Does("strategy", next) /\ next.at \in {"looking", "entering"}
      BY <1>12 DEF Lookup, ProposeEntry, Strategy
    <3> QED BY <3>1 DEF Does, KindsOK, Tasks
  <2>3. task["callback"].at = "closing" => made' # 0
    BY <1>0, <2>1 DEF CountersBounded, Tasks
  <2> QED BY <2>2, <2>3 DEF Fine, Leaves, Tasks
<1>13. ASSUME NEW ids \in SUBSET Ids(held), BeginExit(ids) PROVE Fine
  <2> DEFINE next == [at |-> "leaving", ids |-> ids, qty |-> Quantity(ids), var |-> Len(orders) + 1,
                      hedge |-> Len(orders) + 2, tries |-> 0]
  <2>1. Quantity(ids) <= MaxIntents
    <3>1. Quantity(ids) \in Nat /\ Quantity(ids) <= Cardinality(held) /\ Cardinality(held) \in Nat
      BY QuantityIs, FieldsAre
    <3>2. Cardinality(held) <= made /\ made <= MaxIntents
      BY LotsAreBounded DEF CountersBounded
    <3> QED BY <1>0, <3>1, <3>2
  <2>2. Does("strategy", next) /\ made' = made
    BY <1>13 DEF BeginExit, Strategy
  <2>3. task'["strategy"] = next /\ task'["callback"] = task["callback"]
    BY <2>2 DEF Does, KindsOK, Tasks
  <2>4. next.at = "leaving" /\ next.qty = Quantity(ids)
    OBVIOUS
  <2> HIDE DEF next
  <2> QED BY <2>1, <2>2, <2>3, <2>4 DEF Fine, CountersBounded, Leaves, Tasks
<1>14. CASE ExitReplied \/ Rehedge \/ SettleExit \/ Unwind
  <2>1. Leaves /\ made' = made
    BY <1>14 DEF ExitReplied, Rehedge, SettleExit, Unwind, Leaves
  <2>2. t \in Exits
    BY <2>1, CourseIs DEF Leaves, Tasks
  <2>3. /\ [t EXCEPT !.at = "hedging"].qty = t.qty /\ [t EXCEPT !.at = "hedging"].at = "hedging"
        /\ [t EXCEPT !.at = "recovering"].qty = t.qty /\ [t EXCEPT !.at = "recovering"].at = "recovering"
        /\ [t EXCEPT !.tries = @ + 1].qty = t.qty /\ [t EXCEPT !.tries = @ + 1].at = t.at
        /\ [t EXCEPT !.at = "hedging", !.hedge = Len(orders) + 1, !.tries = 0].qty = t.qty
        /\ [t EXCEPT !.at = "hedging", !.hedge = Len(orders) + 1, !.tries = 0].at = "hedging"
        /\ [t EXCEPT !.hedge = Len(orders) + 1, !.tries = @ + 1].qty = t.qty
        /\ [t EXCEPT !.hedge = Len(orders) + 1, !.tries = @ + 1].at = t.at
    BY <2>2 DEF Exits
  <2>4. ExitReplied => \E next \in {Resting, [t EXCEPT !.at = "hedging"], [t EXCEPT !.at = "recovering"]} : Does("strategy", next)
    BY DEF ExitReplied, Strategy
  <2>5. Rehedge => \E next \in {[t EXCEPT !.at = "hedging", !.hedge = Len(orders) + 1, !.tries = 0], [t EXCEPT !.tries = @ + 1]} : Does("strategy", next)
    BY DEF Rehedge, Strategy
  <2>6. SettleExit \/ Unwind => \E next \in {Resting, [t EXCEPT !.hedge = Len(orders) + 1, !.tries = @ + 1]} : Does("strategy", next)
    BY DEF SettleExit, Unwind, Strategy
  <2> DEFINE Good(next) == next = Resting \/ (next.at \in {t.at, "hedging", "recovering"} /\ next.qty = t.qty)
  <2>10. /\ Good(Resting) /\ Good([t EXCEPT !.at = "hedging"]) /\ Good([t EXCEPT !.at = "recovering"])
         /\ Good([t EXCEPT !.at = "hedging", !.hedge = Len(orders) + 1, !.tries = 0])
         /\ Good([t EXCEPT !.tries = @ + 1]) /\ Good([t EXCEPT !.hedge = Len(orders) + 1, !.tries = @ + 1])
    BY <2>3
  <2> HIDE DEF Good
  <2>11. ExitReplied => \E next : Does("strategy", next) /\ Good(next)
    BY <2>4, <2>10
  <2>12. Rehedge => \E next : Does("strategy", next) /\ Good(next)
    BY <2>5, <2>10
  <2>13. SettleExit \/ Unwind => \E next : Does("strategy", next) /\ Good(next)
    BY <2>6, <2>10
  <2>7. \E next : Does("strategy", next) /\ (next = Resting \/ (next.at \in {t.at, "hedging", "recovering"} /\ next.qty = t.qty))
    BY <1>14, <2>11, <2>12, <2>13 DEF Good
  <2>8. PICK next : Does("strategy", next) /\ (next = Resting \/ (next.at \in {t.at, "hedging", "recovering"} /\ next.qty = t.qty))
    BY <2>7
  <2>9. task'["strategy"] = next /\ task'["callback"] = task["callback"]
    BY <2>8 DEF Does, KindsOK, Tasks
  <2> QED BY <1>5, <2>1, <2>8, <2>9 DEF Fine, CountersBounded, Leaves, Tasks
<1>15. CASE CloseRuntime \/ InventoryDies
  <2>1. made' = made /\ task' = [w \in Tasks |-> Resting]
    BY <1>15 DEF CloseRuntime, InventoryDies, Gone
  <2>2. \A w \in Tasks : task'[w].at = "idle"
    BY <1>5, <2>1
  <2> QED BY <2>1, <2>2 DEF Fine, Leaves, Tasks
<1>16. CASE StartRuntime \/ OperatorReset
  <2>1. UNCHANGED task /\ made' = made
    BY <1>16 DEF StartRuntime, OperatorReset
  <2> QED BY <1>4, <2>1 DEF Fine
<1> QED BY <1>6, <1>7, <1>8, <1>9, <1>10, <1>11, <1>12, <1>13, <1>14, <1>15, <1>16
        DEF Fine, InventoryNext, Strategic, Callback, Tasks

\* What the file, memory and the orders hold is of the kinds the code writes, and bounded.
LEMMA KindsAreTypes ==
  ASSUME MaxIntents \in Nat, KindsOK, EntriesWereMade, CountersBounded
  PROVE  InventoryTypeOK
<1>1. made \in Nat /\ made <= MaxIntents /\ 1..made \subseteq 1..MaxIntents
  BY FieldsAre DEF CountersBounded
<1>2. \A k \in DOMAIN orders : /\ orders[k].venue \in {"var", "lighter"} /\ orders[k].qty \in 1..MaxIntents
                               /\ orders[k].purpose \in {"entry", "exit", "unwind", "close"}
                               /\ orders[k].status \in OrderStatuses
  BY FieldsAre, OrderIs DEF CountersBounded
<1>3. Ids(held) \subseteq 1..MaxIntents
  <2>1. \A l \in held : l.id \in Nat \ {0} /\ l.id <= made
    BY FieldsAre DEF EntriesWereMade, LotRecords
  <2> QED BY <1>1, <2>1 DEF Ids
<1>4. entry.id \in 0..MaxIntents
  <2>1. entry.id \in Nat
    <3>1. NoEntry.id = 0 /\ \A e \in Intents : e.id \in Nat
      BY DEF NoEntry, Intents
    <3>2. entry \in {NoEntry} \cup Intents
      BY DEF KindsOK
    <3> HIDE DEF NoEntry, Intents
    <3>3. entry = NoEntry \/ entry \in Intents
      BY <3>2
    <3> QED BY <3>1, <3>3
  <2> QED BY <1>1, <2>1 DEF EntriesWereMade
<1>5. file.review \in {"no", "resumable", "other"} /\ file.pending \in BOOLEAN
  BY DEF KindsOK, Files
<1>6. /\ var \in Int /\ lighter \in Int /\ up \in BOOLEAN /\ stop \in BOOLEAN /\ dirty \in BOOLEAN
      /\ drain \in {"no", "asked", "seen", "var flat", "done"} /\ DOMAIN task = Tasks
  BY DEF KindsOK
<1> QED BY <1>1, <1>2, <1>3, <1>4, <1>5, <1>6 DEF InventoryTypeOK, CountersBounded, OrderStatuses

\* Quantities, ids and states stay in their types over any number of entries: no order is
\* larger than what entries brought in, and no exit or known reply is of an entry not made.
THEOREM InventoryTypes ==
  ASSUME FaultsAssumption, MaxIntents \in Nat
  PROVE  InventorySpec => []InventoryTypeOK
<1> DEFINE I == InventoryInv /\ OneLotInv /\ CountersBounded
<1>1. InventoryInit => I
  <2> SUFFICES ASSUME InventoryInit PROVE I
    OBVIOUS
  <2>1. made = 0 /\ exit = {} /\ known = {} /\ DOMAIN orders = {} /\ \A w \in Tasks : task[w] = Resting
    BY DEF InventoryInit
  <2>2. ~Leaves /\ \A w \in Tasks : task[w].at # "closing"
    BY <2>1 DEF Leaves, Resting, Tasks
  <2> QED BY <2>1, <2>2, InventoryStarts, OneLotStarts DEF CountersBounded
<1>2. I /\ [InventoryNext]_inventoryVars => I'
  <2> SUFFICES ASSUME I, [InventoryNext]_inventoryVars PROVE I'
    OBVIOUS
  <2>1. InventoryInv'
    BY InventoryStays
  <2>2. KindsOK' /\ DownIsEmpty' /\ KindsOK /\ EntriesWereMade /\ EntryIsOneLot
    BY <2>1 DEF InventoryInv, OneLotInv
  <2>3. OneLotInv'
    BY <2>2, OneLotNext
  <2>4. CASE InventoryNext
    <3>1. CountersBounded'
      BY <2>2, <2>4, OrdersBounded, IdsBounded, TasksBounded DEF CountersBounded
    <3> QED BY <2>1, <2>3, <3>1
  <2>5. CASE UNCHANGED inventoryVars
    <3>1. UNCHANGED <<made, exit, known, orders, task>>
      BY <2>5 DEF inventoryVars, venues, lotMemory
    <3>2. CountersBounded'
      BY <3>1 DEF CountersBounded, Leaves
    <3> QED BY <2>1, <2>3, <3>2
  <2> QED BY <2>4, <2>5
<1>3. I => InventoryTypeOK
  BY KindsAreTypes DEF InventoryInv
<1> QED BY <1>1, <1>2, <1>3, PTL DEF InventorySpec

-----------------------------------------------------------------------------
(* What the file says while the runtime trades on. Memory is ahead of it     *)
(* only in that something pending has ended, and then the file still says    *)
(* that something is open.                                                   *)

FileKept ==
  /\ file.lots = held
  /\ ~dirty => (file.pending <=> entry # NoEntry \/ exit # {})
  /\ dirty => file.pending \/ file.lots # {}
FileInv == (~up => exit = {} /\ ~dirty) /\ (Running => FileKept)

LEMMA PersistKeepsFile == ASSUME Persist PROVE FileKept'
<1>1. /\ file'.lots = held' /\ dirty' = FALSE /\ file'.pending = (entry' # NoEntry \/ exit' # {})
  BY DEF Persist, Write
<1> QED BY <1>1 DEF FileKept

LEMMA SameKeepsFile == ASSUME FileKept, UNCHANGED <<held, entry, exit, dirty, file>> PROVE FileKept'
BY DEF FileKept

LEMMA FileNext ==
  ASSUME InventoryInv, FileInv, InventoryNext
  PROVE  FileInv'
<1> DEFINE t == task["strategy"]
           Keeps == Running' => FileKept'
<1>0. /\ KindsOK /\ DownIsEmpty /\ (Running => RunningInv /\ FileKept) /\ stop \in BOOLEAN /\ up \in BOOLEAN
  BY FieldsAre DEF InventoryInv, FileInv
<1>1. ASSUME UNCHANGED <<up, stop>> \/ (Running /\ UNCHANGED up), FileKept' \/ UNCHANGED <<held, entry, exit, dirty, file>>
      PROVE  Keeps
  <2>1. Running' => Running
    BY <1>0, <1>1 DEF Running
  <2> QED BY <1>0, <1>1, <2>1, SameKeepsFile
<1>2. ASSUME stop' = TRUE \/ up' = FALSE PROVE Keeps
  BY <1>2 DEF Running
<1>3. ~up' => exit' = {} /\ ~dirty'
  <2>1. CASE CloseRuntime \/ InventoryDies
    BY <2>1 DEF CloseRuntime, InventoryDies, Gone
  <2>2. CASE StartRuntime \/ OperatorReset
    <3>1. ~up /\ exit' = exit /\ dirty' = dirty
      BY <2>2 DEF StartRuntime, OperatorReset, lotMemory
    <3> QED BY <3>1 DEF FileInv
  <2>3. CASE Venue
    <3>1. up' = up /\ exit' = exit /\ dirty' = dirty
      BY <2>3 DEF Venue, OrderFills, OrderFails, lotMemory
    <3> QED BY <3>1 DEF FileInv
  <2>4. ASSUME ~(CloseRuntime \/ InventoryDies \/ StartRuntime \/ OperatorReset \/ Venue) PROVE up' = up /\ up
    <3>1. CASE Flush \/ AskDrain \/ Drain
      BY <3>1 DEF Flush, AskDrain, Drain, SeeDrain, DrainReadsVar, DrainReadsRest
    <3>2. CASE EntryReplied \/ LookupAnswered \/ TakeEvent \/ ExitReplied \/ Rehedge \/ Unwind \/ SettleExit
      BY <3>2 DEF EntryReplied, LookupAnswered, TakeEvent, ExitReplied, Rehedge, Unwind, SettleExit
    <3>3. CASE ProposeEntry \/ Lookup \/ (\E ids \in SUBSET Ids(held) : BeginExit(ids))
      BY <3>3 DEF ProposeEntry, Lookup, BeginExit, StrategyTick
    <3>4. ASSUME NEW w \in Tasks, Complete(w) \/ CloseBoth(w) \/ Verify(w) PROVE up' = up /\ up
      BY <3>4 DEF Complete, CloseBoth, Verify
    <3> QED BY <2>4, <3>1, <3>2, <3>3, <3>4 DEF InventoryNext, Strategic, Callback, Tasks
  <2> QED BY <2>1, <2>2, <2>3, <2>4
<1> HIDE DEF Keeps
<1>4. CASE Venue \/ AskDrain
  <2>1. UNCHANGED <<up, stop>> /\ UNCHANGED <<held, entry, exit, dirty, file>>
    BY <1>4 DEF Venue, OrderFills, OrderFails, AskDrain, lotMemory
  <2>2. Keeps
    BY <1>1, <2>1
  <2> QED BY <1>3, <2>2 DEF Keeps, FileInv
<1>5. CASE Flush \/ Drain
  <2>1. UNCHANGED up /\ Running
    BY <1>5 DEF Flush, Drain, SeeDrain, DrainReadsVar, DrainReadsRest, Running
  <2>2. Persist \/ stop' = TRUE \/ UNCHANGED <<held, entry, exit, dirty, file>>
    BY <1>5 DEF Flush, Drain, SeeDrain, DrainReadsVar, DrainReadsRest, lotMemory
  <2>3. Keeps
    BY <1>1, <1>2, <2>1, <2>2, PersistKeepsFile
  <2> QED BY <1>3, <2>3 DEF Keeps, FileInv
<1>6. CASE ProposeEntry \/ Lookup \/ (\E ids \in SUBSET Ids(held) : BeginExit(ids))
  <2>1. UNCHANGED up /\ Running
    BY <1>6 DEF ProposeEntry, Lookup, BeginExit, StrategyTick, Running
  <2>2. Persist \/ UNCHANGED <<held, entry, exit, dirty, file>>
    BY <1>6 DEF ProposeEntry, Lookup, BeginExit, lotMemory
  <2>3. Keeps
    BY <1>1, <2>1, <2>2, PersistKeepsFile
  <2> QED BY <1>3, <2>3 DEF Keeps, FileInv
<1>7. CASE EntryReplied \/ TakeEvent
  <2>1. UNCHANGED up
    BY <1>7 DEF EntryReplied, TakeEvent
  <2>2. Persist \/ stop' = TRUE \/ (UNCHANGED stop /\ UNCHANGED <<held, entry, exit, dirty, file>>)
    <3>1. CASE EntryReplied
      BY <3>1 DEF EntryReplied, Review
    <3>2. CASE TakeEvent
      BY <3>2 DEF TakeEvent, Review
    <3> QED BY <1>7, <3>1, <3>2
  <2>3. Persist => UNCHANGED stop
    BY DEF Persist
  <2>4. Keeps
    BY <1>1, <1>2, <2>1, <2>2, <2>3, PersistKeepsFile
  <2> QED BY <1>3, <2>4 DEF Keeps, FileInv
<1>8. CASE LookupAnswered
  <2>1. UNCHANGED <<up, held, exit>> /\ up
    BY <1>8 DEF LookupAnswered
  <2>2. \/ stop' = TRUE
        \/ UNCHANGED stop /\ UNCHANGED <<held, entry, exit, dirty, file>>
        \/ entry = t.e /\ entry' = NoEntry /\ dirty' = TRUE /\ UNCHANGED <<stop, file>>
    <3>1. dirty \in BOOLEAN
      BY DEF KindsOK, InventoryInv
    <3> QED BY <1>8, <2>1, <3>1 DEF LookupAnswered, Review
  <2>3. t.e # NoEntry
    BY <1>0, <1>8, CourseIs DEF LookupAnswered, Tasks, NoEntry
  <2>4. ASSUME Running, entry = t.e, dirty' = TRUE, UNCHANGED <<held, file>> PROVE FileKept'
    <3>1. file.pending \/ file.lots # {}
      BY <1>0, <2>3, <2>4 DEF FileKept
    <3> QED BY <1>0, <2>4, <3>1 DEF FileKept
  <2>5. Keeps
    <3>1. CASE stop' = TRUE
      BY <1>2, <3>1
    <3>2. CASE UNCHANGED stop /\ UNCHANGED <<held, entry, exit, dirty, file>>
      BY <1>1, <2>1, <3>2
    <3>3. CASE entry = t.e /\ entry' = NoEntry /\ dirty' = TRUE /\ UNCHANGED <<stop, file>>
      <4>1. Running' => Running
        BY <2>1, <3>3 DEF Running
      <4> QED BY <2>1, <2>4, <3>3, <4>1 DEF Keeps
    <3> QED BY <2>2, <3>1, <3>2, <3>3
  <2> QED BY <1>3, <2>5 DEF Keeps, FileInv
<1>9. ASSUME NEW w \in Tasks, Complete(w) \/ CloseBoth(w) \/ Verify(w) PROVE FileInv'
  <2>1. UNCHANGED up
    BY <1>9 DEF Complete, CloseBoth, Verify
  <2>2. Persist \/ stop' = TRUE \/ (UNCHANGED stop /\ UNCHANGED <<held, entry, exit, dirty, file>>)
    <3>1. CASE Complete(w)
      BY <3>1 DEF Complete, Review
    <3>2. CASE CloseBoth(w)
      BY <3>2 DEF CloseBoth, lotMemory
    <3>3. CASE Verify(w)
      BY <3>3 DEF Verify, Review
    <3> QED BY <1>9, <3>1, <3>2, <3>3
  <2>3. Persist => UNCHANGED stop
    BY DEF Persist
  <2>4. Keeps
    BY <1>1, <1>2, <2>1, <2>2, <2>3, PersistKeepsFile
  <2> QED BY <1>3, <2>4 DEF Keeps, FileInv
<1>10. CASE ExitReplied \/ Rehedge \/ SettleExit
  <2>1. UNCHANGED up
    BY <1>10 DEF ExitReplied, Rehedge, SettleExit
  <2>2. Persist \/ stop' = TRUE \/ (UNCHANGED stop /\ UNCHANGED <<held, entry, exit, dirty, file>>)
    <3>1. CASE ExitReplied
      BY <3>1 DEF ExitReplied, Review
    <3>2. CASE Rehedge
      BY <3>2 DEF Rehedge, lotMemory
    <3>3. CASE SettleExit
      BY <3>3 DEF SettleExit, Review
    <3> QED BY <1>10, <3>1, <3>2, <3>3
  <2>3. Persist => UNCHANGED stop
    BY DEF Persist
  <2>4. Keeps
    BY <1>1, <1>2, <2>1, <2>2, <2>3, PersistKeepsFile
  <2> QED BY <1>3, <2>4 DEF Keeps, FileInv
<1>11. CASE Unwind
  <2>1. Leaves /\ up /\ UNCHANGED <<up, held>> /\ (stop' = TRUE \/ (dirty' = TRUE /\ UNCHANGED <<stop, file>>))
    BY <1>11 DEF Unwind, Leaves, Review
  <2>2. ASSUME Running PROVE file.lots # {}
    <3>1. Quantity(t.ids) = t.qty /\ t.qty \in Nat \ {0}
      BY <1>0, <2>1, <2>2, CourseIs DEF RunningInv, LotsCoverExits, Leaves, Tasks
    <3>2. Quantity(t.ids) <= Cardinality(held) /\ Cardinality(held) \in Nat
      BY <1>0, QuantityIs, FieldsAre
    <3>3. held # {}
      BY <3>1, <3>2, FS_EmptySet
    <3> QED BY <1>0, <2>2, <3>3 DEF FileKept
  <2>3. Keeps
    <3>1. CASE stop' = TRUE
      BY <1>2, <3>1
    <3>2. CASE dirty' = TRUE /\ UNCHANGED <<stop, file>>
      <4>1. Running' => Running
        BY <2>1, <3>2 DEF Running
      <4> QED BY <1>0, <2>1, <2>2, <3>2, <4>1 DEF Keeps, FileKept
    <3> QED BY <2>1, <3>1, <3>2
  <2> QED BY <1>3, <2>3 DEF Keeps, FileInv
<1>12. CASE CloseRuntime \/ InventoryDies \/ OperatorReset
  <2>1. ~up'
    BY <1>12 DEF CloseRuntime, InventoryDies, Gone, OperatorReset
  <2> QED BY <1>3, <2>1 DEF FileInv, Running
<1>13. CASE StartRuntime
  <2>1. ~up /\ UNCHANGED <<entry, exit, dirty>> /\ entry = NoEntry /\ exit = {} /\ ~dirty
    BY <1>0, <1>13 DEF StartRuntime, FileInv, DownIsEmpty
  <2>2. up' => held' = file.lots /\ file' = [file EXCEPT !.review = "no", !.pending = FALSE]
    <3> DEFINE agree == var = Cardinality(file.lots) /\ lighter = Cardinality(file.lots)
    <3>1. /\ up' = agree /\ held' = IF agree THEN file.lots ELSE {}
          /\ file' = [file EXCEPT !.review = IF agree THEN "no" ELSE "other", !.pending = ~agree /\ @]
      BY <1>13 DEF StartRuntime
    <3> HIDE DEF agree
    <3> QED BY <3>1
  <2>3. file \in Files
    BY <1>0 DEF KindsOK
  <2>4. up' => file'.lots = held' /\ ~file'.pending
    BY <2>2, <2>3 DEF Files
  <2>5. up' => FileKept'
    BY <2>1, <2>4 DEF FileKept
  <2> QED BY <1>3, <2>5 DEF FileInv, Running
<1> QED BY <1>4, <1>5, <1>6, <1>7, <1>8, <1>9, <1>10, <1>11, <1>12, <1>13
        DEF InventoryNext, Strategic, Callback, Tasks

\* A file without lots and without anything pending, of a runtime that trades on:
\* both venues are flat once nothing is in flight, unless a task is taking an entry
\* from its match to its lot, or is closing its legs.
FlatFileIsFlat ==
  /\ Running /\ file.lots = {} /\ ~file.pending /\ Sent = {}
  /\ \A w \in Tasks : task[w].at \notin {"completing", "closing"}
  => var = 0 /\ lighter = 0

LEMMA FileIsBacked ==
  ASSUME InventoryInv, FileInv
  PROVE  FlatFileIsFlat
<1> SUFFICES ASSUME Running, file.lots = {}, ~file.pending, Sent = {},
                    \A w \in Tasks : task[w].at \notin {"completing", "closing"}
             PROVE  var = 0 /\ lighter = 0
  BY DEF FlatFileIsFlat
<1>1. KindsOK /\ RunningInv /\ FileKept
  BY DEF InventoryInv, FileInv
<1>2. held = {} /\ entry = NoEntry /\ Cardinality(held) = 0
  BY <1>1, FS_EmptySet DEF FileKept
<1>3. ~Leaves
  <2>1. ASSUME Leaves PROVE FALSE
    <3>1. Quantity(task["strategy"].ids) = task["strategy"].qty /\ task["strategy"].qty \in Nat \ {0}
      BY <1>1, <2>1, CourseIs DEF RunningInv, LotsCoverExits, Leaves, Tasks
    <3>2. Quantity(task["strategy"].ids) \in Nat /\ Quantity(task["strategy"].ids) <= 0
      BY <1>1, <1>2, QuantityIs
    <3> QED BY <3>1, <3>2
  <2> QED BY <2>1
<1>4. \A class : Flight(orders, class) = 0
  <2>1. \A k \in DOMAIN orders : orders[k].status # "sent"
    BY DEF Sent
  <2> QED BY <1>1, <2>1, FieldsAre, NoFlight
<1>5. ASSUME NEW venue \in Venues PROVE Position(venue) = 0
  <2>1. Pending(venue) = 0 /\ Promised(venue) = 0 /\ Unreturned(venue) = 0 /\ Flight(orders, venue) = 0
    BY <1>2, <1>3, <1>4 DEF Pending, Promised, Unreturned, One
  <2>2. \A w \in Tasks : Custody(w, venue) = 0
    BY DEF Custody, One, Completes
  <2> QED BY <1>1, <1>2, <2>1, <2>2, BooksAre DEF Tasks
<1> QED BY <1>5 DEF Venues, Position

\* The supervisor reads the file and not the memory of the runtime: an ETH file that
\* says flat is true of the venues, but in the window of an entry that has been matched.
THEOREM FlatFileIsTrue ==
  ASSUME FaultsAssumption
  PROVE  InventorySpec => []FlatFileIsFlat
<1>1. InventoryInit => InventoryInv /\ FileInv
  <2> SUFFICES ASSUME InventoryInit PROVE InventoryInv /\ FileInv
    OBVIOUS
  <2>1. ~up /\ exit = {} /\ ~dirty
    BY DEF InventoryInit
  <2> QED BY <2>1, InventoryStarts DEF FileInv, Running
<1>2. InventoryInv /\ FileInv /\ [InventoryNext]_inventoryVars => InventoryInv' /\ FileInv'
  <2> SUFFICES ASSUME InventoryInv, FileInv, [InventoryNext]_inventoryVars PROVE InventoryInv' /\ FileInv'
    OBVIOUS
  <2>1. InventoryInv'
    BY InventoryStays
  <2>2. CASE UNCHANGED inventoryVars
    <3>1. UNCHANGED <<up, stop, held, entry, exit, dirty, file>>
      BY <2>2 DEF inventoryVars, venues, lotMemory
    <3> QED BY <2>1, <3>1 DEF FileInv, FileKept, Running
  <2> QED BY <2>1, <2>2, FileNext
<1>3. InventoryInv /\ FileInv => FlatFileIsFlat
  BY FileIsBacked
<1> QED BY <1>1, <1>2, <1>3, PTL DEF InventorySpec
=============================================================================
