----------------------------- MODULE AlertProofs -----------------------------
(***************************************************************************)
(* What reaches the operator. The watchdog, for any files it may read, any *)
(* channels, limits and number of polls, buttons and crashes: a fault      *)
(* rings a bounded number of times, an acknowledged alert is quiet, a      *)
(* permanent lock is told once. The queue of trade notifications, for any  *)
(* alerts, any size and every way to stop: no alert is lost uncounted.     *)
(*                                                                         *)
(* A poll goes from what was known, acknowledged and migrated (Knows), and *)
(* from the incidents it finds, to the records of the next poll            *)
(* (PollMoves). The properties follow from how the two are related.        *)
(***************************************************************************)
EXTENDS RiskWatchdog, TelegramQueue, FiniteSetTheorems, TLAPS

Lock == <<"WTI", "revoked">>
ReadFault == <<"WTI", "account_read">>

\* How often an alert went out over each channel.
SentSoFar(r) == <<r.messages, r.calls, r.barks>>
AtLeast(r, s) == r.messages >= s.messages /\ r.calls >= s.calls /\ r.barks >= s.barks

\* The operator has answered.
Acked(r) == r.acked = TRUE

Fields == {"severity", "signature", "token", "telegram", "message", "messages", "phone",
           "calls", "bark", "barks", "acked", "candidate", "cools", "announces"}

\* A record of an incident: warnings are Telegram only.
IsRecord(r) ==
    /\ Fields \subseteq DOMAIN r
    /\ r.signature = <<r.severity, r.signature[2]>>
    /\ r.messages \in 0..MaxAttempts /\ r.barks \in 0..MaxAttempts /\ r.calls \in 0..MaxPhone
    /\ r.token \in Nat \ {0}
    /\ r.severity # "critical" => SentSoFar(r) = <<0, 0, 0>>

\* The lock has one signature under its key, whether it was raised or migrated.
RecordsOK(active) ==
    /\ \A k \in DOMAIN active : IsRecord(active[k])
    /\ Lock \in DOMAIN active => active[Lock].signature = <<"warning", {"revoked"}>>

\* Every button up to the offset is answered.
PressesAnswered(active, offset) ==
    \A k \in DOMAIN active, n \in 1..offset :
        pressed[n].token = active[k].token => Acked(active[k])

IssuedBy(active, last) == \A k \in DOMAIN active : active[k].token <= last

MemoryOK(m) ==
    /\ {"active", "cooling", "primary", "offset"} \subseteq DOMAIN m
    /\ m.offset \in 0..Len(pressed)
    /\ RecordsOK(m.active) /\ PressesAnswered(m.active, m.offset) /\ IssuedBy(m.active, tokens)

CountersOK ==
    /\ running \in BOOLEAN /\ silenced \in BOOLEAN
    /\ tokens \in 0..MaxAlarms /\ kills \in 0..MaxKills
    /\ pressed \in Seq([does : {"ack", "silence"}, token : Nat])
    /\ \A n \in 1..Len(pressed) : pressed[n].token <= tokens

\* What is saved is never ahead of what was sent.
DiskBehind ==
    \A k \in DOMAIN memory.active \cap DOMAIN disk.active :
        memory.active[k].token = disk.active[k].token => AtLeast(memory.active[k], disk.active[k])

\* Calls the watchdog remembers of a fault; those a crash made it forget are
\* at most MaxPhone for each.
Remembered(k) ==
    IF k \in DOMAIN memory.active /\ memory.active[k].signature = dials[k].signature
    THEN memory.active[k].calls ELSE 0
RingsCounted ==
    \A k \in DOMAIN dials :
        /\ dials[k].n \in Nat
        /\ dials[k].n <= MaxPhone * kills + (IF running THEN Remembered(k) ELSE 0)

WatchInv ==
    CountersOK /\ MemoryOK(memory) /\ MemoryOK(disk) /\ DiskBehind /\ RingsCounted

-----------------------------------------------------------------------------
(* What a poll finds.                                                      *)

LEMMA ImageIsFinite ==
    ASSUME NEW S, IsFiniteSet(S), NEW g, g = [x \in S |-> g[x]]
    PROVE  IsFiniteSet({g[x] : x \in S})
<1> DEFINE T == {g[x] : x \in S}
<1>1. g \in Surjection(S, T)
  BY DEF Surjection
<1> QED BY <1>1, FS_Surjection

Foreign == {"critical", "market_exposed"}

\* A strategy is in one fault of a name at most, whose name is not the merged
\* incident's.
LEMMA FoundNames ==
    ASSUME NEW f, f.reason \notin Foreign
    PROVE  /\ IsFiniteSet(Found(f))
           /\ \A x \in Found(f) : x = [name |-> x.name, severity |-> x.severity]
           /\ \A x \in Found(f) : x.name \notin Foreign
<1> DEFINE found(holds, name, severity) ==
        IF holds THEN {[name |-> name, severity |-> severity]} ELSE {}
    blocked == IF Exposed(f) /\ f.reason = "data" THEN "data_visibility" ELSE f.reason
    a1 == found(~Exposed(f) /\ ~f.up, "stopped_flat", "warning")
    a2 == found(Exposed(f) /\ ~f.up, "stopped_exposed", "critical")
    a3 == found(f.review # "none", "manual_review", Urgency(Exposed(f) \/ f.review = "mismatch"))
    a4 == found(f.pending = "old" \/ (f.pending = "young" /\ ~f.up), "pending_stale", "critical")
    a5 == found(Exposed(f) /\ ~f.fresh, "heartbeat_stale", "critical")
    a6 == found(f.action = "emergency_exit", "account_emergency", "critical")
    a7 == found(f.action = "block_entry", blocked, "warning")
    a8 == found(Exposed(f) /\ f.unreconciled, "unreconciled", "critical")
    a9 == found(f.feed = "login", "login_required", Urgency(Exposed(f)))
    a10 == found(f.feed = "stale", "feed_stale", Urgency(Exposed(f)))
    good(S) == /\ IsFiniteSet(S)
               /\ \A x \in S : x = [name |-> x.name, severity |-> x.severity] /\ x.name \notin Foreign
<1>1. Found(f) = a1 \cup a2 \cup a3 \cup a4 \cup a5 \cup a6 \cup a7 \cup a8 \cup a9 \cup a10
  BY DEF Found
<1>2. ASSUME NEW h, NEW n, NEW s, n \notin Foreign PROVE good(found(h, n, s))
  <2>1. IsFiniteSet({[name |-> n, severity |-> s]}) /\ IsFiniteSet({})
    BY FS_Singleton, FS_EmptySet
  <2> QED BY <1>2, <2>1
<1>3. ASSUME NEW S, NEW T, good(S), good(T) PROVE good(S \cup T)
  <2>1. IsFiniteSet(S \cup T)
    BY <1>3, FS_Union
  <2> QED BY <1>3, <2>1
<1>4. blocked \notin Foreign
  BY DEF Foreign
<1>5. "stopped_flat" \notin Foreign /\ "stopped_exposed" \notin Foreign /\ "manual_review" \notin Foreign
      /\ "pending_stale" \notin Foreign /\ "heartbeat_stale" \notin Foreign
      /\ "account_emergency" \notin Foreign /\ "unreconciled" \notin Foreign
      /\ "login_required" \notin Foreign /\ "feed_stale" \notin Foreign
  BY DEF Foreign
<1> HIDE DEF found, good, blocked
<1>6. good(a1) /\ good(a2) /\ good(a3) /\ good(a4) /\ good(a5)
  BY <1>2, <1>5
<1>7. good(a6) /\ good(a7) /\ good(a8) /\ good(a9) /\ good(a10)
  BY <1>2, <1>4, <1>5
<1> HIDE DEF a1, a2, a3, a4, a5, a6, a7, a8, a9, a10
<1>8. good(a1 \cup a2 \cup a3 \cup a4 \cup a5)
  BY <1>3, <1>6
<1>9. good(a1 \cup a2 \cup a3 \cup a4 \cup a5 \cup a6 \cup a7 \cup a8 \cup a9 \cup a10)
  BY <1>3, <1>7, <1>8
<1> QED BY <1>1, <1>9 DEF good

Warning(asset, name) ==
    [key |-> <<asset, name>>, severity |-> "warning", causes |-> {name},
     cools |-> name \in Cooling, announces |-> name # "feed_stale"]

Criticals(f) == {x \in Found(f) : x.severity = "critical"}
OnlyFeed(f) == \A x \in Criticals(f) : x.name = "feed_stale"
Merged(asset, f) ==
    [key |-> <<asset, "critical">>, severity |-> "critical", causes |-> Causes(f, Criticals(f)),
     cools |-> OnlyFeed(f), announces |-> ~OnlyFeed(f)]

\* The incidents of a strategy: its warnings, and what is critical as one.
LEMMA EvaluateIs ==
    ASSUME NEW asset, NEW f
    PROVE  Evaluate(asset, f) = {Warning(asset, x.name) : x \in Found(f) \ Criticals(f)}
                                \cup (IF Criticals(f) = {} THEN {} ELSE {Merged(asset, f)})
BY DEF Evaluate, Warning, Criticals, OnlyFeed, Merged

IsIncident(i) == {"key", "severity", "causes", "cools", "announces"} \subseteq DOMAIN i

\* Incidents are told apart by their keys, which name the strategy, and what
\* bears the key of the lock is the lock.
IncidentsOK(S, assets) ==
    /\ IsFiniteSet(S)
    /\ \A i, j \in S : i.key = j.key => i = j
    /\ \A i \in S : /\ IsIncident(i)
                    /\ \E asset \in assets : \E name : i.key = <<asset, name>>
                    /\ i.key = Lock => i.severity = "warning" /\ i.causes = {"revoked"}

LEMMA EvaluateOK ==
    ASSUME NEW asset, NEW f, f.reason \notin Foreign
    PROVE  /\ IncidentsOK(Evaluate(asset, f), {asset})
           /\ \A i \in Evaluate(asset, f) : i.key # <<asset, "market_exposed">>
<1> DEFINE E == Evaluate(asset, f)
           calm == Found(f) \ Criticals(f)
           warned == {Warning(asset, x.name) : x \in calm}
           merged == IF Criticals(f) = {} THEN {} ELSE {Merged(asset, f)}
<1>1. E = warned \cup merged
  BY EvaluateIs
<1>2. IsFiniteSet(warned)
  <2>1. IsFiniteSet(calm)
    BY FoundNames, FS_Subset
  <2> DEFINE g == [x \in calm |-> Warning(asset, x.name)]
  <2>2. warned = {g[x] : x \in calm}
    OBVIOUS
  <2>4. g = [x \in calm |-> g[x]]
    OBVIOUS
  <2> HIDE DEF g, calm
  <2>3. IsFiniteSet({g[x] : x \in calm})
    BY <2>1, <2>4, ImageIsFinite
  <2> QED BY <2>2, <2>3
<1>3. IsFiniteSet(E)
  <2>1. IsFiniteSet(merged)
    BY FS_EmptySet, FS_Singleton
  <2> QED BY <1>1, <1>2, <2>1, FS_Union
<1>4. \A i \in warned : \E name : name \notin Foreign /\ i = Warning(asset, name)
  BY FoundNames
<1>5. ASSUME NEW i \in E
      PROVE  \/ i = Merged(asset, f)
             \/ \E name : name \notin Foreign /\ i = Warning(asset, name)
  BY <1>1, <1>4
<1>6. Merged(asset, f).key = <<asset, "critical">> /\ IsIncident(Merged(asset, f))
  BY DEF Merged, IsIncident
<1>7. ASSUME NEW name
      PROVE  /\ Warning(asset, name).key = <<asset, name>> /\ IsIncident(Warning(asset, name))
             /\ Warning(asset, name).severity = "warning" /\ Warning(asset, name).causes = {name}
  BY DEF Warning, IsIncident
<1> HIDE DEF E
<1>8. ASSUME NEW i \in E, NEW j \in E, i.key = j.key PROVE i = j
  <2>1. CASE i = Merged(asset, f)
    <3>1. CASE j = Merged(asset, f)
      BY <2>1, <3>1
    <3>2. ASSUME NEW name, name \notin Foreign, j = Warning(asset, name) PROVE FALSE
      <4>1. <<asset, name>> = <<asset, "critical">>
        BY <1>6, <1>7, <1>8, <2>1, <3>2
      <4> QED BY <3>2, <4>1 DEF Foreign
    <3> QED BY <1>5, <3>1, <3>2
  <2>2. CASE j = Merged(asset, f) /\ i # Merged(asset, f)
    <3>1. PICK name : name \notin Foreign /\ i = Warning(asset, name)
      BY <1>5, <2>2
    <3>2. <<asset, name>> = <<asset, "critical">>
      BY <1>6, <1>7, <1>8, <2>2, <3>1
    <3> QED BY <3>1, <3>2 DEF Foreign
  <2>3. CASE i # Merged(asset, f) /\ j # Merged(asset, f)
    <3>1. PICK name : i = Warning(asset, name)
      BY <1>5, <2>3
    <3>2. PICK other : j = Warning(asset, other)
      BY <1>5, <2>3
    <3>3. <<asset, name>> = <<asset, other>>
      BY <1>7, <1>8, <3>1, <3>2
    <3> QED BY <3>1, <3>2, <3>3
  <2> QED BY <2>1, <2>2, <2>3
<1>9. ASSUME NEW i \in E
      PROVE  /\ IsIncident(i)
             /\ \E name : i.key = <<asset, name>>
             /\ i.key = Lock => i.severity = "warning" /\ i.causes = {"revoked"}
             /\ i.key # <<asset, "market_exposed">>
  <2>1. CASE i = Merged(asset, f)
    BY <1>6, <2>1 DEF Lock
  <2>2. ASSUME NEW name, name \notin Foreign, i = Warning(asset, name)
        PROVE  /\ IsIncident(i)
               /\ \E n : i.key = <<asset, n>>
               /\ i.key = Lock => i.severity = "warning" /\ i.causes = {"revoked"}
               /\ i.key # <<asset, "market_exposed">>
    BY <1>7, <2>2 DEF Lock, Foreign
  <2> QED BY <1>5, <2>1, <2>2
<1> QED BY <1>3, <1>8, <1>9 DEF IncidentsOK, E

\* Of a poll: incidents of both strategies, and no failed read behind a lock.
LEMMA IncidentsAreOK ==
    ASSUME NEW view \in Views, NEW primary
    PROVE  /\ IncidentsOK(Incidents(view, primary), {"ETH", "WTI"})
           /\ Lock \in DOMAIN memory.active => \A i \in Incidents(view, primary) : i.key # ReadFault
<1> DEFINE known == Migrated(memory.active, view.wti.revoked)
           eth == IF Dormant("ETH", primary, view) THEN {} ELSE Evaluate("ETH", view.eth)
           found == Evaluate("WTI", Notified(view.wti))
           exposed == [key |-> <<"WTI", "market_exposed">>, severity |-> "critical",
                       causes |-> {"market_exposed"}, cools |-> FALSE, announces |-> TRUE]
           kept == {i \in found : ~(Locked(known) /\ i.key = ReadFault)}
           wti == kept \cup (IF Exposed(view.wti) /\ ~view.wti.market THEN {exposed} ELSE {})
<1>1. view.eth.reason \notin Foreign /\ Notified(view.wti).reason \notin Foreign
  <2>1. /\ {"action", "reason"} \subseteq DOMAIN view.wti
        /\ view.eth.reason \notin Foreign /\ view.wti.reason \notin Foreign
    BY WatchdogAssumption DEF Foreign
  <2>2. ASSUME NEW reason
        PROVE  [view.wti EXCEPT !.action = "block_entry", !.reason = reason].reason = reason
    BY <2>1
  <2> QED BY <2>1, <2>2 DEF Notified, Foreign
<1>2. IncidentsOK(eth, {"ETH"})
  <2>1. IncidentsOK({}, {"ETH"})
    BY FS_EmptySet DEF IncidentsOK
  <2> QED BY <1>1, <2>1, EvaluateOK
<1>3. /\ IncidentsOK(found, {"WTI"})
      /\ \A i \in found : i.key # <<"WTI", "market_exposed">>
  BY <1>1, EvaluateOK
<1>4. IncidentsOK(wti, {"WTI"})
  <2>1. IsFiniteSet(wti)
    <3>1. IsFiniteSet(kept)
      BY <1>3, FS_Subset DEF IncidentsOK
    <3>2. IsFiniteSet({exposed}) /\ IsFiniteSet({})
      BY FS_Singleton, FS_EmptySet
    <3> QED BY <3>1, <3>2, FS_Union
  <2>2. /\ exposed.key = <<"WTI", "market_exposed">> /\ IsIncident(exposed)
        /\ exposed.key # Lock /\ exposed.key # ReadFault
    BY DEF IsIncident, Lock, ReadFault
  <2> HIDE DEF exposed, found
  <2>3. \A i \in wti : i = exposed \/ i \in found
    OBVIOUS
  <2> HIDE DEF wti
  <2> QED BY <1>3, <2>1, <2>2, <2>3 DEF IncidentsOK
<1>5. Incidents(view, primary) = IF ~view.monitored THEN {}
        ELSE eth \cup (IF Dormant("WTI", primary, view) THEN {} ELSE wti)
  BY DEF Incidents, WtiIncidents, ReadFault
<1> HIDE DEF wti
<1>6. ASSUME NEW S, NEW T, IncidentsOK(S, {"ETH"}), IncidentsOK(T, {"WTI"})
      PROVE  IncidentsOK(S \cup T, {"ETH", "WTI"})
  <2>1. IsFiniteSet(S \cup T)
    BY <1>6, FS_Union DEF IncidentsOK
  <2>2. \A i \in S, j \in T : i.key # j.key
    BY <1>6 DEF IncidentsOK
  <2> QED BY <1>6, <2>1, <2>2 DEF IncidentsOK
<1>7. IncidentsOK({}, {"ETH"}) /\ IncidentsOK({}, {"WTI"})
  BY FS_EmptySet DEF IncidentsOK
<1>8. IncidentsOK(Incidents(view, primary), {"ETH", "WTI"})
  <2>1. IncidentsOK({} \cup {}, {"ETH", "WTI"})
    BY <1>6, <1>7
  <2> HIDE DEF eth
  <2> QED BY <1>2, <1>4, <1>5, <1>6, <1>7, <2>1
<1>9. ASSUME Lock \in DOMAIN memory.active
      PROVE  \A i \in Incidents(view, primary) : i.key # ReadFault
  <2>1. Locked(known)
    BY <1>9 DEF Locked, Migrated, Lock
  <2>2. \A i \in wti : i.key # ReadFault
    BY <2>1 DEF wti, ReadFault
  <2>3. \A i \in eth : i.key # ReadFault
    <3> HIDE DEF eth
    <3> QED BY <1>2 DEF IncidentsOK, ReadFault
  <2> HIDE DEF eth
  <2> QED BY <1>5, <2>2, <2>3
<1> QED BY <1>8, <1>9

\* What survives the cooldowns, with account data that stayed invisible made
\* critical.
LEMMA CurrentIsOK ==
    ASSUME NEW incidents, NEW assets, IncidentsOK(incidents, assets),
           NEW known, NEW cooling, NEW lasting
    PROVE  LET current == Promoted(Kept(incidents, known, cooling), known, lasting) IN
           /\ IncidentsOK(current, assets)
           /\ \A i \in current : \E j \in incidents : i.key = j.key
<1> DEFINE kept == Kept(incidents, known, cooling)
           raised(i) == IF i.key[2] = "data_visibility" /\ i.key \in lasting
                        THEN [i EXCEPT !.severity = "critical", !.cools = FALSE, !.announces = TRUE]
                        ELSE i
           current == Promoted(kept, known, lasting)
<1>1. IncidentsOK(kept, assets)
  <2>1. kept \subseteq incidents
    BY DEF Kept
  <2> HIDE DEF kept
  <2>2. IsFiniteSet(kept)
    BY <2>1, FS_Subset DEF IncidentsOK
  <2> QED BY <2>1, <2>2 DEF IncidentsOK
<1>2. kept \subseteq incidents
  BY DEF Kept
<1> HIDE DEF kept
<1>3. current = kept \/ current = {raised(i) : i \in kept}
  BY DEF Promoted
<1>4. ASSUME NEW i \in kept
      PROVE  /\ raised(i).key = i.key /\ raised(i).causes = i.causes /\ IsIncident(raised(i))
             /\ i.key = Lock => raised(i) = i
  <2>1. IsIncident(i)
    BY <1>1 DEF IncidentsOK
  <2>2. i.key = Lock => i.key[2] # "data_visibility"
    BY DEF Lock
  <2>3. CASE raised(i) = i
    BY <2>1, <2>3
  <2>4. CASE i.key[2] = "data_visibility"
    <3> DEFINE r == [i EXCEPT !.severity = "critical", !.cools = FALSE, !.announces = TRUE]
    <3>1. /\ r.key = i.key /\ r.causes = i.causes /\ DOMAIN r = DOMAIN i
      BY <2>1 DEF IsIncident
    <3>2. raised(i) = r \/ raised(i) = i
      OBVIOUS
    <3> HIDE DEF r, raised
    <3>3. CASE raised(i) = r
      BY <2>1, <2>2, <2>4, <3>1, <3>3 DEF IsIncident
    <3> QED BY <2>1, <2>2, <2>4, <3>2, <3>3
  <2> QED BY <2>3, <2>4
<1> HIDE DEF raised
<1>5. CASE current = kept
  <2> HIDE DEF current
  <2>1. \A i \in current : \E j \in incidents : i.key = j.key
    BY <1>2, <1>5
  <2>2. IncidentsOK(current, assets)
    BY <1>1, <1>5
  <2> QED BY <2>1, <2>2 DEF current, kept
<1>6. CASE current = {raised(i) : i \in kept}
  <2> HIDE DEF current
  <2>1. IsFiniteSet(current)
    <3> DEFINE g == [i \in kept |-> raised(i)]
    <3>1. current = {g[i] : i \in kept}
      BY <1>6
    <3>2. g = [i \in kept |-> g[i]]
      OBVIOUS
    <3> HIDE DEF g
    <3> QED BY <1>1, <3>1, <3>2, ImageIsFinite DEF IncidentsOK
  <2>2. \A i \in current : \E j \in kept : i = raised(j)
    BY <1>6
  <2>3. ASSUME NEW i \in current, NEW j \in current, i.key = j.key PROVE i = j
    <3>1. PICK a \in kept : i = raised(a)
      BY <2>2
    <3>2. PICK b \in kept : j = raised(b)
      BY <2>2
    <3>3. a.key = b.key
      BY <1>4, <2>3, <3>1, <3>2
    <3>4. a = b
      BY <1>1, <3>3 DEF IncidentsOK
    <3> QED BY <3>1, <3>2, <3>4
  <2>4. ASSUME NEW i \in current
        PROVE  /\ IsIncident(i)
               /\ \E j \in incidents : i.key = j.key
               /\ \E asset \in assets : \E name : i.key = <<asset, name>>
               /\ i.key = Lock => i.severity = "warning" /\ i.causes = {"revoked"}
    <3>1. PICK a \in kept : i = raised(a)
      BY <2>2
    <3>2. i.key = a.key /\ IsIncident(i) /\ (a.key = Lock => i = a)
      BY <1>4, <3>1
    <3> QED BY <1>1, <1>2, <3>2 DEF IncidentsOK
  <2>5. IncidentsOK(current, assets)
    BY <2>1, <2>3, <2>4 DEF IncidentsOK
  <2> QED BY <2>4, <2>5 DEF current, kept
<1> QED BY <1>3, <1>5, <1>6

-----------------------------------------------------------------------------
(* What becomes of an incident.                                            *)

CountsOK(r) ==
    r.messages \in 0..MaxAttempts /\ r.barks \in 0..MaxAttempts /\ r.calls \in 0..MaxPhone

\* A delivery counts what it sends, up to the limits, and sends nothing for a
\* warning or an acknowledged incident.
LEMMA DeliverFacts ==
    ASSUME NEW i, NEW r, Fields \subseteq DOMAIN r, CountsOK(r), NEW up, NEW due, NEW allowed,
           NEW d, d = Deliver(i, r, up, due, allowed)
    PROVE  /\ DOMAIN d = DOMAIN r /\ CountsOK(d) /\ AtLeast(d, r)
           /\ d.severity = r.severity /\ d.signature = r.signature
           /\ d.token = r.token /\ (Acked(d) <=> Acked(r))
           /\ Acked(r) \/ i.severity # "critical" => SentSoFar(d) = SentSoFar(r)
<1> DEFINE messages == Tries(r.message, r.messages, MaxAttempts, "message", due)
           message == IF messages THEN Answer("message", up) ELSE r.message
           calls == message = "sent" /\ Tries(r.phone, r.calls, MaxPhone, "phone", due)
           phone == IF calls THEN Answer("phone", up) ELSE r.phone
           barks == r.telegram # "sent" /\ phone # "sent"
                    /\ Tries(r.bark, r.barks, MaxAttempts, "bark", due)
           bark == IF barks THEN Answer("bark", up) ELSE r.bark
           count(n, tried) == IF tried THEN n + 1 ELSE n
           delivered == [r EXCEPT !.message = message, !.messages = count(@, messages),
                             !.phone = phone, !.calls = count(@, calls),
                             !.bark = bark, !.barks = count(@, barks)]
<1>1. d = IF ~allowed \/ r.acked \/ i.severity # "critical" THEN r ELSE delivered
  BY DEF Deliver
<1>2. MaxAttempts \in Nat /\ MaxPhone \in Nat
  BY WatchdogAssumption
<1>3. /\ messages => r.messages < MaxAttempts
      /\ calls => r.calls < MaxPhone
      /\ barks => r.barks < MaxAttempts
  BY DEF Tries
<1> HIDE DEF messages, message, calls, phone, barks, bark
<1>4. /\ DOMAIN delivered = DOMAIN r
      /\ delivered.severity = r.severity /\ delivered.signature = r.signature
      /\ delivered.token = r.token /\ delivered.acked = r.acked
  BY DEF Fields
<1>5. /\ delivered.messages = count(r.messages, messages)
      /\ delivered.calls = count(r.calls, calls)
      /\ delivered.barks = count(r.barks, barks)
  BY DEF Fields
<1>6. CountsOK(delivered) /\ AtLeast(delivered, r)
  <2> HIDE DEF delivered
  <2> QED BY <1>2, <1>3, <1>5 DEF CountsOK, AtLeast
<1>7. AtLeast(r, r)
  BY <1>2 DEF CountsOK, AtLeast
<1> HIDE DEF delivered
<1>8. CASE d = r
  BY <1>7, <1>8
<1>9. CASE d = delivered /\ ~Acked(r) /\ i.severity = "critical"
  BY <1>4, <1>6, <1>9 DEF Acked
<1>10. d = r \/ (d = delivered /\ ~Acked(r) /\ i.severity = "critical")
  BY <1>1 DEF Acked
<1> QED BY <1>8, <1>9, <1>10

Raised(i, active) == i.key \notin DOMAIN active \/ active[i.key].signature # Signature(i)

\* An incident that is new or has changed gets a new record; another keeps its
\* token, the answer of the operator, and what was sent.
LEMMA AlarmFacts ==
    ASSUME NEW i, IsIncident(i), NEW active, i.key \in DOMAIN active => IsRecord(active[i.key]),
           NEW token \in Nat, Raised(i, active) => token # 0, NEW up, NEW due, NEW allowed,
           NEW a, a = Alarm(i, active, token, up, due, allowed)
    PROVE  /\ IsRecord(a) /\ a.signature = Signature(i)
           /\ Raised(i, active) => a.token = token
           /\ ~Raised(i, active) =>
                /\ a.token = active[i.key].token /\ (Acked(a) <=> Acked(active[i.key]))
                /\ AtLeast(a, active[i.key])
                /\ Acked(active[i.key]) => SentSoFar(a) = SentSoFar(active[i.key])
<1>1. CASE Raised(i, active)
  <2> DEFINE r == Telegram(Undelivered(i, token), up, allowed)
  <2>1. a = Deliver(i, r, up, due, allowed)
    BY <1>1 DEF Alarm, Raised
  <2>2. /\ Fields \subseteq DOMAIN r /\ SentSoFar(r) = <<0, 0, 0>>
        /\ r.severity = i.severity /\ r.signature = Signature(i) /\ r.token = token
    BY DEF Telegram, Undelivered, Fields, SentSoFar
  <2>3. CountsOK(r)
    BY <2>2, WatchdogAssumption DEF CountsOK, SentSoFar
  <2> HIDE DEF r
  <2>4. /\ DOMAIN a = DOMAIN r /\ CountsOK(a)
        /\ a.severity = r.severity /\ a.signature = r.signature /\ a.token = r.token
        /\ i.severity # "critical" => SentSoFar(a) = SentSoFar(r)
    BY <2>1, <2>2, <2>3, DeliverFacts
  <2>5. IsRecord(a)
    BY <1>1, <2>2, <2>4 DEF IsRecord, CountsOK, Signature
  <2> QED BY <1>1, <2>2, <2>4, <2>5
<1>2. CASE ~Raised(i, active)
  <2> DEFINE old == active[i.key]
             r == [old EXCEPT !.candidate = FALSE, !.cools = i.cools, !.announces = i.announces]
  <2>1. a = Deliver(i, r, up, due, allowed)
    BY <1>2 DEF Alarm, Raised
  <2>2. IsRecord(old) /\ old.signature = Signature(i)
    BY <1>2 DEF Raised
  <2>3. /\ DOMAIN r = DOMAIN old /\ SentSoFar(r) = SentSoFar(old)
        /\ r.messages = old.messages /\ r.calls = old.calls /\ r.barks = old.barks
        /\ r.severity = old.severity /\ r.signature = old.signature
        /\ r.token = old.token /\ (Acked(r) <=> Acked(old))
    BY <2>2 DEF IsRecord, Fields, SentSoFar, Acked
  <2> HIDE DEF r, old
  <2>4. CountsOK(r) /\ Fields \subseteq DOMAIN r
    BY <2>2, <2>3 DEF CountsOK, IsRecord
  <2>5. /\ DOMAIN a = DOMAIN r /\ CountsOK(a) /\ AtLeast(a, r)
        /\ a.severity = r.severity /\ a.signature = r.signature
        /\ a.token = r.token /\ (Acked(a) <=> Acked(r))
        /\ Acked(r) \/ i.severity # "critical" => SentSoFar(a) = SentSoFar(r)
    BY <2>1, <2>4, DeliverFacts
  <2>6. old.severity = i.severity
    BY <2>2 DEF IsRecord, Signature
  <2>7. IsRecord(a)
    BY <2>2, <2>3, <2>5, <2>6 DEF IsRecord, CountsOK
  <2>8. AtLeast(a, old)
    BY <2>3, <2>5 DEF AtLeast
  <2> QED BY <1>2, <2>2, <2>3, <2>5, <2>7, <2>8 DEF old
<1> QED BY <1>1, <1>2

-----------------------------------------------------------------------------
(* What is known before the alarms: the records of the last poll, with the *)
(* buttons answered and, behind a permanent lock, the warnings migrated.   *)

\* A record that only the answer of the operator may tell from another.
SameAlert(r, s) ==
    /\ r.token = s.token /\ r.signature = s.signature /\ r.severity = s.severity
    /\ r.messages = s.messages /\ r.calls = s.calls /\ r.barks = s.barks

LEMMA AcknowledgedFacts ==
    ASSUME NEW active, RecordsOK(active), NEW updates, NEW last, IssuedBy(active, last)
    PROVE  LET acked == Acknowledged(active, updates) IN
           /\ DOMAIN acked = DOMAIN active /\ RecordsOK(acked) /\ IssuedBy(acked, last)
           /\ \A k \in DOMAIN active : SameAlert(acked[k], active[k])
           /\ \A k \in DOMAIN active : Acked(active[k]) => Acked(acked[k])
           /\ \A k \in DOMAIN active, does \in {"ack", "silence"} :
                [does |-> does, token |-> active[k].token] \in updates => Acked(acked[k])
<1> DEFINE acked == Acknowledged(active, updates)
           answered(k) == Silencing(active, updates)
                            \/ [does |-> "ack", token |-> active[k].token] \in updates
<1>1. DOMAIN acked = DOMAIN active
  BY DEF Acknowledged
<1>2. ASSUME NEW k \in DOMAIN active
      PROVE  acked[k] = IF answered(k) THEN [active[k] EXCEPT !.acked = TRUE] ELSE active[k]
  BY DEF Acknowledged
<1>3. \A k \in DOMAIN active, does \in {"ack", "silence"} :
        [does |-> does, token |-> active[k].token] \in updates => answered(k)
  BY DEF Silencing
<1> HIDE DEF acked, answered
<1>4. ASSUME NEW k \in DOMAIN active
      PROVE  /\ IsRecord(acked[k]) /\ SameAlert(acked[k], active[k])
             /\ Acked(active[k]) \/ answered(k) => Acked(acked[k])
  <2>1. IsRecord(active[k])
    BY DEF RecordsOK
  <2> DEFINE r == [active[k] EXCEPT !.acked = TRUE]
  <2>2. DOMAIN r = DOMAIN active[k] /\ SameAlert(r, active[k]) /\ Acked(r)
    BY <2>1 DEF IsRecord, Fields, SameAlert, Acked
  <2>3. SameAlert(active[k], active[k])
    BY DEF SameAlert
  <2> HIDE DEF r
  <2>4. IsRecord(r)
    BY <2>1, <2>2 DEF IsRecord, SameAlert, SentSoFar
  <2>5. acked[k] = IF answered(k) THEN r ELSE active[k]
    BY <1>2 DEF r
  <2>6. CASE answered(k)
    BY <2>2, <2>4, <2>5, <2>6
  <2>7. CASE ~answered(k)
    BY <2>1, <2>3, <2>5, <2>7
  <2> QED BY <2>6, <2>7
<1>5. RecordsOK(acked) /\ IssuedBy(acked, last)
  BY <1>1, <1>4 DEF RecordsOK, IssuedBy, SameAlert
<1> QED BY <1>1, <1>3, <1>4, <1>5 DEF acked

Warnings(active) == {k \in DOMAIN active \cap BlockEntry : active[k].severity = "warning"}

\* A permanent lock takes over the record of a warning, with its token and its
\* answer, and no other record changes.
LEMMA MigratedFacts ==
    ASSUME NEW active, RecordsOK(active), NEW revoked
    PROVE  LET known == Migrated(active, revoked) IN
           /\ RecordsOK(known)
           /\ \A k \in DOMAIN known :
                \/ k \in DOMAIN active /\ known[k] = active[k]
                \/ /\ k = Lock /\ SentSoFar(known[k]) = <<0, 0, 0>>
                   /\ \E j \in DOMAIN active : known[k].token = active[j].token
                                               /\ (Acked(active[j]) => Acked(known[k]))
           /\ \A k \in DOMAIN active :
                \/ k \in DOMAIN known /\ known[k] = active[k]
                \/ active[k].calls = 0
           /\ Lock \in DOMAIN active => Lock \in DOMAIN known
<1> DEFINE known == Migrated(active, revoked)
           old == Warnings(active)
           rank(k) == (IF active[k].acked THEN 2 ELSE 0)
                      + (IF active[k].telegram = "sent" THEN 1 ELSE 0)
           best == CHOOSE k \in old : \A j \in old : rank(j) <= rank(k)
           heir == [active[best] EXCEPT !.signature = <<"warning", {"revoked"}>>]
           moved == [k \in (DOMAIN active \ old) \cup {Lock} |-> IF k = Lock THEN heir ELSE active[k]]
<1>1. known = IF ~revoked \/ old = {} THEN active ELSE moved
  BY DEF Migrated, Warnings, Lock
<1>2. CASE known = active
  <2> HIDE DEF known
  <2> QED BY <1>2 DEF known
<1>3. CASE known = moved /\ old # {}
  <2>1. \E k \in old : \A j \in old : rank(j) <= rank(k)
    <3>1. \A k \in old : rank(k) \in 0..3
      OBVIOUS
    <3> HIDE DEF rank, old
    <3>2. CASE \E k \in old : rank(k) = 3
      BY <3>1, <3>2
    <3>3. CASE (\E k \in old : rank(k) = 2) /\ \A k \in old : rank(k) # 3
      BY <3>1, <3>3
    <3>4. CASE (\E k \in old : rank(k) = 1) /\ \A k \in old : rank(k) \notin {2, 3}
      BY <3>1, <3>4
    <3>5. CASE \A k \in old : rank(k) \notin {1, 2, 3}
      BY <1>3, <3>1, <3>5
    <3> QED BY <3>2, <3>3, <3>4, <3>5
  <2>2. best \in old
    <3> HIDE DEF rank, old
    <3> QED BY <2>1
  <2> HIDE DEF best
  <2>3. best \in DOMAIN active /\ active[best].severity = "warning" /\ IsRecord(active[best])
    BY <2>2 DEF Warnings, RecordsOK
  <2>4. /\ DOMAIN heir = DOMAIN active[best]
        /\ heir.signature = <<"warning", {"revoked"}>> /\ heir.severity = "warning"
        /\ heir.token = active[best].token /\ (Acked(active[best]) => Acked(heir))
        /\ heir.messages = active[best].messages /\ heir.calls = active[best].calls
        /\ heir.barks = active[best].barks
    BY <2>3 DEF IsRecord, Fields, Acked
  <2> HIDE DEF heir
  <2>5. IsRecord(heir) /\ SentSoFar(heir) = <<0, 0, 0>>
    BY <2>3, <2>4 DEF IsRecord, SentSoFar
  <2>6. /\ DOMAIN moved = (DOMAIN active \ old) \cup {Lock} /\ moved[Lock] = heir
        /\ \A k \in DOMAIN active \ old : k # Lock => moved[k] = active[k]
    OBVIOUS
  <2> HIDE DEF moved, known
  <2>7. RecordsOK(moved)
    BY <2>4, <2>5, <2>6 DEF RecordsOK
  <2>8. ASSUME NEW k \in DOMAIN active, k \in old \/ k = Lock PROVE active[k].calls = 0
    <3>1. IsRecord(active[k])
      BY DEF RecordsOK
    <3>2. active[k].severity = "warning"
      BY <2>8, <3>1 DEF RecordsOK, IsRecord, Warnings
    <3> QED BY <3>1, <3>2 DEF IsRecord, SentSoFar
  <2>9. \A k \in DOMAIN moved :
                \/ k \in DOMAIN active /\ moved[k] = active[k]
                \/ /\ k = Lock /\ SentSoFar(moved[k]) = <<0, 0, 0>>
                   /\ \E j \in DOMAIN active : moved[k].token = active[j].token
                                               /\ (Acked(active[j]) => Acked(moved[k]))
    BY <2>3, <2>4, <2>5, <2>6
  <2>10. \A k \in DOMAIN active :
                \/ k \in DOMAIN moved /\ moved[k] = active[k]
                \/ active[k].calls = 0
    BY <2>6, <2>8
  <2>11. Lock \in DOMAIN moved
    BY <2>6
  <2> HIDE DEF old
  <2> QED BY <1>3, <2>7, <2>9, <2>10, <2>11 DEF known
<1> QED BY <1>1, <1>2, <1>3

LEMMA KnownFacts ==
    ASSUME CountersOK, MemoryOK(memory), NEW up, NEW updates, NEW revoked,
           updates = IF "telegram" \in up THEN Unread ELSE {}
    PROVE  LET known == Migrated(Acknowledged(memory.active, updates), revoked)
               offset == IF "telegram" \in up THEN Len(pressed) ELSE memory.offset
           IN  /\ offset \in 0..Len(pressed)
               /\ RecordsOK(known) /\ PressesAnswered(known, offset) /\ IssuedBy(known, tokens)
               /\ \A k \in DOMAIN known :
                    \/ k \in DOMAIN memory.active /\ SameAlert(known[k], memory.active[k])
                    \/ k = Lock /\ SentSoFar(known[k]) = <<0, 0, 0>>
               /\ \A k \in DOMAIN memory.active :
                    \/ k \in DOMAIN known /\ SameAlert(known[k], memory.active[k])
                    \/ memory.active[k].calls = 0
               /\ Lock \in DOMAIN memory.active => Lock \in DOMAIN known
<1> DEFINE active == memory.active
           acked == Acknowledged(active, updates)
           known == Migrated(acked, revoked)
           offset == IF "telegram" \in up THEN Len(pressed) ELSE memory.offset
<1>1. RecordsOK(active) /\ IssuedBy(active, tokens) /\ PressesAnswered(active, memory.offset)
      /\ memory.offset \in 0..Len(pressed) /\ Len(pressed) \in Nat
  BY DEF MemoryOK, CountersOK
<1>2. /\ DOMAIN acked = DOMAIN active /\ RecordsOK(acked) /\ IssuedBy(acked, tokens)
      /\ \A k \in DOMAIN active : SameAlert(acked[k], active[k])
      /\ \A k \in DOMAIN active : Acked(active[k]) => Acked(acked[k])
      /\ \A k \in DOMAIN active, does \in {"ack", "silence"} :
                [does |-> does, token |-> active[k].token] \in updates => Acked(acked[k])
  <2> HIDE DEF active
  <2> QED BY <1>1, AcknowledgedFacts
<1> HIDE DEF acked
<1>3. /\ RecordsOK(known)
      /\ \A k \in DOMAIN known :
            \/ k \in DOMAIN acked /\ known[k] = acked[k]
            \/ /\ k = Lock /\ SentSoFar(known[k]) = <<0, 0, 0>>
               /\ \E j \in DOMAIN acked : known[k].token = acked[j].token
                                          /\ (Acked(acked[j]) => Acked(known[k]))
      /\ \A k \in DOMAIN acked :
            \/ k \in DOMAIN known /\ known[k] = acked[k]
            \/ acked[k].calls = 0
      /\ Lock \in DOMAIN acked => Lock \in DOMAIN known
  BY <1>2, MigratedFacts
<1> HIDE DEF known, active
<1>4. offset \in 0..Len(pressed)
  BY <1>1
<1>5. PressesAnswered(acked, offset)
  <2> SUFFICES ASSUME NEW k \in DOMAIN acked, NEW n \in 1..offset,
                      pressed[n].token = acked[k].token
               PROVE  Acked(acked[k])
    BY DEF PressesAnswered
  <2>1. k \in DOMAIN active /\ acked[k].token = active[k].token
    BY <1>2 DEF SameAlert
  <2>2. CASE n \in 1..memory.offset
    BY <1>1, <1>2, <2>1, <2>2 DEF PressesAnswered
  <2>3. CASE n \notin 1..memory.offset
    <3>1. "telegram" \in up /\ n \in (memory.offset + 1)..Len(pressed)
      BY <1>1, <2>3
    <3>2. pressed[n] \in updates
      BY <3>1 DEF Unread
    <3>5. n \in 1..Len(pressed)
      BY <1>1, <3>1
    <3>3. pressed[n] \in [does : {"ack", "silence"}, token : Nat]
      <4> DEFINE Buttons == [does : {"ack", "silence"}, token : Nat]
      <4>1. pressed \in Seq(Buttons)
        BY DEF CountersOK
      <4> HIDE DEF Buttons
      <4>2. pressed[n] \in Buttons
        BY <3>5, <4>1
      <4> QED BY <4>2 DEF Buttons
    <3>4. pressed[n] = [does |-> pressed[n].does, token |-> active[k].token]
          /\ pressed[n].does \in {"ack", "silence"}
      BY <2>1, <3>3
    <3> QED BY <1>2, <2>1, <3>2, <3>4
  <2> QED BY <2>2, <2>3
<1> HIDE DEF offset
<1>6. PressesAnswered(known, offset)
  BY <1>3, <1>5 DEF PressesAnswered
<1>7. IssuedBy(known, tokens)
  BY <1>2, <1>3 DEF IssuedBy
<1>8. \A k \in DOMAIN known :
        \/ k \in DOMAIN active /\ SameAlert(known[k], active[k])
        \/ k = Lock /\ SentSoFar(known[k]) = <<0, 0, 0>>
  BY <1>2, <1>3
<1>9. \A k \in DOMAIN active :
        \/ k \in DOMAIN known /\ SameAlert(known[k], active[k])
        \/ active[k].calls = 0
  BY <1>2, <1>3 DEF SameAlert
<1>10. Lock \in DOMAIN active => Lock \in DOMAIN known
  BY <1>2, <1>3
<1> QED BY <1>3, <1>4, <1>6, <1>7, <1>8, <1>9, <1>10 DEF known, acked, active, offset

-----------------------------------------------------------------------------
(* One poll.                                                               *)

\* A record that goes on: another alert of the same episode.
Carries(r, s) ==
    /\ r.token = s.token /\ r.signature = s.signature
    /\ AtLeast(r, s) /\ (Acked(s) => Acked(r) /\ SentSoFar(r) = SentSoFar(s))

CallsBefore(known, k, signature) ==
    IF k \in DOMAIN known /\ known[k].signature = signature THEN known[k].calls ELSE 0
DialsBefore(k, signature) ==
    IF k \in DOMAIN dials /\ dials[k].signature = signature THEN dials[k].n ELSE 0

\* After a poll that found "current" and knew "known".
PollMoves(known, current, offset) ==
    /\ tokens' \in 0..MaxAlarms /\ tokens <= tokens'
    /\ {"active", "cooling", "primary", "offset"} \subseteq DOMAIN memory'
    /\ memory'.offset = offset /\ RecordsOK(memory'.active)
    /\ \A k \in DOMAIN memory'.active :
        \/ /\ memory'.active[k].token \in (tokens + 1)..tokens'
           /\ \E i \in current : i.key = k
           /\ k \notin DOMAIN known \/ known[k].signature # memory'.active[k].signature
        \/ k \in DOMAIN known /\ Carries(memory'.active[k], known[k])
    /\ \A k \in DOMAIN dials' :
        LET r == memory'.active[k] IN
        /\ k \in DOMAIN memory'.active /\ dials'[k].signature = r.signature
        /\ dials'[k].n = DialsBefore(k, r.signature) + (r.calls - CallsBefore(known, k, r.signature))

LEMMA CycleFacts ==
    ASSUME NEW current, NEW assets, IncidentsOK(current, assets), NEW known, RecordsOK(known),
           tokens \in Nat, {"active", "cooling", "primary", "offset"} \subseteq DOMAIN memory,
           NEW cooling, NEW view, NEW primary, NEW up, NEW quiet, NEW confirmed,
           Cycle(known, current, cooling, view, primary, up, quiet, confirmed)
    PROVE  /\ silenced' = quiet
           /\ PollMoves(known, current, IF "telegram" \in up THEN Len(pressed) ELSE memory.offset)
<1> DEFINE keys     == {i.key : i \in current}
           new      == {i.key : i \in {c \in current :
                           \/ c.key \notin DOMAIN known
                           \/ known[c.key].signature # Signature(c)}}
           missing  == DOMAIN known \ keys
           dormant  == {k \in missing : view.monitored /\ Dormant(k[1], primary, view)}
           held     == {k \in missing \ dormant : k[1] = "WTI"
                           /\ (~view.monitored \/ Unresolved(k, view.wti))}
           waiting  == {k \in missing \ (dormant \cup held) : k[1] = "WTI"
                           /\ (~known[k].candidate \/ ~confirmed)}
           gone     == missing \ (dormant \cup held \cup waiting)
           cooled   == {k \in gone : known[k].cools}
           last     == tokens + Cardinality(new)
           alarm(token, due) == [i \in current |->
                Alarm(i, known, IF i.key \in new THEN token[i.key] ELSE 0, up, due, ~quiet)]
           of(k)    == CHOOSE i \in current : i.key = k
           offset   == IF "telegram" \in up THEN Len(pressed) ELSE memory.offset
           result(alarmed) ==
        LET at(k) == alarmed[CHOOSE i \in current : i.key = k]
            calls(k) == at(k).calls - (IF k \in new THEN 0 ELSE known[k].calls)
            before(k) == IF k \in DOMAIN dials /\ dials[k].signature = at(k).signature
                         THEN dials[k].n ELSE 0
        IN  /\ memory' = [memory EXCEPT
                  !.active = [k \in keys \cup held \cup waiting |->
                                IF k \in keys THEN at(k)
                                ELSE [known[k] EXCEPT !.candidate = k \in waiting]],
                  !.cooling = cooling \cup cooled \cup (IF <<"ETH", "critical">> \in cooled
                                  THEN {<<"ETH", "feed_stale">>} ELSE {}),
                  !.primary = primary,
                  !.offset = IF "telegram" \in up THEN Len(pressed) ELSE @]
            /\ dials' = [k \in keys |-> [signature |-> at(k).signature, n |-> before(k) + calls(k)]]
           body(due, token) ==
        /\ \A j, k \in new : token[j] = token[k] => j = k
        /\ last <= MaxAlarms
        /\ tokens' = last
        /\ \E alarmed \in {alarm(token, due)} : result(alarmed)
        /\ silenced' = quiet
<1>19. \E due \in SUBSET Overdue, token \in [new -> (tokens + 1)..last] : body(due, token)
  BY Zenon DEF Cycle
<1> HIDE DEF body
<1>18. PICK due \in SUBSET Overdue, token \in [new -> (tokens + 1)..last] : body(due, token)
  BY <1>19
<1>20. /\ last <= MaxAlarms /\ tokens' = last /\ silenced' = quiet
       /\ token \in [new -> (tokens + 1)..last]
       /\ \E alarmed \in {alarm(token, due)} : result(alarmed)
  <2> HIDE DEF result, alarm, last, new
  <2> QED BY <1>18 DEF body
<1>21. PICK alarmed : alarmed = alarm(token, due) /\ result(alarmed)
  <2> HIDE DEF result, alarm
  <2> QED BY <1>20
<1> DEFINE at(k) == alarmed[of(k)]
           kept(k) == [known[k] EXCEPT !.candidate = k \in waiting]
           active == [k \in keys \cup held \cup waiting |-> IF k \in keys THEN at(k) ELSE kept(k)]
<1>2. /\ {"active", "cooling", "primary", "offset"} \subseteq DOMAIN memory'
      /\ memory'.active = active /\ memory'.offset = offset
  BY <1>21
<1>3. \A k \in keys : of(k) \in current /\ of(k).key = k
  OBVIOUS
<1>4. \A i \in current : i.key \in keys /\ of(i.key) = i
  BY <1>3 DEF IncidentsOK
<1>5. \A i \in current : i.key \in new <=> Raised(i, known)
  BY DEF Raised, IncidentsOK
<1>6. Cardinality(new) \in Nat
  <2>1. IsFiniteSet(keys)
    <3> DEFINE g == [i \in current |-> i.key]
    <3>1. keys = {g[i] : i \in current} /\ g = [i \in current |-> g[i]]
      OBVIOUS
    <3> HIDE DEF g, keys
    <3> QED BY <3>1, ImageIsFinite DEF IncidentsOK
  <2>2. new \subseteq keys
    OBVIOUS
  <2> HIDE DEF new, keys
  <2> QED BY <2>1, <2>2, FS_Subset, FS_CardinalityType
<1>7. /\ held \cup waiting \subseteq DOMAIN known
      /\ \A k \in held \cup waiting : k \notin keys
  OBVIOUS
<1>8. \A k \in keys : at(k) = Alarm(of(k), known, IF k \in new THEN token[k] ELSE 0, up, due, ~quiet)
  BY <1>3, <1>21
<1>1. \A k \in DOMAIN dials' : k \in keys
        /\ dials'[k] = [signature |-> at(k).signature,
                 n |-> (IF k \in DOMAIN dials /\ dials[k].signature = at(k).signature
                        THEN dials[k].n ELSE 0)
                       + (at(k).calls - (IF k \in new THEN 0 ELSE known[k].calls))]
  BY <1>21
<1> HIDE DEF result, at, alarm, of, keys, new, held, waiting
<1>9. ASSUME NEW k \in keys
      PROVE  /\ IsRecord(at(k)) /\ at(k).signature = Signature(of(k))
             /\ k \in new => at(k).token \in (tokens + 1)..last
             /\ k \notin new => k \in DOMAIN known /\ Carries(at(k), known[k])
             /\ k \in new <=> (k \notin DOMAIN known \/ known[k].signature # at(k).signature)
  <2> DEFINE i == of(k)
             given == IF k \in new THEN token[k] ELSE 0
  <2>1. i \in current /\ i.key = k /\ IsIncident(i)
    BY <1>3 DEF IncidentsOK
  <2>2. k \in DOMAIN known => IsRecord(known[k])
    BY DEF RecordsOK
  <2>3. k \in new => token[k] \in (tokens + 1)..last
    BY <1>20
  <2>4. given \in Nat /\ (k \in new => given # 0)
    <3> HIDE DEF last
    <3>1. last \in Nat
      BY <1>6 DEF last
    <3> QED BY <2>3, <3>1
  <2>5. k \in new <=> Raised(i, known)
    BY <1>5, <2>1
  <2>6. at(k) = Alarm(i, known, given, up, due, ~quiet)
    BY <1>8
  <2> HIDE DEF i, given
  <2>7. /\ IsRecord(at(k)) /\ at(k).signature = Signature(i)
        /\ Raised(i, known) => at(k).token = given
        /\ ~Raised(i, known) =>
              /\ at(k).token = known[k].token /\ (Acked(at(k)) <=> Acked(known[k]))
              /\ AtLeast(at(k), known[k])
              /\ Acked(known[k]) => SentSoFar(at(k)) = SentSoFar(known[k])
    BY <2>1, <2>2, <2>4, <2>5, <2>6, AlarmFacts
  <2>8. ~Raised(i, known) => k \in DOMAIN known /\ known[k].signature = at(k).signature
    BY <2>1, <2>7 DEF Raised
  <2>9. k \in new <=> (k \notin DOMAIN known \/ known[k].signature # at(k).signature)
    BY <2>1, <2>5, <2>7 DEF Raised
  <2>10. k \in new => at(k).token \in (tokens + 1)..last
    BY <2>3, <2>5, <2>7 DEF given
  <2>11. k \notin new => k \in DOMAIN known /\ Carries(at(k), known[k])
    BY <2>5, <2>7, <2>8 DEF Carries
  <2> QED BY <2>7, <2>9, <2>10, <2>11 DEF i
<1>10. ASSUME NEW k \in held \cup waiting
       PROVE  /\ IsRecord(kept(k)) /\ kept(k).signature = known[k].signature
              /\ k \in DOMAIN known /\ Carries(kept(k), known[k])
  <2>1. k \in DOMAIN known /\ IsRecord(known[k])
    BY <1>7 DEF RecordsOK
  <2> DEFINE r == kept(k)
  <2>2. /\ DOMAIN r = DOMAIN known[k] /\ SameAlert(r, known[k]) /\ (Acked(r) <=> Acked(known[k]))
    BY <2>1 DEF IsRecord, Fields, SameAlert, Acked
  <2> HIDE DEF r
  <2>3. SentSoFar(r) = SentSoFar(known[k])
    BY <2>2 DEF SameAlert, SentSoFar
  <2>4. IsRecord(r)
    BY <2>1, <2>2, <2>3 DEF IsRecord, SameAlert
  <2>5. AtLeast(r, known[k])
    BY <2>1, <2>2, WatchdogAssumption DEF AtLeast, SameAlert, IsRecord
  <2> QED BY <2>1, <2>2, <2>3, <2>4, <2>5 DEF r, Carries, SameAlert
<1> HIDE DEF kept
<1>11. /\ DOMAIN active = keys \cup held \cup waiting
       /\ \A k \in keys : active[k] = at(k)
       /\ \A k \in held \cup waiting : active[k] = kept(k)
  BY <1>7
<1> HIDE DEF active
<1>12. Lock \in keys => at(Lock).signature = <<"warning", {"revoked"}>>
  <2> SUFFICES ASSUME Lock \in keys PROVE at(Lock).signature = <<"warning", {"revoked"}>>
    OBVIOUS
  <2>1. of(Lock).severity = "warning" /\ of(Lock).causes = {"revoked"}
    BY <1>3 DEF IncidentsOK
  <2> QED BY <1>9, <2>1 DEF Signature
<1>13. RecordsOK(active)
  BY <1>9, <1>10, <1>11, <1>12 DEF RecordsOK
<1>14. tokens' \in 0..MaxAlarms /\ tokens <= tokens' /\ last = tokens'
  <2>1. MaxAlarms \in Nat
    BY WatchdogAssumption
  <2> QED BY <1>6, <1>20, <2>1
<1>15. ASSUME NEW k \in DOMAIN active
       PROVE  \/ /\ active[k].token \in (tokens + 1)..tokens'
                 /\ \E i \in current : i.key = k
                 /\ k \notin DOMAIN known \/ known[k].signature # active[k].signature
              \/ k \in DOMAIN known /\ Carries(active[k], known[k])
  <2>1. CASE k \in keys /\ k \in new
    BY <1>3, <1>9, <1>11, <1>14, <2>1
  <2>2. CASE k \in keys /\ k \notin new
    BY <1>9, <1>11, <2>2
  <2>3. CASE k \in held \cup waiting
    BY <1>10, <1>11, <2>3
  <2> QED BY <1>11, <2>1, <2>2, <2>3
<1>16. ASSUME NEW k \in DOMAIN dials'
       PROVE  /\ k \in DOMAIN active /\ dials'[k].signature = active[k].signature
              /\ dials'[k].n = DialsBefore(k, active[k].signature)
                                + (active[k].calls - CallsBefore(known, k, active[k].signature))
  <2>1. k \in keys
        /\ dials'[k] = [signature |-> at(k).signature,
                 n |-> (IF k \in DOMAIN dials /\ dials[k].signature = at(k).signature
                        THEN dials[k].n ELSE 0)
                       + (at(k).calls - (IF k \in new THEN 0 ELSE known[k].calls))]
    BY <1>1
  <2>2. active[k] = at(k)
    BY <1>11, <2>1
  <2>3. CallsBefore(known, k, at(k).signature) = IF k \in new THEN 0 ELSE known[k].calls
    BY <1>9, <2>1 DEF CallsBefore
  <2> QED BY <1>11, <2>1, <2>2, <2>3 DEF DialsBefore
<1> HIDE DEF offset, last
<1>17. PollMoves(known, current, offset)
  BY <1>2, <1>13, <1>14, <1>15, <1>16 DEF PollMoves
<1> QED BY <1>17, <1>20 DEF offset

\* What a poll knows before it raises alarms: the records of the last one with
\* the buttons up to the offset answered, but for the lock's, which may be a
\* migrated warning's.
Knows(known, offset) ==
    /\ offset \in 0..Len(pressed)
    /\ RecordsOK(known) /\ PressesAnswered(known, offset) /\ IssuedBy(known, tokens)
    /\ \A k \in DOMAIN known :
        \/ k \in DOMAIN memory.active /\ SameAlert(known[k], memory.active[k])
        \/ k = Lock /\ SentSoFar(known[k]) = <<0, 0, 0>>
    /\ \A k \in DOMAIN memory.active :
        \/ k \in DOMAIN known /\ SameAlert(known[k], memory.active[k])
        \/ memory.active[k].calls = 0
    /\ Lock \in DOMAIN memory.active => Lock \in DOMAIN known

LEMMA CountsAreNats ==
    ASSUME NEW r, IsRecord(r)
    PROVE  r.messages \in Nat /\ r.calls \in Nat /\ r.barks \in Nat
BY WatchdogAssumption DEF IsRecord

LEMMA PollIs ==
    ASSUME CountersOK, MemoryOK(memory), RunOnce
    PROVE  /\ silenced' \in BOOLEAN
           /\ \E known, current, offset :
                /\ Knows(known, offset) /\ PollMoves(known, current, offset)
                /\ Lock \in DOMAIN memory.active => \A i \in current : i.key # ReadFault
<1> DEFINE knownOf(updates, view) == Migrated(Acknowledged(memory.active, updates),
                                              view.monitored /\ view.wti.revoked)
           currentOf(incidents, known, lapsed, lasting) ==
               Promoted(Kept(incidents, known, memory.cooling \ lapsed), known, lasting)
           primaryOf(view) == IF view.monitored THEN Primary(view.eth, view.wti)
                              ELSE memory.primary
           updatesOf(up) == IF "telegram" \in up THEN Unread ELSE {}
           choices == IF Candidates = {} THEN {FALSE} ELSE BOOLEAN
           cycle(known, current, lapsed, view, primary, up, updates, confirmed) ==
               Cycle(known, current, memory.cooling \ lapsed, view, primary, up,
                     silenced \/ Silencing(memory.active, updates), confirmed)
<1>1. \E view \in Views, up \in Outcomes :
      \E primary \in {primaryOf(view)}, updates \in {updatesOf(up)} :
      \E known \in {knownOf(updates, view)}, incidents \in {Incidents(view, primary)},
         lapsed \in SUBSET memory.cooling, lasting \in SUBSET Lasting, confirmed \in choices :
      \E current \in {currentOf(incidents, known, lapsed, lasting)} :
          cycle(known, current, lapsed, view, primary, up, updates, confirmed)
  BY Zenon DEF RunOnce
<1> HIDE DEF knownOf, currentOf, primaryOf, updatesOf, choices, cycle
<1>2. PICK view, up, primary, updates, known, incidents, lapsed, lasting, confirmed, current :
        /\ updates = updatesOf(up) /\ known = knownOf(updates, view)
        /\ view \in Views /\ incidents = Incidents(view, primary)
        /\ current = currentOf(incidents, known, lapsed, lasting)
        /\ cycle(known, current, lapsed, view, primary, up, updates, confirmed)
  BY <1>1
<1> DEFINE offset == IF "telegram" \in up THEN Len(pressed) ELSE memory.offset
<1>3. Knows(known, offset)
  BY <1>2, KnownFacts DEF knownOf, updatesOf, Knows
<1>4. IncidentsOK(incidents, {"ETH", "WTI"})
      /\ (Lock \in DOMAIN memory.active => \A i \in incidents : i.key # ReadFault)
  BY <1>2, IncidentsAreOK
<1>5. IncidentsOK(current, {"ETH", "WTI"}) /\ \A i \in current : \E j \in incidents : i.key = j.key
  BY <1>2, <1>4, CurrentIsOK DEF currentOf
<1>6. tokens \in Nat /\ {"active", "cooling", "primary", "offset"} \subseteq DOMAIN memory
      /\ RecordsOK(known)
  BY <1>3, WatchdogAssumption DEF CountersOK, MemoryOK, Knows
<1>7. silenced' = (silenced \/ Silencing(memory.active, updates)) /\ PollMoves(known, current, offset)
  BY <1>2, <1>5, <1>6, CycleFacts DEF cycle
<1>8. silenced' \in BOOLEAN
  BY <1>7
<1> HIDE DEF offset
<1> QED BY <1>3, <1>4, <1>5, <1>7, <1>8

LEMMA PollTypes ==
    ASSUME CountersOK, MemoryOK(memory), RunOnce
    PROVE  /\ silenced' \in BOOLEAN /\ tokens' \in 0..MaxAlarms /\ tokens <= tokens'
           /\ {"active", "cooling", "primary", "offset"} \subseteq DOMAIN memory'
           /\ memory'.offset \in 0..Len(pressed)
           /\ RecordsOK(memory'.active) /\ PressesAnswered(memory'.active, memory'.offset)
           /\ IssuedBy(memory'.active, tokens')
<1>1. PICK known, current, offset : Knows(known, offset) /\ PollMoves(known, current, offset)
  BY PollIs
<1>2. tokens \in Nat /\ tokens' \in Nat /\ tokens <= tokens'
  BY <1>1, WatchdogAssumption DEF CountersOK, PollMoves
<1>3. \A n \in 1..offset : pressed[n].token <= tokens
  BY <1>1 DEF Knows, CountersOK
<1>4. ASSUME NEW k \in DOMAIN memory'.active
      PROVE  /\ memory'.active[k].token <= tokens'
             /\ \A n \in 1..offset : pressed[n].token = memory'.active[k].token
                                        => Acked(memory'.active[k])
  <2>1. CASE memory'.active[k].token \in (tokens + 1)..tokens'
    BY <1>2, <1>3, <2>1
  <2>2. CASE k \in DOMAIN known /\ Carries(memory'.active[k], known[k])
    <3>1. known[k].token \in Nat /\ known[k].token <= tokens
      BY <1>1, <2>2 DEF Knows, IssuedBy, RecordsOK, IsRecord
    <3>2. \A n \in 1..offset : pressed[n].token = known[k].token => Acked(known[k])
      BY <1>1, <2>2 DEF Knows, PressesAnswered
    <3> QED BY <1>2, <2>2, <3>1, <3>2 DEF Carries
  <2> QED BY <1>1, <2>1, <2>2 DEF PollMoves
<1> QED BY <1>1, <1>4, PollIs DEF PollMoves, PressesAnswered, IssuedBy, Knows

\* An alert goes out again only while no button under it was read.
LEMMA PollIsQuiet ==
    ASSUME CountersOK, MemoryOK(memory), RunOnce, NEW k \in DOMAIN memory'.active, Contacted(k),
           NEW n \in 1..memory'.offset
    PROVE  pressed[n].token # memory'.active[k].token
<1> SUFFICES ASSUME pressed[n].token = memory'.active[k].token PROVE FALSE
  OBVIOUS
<1> DEFINE r == memory'.active[k]
           s == memory.active[k]
<1>1. PICK known, current, offset : Knows(known, offset) /\ PollMoves(known, current, offset)
  BY PollIs
<1>2. n \in 1..offset /\ n \in 1..Len(pressed) /\ pressed[n].token <= tokens /\ tokens \in Nat
  BY <1>1, WatchdogAssumption DEF Knows, PollMoves, CountersOK
<1>3. k \in DOMAIN memory.active
      /\ (r.messages > s.messages \/ r.calls > s.calls \/ r.barks > s.barks)
  BY DEF Contacted
<1>4. IsRecord(r) /\ IsRecord(s)
  BY <1>1, <1>3 DEF PollMoves, MemoryOK, RecordsOK
<1> HIDE DEF r, s
<1>5. k \in DOMAIN known /\ Carries(r, known[k])
  BY <1>1, <1>2 DEF PollMoves, r
<1>6. Acked(known[k])
  BY <1>1, <1>2, <1>5 DEF Knows, PressesAnswered, Carries, r
<1>7. SentSoFar(r) = SentSoFar(known[k])
  BY <1>5, <1>6 DEF Carries
<1>8. CASE SameAlert(known[k], s)
  BY <1>3, <1>4, <1>7, <1>8, WatchdogAssumption DEF SameAlert, SentSoFar, IsRecord
<1>9. CASE SentSoFar(known[k]) = <<0, 0, 0>>
  <2>1. r.messages = 0 /\ r.calls = 0 /\ r.barks = 0
    BY <1>7, <1>9 DEF SentSoFar
  <2> QED BY <1>3, <1>4, <2>1, WatchdogAssumption DEF IsRecord
<1> QED BY <1>1, <1>5, <1>8, <1>9 DEF Knows, s

\* What was sent of an alert is never less than what is saved.
LEMMA PollIsAhead ==
    ASSUME CountersOK, MemoryOK(memory), MemoryOK(disk), DiskBehind, RunOnce,
           NEW k \in DOMAIN memory'.active \cap DOMAIN disk.active,
           memory'.active[k].token = disk.active[k].token
    PROVE  AtLeast(memory'.active[k], disk.active[k])
<1> DEFINE r == memory'.active[k]
           d == disk.active[k]
<1>1. PICK known, current, offset : Knows(known, offset) /\ PollMoves(known, current, offset)
  BY PollIs
<1>2. IsRecord(r) /\ IsRecord(d) /\ d.token <= tokens /\ tokens \in Nat
  BY <1>1, WatchdogAssumption DEF PollMoves, MemoryOK, RecordsOK, IssuedBy, CountersOK
<1>3. r.token = d.token
  OBVIOUS
<1>4. k \in DOMAIN known /\ Carries(r, known[k])
  <2>1. r.token \notin (tokens + 1)..tokens'
    BY <1>2, <1>3 DEF IsRecord
  <2> QED BY <1>1, <2>1 DEF PollMoves
<1>5. IsRecord(known[k])
  BY <1>1, <1>4 DEF Knows, RecordsOK
<1>6. CASE k \in DOMAIN memory.active /\ SameAlert(known[k], memory.active[k])
  <2>1. AtLeast(memory.active[k], d)
    BY <1>3, <1>4, <1>6 DEF DiskBehind, Carries, SameAlert
  <2> HIDE DEF r, d
  <2> DEFINE s == known[k]
  <2>2. /\ s.messages >= d.messages /\ s.calls >= d.calls /\ s.barks >= d.barks
        /\ r.messages >= s.messages /\ r.calls >= s.calls /\ r.barks >= s.barks
    BY <1>4, <1>6, <2>1 DEF AtLeast, Carries, SameAlert
  <2>3. IsRecord(s)
    BY <1>5
  <2> HIDE DEF s
  <2>4. AtLeast(r, d)
    BY <1>2, <2>2, <2>3, CountsAreNats DEF AtLeast
  <2> QED BY <2>4 DEF r, d
<1>7. CASE k = Lock
  <2>1. d.signature = <<"warning", {"revoked"}>>
    BY <1>7 DEF MemoryOK, RecordsOK
  <2> HIDE DEF r, d
  <2>2. d.severity = "warning"
    BY <1>2, <2>1 DEF IsRecord
  <2>3. d.messages = 0 /\ d.calls = 0 /\ d.barks = 0
    BY <1>2, <2>2 DEF IsRecord, SentSoFar
  <2>4. AtLeast(r, d)
    BY <1>2, <2>3, CountsAreNats DEF AtLeast
  <2> QED BY <2>4 DEF r, d
<1> QED BY <1>1, <1>4, <1>6, <1>7 DEF Knows

\* Neither the lock nor the reads behind it ring again.
LEMMA PollKeepsLock ==
    ASSUME CountersOK, MemoryOK(memory), RunOnce, Lock \in DOMAIN memory.active,
           NEW k \in DOMAIN memory'.active \cap {Lock, ReadFault}
    PROVE  memory'.active[k].token <= tokens
<1>1. PICK known, current, offset :
        /\ Knows(known, offset) /\ PollMoves(known, current, offset)
        /\ \A i \in current : i.key # ReadFault
  BY PollIs
<1>2. k \in DOMAIN known /\ Carries(memory'.active[k], known[k])
  BY <1>1 DEF PollMoves, Knows, RecordsOK
<1> QED BY <1>1, <1>2 DEF Carries, Knows, IssuedBy

\* The calls of a poll are counted on top of those of the polls before.
LEMMA PollRings ==
    ASSUME CountersOK, MemoryOK(memory), RingsCounted, running = TRUE, RunOnce, NEW k \in DOMAIN dials'
    PROVE  /\ k \in DOMAIN memory'.active /\ dials'[k].signature = memory'.active[k].signature
           /\ dials'[k].n \in Nat /\ memory'.active[k].calls \in 0..MaxPhone
           /\ dials'[k].n <= MaxPhone * kills + memory'.active[k].calls
<1> DEFINE r == memory'.active[k]
           before == DialsBefore(k, r.signature)
<1>1. PICK known, current, offset : Knows(known, offset) /\ PollMoves(known, current, offset)
  BY PollIs
<1> DEFINE calls == CallsBefore(known, k, r.signature)
           lost == MaxPhone * kills
<1>2. k \in DOMAIN memory'.active /\ dials'[k].signature = r.signature
      /\ dials'[k].n = before + (r.calls - calls)
  BY <1>1 DEF PollMoves
<1>3. IsRecord(r) /\ r.calls \in Nat /\ r.calls \in 0..MaxPhone
  BY <1>1, <1>2, WatchdogAssumption DEF PollMoves, RecordsOK, IsRecord
<1>4. lost \in Nat
  BY WatchdogAssumption DEF CountersOK
<1>5. calls \in Nat /\ calls <= r.calls
  <2>1. CASE k \in DOMAIN known /\ known[k].signature = r.signature
    <3>1. IsRecord(known[k])
      BY <1>1, <2>1 DEF Knows, RecordsOK
    <3>2. known[k].calls \in Nat
      BY <3>1, WatchdogAssumption DEF IsRecord
    <3>3. calls = known[k].calls
      BY <2>1 DEF CallsBefore
    <3>4. Carries(r, known[k])
      BY <1>1, <1>2, <2>1 DEF PollMoves
    <3>5. r.calls >= known[k].calls
      BY <3>4 DEF Carries, AtLeast
    <3> HIDE DEF calls, r
    <3> QED BY <1>3, <3>2, <3>3, <3>5
  <2>2. CASE ~(k \in DOMAIN known /\ known[k].signature = r.signature)
    BY <1>3, <2>2 DEF CallsBefore
  <2> QED BY <2>1, <2>2
<1> HIDE DEF lost
<1>6. before \in Nat /\ before <= lost + calls
  <2>1. CASE k \in DOMAIN dials /\ dials[k].signature = r.signature
    <3>1. before = dials[k].n /\ before \in Nat /\ before <= lost + Remembered(k)
      BY <2>1 DEF DialsBefore, RingsCounted, lost
    <3>2. Remembered(k) = 0 \/ Remembered(k) = calls
      BY <1>1, <2>1 DEF Knows, Remembered, CallsBefore, SameAlert
    <3> QED BY <1>4, <1>5, <3>1, <3>2
  <2>2. CASE ~(k \in DOMAIN dials /\ dials[k].signature = r.signature)
    BY <1>4, <1>5, <2>2 DEF DialsBefore
  <2> QED BY <2>1, <2>2
<1> HIDE DEF before, calls, r
<1>7. dials'[k].n \in Nat /\ dials'[k].n <= lost + r.calls
  BY <1>2, <1>3, <1>4, <1>5, <1>6
<1> QED BY <1>2, <1>3, <1>7 DEF lost, r

-----------------------------------------------------------------------------
(* The invariant and the properties.                                       *)

LEMMA InitWatch == WatchdogInit => WatchInv
<1> SUFFICES ASSUME WatchdogInit PROVE WatchInv
  OBVIOUS
<1>1. memory = NoMemory /\ disk = NoMemory /\ DOMAIN NoMemory.active = {} /\ NoMemory.offset = 0
      /\ {"active", "cooling", "primary", "offset"} \subseteq DOMAIN NoMemory
  BY DEF WatchdogInit, NoMemory
<1>2. CountersOK /\ Len(pressed) = 0
  <2>1. pressed = <<>> /\ Len(pressed) = 0
    BY DEF WatchdogInit
  <2>2. pressed \in Seq([does : {"ack", "silence"}, token : Nat])
    BY <2>1
  <2>3. running \in BOOLEAN /\ silenced \in BOOLEAN /\ tokens \in 0..MaxAlarms /\ kills \in 0..MaxKills
    <3>1. MaxAlarms \in Nat /\ MaxKills \in Nat
      BY WatchdogAssumption
    <3>2. running = TRUE /\ silenced = FALSE /\ tokens = 0 /\ kills = 0
      BY DEF WatchdogInit
    <3>3. tokens \in 0..MaxAlarms /\ kills \in 0..MaxKills
      BY <3>1, <3>2
    <3>4. running \in BOOLEAN /\ silenced \in BOOLEAN
      BY Zenon, <3>2
    <3> QED BY <3>3, <3>4
  <2> QED BY <2>1, <2>2, <2>3 DEF CountersOK
<1>3. MemoryOK(memory) /\ MemoryOK(disk)
  BY <1>1, <1>2 DEF MemoryOK, RecordsOK, PressesAnswered, IssuedBy
<1>4. DiskBehind
  BY <1>1 DEF DiskBehind
<1>5. RingsCounted
  BY DEF WatchdogInit, RingsCounted
<1> QED BY <1>2, <1>3, <1>4, <1>5 DEF WatchInv

\* More tokens disturb neither the buttons pressed nor what is saved.
LEMMA TokensStayIssued ==
    ASSUME CountersOK, running' \in BOOLEAN, silenced' \in BOOLEAN, tokens' \in 0..MaxAlarms,
           tokens <= tokens', kills' \in 0..MaxKills, pressed' = pressed
    PROVE  CountersOK'
<1>1. MaxAlarms \in Nat /\ tokens \in Nat /\ tokens' \in Nat
  BY WatchdogAssumption DEF CountersOK
<1>2. \A n \in 1..Len(pressed) : pressed[n].token \in Nat
  <2> DEFINE Buttons == [does : {"ack", "silence"}, token : Nat]
  <2>1. pressed \in Seq(Buttons)
    BY DEF CountersOK
  <2>2. \A b \in Buttons : b.token \in Nat
    OBVIOUS
  <2> HIDE DEF Buttons
  <2> QED BY <2>1, <2>2
<1>3. \A n \in 1..Len(pressed) : pressed[n].token <= tokens'
  BY <1>1, <1>2 DEF CountersOK
<1> QED BY <1>3 DEF CountersOK

LEMMA DiskStaysOK ==
    ASSUME CountersOK, MemoryOK(disk), disk' = disk, pressed' = pressed,
           tokens' \in Nat, tokens <= tokens'
    PROVE  MemoryOK(disk)'
<1>1. tokens \in Nat /\ \A k \in DOMAIN disk.active :
                            disk.active[k].token \in Nat /\ disk.active[k].token <= tokens
  BY WatchdogAssumption DEF CountersOK, MemoryOK, RecordsOK, IsRecord, IssuedBy
<1>2. IssuedBy(disk.active, tokens')
  BY <1>1 DEF IssuedBy
<1> QED BY <1>2 DEF MemoryOK, RecordsOK, PressesAnswered, IssuedBy, IsRecord

\* What a poll leaves in memory, whether it is saved or not.
LEMMA PollKeepsMemory ==
    ASSUME CountersOK, MemoryOK(memory), RunOnce, pressed' = pressed
    PROVE  MemoryOK(memory)'
BY PollTypes DEF MemoryOK, RecordsOK, PressesAnswered, IssuedBy, IsRecord

LEMMA PollKeepsInv == ASSUME WatchInv, Poll PROVE WatchInv'
<1>1. /\ CountersOK /\ MemoryOK(memory) /\ MemoryOK(disk) /\ DiskBehind /\ RingsCounted
      /\ running = TRUE /\ RunOnce /\ disk' = memory' /\ running' = running
      /\ pressed' = pressed /\ kills' = kills
  BY DEF WatchInv, CountersOK, Poll
<1>2. CountersOK'
  <2>1. silenced' \in BOOLEAN /\ tokens' \in 0..MaxAlarms /\ tokens <= tokens' /\ tokens \in 0..MaxAlarms
    BY <1>1, PollTypes DEF CountersOK
  <2>2. running' \in BOOLEAN /\ kills' \in 0..MaxKills
    BY <1>1 DEF CountersOK
  <2> QED BY <1>1, <2>1, <2>2, TokensStayIssued
<1>3. MemoryOK(memory)'
  BY <1>1, PollKeepsMemory
<1>4. MemoryOK(disk)'
  BY <1>1, <1>3 DEF MemoryOK
<1>5. DiskBehind'
  <2>1. \A k \in DOMAIN memory'.active : IsRecord(memory'.active[k])
    BY <1>1, PollTypes DEF RecordsOK
  <2>2. \A k \in DOMAIN memory'.active : AtLeast(memory'.active[k], memory'.active[k])
    BY <2>1, CountsAreNats DEF AtLeast
  <2> QED BY <1>1, <2>2 DEF DiskBehind, AtLeast
<1>6. RingsCounted'
  <2> SUFFICES ASSUME NEW k \in DOMAIN dials'
               PROVE  dials'[k].n \in Nat
                      /\ dials'[k].n <= MaxPhone * kills' + (IF running' THEN Remembered(k)' ELSE 0)
    BY DEF RingsCounted
  <2>1. /\ k \in DOMAIN memory'.active /\ dials'[k].signature = memory'.active[k].signature
        /\ dials'[k].n \in Nat
        /\ dials'[k].n <= MaxPhone * kills + memory'.active[k].calls
    BY <1>1, PollRings
  <2>2. Remembered(k)' = memory'.active[k].calls
    BY <2>1 DEF Remembered
  <2> QED BY <1>1, <2>1, <2>2
<1> QED BY <1>2, <1>3, <1>4, <1>5, <1>6 DEF WatchInv

LEMMA PollCutShortKeepsInv == ASSUME WatchInv, PollCutShort PROVE WatchInv'
<1>1. /\ CountersOK /\ MemoryOK(memory) /\ MemoryOK(disk) /\ DiskBehind /\ RingsCounted
      /\ running = TRUE /\ RunOnce /\ disk' = disk /\ running' = FALSE
      /\ pressed' = pressed /\ kills < MaxKills /\ kills' = kills + 1
  BY DEF WatchInv, CountersOK, PollCutShort
<1>2. silenced' \in BOOLEAN /\ tokens' \in 0..MaxAlarms /\ tokens <= tokens' /\ tokens \in 0..MaxAlarms
  BY <1>1, PollTypes DEF CountersOK
<1>3. kills \in Nat /\ MaxPhone \in Nat /\ kills' \in 0..MaxKills
  BY <1>1, WatchdogAssumption DEF CountersOK
<1>4. CountersOK'
  BY <1>1, <1>2, <1>3, TokensStayIssued
<1>5. MemoryOK(memory)'
  BY <1>1, PollKeepsMemory
<1>6. MemoryOK(disk)'
  BY <1>1, <1>2, DiskStaysOK
<1>7. DiskBehind'
  <2>1. \A k \in DOMAIN memory'.active \cap DOMAIN disk.active :
            memory'.active[k].token = disk.active[k].token
                => AtLeast(memory'.active[k], disk.active[k])
    BY <1>1, PollIsAhead
  <2> QED BY <1>1, <2>1 DEF DiskBehind, AtLeast
<1>8. RingsCounted'
  <2> SUFFICES ASSUME NEW k \in DOMAIN dials'
               PROVE  dials'[k].n \in Nat /\ dials'[k].n <= MaxPhone * kills'
    BY <1>1, <1>3 DEF RingsCounted
  <2>1. /\ dials'[k].n \in Nat /\ memory'.active[k].calls \in 0..MaxPhone
        /\ dials'[k].n <= MaxPhone * kills + memory'.active[k].calls
    BY <1>1, PollRings
  <2> DEFINE lost == MaxPhone * kills
  <2>2. MaxPhone * kills' = lost + MaxPhone /\ lost \in Nat
    BY <1>1, <1>3
  <2>3. dials'[k].n \in Nat /\ memory'.active[k].calls <= MaxPhone /\ memory'.active[k].calls \in Nat
        /\ dials'[k].n <= lost + memory'.active[k].calls
    BY <1>3, <2>1
  <2> HIDE DEF lost
  <2>4. dials'[k].n <= lost + MaxPhone
    BY <1>3, <2>2, <2>3
  <2> QED BY <2>2, <2>3, <2>4
<1> QED BY <1>4, <1>5, <1>6, <1>7, <1>8 DEF WatchInv

LEMMA RestartKeepsInv == ASSUME WatchInv, RestartWatchdog PROVE WatchInv'
<1>1. /\ CountersOK /\ MemoryOK(disk) /\ RingsCounted /\ running = FALSE /\ running' = TRUE
      /\ memory' = disk /\ UNCHANGED <<disk, silenced, pressed, tokens, dials, kills>>
  BY DEF WatchInv, CountersOK, RestartWatchdog
<1>2. CountersOK'
  BY <1>1 DEF CountersOK
<1>3. MemoryOK(memory)' /\ MemoryOK(disk)'
  BY <1>1 DEF MemoryOK, RecordsOK, PressesAnswered, IssuedBy, IsRecord
<1>4. DiskBehind'
  <2>1. \A k \in DOMAIN disk.active : AtLeast(disk.active[k], disk.active[k])
    BY <1>1, CountsAreNats DEF MemoryOK, RecordsOK, AtLeast
  <2> QED BY <1>1, <2>1 DEF DiskBehind, AtLeast
<1>5. RingsCounted'
  <2> SUFFICES ASSUME NEW k \in DOMAIN dials
               PROVE  dials[k].n \in Nat /\ dials[k].n <= MaxPhone * kills + Remembered(k)'
    BY <1>1 DEF RingsCounted
  <2>1. dials[k].n \in Nat /\ dials[k].n <= MaxPhone * kills + 0
    BY <1>1 DEF RingsCounted
  <2>2. Remembered(k)' \in Nat
    <3>1. k \in DOMAIN disk.active => disk.active[k].calls \in Nat
      BY <1>1, CountsAreNats DEF MemoryOK, RecordsOK
    <3> QED BY <1>1, <3>1 DEF Remembered
  <2>3. MaxPhone * kills \in Nat
    BY <1>1, WatchdogAssumption DEF CountersOK
  <2> QED BY <2>1, <2>2, <2>3
<1> QED BY <1>2, <1>3, <1>4, <1>5 DEF WatchInv

LEMMA PressKeepsInv ==
    ASSUME WatchInv, NEW does \in {"ack", "silence"}, NEW k \in DOMAIN memory.active, Press(does, k)
    PROVE  WatchInv'
<1> DEFINE Buttons == [does : {"ack", "silence"}, token : Nat]
           button == [does |-> does, token |-> memory.active[k].token]
<1>1. /\ CountersOK /\ MemoryOK(memory) /\ MemoryOK(disk) /\ DiskBehind /\ RingsCounted
      /\ pressed' = Append(pressed, button)
      /\ UNCHANGED <<running, memory, disk, silenced, tokens, dials, kills>>
  BY DEF WatchInv, Press
<1>2. button \in Buttons /\ button.token <= tokens
  BY <1>1 DEF MemoryOK, RecordsOK, IssuedBy, IsRecord
<1>3. pressed \in Seq(Buttons) /\ \A n \in 1..Len(pressed) : pressed[n].token <= tokens
  BY <1>1 DEF CountersOK
<1> HIDE DEF Buttons, button
<1>4. /\ pressed' \in Seq(Buttons) /\ Len(pressed') = Len(pressed) + 1
      /\ \A n \in 1..Len(pressed) : pressed'[n] = pressed[n]
      /\ pressed'[Len(pressed) + 1] = button /\ Len(pressed) \in Nat
  BY <1>1, <1>2, <1>3
<1>5. \A n \in 1..Len(pressed') : pressed'[n].token <= tokens
  BY <1>2, <1>3, <1>4
<1>6. CountersOK'
  BY <1>1, <1>4, <1>5 DEF CountersOK, Buttons
<1>7. ASSUME NEW m, MemoryOK(m)
      PROVE  /\ m.offset \in 0..Len(pressed')
             /\ \A j \in DOMAIN m.active, n \in 1..m.offset :
                    pressed'[n].token = m.active[j].token => Acked(m.active[j])
  BY <1>4, <1>7 DEF MemoryOK, PressesAnswered
<1>8. MemoryOK(memory)' /\ MemoryOK(disk)'
  BY <1>1, <1>7 DEF MemoryOK, PressesAnswered, RecordsOK, IssuedBy, IsRecord
<1>9. DiskBehind' /\ RingsCounted'
  BY <1>1 DEF DiskBehind, RingsCounted, Remembered, AtLeast
<1> QED BY <1>6, <1>8, <1>9 DEF WatchInv

\* Another process writes the acknowledgement into the saved file.
LEMMA CommandKeepsInv == ASSUME WatchInv, AcknowledgeByCommand PROVE WatchInv'
<1> DEFINE written == [k \in DOMAIN disk.active |-> [disk.active[k] EXCEPT !.acked = TRUE]]
<1>1. /\ CountersOK /\ MemoryOK(memory) /\ MemoryOK(disk) /\ DiskBehind /\ RingsCounted
      /\ disk' = [disk EXCEPT !.active = written]
      /\ UNCHANGED <<running, memory, silenced, pressed, tokens, dials, kills>>
  BY DEF WatchInv, AcknowledgeByCommand
<1>2. disk'.active = written /\ disk'.offset = disk.offset /\ DOMAIN disk' = DOMAIN disk
  BY <1>1 DEF MemoryOK
<1>3. \A k \in DOMAIN disk.active : IsRecord(disk.active[k])
  BY <1>1 DEF MemoryOK, RecordsOK
<1>4. ASSUME NEW k \in DOMAIN written
      PROVE  SameAlert(written[k], disk.active[k]) /\ Acked(written[k])
             /\ DOMAIN written[k] = DOMAIN disk.active[k]
  BY <1>3 DEF SameAlert, Acked, IsRecord, Fields
<1>5. DOMAIN written = DOMAIN disk.active
  OBVIOUS
<1> HIDE DEF written
<1>6. \A k \in DOMAIN written : IsRecord(written[k])
  BY <1>3, <1>4, <1>5 DEF SameAlert, IsRecord, SentSoFar
<1>7. RecordsOK(written) /\ PressesAnswered(written, disk.offset) /\ IssuedBy(written, tokens)
  BY <1>1, <1>4, <1>5, <1>6 DEF MemoryOK, RecordsOK, PressesAnswered, IssuedBy, SameAlert
<1>8. MemoryOK(disk)' /\ MemoryOK(memory)'
  BY <1>1, <1>2, <1>7 DEF MemoryOK, RecordsOK, PressesAnswered, IssuedBy, IsRecord
<1>9. DiskBehind'
  BY <1>1, <1>2, <1>4, <1>5 DEF DiskBehind, SameAlert, AtLeast
<1>10. CountersOK' /\ RingsCounted'
  BY <1>1 DEF CountersOK, RingsCounted, Remembered
<1> QED BY <1>8, <1>9, <1>10 DEF WatchInv

LEMMA NextWatch == WatchInv /\ [WatchdogNext]_watchdogVars => WatchInv'
<1> SUFFICES ASSUME WatchInv, [WatchdogNext]_watchdogVars PROVE WatchInv'
  OBVIOUS
<1>1. CASE Silence \/ Resume \/ UNCHANGED watchdogVars
  <2>1. silenced' \in BOOLEAN /\ UNCHANGED <<running, memory, disk, pressed, tokens, dials, kills>>
    BY <1>1 DEF Silence, Resume, watchdogVars, WatchInv, CountersOK
  <2>2. CountersOK'
    BY <2>1 DEF WatchInv, CountersOK
  <2>3. MemoryOK(memory)' /\ MemoryOK(disk)' /\ DiskBehind' /\ RingsCounted'
    BY <2>1 DEF WatchInv, MemoryOK, RecordsOK, PressesAnswered, IssuedBy, IsRecord, DiskBehind,
                AtLeast, RingsCounted, Remembered
  <2> QED BY <2>2, <2>3 DEF WatchInv
<1>2. CASE \E does \in {"ack", "silence"}, k \in DOMAIN memory.active : Press(does, k)
  BY <1>2, PressKeepsInv
<1> QED BY <1>1, <1>2, PollKeepsInv, PollCutShortKeepsInv, RestartKeepsInv, CommandKeepsInv
        DEF WatchdogNext

LEMMA WatchHolds == WatchdogSpec => []WatchInv
BY InitWatch, NextWatch, PTL DEF WatchdogSpec

-----------------------------------------------------------------------------

\* Every record has a token that was issued and attempts within the limits.
THEOREM WatchdogTypes == WatchdogSpec => []WatchdogTypeOK
<1>1. WatchInv => WatchdogTypeOK
  BY WatchdogAssumption DEF WatchInv, CountersOK, MemoryOK, RecordsOK, IssuedBy, IsRecord,
                            WatchdogTypeOK
<1> QED BY <1>1, WatchHolds, PTL

\* A fault rings at most MaxPhone times, and MaxPhone more for each crash that
\* lost what a poll had counted (_send_feishu_phone, _persist).
THEOREM RingsOnce == WatchdogSpec => []FaultRingsOnce
<1>1. WatchInv => FaultRingsOnce
  <2> SUFFICES ASSUME WatchInv, NEW k \in DOMAIN dials
               PROVE  dials[k].n <= MaxPhone * (kills + 1)
    BY DEF FaultRingsOnce
  <2>1. kills \in Nat /\ MaxPhone \in Nat
    BY WatchdogAssumption DEF WatchInv, CountersOK
  <2>2. MaxPhone * (kills + 1) = MaxPhone * kills + MaxPhone /\ MaxPhone * kills \in Nat
    BY <2>1
  <2>3. Remembered(k) \in 0..MaxPhone
    BY <2>1 DEF WatchInv, MemoryOK, RecordsOK, IsRecord, Remembered
  <2>4. dials[k].n \in Nat
        /\ dials[k].n <= MaxPhone * kills + (IF running THEN Remembered(k) ELSE 0)
    BY DEF WatchInv, RingsCounted
  <2> QED BY <2>1, <2>2, <2>3, <2>4
<1> QED BY <1>1, WatchHolds, PTL

\* After the button under an alert was read, the alert goes out no more
\* (_poll_telegram_acknowledgements).
THEOREM AcknowledgedStaysQuiet == WatchdogSpec => AcknowledgedIsQuiet
<1> DEFINE Quiet == \A k \in DOMAIN memory'.active : Contacted(k) =>
               ~\E n \in 1..memory'.offset : pressed[n].token = memory'.active[k].token
<1>1. WatchInv /\ [WatchdogNext]_watchdogVars => [Quiet]_watchdogVars
  <2> SUFFICES ASSUME WatchInv, WatchdogNext, NEW k \in DOMAIN memory'.active, Contacted(k)
               PROVE  ~\E n \in 1..memory'.offset : pressed[n].token = memory'.active[k].token
    OBVIOUS
  <2>1. CASE RunOnce
    BY <2>1, PollIsQuiet DEF WatchInv
  <2>2. CASE memory' = memory
    <3>1. IsRecord(memory.active[k])
      BY <2>2 DEF WatchInv, MemoryOK, RecordsOK
    <3> QED BY <2>2, <3>1, CountsAreNats DEF Contacted
  <2>3. CASE RestartWatchdog
    <3> DEFINE r == memory.active[k]
               d == disk.active[k]
    <3>1. memory' = disk /\ k \in DOMAIN memory.active /\ k \in DOMAIN disk.active
          /\ r.token = d.token
          /\ (d.messages > r.messages \/ d.calls > r.calls \/ d.barks > r.barks)
      BY <2>3 DEF RestartWatchdog, Contacted
    <3>2. AtLeast(r, d) /\ IsRecord(r) /\ IsRecord(d)
      BY <3>1 DEF WatchInv, DiskBehind, MemoryOK, RecordsOK
    <3> HIDE DEF r, d
    <3> QED BY <3>1, <3>2, CountsAreNats DEF AtLeast
  <2> QED BY <2>1, <2>2, <2>3 DEF WatchdogNext, Poll, PollCutShort, Silence, Resume,
                                  AcknowledgeByCommand, Press
<1> QED BY <1>1, WatchHolds, PTL DEF WatchdogSpec, AcknowledgedIsQuiet

\* While the watchdog remembers a permanent lock, neither the lock nor the
\* recovery reads behind it get a new alert (_migrate_wti_notification_memory).
THEOREM LockStaysTold == WatchdogSpec => LockIsToldOnce
<1> DEFINE Told == running /\ <<"WTI", "revoked">> \in DOMAIN memory.active =>
        \A k \in DOMAIN memory'.active \cap {<<"WTI", "revoked">>, <<"WTI", "account_read">>} :
            memory'.active[k].token <= tokens
<1>1. WatchInv /\ [WatchdogNext]_watchdogVars => [Told]_watchdogVars
  <2> SUFFICES ASSUME WatchInv, WatchdogNext, running, Lock \in DOMAIN memory.active,
                      NEW k \in DOMAIN memory'.active \cap {Lock, ReadFault}
               PROVE  memory'.active[k].token <= tokens
    BY DEF Lock, ReadFault
  <2>1. CASE RunOnce
    BY <2>1, PollKeepsLock DEF WatchInv
  <2>2. CASE memory' = memory
    BY <2>2 DEF WatchInv, MemoryOK, IssuedBy
  <2> QED BY <2>1, <2>2 DEF WatchdogNext, Poll, PollCutShort, RestartWatchdog, Silence, Resume,
                            AcknowledgeByCommand, Press
<1> QED BY <1>1, WatchHolds, PTL DEF WatchdogSpec, LockIsToldOnce

-----------------------------------------------------------------------------
(* The queue of trade notifications: what a stop that did not time out     *)
(* leaves behind. By itself that says nothing of the stop under way: the   *)
(* None must be in the queue once, with only late messages behind it.      *)

QueuedMessages == [key : Alerts \cup {"stop"}, repeats : Nat, late : BOOLEAN]

IsLate(m) == m # Stop /\ m.late

\* The None is at p.
EndsAt(p) ==
    /\ queue[p] = Stop
    /\ \A n \in 1..Len(queue) : n < p => queue[n] # Stop
    /\ \A n \in 1..Len(queue) : n > p => IsLate(queue[n])

NoStop == \A n \in 1..Len(queue) : queue[n] # Stop
AllLate == \A n \in 1..Len(queue) : IsLate(queue[n])

QueueInv ==
    /\ queue \in Seq(QueuedMessages) /\ suppressed \in [Alerts -> Nat]
    /\ worker \in {"none", "running", "done"}
    /\ stopping \in {"no", "joining", "joined"} => NoStop /\ worker # "done"
    /\ stopping = "closing" =>
        \/ worker = "running" /\ \E p \in 1..Len(queue) : EndsAt(p)
        \/ worker = "done" /\ inflight = {} /\ AllLate
    /\ stopping \in {"joining", "joined"} => worker # "none"
    /\ stopping \in {"stopped", "cancelled"} => worker = "none"
    /\ stopping = "stopped" => inflight = {} /\ AllLate

LEMMA StopIsMessage == Stop \in QueuedMessages
BY DEF Stop, QueuedMessages

\* What appending leaves of the queue.
LEMMA Appended ==
    ASSUME NEW S, NEW q \in Seq(S), NEW m \in S
    PROVE  /\ Append(q, m) \in Seq(S) /\ Len(Append(q, m)) = Len(q) + 1 /\ Len(q) \in Nat
           /\ \A n \in 1..Len(q) : Append(q, m)[n] = q[n]
           /\ Append(q, m)[Len(q) + 1] = m
OBVIOUS

\* What taking the first message leaves of it.
LEMMA Tailed ==
    ASSUME NEW S, NEW q \in Seq(S), q # <<>>
    PROVE  /\ Tail(q) \in Seq(S) /\ Len(q) \in Nat \ {0} /\ Len(Tail(q)) = Len(q) - 1
           /\ \A n \in 1..(Len(q) - 1) : Tail(q)[n] = q[n + 1]
           /\ Head(q) = q[1]
OBVIOUS

LEMMA EnqueueKeepsQueue == ASSUME QueueInv, NEW k \in Alerts, Enqueue(k) PROVE QueueInv'
<1> DEFINE m == [key |-> k, repeats |-> suppressed[k],
                 late |-> stopping \in {"closing", "stopped", "cancelled"}]
<1>1. /\ UNCHANGED <<worker, stopping, inflight>> /\ suppressed' = Unreported(k)
      /\ queue' = queue \/ queue' = Append(queue, m)
  BY DEF Enqueue
<1>2. suppressed \in [Alerts -> Nat] /\ queue \in Seq(QueuedMessages)
  BY DEF QueueInv
<1>3. suppressed' \in [Alerts -> Nat]
  BY <1>1, <1>2 DEF Unreported
<1>4. CASE queue' = queue
  BY <1>1, <1>3, <1>4 DEF QueueInv, EndsAt, NoStop, AllLate, IsLate
<1>5. CASE queue' = Append(queue, m)
  <2>1. m \in QueuedMessages
    BY <1>2 DEF QueuedMessages
  <2>2. m # Stop
    BY QueueAssumption DEF Stop
  <2>3. stopping \in {"closing", "stopped"} => IsLate(m)
    BY <2>2 DEF IsLate
  <2> HIDE DEF m
  <2>4. /\ queue' \in Seq(QueuedMessages) /\ Len(queue') = Len(queue) + 1 /\ Len(queue) \in Nat
        /\ \A n \in 1..Len(queue) : queue'[n] = queue[n]
        /\ queue'[Len(queue) + 1] = m
    BY <1>2, <1>5, <2>1, Appended
  <2>5. \A n \in 1..Len(queue') : n \in 1..Len(queue) \/ n = Len(queue) + 1
    BY <2>4
  <2>6. NoStop => NoStop'
    BY <2>2, <2>4, <2>5 DEF NoStop
  <2>7. stopping \in {"closing", "stopped"} => (AllLate => AllLate')
    BY <2>3, <2>4, <2>5 DEF AllLate, IsLate
  <2>8. ASSUME stopping = "closing", NEW p \in 1..Len(queue), EndsAt(p)
        PROVE  p \in 1..Len(queue') /\ EndsAt(p)'
    <3>1. p \in 1..Len(queue') /\ queue'[p] = Stop
      BY <2>4, <2>8 DEF EndsAt
    <3>2. \A n \in 1..Len(queue') : n < p => queue'[n] # Stop
      BY <2>4, <2>5, <2>8 DEF EndsAt
    <3>3. \A n \in 1..Len(queue') : n > p => IsLate(queue'[n])
      BY <2>3, <2>4, <2>5, <2>8 DEF EndsAt
    <3> QED BY <3>1, <3>2, <3>3 DEF EndsAt, IsLate
  <2> QED BY <1>1, <1>3, <2>4, <2>6, <2>7, <2>8 DEF QueueInv
<1> QED BY <1>1, <1>4, <1>5

LEMMA TakeKeepsQueue == ASSUME QueueInv, TakeMessage PROVE QueueInv'
<1>1. /\ worker = "running" /\ inflight = {} /\ queue # <<>> /\ queue' = Tail(queue)
      /\ UNCHANGED <<stopping, suppressed>>
      /\ \/ Head(queue) = Stop /\ worker' = "done" /\ inflight' = inflight
         \/ Head(queue) # Stop /\ worker' = worker
  BY DEF TakeMessage
<1>2. /\ queue \in Seq(QueuedMessages) /\ suppressed \in [Alerts -> Nat]
      /\ stopping \notin {"stopped", "cancelled"}
  BY <1>1 DEF QueueInv
<1>3. /\ queue' \in Seq(QueuedMessages) /\ Len(queue) \in Nat \ {0} /\ Len(queue') = Len(queue) - 1
      /\ \A n \in 1..(Len(queue) - 1) : queue'[n] = queue[n + 1]
      /\ Head(queue) = queue[1]
  <2> HIDE DEF QueuedMessages
  <2> QED BY <1>1, <1>2, Tailed
<1>4. \A n \in 1..Len(queue') : queue'[n] = queue[n + 1] /\ n + 1 \in 1..Len(queue)
  BY <1>3
<1>5. CASE stopping \in {"no", "joining", "joined"}
  <2>1. NoStop /\ Head(queue) # Stop
    BY <1>3, <1>5 DEF QueueInv, NoStop
  <2>2. NoStop'
    BY <1>4, <2>1 DEF NoStop
  <2> QED BY <1>1, <1>2, <1>3, <1>5, <2>1, <2>2 DEF QueueInv
<1>6. CASE stopping = "closing"
  <2>1. PICK p \in 1..Len(queue) : EndsAt(p)
    BY <1>1, <1>6 DEF QueueInv
  <2>2. CASE p = 1
    <3>1. worker' = "done" /\ inflight' = {}
      BY <1>1, <1>3, <2>1, <2>2 DEF EndsAt
    <3>2. \A n \in 1..Len(queue') : IsLate(queue'[n])
      BY <1>3, <1>4, <2>1, <2>2 DEF EndsAt
    <3> QED BY <1>1, <1>2, <1>3, <1>6, <3>1, <3>2 DEF QueueInv, AllLate, IsLate
  <2>3. CASE p # 1
    <3>1. worker' = "running"
      BY <1>1, <1>3, <2>1, <2>3 DEF EndsAt
    <3>2. p - 1 \in 1..Len(queue') /\ queue'[p - 1] = Stop
      BY <1>3, <1>4, <2>1, <2>3 DEF EndsAt
    <3>3. ASSUME NEW n \in 1..Len(queue'), n < p - 1 PROVE queue'[n] # Stop
      <4>1. n + 1 < p /\ n + 1 \in 1..Len(queue) /\ queue'[n] = queue[n + 1]
        BY <1>3, <1>4, <3>3
      <4> QED BY <2>1, <4>1 DEF EndsAt
    <3>4. \A n \in 1..Len(queue') : n > p - 1 => IsLate(queue'[n])
      BY <1>3, <1>4, <2>1 DEF EndsAt
    <3>5. EndsAt(p - 1)'
      BY <3>2, <3>3, <3>4 DEF EndsAt, IsLate
    <3> QED BY <1>1, <1>2, <1>3, <1>6, <3>1, <3>2, <3>5 DEF QueueInv
  <2> QED BY <2>2, <2>3
<1> QED BY <1>1, <1>2, <1>3, <1>5, <1>6 DEF QueueInv

LEMMA EndWorkerKeepsQueue == ASSUME QueueInv, EndWorker PROVE QueueInv'
<1>1. /\ stopping = "joined" /\ stopping' = "closing" /\ queue' = Append(queue, Stop)
      /\ UNCHANGED <<inflight, worker, suppressed>>
  BY DEF EndWorker
<1>2. /\ queue \in Seq(QueuedMessages) /\ suppressed \in [Alerts -> Nat] /\ worker = "running" /\ NoStop
  BY <1>1 DEF QueueInv
<1>3. /\ queue' \in Seq(QueuedMessages) /\ Len(queue') = Len(queue) + 1 /\ Len(queue) \in Nat
      /\ \A n \in 1..Len(queue) : queue'[n] = queue[n]
      /\ queue'[Len(queue) + 1] = Stop
  <2> HIDE DEF QueuedMessages
  <2> QED BY <1>1, <1>2, StopIsMessage, Appended
<1>4. PICK p \in 1..Len(queue') : p = Len(queue) + 1
  BY <1>3
<1>5. \A n \in 1..Len(queue') : n < p => queue'[n] # Stop
  BY <1>2, <1>3, <1>4 DEF NoStop
<1>6. \A n \in 1..Len(queue') : ~(n > p)
  BY <1>3, <1>4
<1>7. EndsAt(p)'
  BY <1>3, <1>4, <1>5, <1>6 DEF EndsAt, IsLate
<1> QED BY <1>1, <1>2, <1>3, <1>7 DEF QueueInv

LEMMA QueueHolds == QueueSpec => []QueueInv
<1>1. QueueInit => QueueInv
  BY DEF QueueInit, QueueInv, NoStop
<1>2. QueueInv /\ [QueueNext]_queueVars => QueueInv'
  <2> SUFFICES ASSUME QueueInv, [QueueNext]_queueVars PROVE QueueInv'
    OBVIOUS
  <2> USE DEF QueueInv, NoStop, AllLate, EndsAt, IsLate
  <2>1. CASE UNCHANGED queueVars
    BY <2>1 DEF queueVars
  <2>2. CASE \E k \in Alerts : IntervalOver(k)
    BY <2>2 DEF IntervalOver
  <2>3. CASE StartWorker
    BY <2>3 DEF StartWorker
  <2>4. CASE SendMessage
    BY <2>4 DEF SendMessage
  <2>5. CASE BeginStop \/ Joined
    BY <2>5 DEF BeginStop, Joined
  <2>6. CASE WorkerEnded \/ CloseTimeout
    BY <2>6 DEF WorkerEnded, CloseTimeout
  <2>7. CASE FlushTimeout
    BY <2>7 DEF FlushTimeout
  <2> QED BY <2>1, <2>2, <2>3, <2>4, <2>5, <2>6, <2>7, EnqueueKeepsQueue, TakeKeepsQueue,
             EndWorkerKeepsQueue DEF QueueNext
<1> QED BY <1>1, <1>2, PTL DEF QueueSpec

\* A stop that did not time out leaves only what was enqueued after it had
\* asked the worker to end (TelegramNotifier.stop).
THEOREM StopFlushes == QueueSpec => []FlushedBeforeStop
<1>1. QueueInv => FlushedBeforeStop
  <2> SUFFICES ASSUME QueueInv, stopping = "stopped"
               PROVE  inflight = {} /\ \A n \in DOMAIN queue : queue[n].late
    BY DEF FlushedBeforeStop
  <2>1. DOMAIN queue = 1..Len(queue)
    BY DEF QueueInv
  <2> QED BY <2>1 DEF QueueInv, AllLate, IsLate
<1> QED BY <1>1, QueueHolds, PTL

-----------------------------------------------------------------------------
(* The alerts the queue owes the operator. Their number is that of pairs,  *)
(* so that a message that comes or goes adds or takes an interval.         *)

WeightsOK(messages, k) == \A n \in DOMAIN messages : Weight(messages[n], k) \in Nat

LEMMA InAlerts ==
    ASSUME NEW messages, NEW k
    PROVE  \A e : e \in AlertsIn(messages, k) <=>
                \E n \in DOMAIN messages : \E i \in 1..Weight(messages[n], k) : e = <<n, i>>
BY DEF AlertsIn

LEMMA AlertsAreFinite ==
    ASSUME NEW messages, NEW k, IsFiniteSet(DOMAIN messages), WeightsOK(messages, k)
    PROVE  IsFiniteSet(AlertsIn(messages, k)) /\ Cardinality(AlertsIn(messages, k)) \in Nat
<1> DEFINE g == [n \in DOMAIN messages |-> {n} \X (1..Weight(messages[n], k))]
           S == {g[n] : n \in DOMAIN messages}
<1>1. IsFiniteSet(S)
  <2>1. g = [n \in DOMAIN messages |-> g[n]]
    OBVIOUS
  <2> HIDE DEF g
  <2> QED BY <2>1, ImageIsFinite
<1>2. \A T \in S : IsFiniteSet(T)
  <2> SUFFICES ASSUME NEW n \in DOMAIN messages PROVE IsFiniteSet({n} \X (1..Weight(messages[n], k)))
    OBVIOUS
  <2>1. IsFiniteSet(1..Weight(messages[n], k))
    BY FS_Interval DEF WeightsOK
  <2> QED BY <2>1, FS_Singleton, FS_Product
<1>3. AlertsIn(messages, k) = UNION S
  BY DEF AlertsIn
<1> HIDE DEF S
<1>4. IsFiniteSet(AlertsIn(messages, k))
  BY <1>1, <1>2, <1>3, FS_UNION
<1> QED BY <1>4, FS_CardinalityType

\* One message more, at a place where there was none.
LEMMA OneMore ==
    ASSUME NEW f, NEW g, NEW k, IsFiniteSet(DOMAIN f), WeightsOK(g, k),
           NEW x, x \notin DOMAIN f, DOMAIN g = DOMAIN f \cup {x}, \A n \in DOMAIN f : g[n] = f[n]
    PROVE  /\ Cardinality(AlertsIn(f, k)) \in Nat
           /\ Cardinality(AlertsIn(g, k)) = Cardinality(AlertsIn(f, k)) + Weight(g[x], k)
<1> DEFINE w == Weight(g[x], k)
           added == {x} \X (1..w)
           F == AlertsIn(f, k)
<1>1. w \in Nat /\ WeightsOK(f, k)
  BY DEF WeightsOK
<1>2. IsFiniteSet(F) /\ Cardinality(F) \in Nat
  BY <1>1, AlertsAreFinite
<1>3. IsFiniteSet(added) /\ Cardinality(added) = w
  <2>1. IsFiniteSet({x}) /\ Cardinality({x}) = 1
    BY FS_Singleton
  <2>2. IsFiniteSet(1..w) /\ Cardinality(1..w) = w
    <3> HIDE DEF w
    <3> QED BY <1>1, FS_Interval
  <2>3. IsFiniteSet(added) /\ Cardinality(added) = 1 * w
    <3>1. IsFiniteSet(added) /\ Cardinality(added) = Cardinality({x}) * Cardinality(1..w)
      <4> HIDE DEF w
      <4> QED BY <2>1, <2>2, FS_Product
    <3> HIDE DEF w, added
    <3> QED BY <2>1, <2>2, <3>1
  <2> HIDE DEF added, w
  <2> QED BY <1>1, <2>3
<1>4. AlertsIn(g, k) = F \cup added
  BY DEF AlertsIn
<1>5. F \cap added = {}
  BY InAlerts
<1> HIDE DEF F, added, w
<1>6. Cardinality(F \cup added) = Cardinality(F) + w - Cardinality({})
  BY <1>2, <1>3, <1>5, FS_Union
<1>7. Cardinality(F \cup added) = Cardinality(F) + w
  BY <1>1, <1>2, <1>6, FS_EmptySet
<1> QED BY <1>2, <1>4, <1>7 DEF F, w

LEMMA NoAlerts ==
    ASSUME NEW messages, DOMAIN messages = {}, NEW k
    PROVE  Cardinality(AlertsIn(messages, k)) = 0
<1>1. AlertsIn(messages, k) = {}
  BY DEF AlertsIn
<1> QED BY <1>1, FS_EmptySet

LEMMA WeightIsNat ==
    ASSUME NEW m \in QueuedMessages, NEW k \in Alerts
    PROVE  Weight(m, k) \in Nat /\ Weight(Stop, k) = 0
BY QueueAssumption DEF Weight, QueuedMessages, Stop

LEMMA AppendAdds ==
    ASSUME NEW q \in Seq(QueuedMessages), NEW m \in QueuedMessages, NEW k \in Alerts
    PROVE  /\ Cardinality(AlertsIn(q, k)) \in Nat
           /\ Cardinality(AlertsIn(Append(q, m), k)) = Cardinality(AlertsIn(q, k)) + Weight(m, k)
<1> DEFINE r == Append(q, m)
<1>1. /\ r \in Seq(QueuedMessages) /\ Len(r) = Len(q) + 1 /\ Len(q) \in Nat
      /\ \A n \in 1..Len(q) : r[n] = q[n]
      /\ r[Len(q) + 1] = m
  <2> HIDE DEF QueuedMessages
  <2> QED BY Appended
<1> HIDE DEF r
<1>2. DOMAIN q = 1..Len(q) /\ DOMAIN r = 1..(Len(q) + 1) /\ \A n \in DOMAIN r : r[n] \in QueuedMessages
  <2> HIDE DEF QueuedMessages
  <2> QED BY <1>1
<1>3. WeightsOK(r, k)
  BY <1>2, WeightIsNat DEF WeightsOK
<1>4. IsFiniteSet(DOMAIN q)
  BY <1>1, <1>2, FS_Interval
<1>5. /\ Len(q) + 1 \notin DOMAIN q /\ DOMAIN r = DOMAIN q \cup {Len(q) + 1}
      /\ \A n \in DOMAIN q : r[n] = q[n]
  BY <1>1, <1>2
<1>6. /\ Cardinality(AlertsIn(q, k)) \in Nat
      /\ Cardinality(AlertsIn(r, k)) = Cardinality(AlertsIn(q, k)) + Weight(r[Len(q) + 1], k)
  BY <1>3, <1>4, <1>5, OneMore
<1> QED BY <1>1, <1>6 DEF r

\* The same messages, each a place further on.
LEMMA Moved ==
    ASSUME NEW f, NEW g, NEW k, NEW last \in Nat, DOMAIN f = 1..last, DOMAIN g = 2..(last + 1),
           \A n \in 1..last : g[n + 1] = f[n], WeightsOK(f, k)
    PROVE  Cardinality(AlertsIn(g, k)) = Cardinality(AlertsIn(f, k))
<1> DEFINE F == AlertsIn(f, k)
           G == AlertsIn(g, k)
           move == [e \in F |-> <<e[1] + 1, e[2]>>]
<1>1. \A e \in F : e[1] \in 1..last /\ e[2] \in 1..Weight(f[e[1]], k) /\ e = <<e[1], e[2]>>
  BY InAlerts
<1>2. \A e \in F : move[e] \in G
  <2> SUFFICES ASSUME NEW e \in F PROVE <<e[1] + 1, e[2]>> \in G
    OBVIOUS
  <2>1. e[1] + 1 \in DOMAIN g /\ g[e[1] + 1] = f[e[1]]
    BY <1>1
  <2> QED BY <1>1, <2>1, InAlerts
<1>3. \A a, b \in F : move[a] = move[b] => a = b
  <2> SUFFICES ASSUME NEW a \in F, NEW b \in F, move[a] = move[b] PROVE a = b
    OBVIOUS
  <2>1. a[1] + 1 = b[1] + 1 /\ a[2] = b[2]
    OBVIOUS
  <2>2. a[1] \in Nat /\ b[1] \in Nat
    BY <1>1
  <2>3. a[1] = b[1]
    BY <2>1, <2>2
  <2>4. a = <<a[1], a[2]>> /\ b = <<b[1], b[2]>>
    BY <1>1
  <2> QED BY <2>1, <2>3, <2>4
<1>4. \A d \in G : \E e \in F : move[e] = d
  <2> SUFFICES ASSUME NEW d \in G PROVE \E e \in F : move[e] = d
    OBVIOUS
  <2>1. PICK n \in DOMAIN g : \E i \in 1..Weight(g[n], k) : d = <<n, i>>
    BY InAlerts
  <2>5. PICK i \in 1..Weight(g[n], k) : d = <<n, i>>
    BY <2>1
  <2>2. n - 1 \in 1..last /\ g[n] = f[n - 1] /\ n - 1 + 1 = n
    <3>1. n - 1 \in 1..last /\ n - 1 + 1 = n
      OBVIOUS
    <3> QED BY <3>1
  <2>3. <<n - 1, i>> \in F
    BY <2>2, InAlerts
  <2>4. move[<<n - 1, i>>] = d
    BY <2>5, <2>2, <2>3
  <2> QED BY <2>3, <2>4
<1>5. move \in Bijection(F, G)
  <2>1. move \in [F -> G]
    BY <1>2
  <2> HIDE DEF move, F, G
  <2>2. move \in Injection(F, G)
    BY <1>3, <2>1 DEF Injection, IsInjective
  <2>3. move \in Surjection(F, G)
    BY <1>4, <2>1 DEF Surjection
  <2> QED BY <2>2, <2>3 DEF Bijection
<1>6. IsFiniteSet(F)
  <2>1. IsFiniteSet(DOMAIN f)
    BY FS_Interval
  <2> QED BY <2>1, AlertsAreFinite
<1> HIDE DEF move, F, G
<1>7. Cardinality(G) = Cardinality(F)
  BY <1>5, <1>6, FS_Bijection DEF ExistsBijection
<1> QED BY <1>7 DEF F, G

LEMMA TailTakes ==
    ASSUME NEW q \in Seq(QueuedMessages), q # <<>>, NEW k \in Alerts
    PROVE  /\ Cardinality(AlertsIn(Tail(q), k)) \in Nat
           /\ Cardinality(AlertsIn(q, k)) = Cardinality(AlertsIn(Tail(q), k)) + Weight(Head(q), k)
<1> DEFINE t == Tail(q)
           g == [n \in 2..Len(q) |-> q[n]]
<1>1. /\ t \in Seq(QueuedMessages) /\ Len(q) \in Nat \ {0} /\ Len(t) = Len(q) - 1
      /\ \A n \in 1..(Len(q) - 1) : t[n] = q[n + 1]
      /\ Head(q) = q[1]
  <2> HIDE DEF QueuedMessages
  <2> QED BY Tailed
<1> HIDE DEF t
<1>2. DOMAIN q = 1..Len(q) /\ DOMAIN t = 1..Len(t) /\ \A n \in DOMAIN q : q[n] \in QueuedMessages
  <2> HIDE DEF QueuedMessages
  <2> QED BY <1>1
<1>3. WeightsOK(q, k)
  BY <1>2, WeightIsNat DEF WeightsOK
<1>4. WeightsOK(t, k)
  <2>1. \A n \in DOMAIN t : t[n] \in QueuedMessages
    <3> HIDE DEF QueuedMessages
    <3> QED BY <1>1, <1>2
  <2> QED BY <2>1, WeightIsNat DEF WeightsOK
<1>5. /\ Cardinality(AlertsIn(g, k)) \in Nat
      /\ Cardinality(AlertsIn(q, k)) = Cardinality(AlertsIn(g, k)) + Weight(q[1], k)
  <2>1. IsFiniteSet(DOMAIN g)
    BY <1>1, FS_Interval
  <2>2. 1 \notin DOMAIN g /\ DOMAIN q = DOMAIN g \cup {1} /\ \A n \in DOMAIN g : q[n] = g[n]
    BY <1>1, <1>2
  <2> HIDE DEF g
  <2> QED BY <1>3, <2>1, <2>2, OneMore
<1>6. Cardinality(AlertsIn(g, k)) = Cardinality(AlertsIn(t, k))
  <2>1. /\ Len(t) \in Nat /\ DOMAIN g = 2..(Len(t) + 1)
        /\ \A n \in 1..Len(t) : g[n + 1] = t[n]
    BY <1>1
  <2> HIDE DEF g
  <2> QED BY <1>2, <1>4, <2>1, Moved
<1> QED BY <1>1, <1>5, <1>6 DEF t

\* What the worker has in hand.
LEMMA InHandIs ==
    ASSUME NEW hands, NEW k \in Alerts
    PROVE  LET taken == Cardinality(AlertsIn([m \in hands |-> m], k)) IN
           /\ hands = {} => taken = 0
           /\ \A m \in QueuedMessages : hands = {m} => taken = Weight(m, k)
<1> DEFINE hand == [m \in hands |-> m]
<1>1. DOMAIN hand = hands
  OBVIOUS
<1> HIDE DEF hand
<1>2. hands = {} => Cardinality(AlertsIn(hand, k)) = 0
  BY <1>1, NoAlerts
<1>3. ASSUME NEW m \in QueuedMessages, hands = {m} PROVE Cardinality(AlertsIn(hand, k)) = Weight(m, k)
  <2> DEFINE none == [x \in {} |-> x]
  <2>1. DOMAIN none = {} /\ DOMAIN hand = {m} /\ hand[m] = m
    BY <1>3 DEF hand
  <2>2. WeightsOK(hand, k) /\ IsFiniteSet({}) /\ Weight(m, k) \in Nat
    BY <2>1, WeightIsNat, FS_EmptySet DEF WeightsOK
  <2> HIDE DEF none
  <2>3. Cardinality(AlertsIn(none, k)) = 0
    BY <2>1, NoAlerts
  <2>4. Cardinality(AlertsIn(hand, k)) = Cardinality(AlertsIn(none, k)) + Weight(hand[m], k)
    <3>1. DOMAIN hand = DOMAIN none \cup {m} /\ m \notin DOMAIN none
          /\ \A n \in DOMAIN none : hand[n] = none[n]
      BY <2>1
    <3> QED BY <2>1, <2>2, <3>1, OneMore
  <2> QED BY <2>1, <2>2, <2>3, <2>4
<1> QED BY <1>2, <1>3 DEF hand

InHand == inflight = {} \/ \E m \in QueuedMessages : inflight = {m}

CountInv ==
    /\ queue \in Seq(QueuedMessages) /\ InHand
    /\ offered \in [Alerts -> Nat] /\ told \in [Alerts -> Nat] /\ suppressed \in [Alerts -> Nat]
    /\ dropped \in [Alerts -> Nat] /\ cut \in [Alerts -> Nat]
    /\ RepeatsAreCounted

LEMMA WaitingIsNat ==
    ASSUME CountInv, NEW k \in Alerts
    PROVE  /\ Waiting(k) \in Nat /\ Taken(k) \in Nat
           /\ offered[k] \in Nat /\ told[k] \in Nat /\ suppressed[k] \in Nat
           /\ dropped[k] \in Nat /\ cut[k] \in Nat
           /\ offered[k] = told[k] + Waiting(k) + Taken(k) + suppressed[k] + dropped[k] + cut[k]
<1>1. queue \in Seq(QueuedMessages)
  BY DEF CountInv
<1>2. Waiting(k) \in Nat
  BY <1>1, StopIsMessage, AppendAdds DEF Waiting
<1>3. Taken(k) \in Nat
  <2>1. CASE inflight = {}
    <3>1. Taken(k) = 0
      BY <2>1, InHandIs DEF Taken
    <3> QED BY <3>1
  <2>2. ASSUME NEW m \in QueuedMessages, inflight = {m} PROVE Taken(k) \in Nat
    BY <2>2, InHandIs, WeightIsNat DEF Taken
  <2> QED BY <2>1, <2>2 DEF CountInv, InHand
<1> QED BY <1>2, <1>3 DEF CountInv, RepeatsAreCounted

LEMMA EnqueueCounts == ASSUME CountInv, NEW k \in Alerts, Enqueue(k) PROVE CountInv'
<1> DEFINE m == [key |-> k, repeats |-> suppressed[k],
                 late |-> stopping \in {"closing", "stopped", "cancelled"}]
<1>1. /\ UNCHANGED <<inflight, told, cut>> /\ offered' = [offered EXCEPT ![k] = @ + 1]
      /\ suppressed' = Unreported(k)
      /\ \/ k \in throttled /\ queue' = queue /\ dropped' = dropped
         \/ k \notin throttled /\ queue' = Append(queue, m) /\ dropped' = dropped
         \/ k \notin throttled /\ queue' = queue
            /\ dropped' = [dropped EXCEPT ![k] = @ + 1 + suppressed[k]]
  BY DEF Enqueue
<1>2. /\ queue \in Seq(QueuedMessages) /\ InHand /\ suppressed[k] \in Nat
      /\ offered \in [Alerts -> Nat] /\ told \in [Alerts -> Nat] /\ suppressed \in [Alerts -> Nat]
      /\ dropped \in [Alerts -> Nat] /\ cut \in [Alerts -> Nat]
  BY DEF CountInv
<1>3. m \in QueuedMessages /\ Weight(m, k) = 1 + suppressed[k] /\ \A j \in Alerts : j # k => Weight(m, j) = 0
  BY <1>2 DEF QueuedMessages, Weight
<1> HIDE DEF m
<1>4. queue' \in Seq(QueuedMessages)
  <2> HIDE DEF QueuedMessages
  <2>1. Append(queue, m) \in Seq(QueuedMessages)
    BY <1>2, <1>3, Appended
  <2>2. queue' = queue \/ queue' = Append(queue, m)
    BY <1>1
  <2> QED BY <1>2, <2>1, <2>2
<1>5. suppressed' \in [Alerts -> Nat] /\ offered' \in [Alerts -> Nat] /\ dropped' \in [Alerts -> Nat]
  <2>1. suppressed' \in [Alerts -> Nat]
    BY <1>1, <1>2 DEF Unreported
  <2>2. offered' \in [Alerts -> Nat]
    BY <1>1, <1>2
  <2>3. dropped' = dropped \/ dropped' = [dropped EXCEPT ![k] = @ + 1 + suppressed[k]]
    BY <1>1
  <2>4. [dropped EXCEPT ![k] = @ + 1 + suppressed[k]] \in [Alerts -> Nat]
    BY <1>2
  <2> QED BY <1>2, <2>1, <2>2, <2>3, <2>4
<1>6. ASSUME NEW j \in Alerts
      PROVE  offered'[j] = told'[j] + Waiting(j)' + Taken(j)' + suppressed'[j] + dropped'[j] + cut'[j]
  <2>1. Taken(j)' = Taken(j) /\ told'[j] = told[j] /\ cut'[j] = cut[j]
    BY <1>1 DEF Taken
  <2>2. queue' = queue => Waiting(j)' = Waiting(j)
    BY DEF Waiting
  <2>3. queue' = Append(queue, m) => Waiting(j)' = Waiting(j) + Weight(m, j)
    BY <1>2, <1>3, AppendAdds DEF Waiting
  <2>4. j # k => offered'[j] = offered[j] /\ suppressed'[j] = suppressed[j] /\ dropped'[j] = dropped[j]
    BY <1>1, <1>2 DEF Unreported
  <2>5. /\ offered'[k] = offered[k] + 1
        /\ k \in throttled => suppressed'[k] = suppressed[k] + 1
        /\ k \notin throttled => suppressed'[k] = 0
    BY <1>1, <1>2 DEF Unreported
  <2>7. dropped' = [dropped EXCEPT ![k] = @ + 1 + suppressed[k]]
            => dropped'[k] = dropped[k] + 1 + suppressed[k]
    BY <1>2
  <2>8. CASE j # k
    BY <1>1, <1>3, <2>1, <2>2, <2>3, <2>4, <2>8, WaitingIsNat
  <2>9. CASE j = k
    <3>1. \/ suppressed'[k] = suppressed[k] + 1 /\ Waiting(k)' = Waiting(k) /\ dropped'[k] = dropped[k]
          \/ /\ suppressed'[k] = 0 /\ dropped'[k] = dropped[k]
             /\ Waiting(k)' = Waiting(k) + (1 + suppressed[k])
          \/ /\ suppressed'[k] = 0 /\ Waiting(k)' = Waiting(k)
             /\ dropped'[k] = dropped[k] + 1 + suppressed[k]
      <4> HIDE DEF Unreported
      <4> QED BY <1>1, <1>3, <2>2, <2>3, <2>5, <2>7, <2>9
    <3>2. /\ Waiting(k) \in Nat /\ Taken(k) \in Nat /\ told[k] \in Nat
          /\ suppressed[k] \in Nat /\ dropped[k] \in Nat /\ cut[k] \in Nat
          /\ offered[k] = told[k] + Waiting(k) + Taken(k) + suppressed[k] + dropped[k] + cut[k]
      BY WaitingIsNat
    <3> QED BY <2>1, <2>5, <2>9, <3>1, <3>2
  <2> QED BY <2>8, <2>9
<1> QED BY <1>1, <1>2, <1>4, <1>5, <1>6 DEF CountInv, InHand, RepeatsAreCounted

LEMMA TakeCounts == ASSUME CountInv, TakeMessage PROVE CountInv'
<1>1. /\ queue \in Seq(QueuedMessages) /\ queue # <<>> /\ inflight = {} /\ queue' = Tail(queue)
      /\ \/ Head(queue) = Stop /\ inflight' = {}
         \/ inflight' = {Head(queue)}
      /\ UNCHANGED <<suppressed, offered, told, dropped, cut>>
  BY DEF CountInv, TakeMessage
<1>2. queue' \in Seq(QueuedMessages) /\ Head(queue) \in QueuedMessages
  <2> HIDE DEF QueuedMessages
  <2> QED BY <1>1
<1>3. ASSUME NEW k \in Alerts
      PROVE  offered'[k] = told'[k] + Waiting(k)' + Taken(k)' + suppressed'[k] + dropped'[k] + cut'[k]
  <2>1. Waiting(k)' \in Nat /\ Waiting(k) = Waiting(k)' + Weight(Head(queue), k)
    BY <1>1, TailTakes DEF Waiting
  <2>2. Taken(k) = 0
    BY <1>1, InHandIs DEF Taken
  <2>3. Taken(k)' = Weight(Head(queue), k) /\ Weight(Head(queue), k) \in Nat
    BY <1>1, <1>2, InHandIs, WeightIsNat DEF Taken
  <2>4. /\ Waiting(k) \in Nat /\ Taken(k) \in Nat /\ told[k] \in Nat
        /\ suppressed[k] \in Nat /\ dropped[k] \in Nat /\ cut[k] \in Nat
        /\ offered[k] = told[k] + Waiting(k) + Taken(k) + suppressed[k] + dropped[k] + cut[k]
    BY WaitingIsNat
  <2>5. /\ offered'[k] = offered[k] /\ suppressed'[k] = suppressed[k] /\ told'[k] = told[k]
        /\ dropped'[k] = dropped[k] /\ cut'[k] = cut[k]
    BY <1>1
  <2> QED BY <2>1, <2>2, <2>3, <2>4, <2>5
<1> QED BY <1>1, <1>2, <1>3 DEF CountInv, InHand, RepeatsAreCounted

LEMMA SendCounts == ASSUME CountInv, SendMessage PROVE CountInv'
<1>1. /\ told' = [k \in Alerts |-> told[k] + Taken(k)] /\ inflight' = {}
      /\ UNCHANGED <<queue, suppressed, offered, dropped, cut>>
  BY DEF SendMessage
<1>2. \A k \in Alerts : Taken(k)' = 0 /\ Waiting(k)' = Waiting(k) /\ told'[k] = told[k] + Taken(k)
  BY <1>1, InHandIs DEF Taken, Waiting
<1>3. ASSUME NEW k \in Alerts
      PROVE  /\ offered'[k] = told'[k] + Waiting(k)' + Taken(k)' + suppressed'[k] + dropped'[k] + cut'[k]
             /\ told[k] + Taken(k) \in Nat
  BY <1>1, <1>2, WaitingIsNat
<1> QED BY <1>1, <1>3 DEF CountInv, InHand, RepeatsAreCounted

LEMMA EndWorkerCounts == ASSUME CountInv, EndWorker PROVE CountInv'
<1>1. /\ queue \in Seq(QueuedMessages) /\ queue' = Append(queue, Stop)
      /\ UNCHANGED <<inflight, suppressed, offered, told, dropped, cut>>
  BY DEF CountInv, EndWorker
<1>2. queue' \in Seq(QueuedMessages)
  <2> HIDE DEF QueuedMessages
  <2> QED BY <1>1, StopIsMessage, Appended
<1>3. ASSUME NEW k \in Alerts PROVE Waiting(k)' = Waiting(k) /\ Taken(k)' = Taken(k)
  <2>1. Waiting(k)' = Waiting(k) + Weight(Stop, k) /\ Weight(Stop, k) = 0
    BY <1>1, StopIsMessage, AppendAdds, WeightIsNat DEF Waiting
  <2>2. Waiting(k) \in Nat
    BY WaitingIsNat
  <2> QED BY <1>1, <2>1, <2>2 DEF Taken
<1> QED BY <1>1, <1>2, <1>3 DEF CountInv, InHand, RepeatsAreCounted

\* A stop that times out cancels what is in the worker's hand, and discards what waits or not.
LEMMA TimeoutCounts == ASSUME CountInv, FlushTimeout \/ CloseTimeout PROVE CountInv'
<1>1. /\ inflight' = {} /\ UNCHANGED <<suppressed, offered, told, dropped>>
      /\ \/ queue' = <<>> /\ cut' = [k \in Alerts |-> cut[k] + Waiting(k) + Taken(k)]
         \/ queue' = queue /\ cut' = [k \in Alerts |-> cut[k] + Taken(k)]
  BY DEF FlushTimeout, CloseTimeout
<1>2. queue' \in Seq(QueuedMessages)
  <2>1. queue \in Seq(QueuedMessages) /\ <<>> \in Seq(QueuedMessages)
    BY DEF CountInv
  <2> HIDE DEF QueuedMessages
  <2> QED BY <1>1, <2>1
<1>3. ASSUME NEW k \in Alerts
      PROVE  /\ offered'[k] = told'[k] + Waiting(k)' + Taken(k)' + suppressed'[k] + dropped'[k] + cut'[k]
             /\ cut[k] + Waiting(k) + Taken(k) \in Nat /\ cut[k] + Taken(k) \in Nat
  <2>1. Taken(k)' = 0
    BY <1>1, InHandIs DEF Taken
  <2>2. queue' = <<>> => Waiting(k)' = 0
    BY NoAlerts DEF Waiting
  <2>3. queue' = queue => Waiting(k)' = Waiting(k)
    BY DEF Waiting
  <2>4. /\ Waiting(k) \in Nat /\ Taken(k) \in Nat /\ told[k] \in Nat
        /\ suppressed[k] \in Nat /\ dropped[k] \in Nat /\ cut[k] \in Nat
        /\ offered[k] = told[k] + Waiting(k) + Taken(k) + suppressed[k] + dropped[k] + cut[k]
    BY WaitingIsNat
  <2>5. /\ offered'[k] = offered[k] /\ suppressed'[k] = suppressed[k] /\ told'[k] = told[k]
        /\ dropped'[k] = dropped[k]
    BY <1>1
  <2>6. \/ Waiting(k)' = 0 /\ cut'[k] = cut[k] + Waiting(k) + Taken(k)
        \/ Waiting(k)' = Waiting(k) /\ cut'[k] = cut[k] + Taken(k)
    BY <1>1, <2>2, <2>3
  <2> QED BY <2>1, <2>4, <2>5, <2>6
<1>4. cut' \in [Alerts -> Nat]
  BY <1>1, <1>3
<1> QED BY <1>1, <1>2, <1>3, <1>4 DEF CountInv, InHand, RepeatsAreCounted

LEMMA CountHolds == QueueSpec => []CountInv
<1>1. QueueInit => CountInv
  <2> SUFFICES ASSUME QueueInit PROVE CountInv
    OBVIOUS
  <2>1. queue = <<>> /\ inflight = {} /\ suppressed = [k \in Alerts |-> 0]
        /\ offered = suppressed /\ told = suppressed /\ dropped = suppressed /\ cut = suppressed
    BY DEF QueueInit
  <2>2. \A k \in Alerts : Waiting(k) = 0 /\ Taken(k) = 0
    BY <2>1, NoAlerts, InHandIs DEF Waiting, Taken
  <2> QED BY <2>1, <2>2 DEF CountInv, InHand, RepeatsAreCounted
<1>2. CountInv /\ [QueueNext]_queueVars => CountInv'
  <2> SUFFICES ASSUME CountInv, [QueueNext]_queueVars PROVE CountInv'
    OBVIOUS
  <2>1. ASSUME UNCHANGED <<queue, inflight, suppressed, offered, told, dropped, cut>>
        PROVE  CountInv'
    BY <2>1 DEF CountInv, InHand, RepeatsAreCounted, Waiting, Taken
  <2>2. CASE UNCHANGED queueVars
    BY <2>1, <2>2 DEF queueVars
  <2>3. CASE \E k \in Alerts : IntervalOver(k)
    BY <2>1, <2>3 DEF IntervalOver
  <2>4. CASE StartWorker \/ BeginStop \/ Joined \/ WorkerEnded
    BY <2>1, <2>4 DEF StartWorker, BeginStop, Joined, WorkerEnded
  <2> QED BY <2>2, <2>3, <2>4, EnqueueCounts, TakeCounts, SendCounts, EndWorkerCounts, TimeoutCounts
             DEF QueueNext
<1> QED BY <1>1, <1>2, PTL DEF QueueSpec

\* Every alert is told, waits, is counted for the next message or is known to
\* be lost, for any number of alerts, a queue of any size and every stop
\* (TelegramNotifier.enqueue, stop).
THEOREM RepeatsStayCounted == QueueSpec => []RepeatsAreCounted
BY CountHolds, PTL DEF CountInv

-----------------------------------------------------------------------------
(* The types of the queue. Its counters are bounded by what was offered,   *)
(* and that by what may be offered, since it is one of the offers.         *)

QueueFits ==
    /\ Len(queue) <= QueueSize /\ stopping \in Stages /\ throttled \subseteq Alerts
    /\ offered \in [Alerts -> 0..MaxOffers]

\* As long as another alert may be offered, one of any key may.
LEMMA OffersBoundEach ==
    ASSUME offered \in [Alerts -> 0..MaxOffers], Offers < MaxOffers, NEW k \in Alerts
    PROVE  offered[k] < MaxOffers
<1> DEFINE P == {o \in Alerts \X (1..MaxOffers) : o[2] <= offered[o[1]]}
           own == {k} \X (1..MaxOffers)
<1>1. MaxOffers \in Nat /\ IsFiniteSet(Alerts)
  BY QueueAssumption
<1>2. IsFiniteSet(1..MaxOffers) /\ Cardinality(1..MaxOffers) = MaxOffers
  BY <1>1, FS_Interval
<1>3. IsFiniteSet(Alerts \X (1..MaxOffers))
  BY <1>1, <1>2, FS_Product
<1>4. P \subseteq Alerts \X (1..MaxOffers)
  OBVIOUS
<1>5. IsFiniteSet(P)
  BY <1>3, <1>4, FS_Subset
<1>6. IsFiniteSet({k}) /\ Cardinality({k}) = 1
  BY FS_Singleton
<1>7. Cardinality(own) = MaxOffers
  <2>1. Cardinality(own) = Cardinality({k}) * Cardinality(1..MaxOffers)
    BY <1>2, <1>6, FS_Product
  <2> QED BY <1>1, <1>2, <1>6, <2>1
<1>8. SUFFICES ASSUME ~(offered[k] < MaxOffers) PROVE FALSE
  OBVIOUS
<1>9. offered[k] = MaxOffers
  BY <1>1, <1>8
<1>10. own \subseteq P
  BY <1>9
<1>11. Offers = Cardinality(P)
  BY DEF Offers
<1> HIDE DEF P, own
<1>12. Cardinality(own) <= Cardinality(P) /\ Cardinality(P) \in Nat
  BY <1>5, <1>10, FS_Subset, FS_CardinalityType
<1> QED BY <1>1, <1>7, <1>11, <1>12

LEMMA FitsNext == ASSUME QueueInv, QueueFits, [QueueNext]_queueVars PROVE QueueFits'
<1>1. queue \in Seq(QueuedMessages) /\ Len(queue) \in Nat /\ QueueSize \in Nat /\ MaxOffers \in Nat
  BY QueueAssumption DEF QueueInv
<1>2. CASE \E k \in Alerts : Enqueue(k)
  <2>1. PICK k \in Alerts : Enqueue(k)
    BY <1>2
  <2>2. offered' = [offered EXCEPT ![k] = @ + 1] /\ UNCHANGED stopping /\ Offers < MaxOffers
    BY <2>1 DEF Enqueue
  <2>3. offered[k] < MaxOffers
    BY <2>2, OffersBoundEach DEF QueueFits
  <2>4. offered' \in [Alerts -> 0..MaxOffers]
    BY <1>1, <2>2, <2>3 DEF QueueFits
  <2>5. throttled' \subseteq Alerts
    BY <2>1 DEF Enqueue, QueueFits
  <2>6. queue' = queue \/ (Len(queue) < QueueSize /\ \E m : queue' = Append(queue, m))
    BY <2>1 DEF Enqueue
  <2>7. Len(queue') <= QueueSize
    <3>1. \A m : Len(Append(queue, m)) = Len(queue) + 1
      BY <1>1
    <3> QED BY <1>1, <2>6, <3>1 DEF QueueFits
  <2> QED BY <2>2, <2>4, <2>5, <2>7 DEF QueueFits
<1>3. CASE EndWorker
  <2>1. Len(queue) < QueueSize /\ queue' = Append(queue, Stop) /\ stopping' = "closing" /\ UNCHANGED <<throttled, offered>>
    BY <1>3 DEF EndWorker
  <2>2. Len(queue') = Len(queue) + 1
    BY <1>1, <2>1
  <2> QED BY <1>1, <2>1, <2>2 DEF QueueFits, Stages
<1>4. CASE TakeMessage
  <2>1. queue # <<>> /\ queue' = Tail(queue) /\ UNCHANGED <<stopping, throttled, offered>>
    BY <1>4 DEF TakeMessage
  <2>2. Len(queue') = Len(queue) - 1
    BY <1>1, <2>1
  <2> QED BY <1>1, <2>1, <2>2 DEF QueueFits
<1>5. CASE FlushTimeout
  <2>1. queue' = <<>> /\ stopping' = "cancelled" /\ UNCHANGED <<throttled, offered>>
    BY <1>5 DEF FlushTimeout
  <2> QED BY <1>1, <2>1 DEF QueueFits, Stages
<1>6. CASE \E k \in Alerts : IntervalOver(k)
  BY <1>6 DEF IntervalOver, QueueFits
<1>7. CASE StartWorker \/ SendMessage \/ BeginStop \/ Joined \/ WorkerEnded \/ CloseTimeout
  <2>1. UNCHANGED <<queue, throttled, offered>> /\ stopping' \in Stages
    BY <1>7 DEF StartWorker, SendMessage, BeginStop, Joined, WorkerEnded, CloseTimeout, QueueFits, Stages
  <2> QED BY <2>1 DEF QueueFits
<1>8. CASE UNCHANGED queueVars
  BY <1>8 DEF queueVars, QueueFits
<1> QED BY <1>2, <1>3, <1>4, <1>5, <1>6, <1>7, <1>8 DEF QueueNext

\* The queue never holds more than its size, the worker never two messages, and no counter
\* exceeds what was offered (TelegramNotifier.enqueue, _worker, stop).
THEOREM QueueTypes == QueueSpec => []QueueTypeOK
<1>1. QueueInit => QueueFits
  BY QueueAssumption DEF QueueInit, QueueFits, Stages
<1>2. QueueInv /\ QueueFits /\ [QueueNext]_queueVars => QueueFits'
  BY FitsNext
<1>3. QueueInv /\ CountInv /\ QueueFits => QueueTypeOK
  <2> SUFFICES ASSUME QueueInv, CountInv, QueueFits PROVE QueueTypeOK
    OBVIOUS
  <2>1. Cardinality(inflight) <= 1
    <3>1. inflight = {} \/ \E m : inflight = {m}
      BY DEF CountInv, InHand
    <3>2. Cardinality({}) = 0 /\ \A m : Cardinality({m}) = 1
      BY FS_EmptySet, FS_Singleton
    <3>3. Cardinality(inflight) \in {0, 1}
      BY <3>1, <3>2
    <3> QED BY <3>3
  <2>2. ASSUME NEW k \in Alerts
        PROVE  /\ suppressed[k] \in 0..MaxOffers /\ told[k] \in 0..MaxOffers
               /\ dropped[k] \in 0..MaxOffers /\ cut[k] \in 0..MaxOffers
    <3>1. /\ Waiting(k) \in Nat /\ Taken(k) \in Nat /\ told[k] \in Nat
          /\ suppressed[k] \in Nat /\ dropped[k] \in Nat /\ cut[k] \in Nat
          /\ offered[k] = told[k] + Waiting(k) + Taken(k) + suppressed[k] + dropped[k] + cut[k]
      BY WaitingIsNat
    <3>2. MaxOffers \in Nat /\ offered[k] <= MaxOffers
      BY QueueAssumption DEF QueueFits
    <3> QED BY <3>1, <3>2
  <2>3. /\ suppressed \in [Alerts -> 0..MaxOffers] /\ told \in [Alerts -> 0..MaxOffers]
        /\ dropped \in [Alerts -> 0..MaxOffers] /\ cut \in [Alerts -> 0..MaxOffers]
    BY <2>2 DEF CountInv
  <2> QED BY <2>1, <2>3 DEF QueueTypeOK, QueueFits, QueueInv
<1> QED BY <1>1, <1>2, <1>3, QueueHolds, CountHolds, PTL DEF QueueSpec
==============================================================================
