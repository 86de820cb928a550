---------------------------- MODULE RiskWatchdog ----------------------------
(***************************************************************************)
(* The independent account-risk watchdog (tools/risk_wakeup_watchdog.py):  *)
(* it polls what the two strategies last wrote, turns it into incidents,   *)
(* and sends each incident to Telegram, Feishu (a message, then an urgent  *)
(* phone call about that message) and, as a last resort, Bark.             *)
(*                                                                         *)
(* Poll is run_once with its save; PollCutShort dies before the save and   *)
(* loses what the poll decided, not what it sent.  Durations (retry        *)
(* interval, cooldown, confirmation of a recovery, age of an outage) are   *)
(* abstracted to a choice of each poll: elapsed or not.                    *)
(***************************************************************************)
EXTENDS Naturals, FiniteSets, Sequences

CONSTANTS
    Views,        \* what a poll can find in the files of the two strategies
    Outcomes,     \* sets of channels that accept a message during a poll
    MaxAttempts,  \* max_channel_attempts_per_incident
    MaxPhone,     \* max_phone_attempts_per_incident
    MaxAlarms,    \* bound: alarm episodes, each with a button token
    MaxPresses,   \* bound: buttons the operator presses
    MaxKills    \* bound: crashes of the watchdog

\* Reasons of an account risk are names of their own: in the code their keys are
\* account_risk:... and data_visibility:...
ASSUME WatchdogAssumption ==
    /\ {MaxAttempts, MaxPhone, MaxAlarms, MaxPresses, MaxKills} \subseteq Nat
    /\ \A v \in Views :
        /\ {"action", "reason"} \subseteq DOMAIN v.wti
        /\ {v.eth.reason, v.wti.reason} \cap {"critical", "market_exposed"} = {}

VARIABLES
    running,   \* the watchdog process is alive
    memory,    \* self.memory
    disk,      \* risk_wakeup_watchdog_state.json
    silenced,  \* risk_wakeup_alert_control.json forbids notifications
    pressed,   \* callback updates at Telegram, oldest first
    tokens,    \* acknowledgement tokens issued so far
    dials,     \* calls placed for each fault since it appeared or changed
    kills

watchdogVars == <<running, memory, disk, silenced, pressed, tokens, dials, kills>>

-----------------------------------------------------------------------------
(* evaluate_incidents: from the files to incidents.                        *)

Exposed(f) == f.lots \/ f.pending # "none"
Urgency(critical) == IF critical THEN "critical" ELSE "warning"

\* Every incident of one strategy, before the critical ones are merged.
Found(f) ==
    LET found(holds, name, severity) ==
            IF holds THEN {[name |-> name, severity |-> severity]} ELSE {}
        blocked == IF Exposed(f) /\ f.reason = "data"
                   THEN "data_visibility" ELSE f.reason
    IN  found(~Exposed(f) /\ ~f.up, "stopped_flat", "warning")
        \cup found(Exposed(f) /\ ~f.up, "stopped_exposed", "critical")
        \cup found(f.review # "none", "manual_review",
                   Urgency(Exposed(f) \/ f.review = "mismatch"))
        \cup found(f.pending = "old" \/ (f.pending = "young" /\ ~f.up),
                   "pending_stale", "critical")
        \cup found(Exposed(f) /\ ~f.fresh, "heartbeat_stale", "critical")
        \cup found(f.action = "emergency_exit", "account_emergency", "critical")
        \cup found(f.action = "block_entry", blocked, "warning")
        \cup found(Exposed(f) /\ f.unreconciled, "unreconciled", "critical")
        \cup found(f.feed = "login", "login_required", Urgency(Exposed(f)))
        \cup found(f.feed = "stale", "feed_stale", Urgency(Exposed(f)))

\* The identity of a merged critical incident: the review reason when there
\* is one, else every root cause; a stale heartbeat only when it is alone.
Causes(f, critical) ==
    LET roots == {IF i.name = "unreconciled" THEN "manual_review" ELSE i.name :
                    i \in critical}
    IN  IF f.review # "none" THEN {"manual_review"}
        ELSE IF Cardinality(roots) > 1 THEN roots \ {"heartbeat_stale"}
        ELSE roots

Cooling == {"data_visibility", "margin", "data", "account_read", "market",
            "revoked", "feed_stale"}

\* Critical incidents merge into one; warnings stay separate.
Evaluate(asset, f) ==
    LET found == Found(f)
        critical == {i \in found : i.severity = "critical"}
        feedOnly == \A i \in critical : i.name = "feed_stale"
    IN  {[key |-> <<asset, i.name>>, severity |-> "warning",
          causes |-> {i.name}, cools |-> i.name \in Cooling,
          announces |-> i.name # "feed_stale"] : i \in found \ critical}
        \cup (IF critical = {} THEN {}
              ELSE {[key |-> <<asset, "critical">>, severity |-> "critical",
                     causes |-> Causes(f, critical), cools |-> feedOnly,
                     announces |-> ~feedOnly]})

\* wti_notification_health: one stable reason for the WTI entry block.
Notified(w) ==
    LET blocked(reason) == [w EXCEPT !.action = "block_entry", !.reason = reason]
    IN  IF w.action = "emergency_exit" THEN w
        ELSE IF w.revoked THEN blocked("revoked")
        ELSE IF w.recovering THEN blocked("account_read")
        ELSE IF w.action = "block_entry" THEN w
        ELSE IF ~w.market THEN blocked("market") ELSE w

BlockEntry == {<<"WTI", r>> : r \in {"margin", "data", "account_read",
                                     "market", "revoked"}}

LockForgotten(active) == FALSE   \* mutant
Locked(active) == <<"WTI", "revoked">> \in DOMAIN active
WtiIncidents(w, active) ==
    LET found == Evaluate("WTI", Notified(w))
    IN  {i \in found : ~(Locked(active) /\ i.key = <<"WTI", "account_read">>)}
        \cup (IF Exposed(w) /\ ~w.market
              THEN {[key |-> <<"WTI", "market_exposed">>,
                     severity |-> "critical", causes |-> {"market_exposed"},
                     cools |-> FALSE, announces |-> TRUE]}
              ELSE {})

-----------------------------------------------------------------------------
(* Records of active incidents, and their delivery.                        *)

Signature(i) == <<i.severity, i.causes>>

\* A new record, and what _reset_delivery_state leaves of an old one.
Undelivered(i, token) ==
    [severity |-> i.severity, signature |-> Signature(i), token |-> token,
     telegram |-> "none", message |-> "none", messages |-> 0,
     phone |-> "none", calls |-> 0, bark |-> "none", barks |-> 0,
     acked |-> FALSE, candidate |-> FALSE,
     cools |-> i.cools, announces |-> i.announces]

Answer(channel, up) == IF channel \in up THEN "sent" ELSE "failed"

\* _notify_telegram: the only attempt Telegram ever gets for this signature.
Telegram(r, up, allowed) ==
    [r EXCEPT !.telegram =
        IF ~allowed THEN "suppressed" ELSE Answer("telegram", up)]

\* Whether a channel is tried now, after n attempts.
TriesForEver(status, n, limit, channel, due) ==   \* mutant: no limit
    status # "sent" /\ (n = 0 \/ channel \in due)
Tries(status, n, limit, channel, due) ==
    status # "sent" /\ n < limit /\ (n = 0 \/ channel \in due)

\* _deliver_incident with _send_feishu_message, _send_feishu_phone and
\* _send_bark: warnings are Telegram only, an acknowledged incident is left
\* alone, and Bark is for what neither Telegram nor the phone delivered.
Deliver(i, r, up, due, allowed) ==
    LET messages == Tries(r.message, r.messages, MaxAttempts, "message", due)
        message == IF messages THEN Answer("message", up) ELSE r.message
        calls == message = "sent" /\ Tries(r.phone, r.calls, MaxPhone, "phone", due)
        phone == IF calls THEN Answer("phone", up) ELSE r.phone
        barks == r.telegram # "sent" /\ phone # "sent"
                 /\ Tries(r.bark, r.barks, MaxAttempts, "bark", due)
        count(n, tried) == IF tried THEN n + 1 ELSE n
    IN  IF ~allowed \/ r.acked \/ i.severity # "critical" THEN r
        ELSE [r EXCEPT !.message = message, !.messages = count(@, messages),
                       !.phone = phone, !.calls = count(@, calls),
                       !.bark = IF barks THEN Answer("bark", up) ELSE @,
                       !.barks = count(@, barks)]

\* One incident of this poll: raised, changed, or still there.  A delivery
\* repeated within the poll finds no retry due and changes nothing.
Alarm(i, active, token, up, due, allowed) ==
    IF i.key \notin DOMAIN active \/ active[i.key].signature # Signature(i)
    THEN Deliver(i, Telegram(Undelivered(i, token), up, allowed),
                 up, due, allowed)
    ELSE Deliver(i, [active[i.key] EXCEPT !.candidate = FALSE,
                        !.cools = i.cools, !.announces = i.announces],
                 up, due, allowed)

\* _migrate_wti_notification_memory: once the entry lock is permanent, every
\* WTI entry-block warning becomes the lock's, the best informed one wins.
Migrated(active, revoked) ==
    LET old == {k \in DOMAIN active \cap BlockEntry :
                    active[k].severity = "warning"}
        rank(k) == (IF active[k].acked THEN 2 ELSE 0)
                   + (IF active[k].telegram = "sent" THEN 1 ELSE 0)
        best == CHOOSE k \in old : \A j \in old : rank(j) <= rank(k)
    IN  IF ~revoked \/ old = {} THEN active
        ELSE [k \in (DOMAIN active \ old) \cup {<<"WTI", "revoked">>} |->
                IF k = <<"WTI", "revoked">>
                THEN [active[best] EXCEPT
                        !.signature = <<"warning", {"revoked"}>>]
                ELSE active[k]]

-----------------------------------------------------------------------------
(* One poll.                                                               *)

NoMemory == [active |-> <<>>, cooling |-> {}, primary |-> "none", offset |-> 0]

WatchdogTypeOK ==
    /\ running \in BOOLEAN /\ silenced \in BOOLEAN
    /\ tokens \in 0..MaxAlarms /\ kills \in 0..MaxKills
    /\ \A m \in {memory, disk} :
        /\ m.offset \in 0..Len(pressed)
        /\ \A k \in DOMAIN m.active :
            /\ m.active[k].token \in 1..tokens
            /\ m.active[k].messages \in 0..MaxAttempts
            /\ m.active[k].barks \in 0..MaxAttempts
            /\ m.active[k].calls \in 0..MaxPhone

WatchdogInit ==
    /\ running = TRUE /\ memory = NoMemory /\ disk = NoMemory
    /\ silenced = FALSE /\ pressed = <<>> /\ tokens = 0
    /\ dials = <<>> /\ kills = 0

\* _poll_telegram_acknowledgements: the buttons pressed since the offset.
UnreadFromNext == {pressed[n] : n \in (memory.offset + 2)..Len(pressed)}   \* mutant
Unread == {pressed[n] : n \in (memory.offset + 1)..Len(pressed)}
Silencing(active, updates) ==
    \E k \in DOMAIN active : [does |-> "silence", token |-> active[k].token] \in updates
Acknowledged(active, updates) ==
    [k \in DOMAIN active |->
        IF Silencing(active, updates)
             \/ [does |-> "ack", token |-> active[k].token] \in updates
        THEN [active[k] EXCEPT !.acked = TRUE] ELSE active[k]]

\* Which strategy the watchdog believes is the one that trades.
Primary(f, w) ==
    IF w.up /\ ~f.up /\ w.fresh THEN "WTI"
    ELSE IF f.up /\ ~w.up /\ f.fresh THEN "ETH" ELSE memory.primary
ConfirmedFlat(f) == ~Exposed(f) /\ f.review = "none"

\* A strategy handed over flat is no longer watched.
Dormant(asset, primary, view) ==
    IF asset = "WTI"
    THEN ~view.wti.up /\ primary \notin {"none", "WTI"} /\ ConfirmedFlat(view.wti)
    ELSE ~view.eth.up /\ primary = "WTI" /\ ConfirmedFlat(view.eth)

\* Without a critical incident, account data that stayed invisible for long
\* becomes one.
Promoted(incidents, active, lasting) ==
    IF \E i \in incidents : i.severity = "critical" THEN incidents
    ELSE {IF i.key[2] = "data_visibility" /\ i.key \in lasting
          THEN [i EXCEPT !.severity = "critical", !.cools = FALSE,
                         !.announces = TRUE] ELSE i : i \in incidents}

\* A WTI incident that is no longer reported is only let go when nothing in
\* fresh health data still speaks for it.
Unresolved(k, w) ==
    \/ ~w.fresh
    \/ k = <<"WTI", "account_read">>
        /\ (w.recovering \/ ~w.reconciled \/ w.action # "normal")
    \/ k \in {<<"WTI", "market">>, <<"WTI", "market_exposed">>} /\ ~w.market
    \/ k \in BlockEntry /\ w.revoked
    \/ k = <<"WTI", "revoked">>
        /\ (w.recovering \/ ~w.reconciled \/ w.action # "normal")

\* The retry intervals, cooldowns and confirmations a poll may find elapsed.
Overdue ==
    {c \in {"message", "phone", "bark"} :
        \E k \in DOMAIN memory.active : memory.active[k][c] = "failed"}
Lasting == {k \in DOMAIN memory.active : k[2] = "data_visibility"}
Candidates == {k \in DOMAIN memory.active : memory.active[k].candidate}

\* The incidents that survive the cooldowns.
Kept(incidents, known, cooling) ==
    {i \in incidents : \/ i.key \in DOMAIN known
                       \/ (i.severity = "critical" /\ ~i.cools)
                       \/ i.key \notin cooling}

\* run_once over the active records, for the incidents it keeps: alarm each
\* of them, then hold, question or drop the records no incident speaks for.
Cycle(known, current, cooling, view, primary, up, quiet, confirmed) ==
    LET keys     == {i.key : i \in current}
        new      == {i.key : i \in {c \in current :
                        \/ c.key \notin DOMAIN known
                        \/ known[c.key].signature # Signature(c)}}
        missing  == DOMAIN known \ keys
        dormant  == {k \in missing : view.monitored /\ Dormant(k[1], primary, view)}
        held     == {k \in missing \ dormant : k[1] = "WTI"
                        /\ (~view.monitored \/ Unresolved(k, view.wti))}
        waiting  == {k \in missing \ (dormant \cup held) : k[1] = "WTI"
                        /\ (~known[k].candidate \/ ~confirmed)}
        gone     == missing \ (dormant \cup held \cup waiting)
        cooled   == {k \in gone : known[k].cools}
    IN  \E due \in SUBSET Overdue,
           token \in [new -> (tokens + 1)..(tokens + Cardinality(new))] :
        /\ \A j, k \in new : token[j] = token[k] => j = k
        /\ tokens + Cardinality(new) <= MaxAlarms
        /\ tokens' = tokens + Cardinality(new)
        /\ \E alarmed \in {[i \in current |->
                Alarm(i, known, IF i.key \in new THEN token[i.key] ELSE 0,
                      up, due, ~quiet)]} :
            LET at(k) == alarmed[CHOOSE i \in current : i.key = k]
                calls(k) == at(k).calls - (IF k \in new THEN 0 ELSE known[k].calls)
                before(k) == IF k \in DOMAIN dials
                                  /\ dials[k].signature = at(k).signature
                             THEN dials[k].n ELSE 0
            IN  /\ memory' = [memory EXCEPT
                        !.active = [k \in keys \cup held \cup waiting |->
                            IF k \in keys THEN at(k)
                            ELSE [known[k] EXCEPT !.candidate = k \in waiting]],
                        !.cooling = cooling \cup cooled
                            \cup (IF <<"ETH", "critical">> \in cooled
                                  THEN {<<"ETH", "feed_stale">>} ELSE {}),
                        !.primary = primary,
                        !.offset = IF "telegram" \in up THEN Len(pressed) ELSE @]
                /\ dials' = [k \in keys |-> [signature |-> at(k).signature,
                                             n |-> before(k) + calls(k)]]
        /\ silenced' = quiet

\* Nothing is reported in heartbeat_only mode, nor for a dormant strategy.
Incidents(view, primary) ==
    IF ~view.monitored THEN {}
    ELSE (IF Dormant("ETH", primary, view) THEN {} ELSE Evaluate("ETH", view.eth))
         \cup (IF Dormant("WTI", primary, view) THEN {}
               ELSE WtiIncidents(view.wti, Migrated(memory.active, view.wti.revoked)))

RunOnce ==
    \E view \in Views, up \in Outcomes :
    \E primary \in {IF view.monitored THEN Primary(view.eth, view.wti)
                    ELSE memory.primary},
       updates \in {IF "telegram" \in up THEN Unread ELSE {}} :
    \E known \in {Migrated(Acknowledged(memory.active, updates),
                           view.monitored /\ view.wti.revoked)},
       incidents \in {Incidents(view, primary)},
       lapsed \in SUBSET memory.cooling, lasting \in SUBSET Lasting,
       confirmed \in IF Candidates = {} THEN {FALSE} ELSE BOOLEAN :
    \E current \in {Promoted(Kept(incidents, known, memory.cooling \ lapsed),
                             known, lasting)} :
        Cycle(known, current, memory.cooling \ lapsed, view, primary, up,
              silenced \/ Silencing(memory.active, updates), confirmed)

\* _persist ends the cycle; the health file and the heartbeat follow it.
Poll ==
    /\ running /\ RunOnce
    /\ disk' = memory'
    /\ UNCHANGED <<running, pressed, kills>>

\* The process dies before its save; systemd starts it again.
PollCutShort ==
    /\ running /\ kills < MaxKills
    /\ RunOnce
    /\ running' = FALSE /\ kills' = kills + 1
    /\ UNCHANGED <<disk, pressed>>
RestartWatchdog ==
    /\ ~running
    /\ running' = TRUE
    /\ memory' = disk
    /\ UNCHANGED <<disk, silenced, pressed, tokens, dials, kills>>

\* The operator: a button under a delivered alert, and the command line.
Press(does, k) ==
    /\ Len(pressed) < MaxPresses
    /\ memory.active[k].telegram = "sent"
    /\ pressed' = Append(pressed, [does |-> does, token |-> memory.active[k].token])
    /\ UNCHANGED <<running, memory, disk, silenced, tokens, dials, kills>>
Silence ==
    /\ ~silenced /\ silenced' = TRUE
    /\ UNCHANGED <<running, memory, disk, pressed, tokens, dials, kills>>
\* --resume-alerts, or the silence runs out.
Resume ==
    /\ silenced /\ silenced' = FALSE
    /\ UNCHANGED <<running, memory, disk, pressed, tokens, dials, kills>>
\* --ack-active-incidents: another process edits the saved file, the running
\* watchdog keeps its memory.
AcknowledgeByCommand ==
    /\ \E k \in DOMAIN disk.active : ~disk.active[k].acked
    /\ disk' = [disk EXCEPT !.active =
                    [k \in DOMAIN @ |-> [@[k] EXCEPT !.acked = TRUE]]]
    /\ UNCHANGED <<running, memory, silenced, pressed, tokens, dials, kills>>

WatchdogNext ==
    \/ Poll \/ PollCutShort \/ RestartWatchdog \/ Silence \/ Resume
    \/ AcknowledgeByCommand
    \/ \E does \in {"ack", "silence"}, k \in DOMAIN memory.active : Press(does, k)

WatchdogSpec == WatchdogInit /\ [][WatchdogNext]_watchdogVars

-----------------------------------------------------------------------------
(* Properties.                                                             *)

\* A fault rings the phone MaxPhone times for as long as it stays the same,
\* whatever is retried, silenced or acknowledged meanwhile: polls never dial
\* again, and a crash costs at most the calls of the poll it cut short
\* (_send_feishu_phone, _persist).
FaultRingsOnce ==
    \A k \in DOMAIN dials : dials[k].n <= MaxPhone * (kills + 1)

\* The alert of incident k goes out over a channel in this step.
Contacted(k) ==
    /\ k \in DOMAIN memory.active /\ k \in DOMAIN memory'.active
    /\ LET old == memory.active[k]  new == memory'.active[k] IN
        old.token = new.token
        /\ (new.messages > old.messages \/ new.calls > old.calls
             \/ new.barks > old.barks)

\* Once the watchdog has read the button the operator pressed under an
\* alert, nothing more is sent for that alert: not by a later poll, not
\* after a crash between reading the button and saving it, when Telegram
\* hands the update out again (_poll_telegram_acknowledgements).
AcknowledgedIsQuiet ==
    [][\A k \in DOMAIN memory'.active : Contacted(k) =>
        ~\E n \in 1..memory'.offset : pressed[n].token = memory'.active[k].token]_watchdogVars

\* A permanent entry lock is told once: while the watchdog remembers it, the
\* recovery reads that go on behind it, a lapse of the health data or a change
\* of the reason raise no further alert of the same block (run_once,
\* _migrate_wti_notification_memory).
LockIsToldOnce ==
    [][running /\ <<"WTI", "revoked">> \in DOMAIN memory.active =>
        \A k \in DOMAIN memory'.active \cap {<<"WTI", "revoked">>, <<"WTI", "account_read">>} :
            memory'.active[k].token <= tokens]_watchdogVars
=============================================================================
