----------------------------- MODULE RiskBackup -----------------------------
(***************************************************************************)
(* The backup alarm on the second host: it stores the last signed          *)
(* heartbeat of the watchdog, and alarms for it when the heartbeat stops,  *)
(* or when it reports a critical incident whose delivery failed for longer *)
(* than a grace period. It is muted by its own alert control or by the one *)
(* the last heartbeat carries; a mute with an end runs out by itself.      *)
(***************************************************************************)
EXTENDS Naturals, FiniteSets

CONSTANTS
  Beats,                  \* what a heartbeat may report: [incidents, silence]
  Outcomes,               \* sets of channels that accept a message during a poll
  MaxAttempts, MaxPhone,  \* max_channel_attempts, max_phone_attempts
  MaxBeats, MaxMutes      \* bounds on the heartbeats and the operator's mutes

VARIABLES
  envelope,   \* the stored heartbeat
  aged,       \* it was received longer ago than max_age_seconds
  active,     \* memory["active_incidents"]
  muted,      \* the backup's own alert control: "no" or "timed"
  beats, mutes

vars == <<envelope, aged, active, muted, beats, mutes>>

NoEnvelope == [incidents |-> {}, silence |-> "none", seen |-> FALSE]
Lost == "remote_heartbeat_stale"

\* What the heartbeat does not report as sent.
FailedChannels(i) ==
  (IF i.bark # "sent" THEN {"bark"} ELSE {})
  \cup (IF i.message # "sent" \/ i.phone # "sent" THEN {"feishu"} ELSE {})

\* An incident to alarm for, with its channels.
Suppressed == muted # "no" \/ envelope.silence # "none"
Undelivered == {i \in envelope.incidents : i.critical /\ ~i.acked /\ FailedChannels(i) # {}}
Desired ==
  IF Suppressed \/ ~envelope.seen THEN {}
  ELSE IF aged THEN {[name |-> Lost, channels |-> {"bark", "feishu", "telegram"}]}
  ELSE {[name |-> i.name, channels |-> FailedChannels(i)] : i \in Undelivered}

NewRecord == [telegram |-> "none", telegrams |-> 0, message |-> "none", messages |-> 0,
              phone |-> "none", calls |-> 0, bark |-> "none", barks |-> 0, acked |-> FALSE]

\* Each channel on its own schedule; the phone needs a message that was sent.
Attempt(status, tries, limit, channel, due) ==
  status # "sent" /\ tries < limit /\ (tries = 0 \/ channel \in due)
Deliver(r, channels, up, due) ==
  LET answer(channel) == IF channel \in up THEN "sent" ELSE "failed"
      barks == "bark" \in channels /\ Attempt(r.bark, r.barks, MaxAttempts, "bark", due)
      messages == "feishu" \in channels /\ Attempt(r.message, r.messages, MaxAttempts, "message", due)
      message == IF messages THEN answer("message") ELSE r.message
      calls == "feishu" \in channels /\ message = "sent" /\ Attempt(r.phone, r.calls, MaxPhone, "phone", due)
      telegrams == "telegram" \in channels /\ Attempt(r.telegram, r.telegrams, MaxAttempts, "telegram", due)
      count(n, tried) == IF tried THEN n + 1 ELSE n
  IN  [r EXCEPT !.bark = IF barks THEN answer("bark") ELSE @, !.barks = count(@, barks),
                !.message = message, !.messages = count(@, messages),
                !.phone = IF calls THEN answer("phone") ELSE @, !.calls = count(@, calls),
                !.telegram = IF telegrams THEN answer("telegram") ELSE @,
                !.telegrams = count(@, telegrams)]

TypeOK ==
  /\ envelope.seen \in BOOLEAN /\ envelope.silence \in {"none", "timed", "forever"}
  /\ aged \in BOOLEAN /\ muted \in {"no", "timed"} /\ beats \in 0..MaxBeats /\ mutes \in 0..MaxMutes
  /\ \A n \in DOMAIN active :
       /\ active[n].barks \in 0..MaxAttempts /\ active[n].messages \in 0..MaxAttempts
       /\ active[n].telegrams \in 0..MaxAttempts /\ active[n].calls \in 0..MaxPhone

Init ==
  /\ envelope = NoEnvelope /\ aged = FALSE /\ active = <<>> /\ muted = "no"
  /\ beats = 0 /\ mutes = 0

\* do_POST: a valid heartbeat replaces the one before.
Receive(beat) ==
  /\ beats < MaxBeats /\ beats' = beats + 1 /\ aged' = FALSE
  /\ envelope' = [incidents |-> beat.incidents, silence |-> beat.silence, seen |-> TRUE]
  /\ UNCHANGED <<active, muted, mutes>>

\* No heartbeat for max_age_seconds.
Age ==
  /\ envelope.seen /\ ~aged /\ aged' = TRUE
  /\ UNCHANGED <<envelope, active, muted, beats, mutes>>

\* Mutant: a silence ends with the heartbeats.
SilenceRunsOutWhileFresh ==
  /\ ~aged /\ envelope.silence = "timed" /\ envelope' = [envelope EXCEPT !.silence = "none"]
  /\ UNCHANGED <<aged, active, muted, beats, mutes>>
\* The end of a silence is a time, compared when the control is read.
SilenceRunsOut ==
  /\ envelope.silence = "timed" /\ envelope' = [envelope EXCEPT !.silence = "none"]
  /\ UNCHANGED <<aged, active, muted, beats, mutes>>
MuteRunsOut ==
  /\ muted = "timed" /\ muted' = "no"
  /\ UNCHANGED <<envelope, aged, active, beats, mutes>>
Mute ==
  /\ muted = "no" /\ mutes < MaxMutes /\ muted' = "timed" /\ mutes' = mutes + 1
  /\ UNCHANGED <<envelope, aged, active, beats>>

Overdue ==
  {c \in {"telegram", "message", "phone", "bark"} : \E n \in DOMAIN active : active[n][c] = "failed"}

\* run_once: buttons pressed since the last poll acknowledge; a lost heartbeat
\* is alarmed for at once, an incident once its grace period is over; what is no
\* longer desired is dropped, a muted poll drops everything.
Poll ==
  \E up \in Outcomes, due \in SUBSET Overdue, desired \in {Desired},
     answered \in SUBSET {n \in DOMAIN active : active[n].telegram = "sent"} :
  \E known \in {[n \in DOMAIN active |-> [active[n] EXCEPT !.acked = @ \/ n \in answered]]} :
  \E patient \in SUBSET {d.name : d \in {e \in desired : e.name # Lost
                         /\ (e.name \in DOMAIN known => known[e.name] = NewRecord)}} :
    LET before(n) == IF n \in DOMAIN known THEN known[n] ELSE NewRecord
        channels(n) == (CHOOSE d \in desired : d.name = n).channels
    IN  /\ "telegram" \in up \/ answered = {}
        /\ active' = [n \in {d.name : d \in desired} |->
                        IF before(n).acked \/ n \in patient THEN before(n)
                        ELSE Deliver(before(n), channels(n), up, due)]
        /\ UNCHANGED <<envelope, aged, muted, beats, mutes>>

Next ==
  \/ Poll \/ Age \/ Mute \/ MuteRunsOut \/ SilenceRunsOut
  \/ \E beat \in Beats : Receive(beat)

Spec == Init /\ [][Next]_vars

-----------------------------------------------------------------------------
(* Properties. *)

\* The clocks run, and systemd keeps the poll loop alive.
Fairness == WF_vars(Poll) /\ WF_vars(MuteRunsOut) /\ WF_vars(SilenceRunsOut)
FairSpec == Spec /\ Fairness

Tried(n) == /\ n \in DOMAIN active
            /\ active[n].acked \/ (active[n].barks > 0 /\ active[n].messages > 0 /\ active[n].telegrams > 0)

\* A watchdog that fell silent is reported on every channel, or its return
\* comes first; even one that died in a silence the operator had set, unless
\* that silence has no end (_desired_incidents, suppression_reason).
DeadWatchdogIsReported ==
  <>[](envelope.seen /\ aged /\ envelope.silence # "forever") => []<>Tried(Lost)

=============================================================================
