---------------------------- MODULE TelegramQueue ----------------------------
(***************************************************************************)
(* The trade notifications of a runtime (tools/lib/telegram_notifier.py):  *)
(* enqueue throttles repeats and puts the rest in a bounded queue in       *)
(* memory, one worker sends them, and stop flushes the queue.  Every await *)
(* is a point at which the runtime may enqueue more.                       *)
(***************************************************************************)
EXTENDS Naturals, Sequences, FiniteSets

CONSTANTS
    Alerts,      \* throttle keys: event, asset and reason
    QueueSize,   \* maxsize of the queue
    MaxOffers    \* bound: alerts offered to enqueue

\* The None that ends the worker is no alert.
ASSUME QueueAssumption ==
    IsFiniteSet(Alerts) /\ "stop" \notin Alerts /\ {QueueSize, MaxOffers} \subseteq Nat

VARIABLES
    queue,       \* waiting messages; Stop is the None that ends the worker
    inflight,    \* messages the worker has taken and not finished: one or none
    worker,      \* worker_task: none, running, or done
    stopping,    \* where stop() is
    throttled,   \* the keys last enqueued less than throttle_seconds ago
    suppressed,  \* suppressed_counts
    offered,     \* alerts offered for each key, silenced ones aside
    told,        \* alerts accounted for in the messages the worker tried
    dropped,     \* alerts lost with a message that found the queue full
    cut          \* alerts lost with the messages a timed-out stop cancelled

queueVars == <<queue, inflight, worker, stopping, throttled, suppressed,
          offered, told, dropped, cut>>

Stop == [key |-> "stop", repeats |-> 0, late |-> FALSE]
Stages == {"no", "joining", "joined", "closing", "stopped", "cancelled"}

\* A message speaks for itself and for the repeats it reports. The alerts for k
\* in a collection of messages, each told apart by its message and a number.
Weight(m, k) == IF m.key = k THEN 1 + m.repeats ELSE 0
AlertsIn(messages, k) ==
    UNION {{n} \X (1..Weight(messages[n], k)) : n \in DOMAIN messages}
Waiting(k) == Cardinality(AlertsIn(queue, k))
Taken(k) == Cardinality(AlertsIn([m \in inflight |-> m], k))

QueueTypeOK ==
    /\ Len(queue) <= QueueSize /\ Cardinality(inflight) <= 1
    /\ worker \in {"none", "running", "done"} /\ stopping \in Stages
    /\ throttled \subseteq Alerts
    /\ \A c \in {suppressed, offered, told, dropped, cut} :
            c \in [Alerts -> 0..MaxOffers]

QueueInit ==
    /\ queue = <<>> /\ inflight = {} /\ worker = "none" /\ stopping = "no"
    /\ throttled = {} /\ suppressed = [k \in Alerts |-> 0]
    /\ offered = suppressed /\ told = suppressed
    /\ dropped = suppressed /\ cut = suppressed

Offers == Cardinality({o \in Alerts \X (1..MaxOffers) : o[2] <= offered[o[1]]})

\* The repeats of k not reported yet, once k was offered again.
NeverReported(k) == [suppressed EXCEPT ![k] = IF k \in throttled THEN @ + 1 ELSE @]   \* mutant
Unreported(k) == [suppressed EXCEPT ![k] = IF k \in throttled THEN @ + 1 ELSE 0]

\* enqueue of a throttled event the operator has not silenced: the interval
\* starts and the count of repeats is taken before the queue is asked.
Enqueue(k) ==
    /\ Offers < MaxOffers
    /\ offered' = [offered EXCEPT ![k] = @ + 1]
    /\ suppressed' = Unreported(k)
    /\ \/ /\ k \in throttled
          /\ UNCHANGED <<queue, throttled, dropped>>
       \/ /\ k \notin throttled
          /\ throttled' = throttled \cup {k}
          /\ \/ /\ Len(queue) < QueueSize
                /\ queue' = Append(queue, [key |-> k, repeats |-> suppressed[k],
                                late |-> stopping \in {"closing", "stopped", "cancelled"}])
                /\ UNCHANGED dropped
             \/ /\ Len(queue) = QueueSize
                /\ dropped' = [dropped EXCEPT ![k] = @ + 1 + suppressed[k]]
                /\ UNCHANGED queue
    /\ UNCHANGED <<inflight, worker, stopping, told, cut>>

IntervalOver(k) ==
    /\ k \in throttled
    /\ throttled' = throttled \ {k}
    /\ UNCHANGED <<queue, inflight, worker, stopping, suppressed, offered,
                   told, dropped, cut>>

StartWorker ==
    /\ worker # "running" /\ stopping = "no"
    /\ worker' = "running"
    /\ UNCHANGED <<queue, inflight, stopping, throttled, suppressed, offered,
                   told, dropped, cut>>

\* _worker takes a message, then sends it: a failed one is only logged.
TakeMessage ==
    /\ worker = "running" /\ inflight = {} /\ queue # <<>>
    /\ queue' = Tail(queue)
    /\ IF Head(queue) = Stop
       THEN worker' = "done" /\ UNCHANGED inflight
       ELSE inflight' = {Head(queue)} /\ UNCHANGED worker
    /\ UNCHANGED <<stopping, throttled, suppressed, offered, told, dropped, cut>>
SendMessage ==
    /\ inflight # {}
    /\ told' = [k \in Alerts |-> told[k] + Taken(k)]
    /\ inflight' = {}
    /\ UNCHANGED <<queue, worker, stopping, throttled, suppressed, offered,
                   dropped, cut>>

\* stop: join the queue, end the worker with None, wait for it.
BeginStop ==
    /\ worker # "none" /\ stopping = "no"
    /\ stopping' = "joining"
    /\ UNCHANGED <<queue, inflight, worker, throttled, suppressed, offered,
                   told, dropped, cut>>
Joined ==
    /\ stopping = "joining" /\ queue = <<>> /\ inflight = {}
    /\ stopping' = "joined"
    /\ UNCHANGED <<queue, inflight, worker, throttled, suppressed, offered,
                   told, dropped, cut>>
\* put_nowait(None) raises when the queue has filled up since join returned.
EndWorker ==
    /\ stopping = "joined" /\ Len(queue) < QueueSize
    /\ stopping' = "closing"
    /\ queue' = Append(queue, Stop)
    /\ UNCHANGED <<inflight, worker, throttled, suppressed, offered, told,
                   dropped, cut>>
\* Mutant: stop does not wait for the worker.
EndedAtOnce ==
    /\ stopping = "closing"
    /\ stopping' = "stopped" /\ worker' = "none"
    /\ UNCHANGED <<queue, inflight, throttled, suppressed, offered, told,
                   dropped, cut>>
WorkerEnded ==
    /\ stopping = "closing" /\ worker = "done"
    /\ stopping' = "stopped" /\ worker' = "none"
    /\ UNCHANGED <<queue, inflight, throttled, suppressed, offered, told,
                   dropped, cut>>

\* The 10 s for the flush are over: the worker is cancelled, its message may
\* or may not have gone out, and what waits is discarded.
FlushTimeout ==
    /\ stopping = "joining"
    /\ stopping' = "cancelled" /\ worker' = "none"
    /\ queue' = <<>> /\ inflight' = {}
    /\ cut' = [k \in Alerts |-> cut[k] + Waiting(k) + Taken(k)]
    /\ UNCHANGED <<throttled, suppressed, offered, told, dropped>>
\* The 2 s for the worker are over: it is cancelled, the queue stays.
CloseTimeout ==
    /\ stopping = "closing" /\ worker = "running"
    /\ stopping' = "cancelled" /\ worker' = "none"
    /\ inflight' = {}
    /\ cut' = [k \in Alerts |-> cut[k] + Taken(k)]
    /\ UNCHANGED <<queue, throttled, suppressed, offered, told, dropped>>

QueueNext ==
    \/ \E k \in Alerts : Enqueue(k) \/ IntervalOver(k)
    \/ StartWorker \/ TakeMessage \/ SendMessage
    \/ BeginStop \/ Joined \/ EndWorker \/ WorkerEnded \/ FlushTimeout \/ CloseTimeout

QueueSpec == QueueInit /\ [][QueueNext]_queueVars

-----------------------------------------------------------------------------
(* Properties.                                                             *)

\* Every alert is accounted for: in a message that was tried or waits, in
\* the count the next message will report, in a message that found the queue
\* full, or in one a timed-out stop cancelled.  None is counted twice.
RepeatsAreCounted ==
    \A k \in Alerts :
        offered[k] = told[k] + Waiting(k) + Taken(k) + suppressed[k]
                     + dropped[k] + cut[k]

\* A stop that did not time out leaves in the queue only what was enqueued
\* after it had asked the worker to end.
FlushedBeforeStop ==
    stopping = "stopped" =>
        inflight = {} /\ \A n \in DOMAIN queue : queue[n].late
=============================================================================
