---------------------------- MODULE CommandBridge ----------------------------
(***************************************************************************)
(* The way of an order to Variational: a runtime asks the command broker   *)
(* that runs in its own process (src/variational/listener.py), the broker  *)
(* hands the command to the Chrome extension over the extension's socket,  *)
(* the extension evaluates it in the page, the page posts the order, and   *)
(* an answer travels back. Sockets break and are opened again, the browser *)
(* stops the extension's worker, a page is reloaded under a command, and   *)
(* the runtime gives up waiting. What the runtime makes of an answer is    *)
(* the verdict: no order, an order, or unknown.                            *)
(***************************************************************************)
EXTENDS Integers, Sequences, FiniteSets

CONSTANTS
    Readers,      \* the runtimes that may read the answers: "eth", "wti" or both
    Lanes,        \* requests it may have open at once, each on a socket of its own
    MaxCommands,  \* bound: orders asked for
    MaxSockets    \* bound: sockets the extension opens

ASSUME ReadersAssumption == Readers \subseteq {"eth", "wti"}

VARIABLES
    \* the runtime: which it is, and what it makes of each command
    reader, verdict,
    \* on their way between runtime and broker: commands, sockets the runtime
    \* closed on a command, answers
    inbox, closing, answers,
    \* the broker: requests without an answer, the registered socket of the
    \* extension (0: none), the sockets it holds open
    pendingRequests, extension, connected,
    \* the extension: its socket (0: none), how many it opened, results kept
    \* while there is none
    socket, opened, unsent,
    \* on their way between broker and extension, over the sockets
    downlink, uplink,
    \* evaluations in the page, posts on their way, and the orders at the venue
    page, posts, atVenue

runtimeVars == <<verdict, inbox, closing, answers>>
brokerVars  == <<pendingRequests, extension, connected>>
workerVars  == <<socket, opened, unsent>>
linkVars    == <<downlink, uplink>>
venueVars   == <<page, posts, atVenue>>
moving == <<runtimeVars, brokerVars, workerVars, linkVars, venueVars>>
bridgeVars == <<reader, moving>>

Commands == 1..MaxCommands
Sockets  == 1..MaxSockets

\* A result says ok, that the venue refused, that a request of the page ran
\* into its timeout, that the evaluation or the fetch failed with an error, or
\* that the dispatch guard stopped the order. The broker has two of its own.
Results == {"ok", "refused", "timed out", "error", "guard"}
Answers == Results \cup {"no extension", "disconnected"}
Verdicts == {"idle", "waiting", "ordered", "no order", "unknown"}
Register == <<0, "register">>

BridgeInit ==
    /\ reader \in Readers
    /\ verdict = [c \in Commands |-> "idle"]
    /\ inbox = {} /\ closing = {} /\ answers = {}
    /\ pendingRequests = {} /\ extension = 0 /\ connected = {}
    /\ socket = 0 /\ opened = 0 /\ unsent = <<>>
    /\ downlink = {} /\ uplink = [s \in Sockets |-> <<>>]
    /\ page = [c \in Commands |-> "none"] /\ posts = {}
    /\ atVenue = [c \in Commands |-> "none"]

-----------------------------------------------------------------------------
(* The runtime *)

Send(c) ==
    /\ verdict[c] = "idle" /\ \A d \in 1..(c - 1) : verdict[d] # "idle"
    /\ Cardinality({d \in Commands : verdict[d] = "waiting"}) < Lanes
    /\ verdict' = [verdict EXCEPT ![c] = "waiting"] /\ inbox' = inbox \cup {c}
    /\ UNCHANGED <<closing, answers, brokerVars, workerVars, linkVars, venueVars>>

\* Mutant: the WTI gateway reads an answer as the ETH runtime does.
ReadingOfEth(a) ==
    CASE a = "ok" -> "ordered" [] a = "timed out" -> "unknown" [] OTHER -> "no order"
\* The WTI gateway believes only the guard that an order was not placed. The
\* ETH runtime believes every answer that is not ok and names no timeout.
Reading(a) ==
    IF a = "ok" THEN "ordered"
    ELSE IF reader = "wti" THEN IF a = "guard" THEN "no order" ELSE "unknown"
    ELSE IF a = "timed out" THEN "unknown" ELSE "no order"

TakeAnswer(c, a) ==
    /\ verdict[c] = "waiting" /\ <<c, a>> \in answers
    /\ answers' = answers \ {<<c, a>>} /\ verdict' = [verdict EXCEPT ![c] = Reading(a)]
    /\ UNCHANGED <<inbox, closing, brokerVars, workerVars, linkVars, venueVars>>

\* A lane of the ETH runtime closes its socket when it gives up; the WTI
\* client keeps it, and passes over an answer that comes later.
GiveUp(c) ==
    /\ verdict[c] = "waiting" /\ verdict' = [verdict EXCEPT ![c] = "unknown"]
    /\ closing' = IF reader = "eth" THEN closing \cup {c} ELSE closing
    /\ answers' = {m \in answers : m[1] # c}
    /\ UNCHANGED <<inbox, brokerVars, workerVars, linkVars, venueVars>>

-----------------------------------------------------------------------------
(* The broker. Its lock makes each of these one step. *)

\* An answer nobody waits for any more is passed over.
Reply(messages) == answers' = answers \cup {m \in messages : verdict[m[1]] = "waiting"}

\* What is sent over a socket whose other end is gone is lost without a word.
Forward(c) ==
    /\ c \in inbox /\ inbox' = inbox \ {c}
    /\ IF extension = 0
       THEN /\ Reply({<<c, "no extension">>})
            /\ UNCHANGED <<pendingRequests, downlink>>
       ELSE /\ pendingRequests' = pendingRequests \cup {c}
            /\ downlink' = IF extension = socket THEN downlink \cup {c} ELSE downlink
            /\ UNCHANGED answers
    /\ UNCHANGED <<verdict, closing, extension, connected, workerVars, uplink, venueVars>>

\* Mutant: the socket is forgotten, and not the requests it made.
ForgetTheSocket(c) ==
    /\ c \in closing /\ c \notin inbox /\ closing' = closing \ {c}
    /\ UNCHANGED <<verdict, inbox, answers, pendingRequests, extension, connected, workerVars,
                   linkVars, venueVars>>
\* The runtime's socket is read to its end before the broker sees it closed.
Forget(c) ==
    /\ c \in closing /\ c \notin inbox /\ closing' = closing \ {c}
    /\ pendingRequests' = pendingRequests \ {c}
    /\ UNCHANGED <<verdict, inbox, answers, extension, connected, workerVars, linkVars, venueVars>>

\* A result is passed on once, to the runtime that asked; from any socket.
Hear(s) ==
    LET m == Head(uplink[s]) IN
    /\ s \in connected /\ uplink[s] # <<>>
    /\ uplink' = [uplink EXCEPT ![s] = Tail(@)]
    /\ IF m = Register
       THEN extension' = s /\ UNCHANGED <<pendingRequests, answers>>
       ELSE /\ Reply({m} \cap pendingRequests \X Results)
            /\ pendingRequests' = pendingRequests \ {m[1]} /\ UNCHANGED extension
    /\ UNCHANGED <<verdict, inbox, closing, connected, workerVars, downlink, venueVars>>

\* Its end of the extension's socket closes, after the last message or when
\* pings stay unanswered. Only the registered one fails what is pending.
Disconnect(s) ==
    /\ s \in connected /\ (uplink[s] = <<>> \/ s = socket)
    /\ connected' = connected \ {s} /\ uplink' = [uplink EXCEPT ![s] = <<>>]
    /\ IF s = extension
       THEN /\ extension' = 0 /\ pendingRequests' = {}
            /\ Reply({<<c, "disconnected">> : c \in pendingRequests})
       ELSE UNCHANGED <<extension, pendingRequests, answers>>
    /\ UNCHANGED <<verdict, inbox, closing, workerVars, downlink, venueVars>>

\* The listener process dies and is started again: nothing of it is on disk.
RestartBroker ==
    /\ inbox' = {} /\ closing' = {} /\ pendingRequests' = {} /\ extension' = 0 /\ connected' = {}
    /\ uplink' = [s \in Sockets |-> <<>>]
    /\ UNCHANGED <<verdict, answers, workerVars, downlink, venueVars>>

-----------------------------------------------------------------------------
(* The extension. Results without a socket are kept, and leave before the   *)
(* registration of the next one.                                            *)

Connect ==
    /\ socket = 0 /\ opened < MaxSockets
    /\ opened' = opened + 1 /\ socket' = opened' /\ connected' = connected \cup {socket'}
    /\ uplink' = [uplink EXCEPT ![socket'] = Append(unsent, Register)] /\ unsent' = <<>>
    /\ UNCHANGED <<runtimeVars, pendingRequests, extension, downlink, venueVars>>

Unattended(stage) ==
    CASE stage = "evaluating" -> "alone" [] stage = "posted" -> "over" [] OTHER -> stage

\* The socket closes, the user stops the forwarding, or the browser stops the
\* worker. Some of what was under way is lost, with the last two the results
\* kept; with the worker nobody waits for its evaluations, which the page goes on
\* with.
Lose(kept, how) ==
    /\ socket # 0 /\ socket' = 0 /\ downlink' = {}
    /\ uplink' = [uplink EXCEPT ![socket] = SubSeq(@, 1, kept)]
    /\ unsent' = IF how = "closed" THEN unsent ELSE <<>>
    /\ page' = IF how = "killed" THEN [c \in Commands |-> Unattended(page[c])] ELSE page
    /\ UNCHANGED <<runtimeVars, brokerVars, opened, posts, atVenue>>

EvaluateOrder(c) ==
    /\ socket # 0 /\ c \in downlink /\ downlink' = downlink \ {c}
    /\ page' = [page EXCEPT ![c] = "evaluating"]
    /\ UNCHANGED <<runtimeVars, brokerVars, workerVars, uplink, posts, atVenue>>

Return(c, result) ==
    /\ IF socket = 0
       THEN unsent' = Append(unsent, <<c, result>>) /\ UNCHANGED uplink
       ELSE /\ uplink' = IF socket \in connected
                         THEN [uplink EXCEPT ![socket] = Append(@, <<c, result>>)] ELSE uplink
            /\ UNCHANGED unsent
    /\ UNCHANGED <<runtimeVars, brokerVars, socket, opened, downlink>>

-----------------------------------------------------------------------------
(* The page and the venue *)

\* A quote that is too old or not described, a quote that fails: no order was
\* posted.
Decline(c) ==
    /\ page[c] = "evaluating" /\ page' = [page EXCEPT ![c] = "over"]
    /\ UNCHANGED <<posts, atVenue>>
    /\ \E result \in Results \ {"ok"} : Return(c, result)

\* No tab, or the debugger is detached from it: an error, while the page, if it
\* has begun, goes on.
Detach(c) ==
    /\ page[c] = "evaluating" /\ page' = [page EXCEPT ![c] = "alone"]
    /\ UNCHANGED <<posts, atVenue>> /\ Return(c, "error")

Post(c) ==
    /\ page[c] \in {"evaluating", "alone"}
    /\ page' = [page EXCEPT ![c] = IF @ = "alone" THEN "over" ELSE "posted"]
    /\ posts' = posts \cup {c}
    /\ UNCHANGED <<runtimeVars, brokerVars, workerVars, linkVars, atVenue>>

\* The post may never arrive.
OrderArrives(c) ==
    /\ c \in posts /\ posts' = posts \ {c}
    /\ \E fate \in {"accepted", "refused", "none"} : atVenue' = [atVenue EXCEPT ![c] = fate]
    /\ UNCHANGED <<runtimeVars, brokerVars, workerVars, linkVars, page>>

\* The venue's reply; or the page's timeout, a failed fetch, a page that is
\* reloaded or closed under the evaluation, whatever the venue does.
PostAnswered(c) ==
    /\ page[c] = "posted" /\ page' = [page EXCEPT ![c] = "over"]
    /\ UNCHANGED <<posts, atVenue>>
    /\ \E result \in {"timed out", "error"} \cup
                     {r \in {"ok"} : atVenue[c] = "accepted"} \cup
                     {r \in {"refused"} : atVenue[c] = "refused"} : Return(c, result)

-----------------------------------------------------------------------------
BridgeStep ==
    \/ \E c \in Commands :
         \/ Send(c) \/ (\E a \in Answers : TakeAnswer(c, a)) \/ GiveUp(c)
         \/ Forward(c) \/ Forget(c)
         \/ EvaluateOrder(c) \/ Decline(c) \/ Detach(c) \/ Post(c) \/ OrderArrives(c) \/ PostAnswered(c)
    \/ \E s \in Sockets : Hear(s) \/ Disconnect(s)
    \/ RestartBroker \/ Connect
    \/ \E kept \in 0..MaxCommands + 1, how \in {"closed", "stopped", "killed"} :
         socket # 0 /\ kept <= Len(uplink[socket]) /\ Lose(kept, how)

BridgeNext == BridgeStep /\ UNCHANGED reader

BridgeSpec == BridgeInit /\ [][BridgeNext]_bridgeVars

-----------------------------------------------------------------------------
BridgeTypeOK ==
    /\ reader \in Readers
    /\ verdict \in [Commands -> Verdicts]
    /\ inbox \subseteq Commands /\ closing \subseteq Commands /\ answers \subseteq Commands \X Answers
    /\ pendingRequests \subseteq Commands /\ extension \in 0..MaxSockets /\ connected \subseteq Sockets
    /\ socket \in 0..MaxSockets /\ opened \in 0..MaxSockets /\ unsent \in Seq(Commands \X Results)
    /\ downlink \subseteq Commands /\ uplink \in [Sockets -> Seq((Commands \X Results) \cup {Register})]
    /\ page \in [Commands -> {"none", "evaluating", "alone", "posted", "over"}] /\ posts \subseteq Commands
    /\ atVenue \in [Commands -> {"none", "accepted", "refused"}]

\* What a runtime books as "no order" is not at the venue, and never will be:
\* a lost socket, a stopped worker or a reloaded page is not a refusal.
NoOrderIsTrue == \A c \in Commands : verdict[c] = "no order" => atVenue[c] # "accepted"

\* The same of the WTI gateway, which believes no answer but the guard's
\* (wti_live_gateway.py:452-477).
GatewayNoOrderIsTrue == reader = "wti" => NoOrderIsTrue

\* What a verdict is worth: the ETH runtime reads "no order" into answers that
\* do not say so, which leaves the order unknown.
Worth(c) == IF reader = "eth" /\ verdict[c] = "no order" THEN "unknown" ELSE verdict[c]

Call == INSTANCE OrderCall WITH
    told <- [c \in Commands |-> Worth(c)],
    order <- atVenue

\* Whatever breaks on the way, the bridge is a call that fails honestly: an order
\* is at the venue once at most, and not unasked; a runtime told of an order has
\* one, and the WTI gateway told of none has none and never will (of ETH, see
\* NoOrderIsTrue). No table of the broker, kept result or second socket brings an
\* answer to the wrong command, or an order back that was given up as unsent.
AnswersAreTrue == Call!CallSpec

\* The broker's table does not grow: a request whose asker gave up, whose
\* command was lost with a replaced socket, or whose result never comes leaves it.
RequestIsForgotten(c) == []<>(c \notin pendingRequests)
==============================================================================
