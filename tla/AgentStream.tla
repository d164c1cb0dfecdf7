------------------------------ MODULE AgentStream ------------------------------
(***************************************************************************)
(* One session of the agent: the goroutine of Client.Run that owns the     *)
(* stream (contract/client.go), the goroutines that make requests over it  *)
(* and wait for the answer with their message's id, and runAgent, which    *)
(* starts them and waits for them (agent/cmd/cadestrod/runtime.go).        *)
(*                                                                         *)
(* A request has no timeout: what ends it is its answer, the cancellation  *)
(* of the session, or closeStream closing its channel.  The context Run    *)
(* cancels when it fails is its own, not the one the requests watch.  The  *)
(* renewal of the certificate, which runAgent makes over a connection of   *)
(* its own, is not even ended by the stream's end.                         *)
(*                                                                         *)
(* Certificates are CertRotation's, the contents of the messages           *)
(* ResultDelivery's.  The hello and its welcome have the id 0.             *)
(***************************************************************************)
EXTENDS Naturals, Sequences

CONSTANT
    MaxRequests   \* bound: requests in the session

ASSUME MaxRequestsAssumption == MaxRequests \in Nat

VARIABLES
    main,          \* where runAgent is
    workers,       \* 1 once periodicSync and sendScheduledResults were started
    cancelled,     \* 1 once the session's context is cancelled
    ready,         \* tokens in the readiness channel
    run,           \* where Client.Run is
    runCancelled,  \* 1 once Run cancelled its own context
    stream,        \* 1 while client.stream is set
    heartbeat,     \* the sendHeartbeats goroutine
    pending,       \* client.pending, as the ids it holds
    channel,       \* the channel made for each id
    held,          \* id whose channel deliverPending took out of the map
    caller,        \* each requesting goroutine: its step and its message id
    requests,      \* ids used so far
    transport,     \* the connection
    server,        \* the server's handler: before or after the hello
    up, down,      \* messages on their way
    uncorrelated   \* history: 1 once Run failed with a message nobody awaits

mainVars == <<main, workers, cancelled>>
runVars == <<run, runCancelled, stream, heartbeat, held, uncorrelated, ready>>
callVars == <<caller, requests>>
netVars == <<transport, server, up, down>>
vars == <<mainVars, runVars, pending, channel, callVars, netVars>>

\* The policy goroutine (runAgent itself, then periodicSync) and the results
\* goroutine (sendScheduledResults).
Caller == {"policy", "results"}
Id == 1..MaxRequests

Init ==
    /\ main = "await" /\ workers = 0 /\ cancelled = 0 /\ ready = 0
    /\ run = "start" /\ runCancelled = 0 /\ stream = 0
    /\ heartbeat = "off" /\ held = 0 /\ uncorrelated = 0
    /\ pending = {} /\ channel = [i \in Id |-> "none"]
    /\ caller = [c \in Caller |-> [step |-> "idle", id |-> 0]]
    /\ requests = 0
    /\ transport = "up" /\ server = "hello" /\ up = <<>> /\ down = <<>>

\* The context of the stream and the heartbeats is a child of the session's.
RunContextDone == cancelled = 1 \/ runCancelled = 1

-------------------------------------------------------------------------------
(* runAgent. *)

\* The welcome came in time.  The agent asks for a new certificate if it connected
\* with its active one and that one is due; otherwise it goes on to the first
\* policy.
waitForReadiness ==
    /\ main = "await" /\ ready = 1
    /\ ready' = 0
    /\ main' \in {"renew", "pull"}
    /\ UNCHANGED <<workers, cancelled, run, runCancelled, stream, heartbeat, held,
                   uncorrelated, pending, channel, callVars, netVars>>

\* RenewCertificate is a request over a connection of its own that has no timeout
\* (newHTTPClientWithTLS).  With its answer, or when that connection fails, the
\* new certificate is staged and the session ends to use it, or the session goes
\* on with the old one.
renewCertificateIfDue ==
    /\ main = "renew"
    /\ \/ main' = "pull" /\ UNCHANGED cancelled
       \/ main' = "wait" /\ cancelled' = 1
    /\ UNCHANGED <<workers, runVars, pending, channel, callVars, netVars>>

\* Without an answer, only the end of the session's context makes it return.
renewalCancelled ==
    /\ main = "renew" /\ cancelled = 1
    /\ main' = "pull"
    /\ UNCHANGED <<workers, cancelled, runVars, pending, channel, callVars, netVars>>

\* After 30 seconds without it, or on shutdown.
readinessTimeout ==
    /\ main = "await"
    /\ main' = "wait" /\ cancelled' = 1
    /\ UNCHANGED <<workers, runVars, pending, channel, callVars, netVars>>

\* The first pull has returned: the two workers start.
startWorkers ==
    /\ main = "pulled"
    /\ main' = "wait" /\ workers' = 1
    /\ UNCHANGED <<cancelled, runVars, pending, channel, callVars, netVars>>

streamDone ==
    /\ main = "wait" /\ run = "returned"
    /\ main' = "join" /\ cancelled' = 1
    /\ UNCHANGED <<workers, runVars, pending, channel, callVars, netVars>>

workersWait ==
    /\ main = "join"
    /\ workers = 1 => \A c \in Caller : caller[c].step = "exited"
    /\ main' = "over"
    /\ UNCHANGED <<workers, cancelled, runVars, pending, channel, callVars, netVars>>

\* A signal cancels the daemon's context and the session's with it.
Shutdown ==
    /\ cancelled = 0
    /\ cancelled' = 1
    /\ UNCHANGED <<main, workers, runVars, pending, channel, callVars, netVars>>

-------------------------------------------------------------------------------
(* Client.Run. *)

RunStarts ==
    /\ run = "start"
    /\ stream' = 1 /\ run' = "hello"
    /\ UNCHANGED <<mainVars, runCancelled, heartbeat, held, uncorrelated, ready,
                   pending, channel, callVars, netVars>>

SendHello ==
    /\ run = "hello"
    /\ IF RunContextDone \/ transport = "down"
       THEN run' = "unwind" /\ UNCHANGED up
       ELSE run' = "receive" /\ up' = Append(up, 0)
    /\ UNCHANGED <<mainVars, runCancelled, stream, heartbeat, held, uncorrelated,
                   ready, pending, channel, callVars, transport, server, down>>

\* A message: the answer to a pending request, a welcome, or the end of Run.
Receive ==
    /\ run = "receive" /\ down # <<>>
    /\ down' = Tail(down)
    /\ \/ /\ Head(down) \in pending
          /\ pending' = pending \ {Head(down)}
          /\ held' = Head(down) /\ run' = "deliver"
          /\ UNCHANGED <<ready, heartbeat, uncorrelated>>
       \/ /\ Head(down) = 0
          /\ ready' = 1
          /\ heartbeat' = IF heartbeat = "off" THEN "on" ELSE heartbeat
          /\ UNCHANGED <<pending, held, run, uncorrelated>>
       \/ /\ Head(down) \notin pending \cup {0}
          /\ run' = "unwind" /\ uncorrelated' = 1
          /\ UNCHANGED <<pending, held, ready, heartbeat>>
    /\ UNCHANGED <<mainVars, runCancelled, stream, channel, callVars, transport,
                   server, up>>

ReceiveFails ==
    /\ run = "receive" /\ transport = "down"
    /\ run' = "unwind"
    /\ UNCHANGED <<mainVars, runCancelled, stream, heartbeat, held, uncorrelated,
                   ready, pending, channel, callVars, netVars>>

\* The send into the buffered channel, outside pendingMu.
deliverPending ==
    /\ run = "deliver" /\ channel[held] = "empty"
    /\ channel' = [channel EXCEPT ![held] = "full"]
    /\ held' = 0 /\ run' = "receive"
    /\ UNCHANGED <<mainVars, runCancelled, stream, heartbeat, uncorrelated, ready,
                   pending, callVars, netVars>>

\* The deferred function: cancel, wait for the transport and the heartbeats.
Unwind ==
    /\ run = "unwind"
    /\ runCancelled' = 1 /\ run' = "closing"
    /\ UNCHANGED <<mainVars, stream, heartbeat, held, uncorrelated, ready,
                   pending, channel, callVars, netVars>>

\* context.AfterFunc closes both halves of the stream.
CloseTransport ==
    /\ RunContextDone /\ transport = "up" /\ stream = 1
    /\ transport' = "down"
    /\ UNCHANGED <<mainVars, runVars, pending, channel, callVars, server, up, down>>

\* sendHeartbeats ends with its context or at the first send that fails.
HeartbeatsEnd ==
    /\ heartbeat = "on" /\ (RunContextDone \/ transport = "down")
    /\ heartbeat' = "done"
    /\ UNCHANGED <<mainVars, run, runCancelled, stream, held, uncorrelated, ready,
                   pending, channel, callVars, netVars>>

\* Mutant: the channels are dropped without being closed.
DropPending ==
    /\ run = "closing" /\ transport = "down" /\ heartbeat # "on"
    /\ pending' = {} /\ stream' = 0 /\ run' = "returned"
    /\ UNCHANGED <<mainVars, runCancelled, heartbeat, held, uncorrelated, ready,
                   channel, callVars, netVars>>

\* Under both locks, so that a request either finds no stream or is in the map.
closeStream ==
    /\ run = "closing" /\ transport = "down" /\ heartbeat # "on"
    /\ channel' = [i \in Id |-> IF i \in pending THEN "closed" ELSE channel[i]]
    /\ pending' = {} /\ stream' = 0 /\ run' = "returned"
    /\ UNCHANGED <<mainVars, runCancelled, heartbeat, held, uncorrelated, ready,
                   callVars, netVars>>

-------------------------------------------------------------------------------
(* Requests: PullDesiredPolicy and sendResult, which differ in their message. *)

At(c, step) == caller[c].step = step

Step(c, step) == caller' = [caller EXCEPT ![c].step = step]

\* runAgent makes the first request; then either worker makes one whenever its
\* timer or the outbox says so.
MayRequest(c) ==
    \/ main = "pull" /\ c = "policy"
    \/ workers = 1

\* Mutant: the request is entered in the map only after it was sent.
RegisterNothing(c) ==
    /\ At(c, "idle") /\ MayRequest(c) /\ requests < MaxRequests
    /\ requests' = requests + 1
    /\ channel' = [channel EXCEPT ![requests'] = "empty"]
    /\ caller' = [caller EXCEPT ![c] = [step |-> "send", id |-> requests']]
    /\ UNCHANGED <<mainVars, runVars, pending, netVars>>

registerPending(c) ==
    /\ At(c, "idle") /\ MayRequest(c) /\ requests < MaxRequests
    /\ requests' = requests + 1
    /\ pending' = pending \cup {requests'}
    /\ channel' = [channel EXCEPT ![requests'] = "empty"]
    /\ caller' = [caller EXCEPT ![c] = [step |-> "lookup", id |-> requests']]
    /\ UNCHANGED <<mainVars, runVars, netVars>>

\* send reads client.stream under the lock.
LookUpStream(c) ==
    /\ At(c, "lookup")
    /\ Step(c, IF stream = 0 THEN "unregister" ELSE "send")
    /\ UNCHANGED <<mainVars, runVars, pending, channel, requests, netVars>>

\* It then sends over the stream it read, whatever has become of it.
send(c) ==
    /\ At(c, "send")
    /\ IF cancelled = 1 \/ transport = "down"
       THEN Step(c, "unregister") /\ UNCHANGED up
       ELSE Step(c, "await") /\ up' = Append(up, caller[c].id)
    /\ UNCHANGED <<mainVars, runVars, pending, channel, requests, transport,
                   server, down>>

\* The answer, a closed channel, or the end of the session.
AwaitAnswer(c) ==
    /\ At(c, "await")
    /\ cancelled = 1 \/ channel[caller[c].id] \in {"full", "closed"}
    /\ Step(c, "unregister")
    /\ UNCHANGED <<mainVars, runVars, pending, channel, requests, netVars>>

\* The deferred call, and the return to the loop or to runAgent.
unregisterPending(c) ==
    /\ At(c, "unregister")
    /\ pending' = pending \ {caller[c].id}
    /\ caller' = [caller EXCEPT ![c] = [step |-> "idle", id |-> 0]]
    /\ main' = IF main = "pull" /\ c = "policy" THEN "pulled" ELSE main
    /\ UNCHANGED <<workers, cancelled, runVars, channel, requests, netVars>>

WorkerEnds(c) ==
    /\ workers = 1 /\ At(c, "idle") /\ cancelled = 1
    /\ Step(c, "exited")
    /\ UNCHANGED <<mainVars, runVars, pending, channel, requests, netVars>>

-------------------------------------------------------------------------------
(* The server and the network. *)

\* Stream: the first frame is the hello, answered with the welcome.
Welcome ==
    /\ transport = "up" /\ server = "hello" /\ up # <<>>
    /\ server' = "serving"
    /\ up' = Tail(up) /\ down' = Append(down, 0)
    /\ UNCHANGED <<mainVars, runVars, pending, channel, callVars, transport>>

\* handleAgentMessage answers in order, with the id of the message.
handleAgentMessage ==
    /\ transport = "up" /\ server = "serving" /\ up # <<>>
    /\ up' = Tail(up) /\ down' = Append(down, Head(up))
    /\ UNCHANGED <<mainVars, runVars, pending, channel, callVars, transport, server>>

\* The connection fails or the server ends the stream.  What has arrived may
\* still be received.
Break ==
    /\ transport = "up"
    /\ transport' = "down"
    /\ UNCHANGED <<mainVars, runVars, pending, channel, callVars, server, up, down>>

MainStep == waitForReadiness \/ renewalCancelled \/ startWorkers \/ streamDone \/ workersWait
RunStep ==
    \/ RunStarts \/ SendHello \/ Receive \/ ReceiveFails \/ deliverPending
    \/ Unwind \/ closeStream
CallerReturns(c) ==
    LookUpStream(c) \/ send(c) \/ AwaitAnswer(c) \/ unregisterPending(c) \/ WorkerEnds(c)
Network == Welcome \/ handleAgentMessage \/ Break

\* The session is over: runAgent backs off and starts another one.
Over == main = "over" /\ UNCHANGED vars

Next ==
    \/ MainStep \/ readinessTimeout \/ renewCertificateIfDue \/ Shutdown
    \/ RunStep \/ CloseTransport \/ HeartbeatsEnd
    \/ \E c \in Caller : registerPending(c) \/ CallerReturns(c)
    \/ Network \/ Over

\* Goroutines are scheduled and the readiness timer fires.  Nothing is
\* assumed of the server, which need not answer a renewal either, and nobody
\* has to make a request: but the first pull is made.
Fairness ==
    /\ WF_vars(MainStep) /\ WF_vars(readinessTimeout)
    /\ WF_vars(RunStep) /\ WF_vars(CloseTransport) /\ WF_vars(HeartbeatsEnd)
    /\ WF_vars(main = "pull" /\ registerPending("policy"))
    /\ \A c \in Caller : WF_vars(CallerReturns(c))

Spec == Init /\ [][Next]_vars
FairSpec == Spec /\ Fairness

-------------------------------------------------------------------------------
(* Properties. *)

\* The channels of pending requests are open and empty, so that neither
\* deliverPending nor closeStream can block or panic on one.
TypeOK ==
    /\ main \in {"await", "renew", "pull", "pulled", "wait", "join", "over"}
    /\ run \in {"start", "hello", "receive", "deliver", "unwind", "closing", "returned"}
    /\ {workers, cancelled, ready, runCancelled, stream, uncorrelated} \subseteq 0..1
    /\ heartbeat \in {"off", "on", "done"}
    /\ channel \in [Id -> {"none", "empty", "full", "closed"}]
    /\ \A c \in Caller : caller[c].step \in
          {"idle", "lookup", "send", "await", "unregister", "exited"}
    /\ \A i \in pending : i \in Id /\ channel[i] = "empty"
    /\ run = "deliver" => channel[held] = "empty"

\* Run does not fail with "unexpected uncorrelated server message" while its
\* session is alive: an answer finds its request in the map unless the
\* session's end made the request give up on it.
AnswersFindTheirRequest == uncorrelated = 1 => cancelled = 1

\* A renewal that is neither answered nor cancelled holds up runAgent, which
\* does not look at the stream meanwhile.
RenewalHangs == main = "renew" /\ cancelled = 0

\* When the connection is lost or the session is cancelled, at whatever point
\* its goroutines are, the session comes to an end: Run returns, every request
\* returns, the workers end and runAgent goes on to reconnect.  The one thing
\* that can keep it is a renewal of the certificate that is never answered
\* (runtime.go:80), and that not once the agent is told to stop.
SessionEnds ==
    \/ <>[]RenewalHangs
    \/ (transport = "down" \/ cancelled = 1) ~> (main = "over")

================================================================================
