----------------------------- MODULE DaemonProofs -----------------------------
(*****************************************************************************)
(* Proofs about what the agent's daemon keeps going: its session with the    *)
(* server (AgentStream), the schedule of its actions (Schedule) and its own  *)
(* systemd unit (Units). Each holds by itself, for any constants.            *)
(*                                                                           *)
(* The session first: no id is twice on its way in one direction, and a      *)
(* caller that waits has its request registered, on its way or answered.     *)
(*****************************************************************************)
EXTENDS Daemon, TLAPS

\* A leaf that names no prover is Z3's, within this many seconds.
USE SMTT(30)

Carries(s, x) == \E i \in 1 .. Len(s) : s[i] = x

\* No id is twice on its way in one direction; the hello and the welcome have
\* none.
Distinct(s) == \A i, j \in 1 .. Len(s) : s[i] = s[j] /\ s[i] # 0 => i = j

\* A request that has its id, and one that waits for the answer.
Has(c, i) == caller[c].step \in {"lookup", "send", "await", "unregister"} /\ caller[c].id = i
Awaits(i) == \E c \in Caller : caller[c].step = "await" /\ caller[c].id = i

Steps == {"idle", "lookup", "send", "await", "unregister", "exited"}

StreamTypes ==
    /\ MaxRequests \in Nat /\ requests \in Nat /\ cancelled \in 0 .. 1
    /\ caller \in [Caller -> [step : Steps, id : Nat]]
    /\ channel \in [Id -> {"none", "empty", "full", "closed"}]
    /\ up \in Seq(Nat) /\ down \in Seq(Nat) /\ pending \subseteq Id

\* The ids in use were given out, and no two requests have the same.
IdsInv ==
    /\ \A c \in Caller, i \in Nat : Has(c, i) => i \in 1 .. requests
    /\ \A c, d \in Caller, i \in Nat : Has(c, i) /\ Has(d, i) => c = d
    /\ \A i \in pending : i <= requests /\ channel[i] = "empty"
    /\ \A i \in Nat : Carries(up, i) \/ Carries(down, i) => i <= requests
    /\ run = "deliver" => held \in Id /\ held <= requests /\ held \notin pending
                          /\ channel[held] = "empty"

\* A message with an id is on its way once, and its request is in the map and
\* waits for the answer, while neither the session nor Run has ended.
FlightInv ==
    /\ Distinct(up) /\ Distinct(down)
    /\ \A i \in Nat \ {0} : ~(Carries(up, i) /\ Carries(down, i))
    /\ \A c \in Caller, i \in Nat \ {0} :
           caller[c].step \in {"lookup", "send"} /\ caller[c].id = i =>
               ~Carries(up, i) /\ ~Carries(down, i)
               /\ (i \in pending \/ run = "returned")
    /\ \A i \in Nat \ {0} : Carries(up, i) \/ Carries(down, i) =>
           cancelled = 1 \/ run = "returned" \/ (i \in pending /\ Awaits(i))

StreamInv == StreamTypes /\ IdsInv /\ FlightInv /\ AnswersFindTheirRequest

LEMMA Appended ==
    ASSUME NEW s \in Seq(Nat), NEW y \in Nat PROVE Append(s, y) \in Seq(Nat)
OBVIOUS

-------------------------------------------------------------------------------
(* The messages on their way in one direction. *)

LEMMA Front ==
    ASSUME NEW s \in Seq(Nat), s # <<>>
    PROVE  /\ Tail(s) \in Seq(Nat) /\ Head(s) \in Nat /\ Carries(s, Head(s))
           /\ \A x : Carries(Tail(s), x) => Carries(s, x)
           /\ Distinct(s) => Distinct(Tail(s)) /\ (Head(s) # 0 => ~Carries(Tail(s), Head(s)))
<1>1. /\ Tail(s) \in Seq(Nat) /\ Len(s) \in Nat /\ Len(s) > 0 /\ Len(Tail(s)) = Len(s) - 1
      /\ Head(s) = s[1] /\ s[1] \in Nat
  OBVIOUS
<1>2. \A i \in 1 .. Len(Tail(s)) : i + 1 \in 1 .. Len(s) /\ Tail(s)[i] = s[i + 1]
  BY <1>1
<1>3. Carries(s, Head(s))
  BY <1>1 DEF Carries
<1>4. ASSUME NEW x, Carries(Tail(s), x) PROVE Carries(s, x)
  BY <1>2, <1>4, Zenon DEF Carries
<1>5. ASSUME Distinct(s) PROVE Distinct(Tail(s)) /\ (Head(s) # 0 => ~Carries(Tail(s), Head(s)))
  <2>1. \A i, j \in 1 .. Len(s) : s[i] = s[j] /\ s[i] # 0 => i = j
    BY <1>5, Zenon DEF Distinct
  <2>2. \A i, j \in 1 .. Len(Tail(s)) : Tail(s)[i] = Tail(s)[j] /\ Tail(s)[i] # 0 => i + 1 = j + 1
    BY <1>2, <2>1, Zenon
  <2>3. \A i, j \in 1 .. Len(Tail(s)) : Tail(s)[i] = Tail(s)[j] /\ Tail(s)[i] # 0 => i = j
    BY <1>1, <2>2
  <2>4. \A i \in 1 .. Len(Tail(s)) : Tail(s)[i] = s[1] /\ s[1] # 0 => FALSE
    BY <1>1, <1>2, <2>1
  <2> QED
    BY <1>1, <2>3, <2>4, Zenon DEF Distinct, Carries
<1> QED
  BY <1>1, <1>3, <1>4, <1>5, Zenon

LEMMA Back ==
    ASSUME NEW s \in Seq(Nat), NEW y \in Nat
    PROVE  /\ Append(s, y) \in Seq(Nat)
           /\ \A x : Carries(Append(s, y), x) <=> Carries(s, x) \/ x = y
           /\ Distinct(s) /\ (y = 0 \/ ~Carries(s, y)) => Distinct(Append(s, y))
<1>1. PICK t \in Seq(Nat) : t = Append(s, y)
  BY Zenon, Appended
<1>2. /\ Len(s) \in Nat /\ Len(t) = Len(s) + 1
      /\ \A i \in 1 .. Len(t) : i \in 1 .. Len(s) \/ i = Len(t)
      /\ \A i \in 1 .. Len(s) : i \in 1 .. Len(t)
      /\ \A i \in 1 .. Len(s) : t[i] = s[i]
      /\ t[Len(t)] = y /\ Len(t) \in 1 .. Len(t)
  BY <1>1
<1>3. ASSUME NEW x PROVE Carries(t, x) <=> Carries(s, x) \/ x = y
  BY <1>2, Zenon DEF Carries
<1>4. ASSUME Distinct(s), y = 0 \/ ~Carries(s, y) PROVE Distinct(t)
  <2>1. SUFFICES ASSUME NEW i \in 1 .. Len(t), NEW j \in 1 .. Len(t), t[i] = t[j], t[i] # 0
                 PROVE  i = j
    BY Zenon DEF Distinct
  <2>2. CASE i \in 1 .. Len(s) /\ j \in 1 .. Len(s)
    BY <1>2, <1>4, <2>1, <2>2, Zenon DEF Distinct
  <2>3. CASE i = Len(t) /\ j = Len(t)
    BY <2>3, Zenon
  <2>4. CASE i \in 1 .. Len(s) /\ j = Len(t)
    BY <1>2, <1>4, <2>1, <2>4, Zenon DEF Carries
  <2>5. CASE i = Len(t) /\ j \in 1 .. Len(s)
    BY <1>2, <1>4, <2>1, <2>5, Zenon DEF Carries
  <2> QED
    BY <1>2, <2>2, <2>3, <2>4, <2>5, Zenon
<1> QED
  BY <1>1, <1>3, <1>4, Zenon

-------------------------------------------------------------------------------
LEMMA StreamInit == MaxRequests \in Nat /\ Init => StreamInv
<1> SUFFICES ASSUME MaxRequests \in Nat, Init PROVE StreamInv
  OBVIOUS
<1>1. /\ \A i : ~Carries(up, i) /\ ~Carries(down, i) /\ Distinct(up) /\ Distinct(down)
  BY DEF Init, Carries, Distinct
<1>2. \A c \in Caller : caller[c].step = "idle"
  BY DEF Init
<1>3. \A c \in Caller, i \in Nat : ~Has(c, i)
  BY <1>2 DEF Has
<1>4. StreamTypes
  BY DEF Init, StreamTypes, Steps
<1>5. IdsInv
  BY <1>1, <1>3 DEF Init, IdsInv
<1>6. FlightInv
  BY <1>1, <1>2, Zenon DEF FlightInv
<1>7. AnswersFindTheirRequest
  BY DEF Init, AnswersFindTheirRequest
<1> QED
  BY <1>4, <1>5, <1>6, <1>7, Zenon DEF StreamInv

\* A step that leaves the requests alone, and sends nothing with an id.
LEMMA QuietStep ==
    ASSUME StreamInv,
           UNCHANGED <<pending, channel, caller, requests, held>>,
           cancelled' \in 0 .. 1, cancelled = 1 => cancelled' = 1,
           run = "returned" => run' = "returned", run' = "deliver" => run = "deliver",
           uncorrelated' = 1 => uncorrelated = 1 \/ cancelled = 1,
           up' \in Seq(Nat), down' \in Seq(Nat), Distinct(up'), Distinct(down'),
           \A i \in Nat \ {0} : ~(Carries(up', i) /\ Carries(down', i)),
           \A i \in Nat \ {0} : Carries(up', i) \/ Carries(down', i) =>
                                    Carries(up, i) \/ Carries(down, i)
    PROVE  StreamInv'
<1>1. StreamTypes'
  BY DEF StreamInv, StreamTypes, Id
<1>2. \A c \in Caller, i \in Nat : Has(c, i)' <=> Has(c, i)
  BY Zenon DEF Has
<1>3. \A i \in Nat : Awaits(i)' <=> Awaits(i)
  BY Zenon DEF Awaits
<1>4. IdsInv'
  <2>1. \A i \in Nat : Carries(up', i) \/ Carries(down', i) => i <= requests
    <3>1. \A i \in Nat \ {0} : Carries(up', i) \/ Carries(down', i) => i <= requests
      BY Zenon DEF StreamInv, IdsInv
    <3> QED
      BY <3>1 DEF StreamInv, StreamTypes
  <2>2. \A i \in pending : i <= requests /\ channel[i] = "empty"
    BY Zenon DEF StreamInv, IdsInv
  <2>3. run' = "deliver" => held \in Id /\ held <= requests /\ held \notin pending
                            /\ channel[held] = "empty"
    BY Zenon DEF StreamInv, IdsInv
  <2>4. /\ \A c \in Caller, i \in Nat : Has(c, i) => i \in 1 .. requests
        /\ \A c, d \in Caller, i \in Nat : Has(c, i) /\ Has(d, i) => c = d
    BY Zenon DEF StreamInv, IdsInv
  <2> QED
    BY <1>2, <2>1, <2>2, <2>3, <2>4, Zenon DEF IdsInv, Carries, Id
<1>5. FlightInv'
  <2>1. \A i \in Nat \ {0} : Carries(up', i) \/ Carries(down', i) =>
            cancelled' = 1 \/ run' = "returned" \/ (i \in pending' /\ Awaits(i)')
    BY <1>3, Zenon DEF StreamInv, FlightInv
  <2>2. \A c \in Caller, i \in Nat \ {0} :
            caller'[c].step \in {"lookup", "send"} /\ caller'[c].id = i =>
                ~Carries(up', i) /\ ~Carries(down', i) /\ (i \in pending' \/ run' = "returned")
    BY Zenon DEF StreamInv, FlightInv
  <2> QED
    BY <2>1, <2>2, Zenon DEF FlightInv, Carries, Distinct
<1>6. AnswersFindTheirRequest'
  BY Zenon DEF StreamInv, AnswersFindTheirRequest
<1> QED
  BY <1>1, <1>4, <1>5, <1>6, Zenon DEF StreamInv

\* No message at all.
LEMMA StillStep ==
    ASSUME StreamInv,
           UNCHANGED <<pending, channel, caller, requests, held, up, down, uncorrelated>>,
           cancelled' \in 0 .. 1, cancelled = 1 => cancelled' = 1,
           run = "returned" => run' = "returned", run' = "deliver" => run = "deliver"
    PROVE  StreamInv'
<1>1. /\ up' \in Seq(Nat) /\ down' \in Seq(Nat)
      /\ Distinct(up') /\ Distinct(down')
      /\ \A i \in Nat \ {0} : ~(Carries(up', i) /\ Carries(down', i))
      /\ \A i \in Nat \ {0} : Carries(up', i) \/ Carries(down', i) =>
                                  Carries(up, i) \/ Carries(down, i)
  BY Zenon DEF StreamInv, StreamTypes, FlightInv
<1> QED
  BY <1>1, QuietStep, Zenon

\* runAgent, the ends of Run and of the connection.
LEMMA MainKeeps ==
    ASSUME StreamInv,
           \/ MainStep \/ readinessTimeout \/ renewCertificateIfDue \/ Shutdown
           \/ RunStarts \/ ReceiveFails
           \/ Unwind \/ CloseTransport \/ HeartbeatsEnd \/ Break \/ Over \/ UNCHANGED vars
    PROVE  StreamInv'
<1> USE DEF vars, mainVars, runVars, callVars, netVars
<1>0. cancelled \in 0 .. 1
  BY Zenon DEF StreamInv, StreamTypes
<1>1. CASE MainStep \/ readinessTimeout \/ renewCertificateIfDue \/ Shutdown
  <2>1. /\ UNCHANGED <<pending, channel, caller, requests, held, up, down, uncorrelated, run>>
        /\ cancelled' = cancelled \/ cancelled' = 1
    BY <1>1, Zenon DEF MainStep, waitForReadiness, renewalCancelled, startWorkers, streamDone,
                       workersWait, readinessTimeout, renewCertificateIfDue, Shutdown
  <2>2. cancelled' \in 0 .. 1 /\ (cancelled = 1 => cancelled' = 1)
    BY <1>0, <2>1
  <2> QED
    BY <2>1, <2>2, StillStep, Zenon
<1>2. CASE CloseTransport \/ HeartbeatsEnd \/ Break \/ Over \/ UNCHANGED vars
  <2>1. UNCHANGED <<pending, channel, caller, requests, held, up, down, uncorrelated, run, cancelled>>
    BY <1>2, Zenon DEF CloseTransport, HeartbeatsEnd, Break, Over
  <2> QED
    BY <1>0, <2>1, StillStep, Zenon
<1>3. CASE RunStarts \/ ReceiveFails \/ Unwind
  <2>1. /\ UNCHANGED <<pending, channel, caller, requests, held, up, down, uncorrelated, cancelled>>
        /\ run \in {"start", "receive", "unwind"} /\ run' \in {"hello", "unwind", "closing"}
    BY <1>3, Zenon DEF RunStarts, ReceiveFails, Unwind
  <2>2. run # "returned" /\ run' # "deliver"
    BY <2>1
  <2> QED
    BY <1>0, <2>1, <2>2, StillStep, Zenon
<1> QED
  BY <1>1, <1>2, <1>3, Zenon

\* The hello and the welcome, which have no id.
LEMMA HelloKeeps ==
    ASSUME StreamInv, SendHello \/ Welcome
    PROVE  StreamInv'
<1> USE DEF mainVars, runVars, callVars, netVars
<1>0. /\ cancelled \in 0 .. 1 /\ up \in Seq(Nat) /\ down \in Seq(Nat) /\ 0 \in Nat
      /\ Distinct(up) /\ Distinct(down)
      /\ \A i \in Nat \ {0} : ~(Carries(up, i) /\ Carries(down, i))
  BY DEF StreamInv, StreamTypes, FlightInv
<1>1. CASE SendHello
  <2>1. /\ UNCHANGED <<pending, channel, caller, requests, held, down, uncorrelated, cancelled>>
        /\ run = "hello" /\ run' \in {"unwind", "receive"}
        /\ up' = up \/ up' = Append(up, 0)
    BY <1>1, Zenon DEF SendHello
  <2>2. run # "returned" /\ run' # "deliver"
    BY <2>1
  <2>3. /\ Append(up, 0) \in Seq(Nat) /\ Distinct(Append(up, 0))
        /\ \A i \in Nat \ {0} : Carries(Append(up, 0), i) => Carries(up, i)
    BY <1>0, Back
  <2>4. up' \in Seq(Nat) /\ Distinct(up') /\ \A i \in Nat \ {0} : Carries(up', i) => Carries(up, i)
    BY <1>0, <2>1, <2>3, Zenon
  <2> QED
    BY <1>0, <2>1, <2>2, <2>4, QuietStep, Zenon
<1>2. CASE Welcome
  <2>1. /\ UNCHANGED <<pending, channel, caller, requests, held, uncorrelated, cancelled, run>>
        /\ up # <<>> /\ up' = Tail(up) /\ down' = Append(down, 0)
    BY <1>2, Zenon DEF Welcome
  <2>2. /\ up' \in Seq(Nat) /\ Distinct(up') /\ \A i : Carries(up', i) => Carries(up, i)
    BY <1>0, <2>1, Front, Zenon
  <2>3. /\ down' \in Seq(Nat) /\ Distinct(down')
        /\ \A i \in Nat \ {0} : Carries(down', i) => Carries(down, i)
    BY <1>0, <2>1, Back
  <2> QED
    BY <1>0, <2>1, <2>2, <2>3, QuietStep, Zenon
<1> QED
  BY <1>1, <1>2, Zenon

\* handleAgentMessage answers with the id of the message it took.
LEMMA AnswerKeeps ==
    ASSUME StreamInv, handleAgentMessage
    PROVE  StreamInv'
<1> USE DEF mainVars, runVars, callVars, netVars
<1>0. /\ cancelled \in 0 .. 1 /\ up \in Seq(Nat) /\ down \in Seq(Nat)
      /\ Distinct(up) /\ Distinct(down)
      /\ \A i \in Nat \ {0} : ~(Carries(up, i) /\ Carries(down, i))
  BY DEF StreamInv, StreamTypes, FlightInv
<1>1. /\ UNCHANGED <<pending, channel, caller, requests, held, uncorrelated, cancelled, run>>
      /\ up # <<>> /\ up' = Tail(up) /\ down' = Append(down, Head(up))
  BY Zenon DEF handleAgentMessage
<1>2. /\ up' \in Seq(Nat) /\ Distinct(up') /\ \A i : Carries(up', i) => Carries(up, i)
      /\ Head(up) \in Nat /\ Carries(up, Head(up))
      /\ Head(up) # 0 => ~Carries(up', Head(up))
  BY <1>0, <1>1, Front, Zenon
<1>3. /\ down' \in Seq(Nat)
      /\ \A i : Carries(down', i) <=> Carries(down, i) \/ i = Head(up)
      /\ Head(up) = 0 \/ ~Carries(down, Head(up)) => Distinct(down')
  BY <1>0, <1>1, <1>2, Back, Zenon
<1>4. Head(up) = 0 \/ ~Carries(down, Head(up))
  BY <1>0, <1>2
<1>5. \A i \in Nat \ {0} : ~(Carries(up', i) /\ Carries(down', i))
  BY <1>0, <1>2, <1>3, Zenon
<1>6. \A i \in Nat \ {0} : Carries(up', i) \/ Carries(down', i) => Carries(up, i) \/ Carries(down, i)
  BY <1>2, <1>3, Zenon
<1> QED
  BY <1>0, <1>1, <1>2, <1>3, <1>4, <1>5, <1>6, QuietStep, Zenon

\* A message that Run takes out of the stream.
LEMMA ReceiveKeeps ==
    ASSUME StreamInv, Receive
    PROVE  StreamInv'
<1> USE DEF mainVars, runVars, callVars, netVars
<1>0. /\ cancelled \in 0 .. 1 /\ up \in Seq(Nat) /\ down \in Seq(Nat)
      /\ Distinct(up) /\ Distinct(down)
      /\ \A i \in Nat \ {0} : ~(Carries(up, i) /\ Carries(down, i))
  BY DEF StreamInv, StreamTypes, FlightInv
<1>1. /\ UNCHANGED <<channel, caller, requests, cancelled, up>>
      /\ down # <<>> /\ down' = Tail(down) /\ run = "receive"
  BY Zenon DEF Receive
<1>2. PICK h \in Nat : h = Head(down)
  BY <1>0, <1>1, Front, Zenon
<1>3. /\ down' \in Seq(Nat) /\ Distinct(down') /\ \A i : Carries(down', i) => Carries(down, i)
      /\ Carries(down, h) /\ (h # 0 => ~Carries(down', h))
  BY <1>0, <1>1, <1>2, Front, Zenon
<1>4. \A i \in Nat \ {0} : ~(Carries(up', i) /\ Carries(down', i))
  BY <1>0, <1>1, <1>3, Zenon
<1>5. ASSUME UNCHANGED <<pending, held>>, run' # "deliver",
             uncorrelated' = 1 => uncorrelated = 1 \/ cancelled = 1
      PROVE  StreamInv'
  <2>1. run # "returned"
    BY <1>1
  <2> QED
    BY <1>0, <1>1, <1>3, <1>4, <1>5, <2>1, QuietStep, Zenon
<1>6. CASE h \notin pending \cup {0} /\ run' = "unwind" /\ uncorrelated' = 1 /\ UNCHANGED <<pending, held>>
  <2>1. h \in Nat \ {0} /\ h \notin pending /\ run # "returned" /\ run' # "deliver"
    BY <1>1, <1>6
  <2>2. cancelled = 1
    BY <1>3, <2>1, Zenon DEF StreamInv, FlightInv
  <2> QED
    BY <1>5, <1>6, <2>1, <2>2, Zenon
<1>7. CASE UNCHANGED <<pending, held, run, uncorrelated>>
  <2>1. run' # "deliver"
    BY <1>1, <1>7
  <2> QED
    BY <1>5, <1>7, <2>1, Zenon
<1>8. CASE h \in pending /\ pending' = pending \ {h} /\ held' = h /\ run' = "deliver"
           /\ UNCHANGED uncorrelated
  <2>1. h \in Id /\ h # 0 /\ h <= requests /\ run # "returned" /\ channel[h] = "empty"
    BY <1>1, <1>8 DEF StreamInv, StreamTypes, IdsInv, Id
  <2>2. ~Carries(up', h) /\ ~Carries(down', h)
    BY <1>0, <1>1, <1>3, <2>1, Zenon
  <2>3. StreamTypes'
    BY <1>1, <1>3, <1>8 DEF StreamInv, StreamTypes, Id
  <2>4. IdsInv'
    <3>1. \A c \in Caller, i \in Nat : Has(c, i)' <=> Has(c, i)
      BY <1>1, Zenon DEF Has
    <3>2. \A i \in Nat : Carries(up', i) \/ Carries(down', i) => i <= requests
      BY <1>1, <1>3, Zenon DEF StreamInv, IdsInv
    <3>3. \A i \in pending' : i <= requests /\ channel[i] = "empty"
      BY <1>8, Zenon DEF StreamInv, IdsInv
    <3>4. /\ \A c \in Caller, i \in Nat : Has(c, i) => i \in 1 .. requests
          /\ \A c, d \in Caller, i \in Nat : Has(c, i) /\ Has(d, i) => c = d
      BY Zenon DEF StreamInv, IdsInv
    <3>5. held' \in Id /\ held' <= requests /\ held' \notin pending' /\ channel[held'] = "empty"
      BY <1>8, <2>1, Zenon
    <3> QED
      BY <1>1, <3>1, <3>2, <3>3, <3>4, <3>5, Zenon DEF IdsInv, Carries, Id
  <2>5. FlightInv'
    <3>1. \A i \in Nat : Awaits(i)' <=> Awaits(i)
      BY <1>1, Zenon DEF Awaits
    <3>2. \A i \in Nat \ {0} : (Carries(up', i) \/ Carries(down', i)) /\ i \in pending => i \in pending'
      BY <1>8, <2>2, Zenon
    <3>3. \A i \in Nat \ {0} : Carries(up', i) \/ Carries(down', i) =>
              cancelled' = 1 \/ run' = "returned" \/ (i \in pending' /\ Awaits(i)')
      <4>1. SUFFICES ASSUME NEW i \in Nat \ {0}, Carries(up', i) \/ Carries(down', i), cancelled # 1
                     PROVE  i \in pending' /\ Awaits(i)'
        BY <1>1, Zenon
      <4>2. i \in pending /\ Awaits(i)
        BY <1>1, <1>3, <2>1, <4>1, Zenon DEF StreamInv, FlightInv
      <4> QED
        BY <3>1, <3>2, <4>1, <4>2, Zenon
    <3>4. ASSUME NEW c \in Caller, NEW i \in Nat \ {0},
                 caller[c].step \in {"lookup", "send"}, caller[c].id = i
          PROVE  ~Carries(up', i) /\ ~Carries(down', i) /\ i \in pending'
      <4>1. ~Carries(up, i) /\ ~Carries(down, i) /\ i \in pending
        BY <2>1, <3>4, Zenon DEF StreamInv, FlightInv
      <4> QED
        BY <1>1, <1>3, <1>8, <4>1, Zenon
    <3>5. \A c \in Caller, i \in Nat \ {0} :
              caller'[c].step \in {"lookup", "send"} /\ caller'[c].id = i =>
                  ~Carries(up', i) /\ ~Carries(down', i) /\ (i \in pending' \/ run' = "returned")
      BY <1>1, <3>4, Zenon
    <3>6. Distinct(up')
      BY <1>0, <1>1, Zenon
    <3> QED
      BY <1>3, <1>4, <3>3, <3>5, <3>6, Zenon DEF FlightInv, Carries, Distinct
  <2>6. AnswersFindTheirRequest'
    BY <1>1, <1>8, Zenon DEF StreamInv, AnswersFindTheirRequest
  <2> QED
    BY <2>3, <2>4, <2>5, <2>6, Zenon DEF StreamInv
<1> QED
  BY <1>2, <1>6, <1>7, <1>8, Zenon DEF Receive

\* The answer is put into the channel, or all channels are closed.
LEMMA ChannelKeeps ==
    ASSUME StreamInv, deliverPending \/ closeStream
    PROVE  StreamInv'
<1> USE DEF mainVars, runVars, callVars, netVars
<1>0. UNCHANGED <<caller, requests, cancelled, up, down, uncorrelated>>
  BY Zenon DEF deliverPending, closeStream
<1>1. \A c \in Caller, i \in Nat : Has(c, i)' <=> Has(c, i)
  BY <1>0, Zenon DEF Has
<1>2. \A i \in Nat : Awaits(i)' <=> Awaits(i)
  BY <1>0, Zenon DEF Awaits
<1>3. /\ \A c \in Caller, i \in Nat : Has(c, i) => i \in 1 .. requests
      /\ \A c, d \in Caller, i \in Nat : Has(c, i) /\ Has(d, i) => c = d
      /\ \A i \in Nat : Carries(up, i) \/ Carries(down, i) => i <= requests
  BY Zenon DEF StreamInv, IdsInv
<1>4. AnswersFindTheirRequest'
  BY <1>0, Zenon DEF StreamInv, AnswersFindTheirRequest
<1>5. CASE deliverPending
  <2>1. /\ channel' = [channel EXCEPT ![held] = "full"] /\ pending' = pending
        /\ run' = "receive" /\ run # "returned" /\ held \notin pending
        /\ held \in Id
    BY <1>5 DEF deliverPending, StreamInv, IdsInv
  <2>2. StreamTypes'
    <3>0. channel \in [Id -> {"none", "empty", "full", "closed"}]
      BY Zenon DEF StreamInv, StreamTypes
    <3>1. channel' \in [Id -> {"none", "empty", "full", "closed"}]
      BY <2>1, <3>0
    <3> QED
      BY <1>0, <2>1, <3>1, Zenon DEF StreamInv, StreamTypes, Id
  <2>3. \A i \in pending : i <= requests /\ channel'[i] = "empty"
    <3>1. channel \in [Id -> {"none", "empty", "full", "closed"}] /\ pending \subseteq Id
      BY Zenon DEF StreamInv, StreamTypes
    <3>2. \A i \in pending : i <= requests /\ channel[i] = "empty"
      BY Zenon DEF StreamInv, IdsInv
    <3> QED
      BY <2>1, <3>1, <3>2
  <2>4. run' # "deliver"
    BY <2>1
  <2>5. IdsInv'
    BY <1>0, <1>1, <1>3, <2>1, <2>3, <2>4, Zenon DEF IdsInv, Carries
  <2>6. FlightInv'
    <3>1. \A i \in Nat \ {0} : Carries(up, i) \/ Carries(down, i) =>
              cancelled = 1 \/ (i \in pending' /\ Awaits(i)')
      BY <1>2, <2>1, Zenon DEF StreamInv, FlightInv
    <3>2. \A c \in Caller, i \in Nat \ {0} :
              caller[c].step \in {"lookup", "send"} /\ caller[c].id = i =>
                  ~Carries(up, i) /\ ~Carries(down, i) /\ i \in pending'
      BY <2>1, Zenon DEF StreamInv, FlightInv
    <3>3. /\ Distinct(up) /\ Distinct(down)
          /\ \A i \in Nat \ {0} : ~(Carries(up, i) /\ Carries(down, i))
      BY Zenon DEF StreamInv, FlightInv
    <3> QED
      BY <1>0, <3>1, <3>2, <3>3, Zenon DEF FlightInv, Carries, Distinct
  <2> QED
    BY <1>4, <2>2, <2>5, <2>6, Zenon DEF StreamInv
<1>6. CASE closeStream
  <2>1. /\ channel' = [i \in Id |-> IF i \in pending THEN "closed" ELSE channel[i]]
        /\ pending' = {} /\ run' = "returned"
    BY <1>6, Zenon DEF closeStream
  <2>2. StreamTypes'
    BY <1>0, <2>1 DEF StreamInv, StreamTypes, Id
  <2>3. run' # "deliver" /\ \A i \in pending' : FALSE
    BY <2>1
  <2>4. IdsInv'
    BY <1>0, <1>1, <1>3, <2>3, Zenon DEF IdsInv, Carries
  <2>5. FlightInv'
    BY <1>0, <2>1, Zenon DEF StreamInv, FlightInv, Carries, Distinct
  <2> QED
    BY <1>4, <2>2, <2>4, <2>5, Zenon DEF StreamInv
<1> QED
  BY <1>5, <1>6, Zenon

-------------------------------------------------------------------------------
(* The requests. *)

\* registerPending gives the request an id that nobody has.
LEMMA RegisterKeeps ==
    ASSUME StreamInv, NEW c \in Caller, registerPending(c)
    PROVE  StreamInv'
<1> USE DEF mainVars, runVars, callVars, netVars
<1>1. PICK n \in Nat \ {0} : n = requests + 1
  BY DEF StreamInv, StreamTypes
<1>2. /\ UNCHANGED <<cancelled, run, held, uncorrelated, up, down>>
      /\ requests' = n /\ n \in Id /\ pending' = pending \cup {n}
      /\ channel' = [channel EXCEPT ![n] = "empty"]
      /\ caller' = [caller EXCEPT ![c] = [step |-> "lookup", id |-> n]]
      /\ caller[c].step = "idle"
  BY <1>1 DEF registerPending, At, Id, StreamInv, StreamTypes
<1>3. /\ caller'[c] = [step |-> "lookup", id |-> n]
      /\ \A d \in Caller : d # c => caller'[d] = caller[d]
      /\ channel'[n] = "empty" /\ \A i \in Id : i # n => channel'[i] = channel[i]
  BY <1>2 DEF StreamInv, StreamTypes
<1>4. StreamTypes'
  <2>1. [step |-> "lookup", id |-> n] \in [step : Steps, id : Nat]
    BY <1>1 DEF Steps
  <2> QED
    BY <1>2, <2>1 DEF StreamInv, StreamTypes, Id
<1>5. ~Carries(up, n) /\ ~Carries(down, n) /\ n \notin pending /\ \A d \in Caller : ~Has(d, n)
  BY <1>1 DEF StreamInv, StreamTypes, IdsInv
<1>6. \A i \in Nat : i <= requests => i <= n
  BY <1>1 DEF StreamInv, StreamTypes
<1>7. \A i \in Nat : Has(c, i)' => i = n
  BY <1>3 DEF Has
<1>8. \A d \in Caller, i \in Nat : d # c => (Has(d, i)' <=> Has(d, i))
  BY <1>3, Zenon DEF Has
<1>9. IdsInv'
  <2>1. \A d \in Caller, i \in Nat : Has(d, i)' => i \in 1 .. n
    <3>1. \A d \in Caller, i \in Nat : Has(d, i) => i \in 1 .. n
      BY <1>1 DEF StreamInv, StreamTypes, IdsInv
    <3>2. n \in 1 .. n
      BY <1>1
    <3> QED
      BY <1>7, <1>8, <3>1, <3>2, Zenon
  <2>2. \A d, e \in Caller, i \in Nat : Has(d, i)' /\ Has(e, i)' => d = e
    <3>1. SUFFICES ASSUME NEW d \in Caller, NEW e \in Caller, NEW i \in Nat, Has(d, i)', Has(e, i)',
                          d # e
                   PROVE  FALSE
      BY Zenon
    <3>2. CASE d # c /\ e # c
      BY <1>8, <3>1, <3>2, Zenon DEF StreamInv, IdsInv
    <3>3. CASE d = c \/ e = c
      BY <1>5, <1>7, <1>8, <3>1, <3>3, Zenon
    <3> QED
      BY <3>2, <3>3, Zenon
  <2>3. \A i \in pending' : i <= n /\ channel'[i] = "empty"
    <3>1. SUFFICES ASSUME NEW i \in pending' PROVE i <= n /\ channel'[i] = "empty"
      BY Zenon
    <3>2. CASE i = n
      BY <1>1, <1>3, <3>2
    <3>3. CASE i # n
      <4>1. i \in pending /\ i \in Id /\ i \in Nat
        BY <1>2, <3>1, <3>3 DEF StreamInv, StreamTypes, Id
      <4>2. i <= requests /\ channel[i] = "empty"
        BY <4>1, Zenon DEF StreamInv, IdsInv
      <4> QED
        BY <1>3, <1>6, <3>3, <4>1, <4>2, Zenon
    <3> QED
      BY <3>2, <3>3, Zenon
  <2>4. \A i \in Nat : Carries(up, i) \/ Carries(down, i) => i <= n
    BY <1>6, Zenon DEF StreamInv, IdsInv
  <2>5. run = "deliver" => held \in Id /\ held <= n /\ held \notin pending'
                           /\ channel'[held] = "empty"
    <3>1. SUFFICES ASSUME run = "deliver"
                   PROVE  held \in Id /\ held <= n /\ held \notin pending' /\ channel'[held] = "empty"
      BY Zenon
    <3>2. /\ held \in Id /\ held <= requests /\ held \notin pending /\ channel[held] = "empty"
      BY <3>1, Zenon DEF StreamInv, IdsInv
    <3>3. held \in Nat /\ held # n /\ held <= n
      BY <1>1, <3>2 DEF StreamInv, StreamTypes, Id
    <3> QED
      BY <1>2, <1>3, <3>2, <3>3, Zenon
  <2> QED
    BY <1>2, <2>1, <2>2, <2>3, <2>4, <2>5, Zenon DEF IdsInv, Carries, Id
<1>10. FlightInv'
  <2>1. ASSUME NEW d \in Caller, NEW i \in Nat \ {0},
               caller'[d].step \in {"lookup", "send"}, caller'[d].id = i
        PROVE  ~Carries(up, i) /\ ~Carries(down, i) /\ (i \in pending' \/ run = "returned")
    <3>1. CASE d = c
      <4>1. i = n
        BY <1>3, <2>1, <3>1
      <4> QED
        BY <1>2, <1>5, <4>1, Zenon
    <3>2. CASE d # c
      <4>1. caller[d].step \in {"lookup", "send"} /\ caller[d].id = i
        BY <1>3, <2>1, <3>2, Zenon
      <4>2. ~Carries(up, i) /\ ~Carries(down, i) /\ (i \in pending \/ run = "returned")
        BY <4>1, Zenon DEF StreamInv, FlightInv
      <4> QED
        BY <1>2, <4>2, Zenon
    <3> QED
      BY <3>1, <3>2, Zenon
  <2>2. \A i \in Nat : Awaits(i) => Awaits(i)'
    <3>1. SUFFICES ASSUME NEW i \in Nat, Awaits(i) PROVE Awaits(i)'
      BY Zenon
    <3>2. PICK d \in Caller : caller[d].step = "await" /\ caller[d].id = i
      BY <3>1, Zenon DEF Awaits
    <3>3. d # c
      BY <1>2, <3>2
    <3> QED
      BY <1>3, <3>2, <3>3, Zenon DEF Awaits
  <2>3. \A i \in Nat \ {0} : Carries(up, i) \/ Carries(down, i) =>
            cancelled = 1 \/ run = "returned" \/ (i \in pending' /\ Awaits(i)')
    BY <1>2, <2>2, Zenon DEF StreamInv, FlightInv
  <2>4. /\ Distinct(up) /\ Distinct(down)
        /\ \A i \in Nat \ {0} : ~(Carries(up, i) /\ Carries(down, i))
    BY Zenon DEF StreamInv, FlightInv
  <2> QED
    BY <1>2, <2>1, <2>3, <2>4, Zenon DEF FlightInv, Carries, Distinct
<1>11. AnswersFindTheirRequest'
  BY <1>2, Zenon DEF StreamInv, AnswersFindTheirRequest
<1> QED
  BY <1>4, <1>9, <1>10, <1>11, Zenon DEF StreamInv

\* A request goes a step further: which of the ids it has stays as it is, or it
\* has none any more.
LEMMA CallerFacts ==
    ASSUME StreamInv, NEW c \in Caller, NEW next \in Steps,
           caller' = [caller EXCEPT ![c].step = next],
           next = "exited" \/ caller[c].step \in {"lookup", "send", "await"}
    PROVE  /\ caller' \in [Caller -> [step : Steps, id : Nat]]
           /\ caller'[c].step = next /\ caller'[c].id = caller[c].id
           /\ \A d \in Caller : d # c => caller'[d] = caller[d]
           /\ \A d \in Caller, i \in Nat : Has(d, i)' => Has(d, i)
<1>1. caller \in [Caller -> [step : Steps, id : Nat]]
  BY Zenon DEF StreamInv, StreamTypes
<1>2. /\ caller' \in [Caller -> [step : Steps, id : Nat]]
      /\ caller'[c].step = next /\ caller'[c].id = caller[c].id
      /\ \A d \in Caller : d # c => caller'[d] = caller[d]
  BY <1>1
<1>3. ASSUME NEW d \in Caller, NEW i \in Nat, Has(d, i)' PROVE Has(d, i)
  <2>1. CASE d = c
    BY <1>2, <1>3, <2>1 DEF Has
  <2>2. CASE d # c
    BY <1>2, <1>3, <2>2, Zenon DEF Has
  <2> QED
    BY <2>1, <2>2, Zenon
<1> QED
  BY <1>2, <1>3, Zenon

\* It is enough to show of such a step what it means for the messages.
LEMMA CallerStep ==
    ASSUME StreamInv,
           UNCHANGED <<channel, requests, run, held, cancelled, uncorrelated, down>>,
           pending' \subseteq pending,
           caller' \in [Caller -> [step : Steps, id : Nat]],
           \A d \in Caller, i \in Nat : Has(d, i)' => Has(d, i),
           up' \in Seq(Nat), \A i \in Nat : Carries(up', i) => i <= requests,
           FlightInv'
    PROVE  StreamInv'
<1>1. StreamTypes'
  BY Zenon DEF StreamInv, StreamTypes, Id
<1>2. IdsInv'
  <2>1. /\ \A c \in Caller, i \in Nat : Has(c, i)' => i \in 1 .. requests
        /\ \A c, d \in Caller, i \in Nat : Has(c, i)' /\ Has(d, i)' => c = d
    BY Zenon DEF StreamInv, IdsInv
  <2>2. \A i \in pending' : i <= requests /\ channel[i] = "empty"
    BY Zenon DEF StreamInv, IdsInv
  <2>3. \A i \in Nat : Carries(up', i) \/ Carries(down, i) => i <= requests
    BY Zenon DEF StreamInv, IdsInv
  <2>4. run = "deliver" => held \in Id /\ held <= requests /\ held \notin pending'
                           /\ channel[held] = "empty"
    BY Zenon DEF StreamInv, IdsInv
  <2> QED
    BY <2>1, <2>2, <2>3, <2>4, Zenon DEF IdsInv, Carries, Id
<1>3. AnswersFindTheirRequest'
  BY Zenon DEF StreamInv, AnswersFindTheirRequest
<1> QED
  BY <1>1, <1>2, <1>3, Zenon DEF StreamInv

\* Without a message, the request must not be one whose answer is on its way.
LEMMA FlightStays ==
    ASSUME StreamInv, NEW c \in Caller, NEW i0 \in Nat, UNCHANGED <<run, cancelled, up, down>>,
           caller[c].id = i0,
           caller'[c].step \in {"lookup", "send"} =>
               caller[c].step \in {"lookup", "send"} /\ caller'[c].id = i0,
           \A d \in Caller : d # c => caller'[d] = caller[d],
           \A i \in pending : i \in pending' \/ i = i0,
           caller'[c].step \in {"lookup", "send"} => pending' = pending,
           \A d \in Caller, i \in Nat \ {0} :
               d # c /\ caller[d].step \in {"lookup", "send"} /\ caller[d].id = i => i # i0,
           \/ cancelled = 1 \/ run = "returned"
           \/ i0 = 0
           \/ ~Carries(up, i0) /\ ~Carries(down, i0)
    PROVE  FlightInv'
<1>1. /\ Distinct(up) /\ Distinct(down)
      /\ \A i \in Nat \ {0} : ~(Carries(up, i) /\ Carries(down, i))
  BY Zenon DEF StreamInv, FlightInv
<1>2. ASSUME NEW d \in Caller, NEW i \in Nat \ {0},
             caller'[d].step \in {"lookup", "send"}, caller'[d].id = i
      PROVE  ~Carries(up, i) /\ ~Carries(down, i) /\ (i \in pending' \/ run = "returned")
  <2>1. caller[d].step \in {"lookup", "send"} /\ caller[d].id = i
    BY <1>2, Zenon
  <2>2. ~Carries(up, i) /\ ~Carries(down, i) /\ (i \in pending \/ run = "returned")
    BY <2>1, Zenon DEF StreamInv, FlightInv
  <2>3. i \in pending => i \in pending'
    BY <1>2, <2>1, Zenon
  <2> QED
    BY <2>2, <2>3, Zenon
<1>3. ASSUME NEW i \in Nat \ {0}, Carries(up, i) \/ Carries(down, i), cancelled # 1, run # "returned"
      PROVE  i \in pending' /\ Awaits(i)'
  <2>1. i \in pending /\ Awaits(i) /\ i # i0
    BY <1>3 DEF StreamInv, FlightInv
  <2>2. PICK d \in Caller : caller[d].step = "await" /\ caller[d].id = i
    BY <2>1, Zenon DEF Awaits
  <2>3. caller'[d] = caller[d]
    BY <2>1, <2>2, Zenon
  <2> QED
    BY <2>1, <2>2, <2>3, Zenon DEF Awaits
<1> QED
  BY <1>1, <1>2, <1>3, ZenonT(30) DEF FlightInv, Carries, Distinct

LEMMA RequestKeeps ==
    ASSUME StreamInv, NEW c \in Caller,
           LookUpStream(c) \/ AwaitAnswer(c) \/ WorkerEnds(c) \/ unregisterPending(c)
    PROVE  StreamInv'
<1> USE DEF mainVars, runVars, callVars, netVars
<1>1. PICK i0 \in Nat : i0 = caller[c].id
  BY DEF StreamInv, StreamTypes
<1>2. /\ UNCHANGED <<channel, requests, run, held, cancelled, uncorrelated, up, down>>
      /\ up' \in Seq(Nat) /\ \A i \in Nat : Carries(up', i) => i <= requests
  <2>1. UNCHANGED <<channel, requests, run, held, cancelled, uncorrelated, up, down>>
    BY Zenon DEF LookUpStream, AwaitAnswer, WorkerEnds, unregisterPending
  <2> QED
    BY <2>1, Zenon DEF StreamInv, StreamTypes, IdsInv
<1>3. \A d \in Caller, i \in Nat \ {0} :
          d # c /\ caller[d].step \in {"lookup", "send"} /\ caller[d].id = i /\ Has(c, i0)
              => i # i0
  <2>1. \A d \in Caller, i \in Nat : Has(c, i) /\ Has(d, i) => c = d
    BY Zenon DEF StreamInv, IdsInv
  <2>2. \A d \in Caller : caller[d].step \in {"lookup", "send"} =>
            caller[d].step \in {"lookup", "send", "await", "unregister"}
    BY Zenon
  <2> QED
    BY <1>1, <2>1, <2>2, Zenon DEF Has
<1>4. CASE LookUpStream(c)
  <2>1. PICK next \in {"unregister", "send"} :
           Step(c, next) /\ caller[c].step = "lookup" /\ UNCHANGED pending
    BY <1>4 DEF LookUpStream, At
  <2>2. /\ next \in Steps /\ caller' = [caller EXCEPT ![c].step = next]
        /\ caller[c].step \in {"lookup", "send", "await"}
    BY <2>1, Zenon DEF Steps, Step
  <2>3. /\ caller' \in [Caller -> [step : Steps, id : Nat]]
        /\ caller'[c].step = next /\ caller'[c].id = caller[c].id
        /\ \A d \in Caller : d # c => caller'[d] = caller[d]
        /\ \A d \in Caller, i \in Nat : Has(d, i)' => Has(d, i)
    BY <2>2, CallerFacts, Zenon
  <2>4. i0 = 0 \/ (~Carries(up, i0) /\ ~Carries(down, i0))
    <3>1. SUFFICES ASSUME i0 \in Nat \ {0} PROVE ~Carries(up, i0) /\ ~Carries(down, i0)
      BY Zenon
    <3>2. caller[c].step \in {"lookup", "send"} /\ caller[c].id = i0
      BY <1>1, <2>1, Zenon
    <3> QED
      BY <3>1, <3>2, Zenon DEF StreamInv, FlightInv
  <2>5. \A d \in Caller, i \in Nat \ {0} :
            d # c /\ caller[d].step \in {"lookup", "send"} /\ caller[d].id = i => i # i0
    BY <1>1, <1>3, <2>1 DEF Has
  <2>6. /\ caller[c].step \in {"lookup", "send"}
        /\ \A i \in pending : i \in pending'
    BY <2>1
  <2>7. FlightInv'
    BY <1>1, <1>2, <2>1, <2>3, <2>4, <2>5, <2>6, FlightStays, Zenon
  <2> QED
    BY <1>2, <2>3, <2>6, <2>7, <2>1, CallerStep, Zenon
<1>5. CASE AwaitAnswer(c)
  <2>1. /\ Step(c, "unregister") /\ caller[c].step = "await" /\ UNCHANGED pending
        /\ cancelled = 1 \/ channel[i0] \in {"full", "closed"}
    BY <1>1, <1>5, Zenon DEF AwaitAnswer, At
  <2>2. /\ "unregister" \in Steps /\ caller' = [caller EXCEPT ![c].step = "unregister"]
        /\ caller[c].step \in {"lookup", "send", "await"}
    BY <2>1, Zenon DEF Steps, Step
  <2>3. /\ caller' \in [Caller -> [step : Steps, id : Nat]]
        /\ caller'[c].step = "unregister" /\ caller'[c].id = caller[c].id
        /\ \A d \in Caller : d # c => caller'[d] = caller[d]
        /\ \A d \in Caller, i \in Nat : Has(d, i)' => Has(d, i)
    BY <2>2, CallerFacts, Zenon
  <2>4. cancelled = 1 \/ i0 \notin pending
    BY <2>1 DEF StreamInv, IdsInv
  <2>5. \/ cancelled = 1 \/ run = "returned" \/ i0 = 0
        \/ ~Carries(up, i0) /\ ~Carries(down, i0)
    BY <2>4 DEF StreamInv, FlightInv
  <2>6. \A d \in Caller, i \in Nat \ {0} :
            d # c /\ caller[d].step \in {"lookup", "send"} /\ caller[d].id = i => i # i0
    BY <1>1, <1>3, <2>1 DEF Has
  <2>7. caller'[c].step \notin {"lookup", "send"}
    BY <2>3
  <2>8. FlightInv'
    BY <1>1, <1>2, <2>1, <2>3, <2>5, <2>6, <2>7, FlightStays, Zenon
  <2> QED
    BY <1>2, <2>1, <2>3, <2>8, CallerStep, Zenon
<1>6. CASE WorkerEnds(c)
  <2>1. /\ Step(c, "exited") /\ caller[c].step = "idle" /\ UNCHANGED pending /\ cancelled = 1
    BY <1>6, Zenon DEF WorkerEnds, At
  <2>2. "exited" \in Steps /\ caller' = [caller EXCEPT ![c].step = "exited"]
    BY <2>1, Zenon DEF Steps, Step
  <2>3. /\ caller' \in [Caller -> [step : Steps, id : Nat]]
        /\ caller'[c].step = "exited" /\ caller'[c].id = caller[c].id
        /\ \A d \in Caller : d # c => caller'[d] = caller[d]
        /\ \A d \in Caller, i \in Nat : Has(d, i)' => Has(d, i)
    BY <2>2, CallerFacts, Zenon
  <2>4. FlightInv'
    <3>1. \A d \in Caller : caller'[d].step \in {"lookup", "send"} => caller'[d] = caller[d]
      BY <2>3
    <3>2. /\ Distinct(up) /\ Distinct(down)
          /\ \A i \in Nat \ {0} : ~(Carries(up, i) /\ Carries(down, i))
          /\ \A d \in Caller, i \in Nat \ {0} :
                 caller[d].step \in {"lookup", "send"} /\ caller[d].id = i =>
                     ~Carries(up, i) /\ ~Carries(down, i) /\ (i \in pending \/ run = "returned")
      BY Zenon DEF StreamInv, FlightInv
    <3>3. \A d \in Caller, i \in Nat \ {0} :
              caller'[d].step \in {"lookup", "send"} /\ caller'[d].id = i =>
                  ~Carries(up, i) /\ ~Carries(down, i) /\ (i \in pending \/ run = "returned")
      BY <3>1, <3>2, Zenon
    <3> QED
      BY <1>2, <2>1, <3>2, <3>3, ZenonT(30) DEF FlightInv, Carries, Distinct
  <2> QED
    BY <1>2, <2>1, <2>3, <2>4, CallerStep, Zenon
<1>7. CASE unregisterPending(c)
  <2>1. /\ caller[c].step = "unregister" /\ pending' = pending \ {i0}
        /\ caller' = [caller EXCEPT ![c] = [step |-> "idle", id |-> 0]]
    BY <1>1, <1>7, Zenon DEF unregisterPending, At
  <2>2. /\ caller' \in [Caller -> [step : Steps, id : Nat]]
        /\ caller'[c].step = "idle"
        /\ \A d \in Caller : d # c => caller'[d] = caller[d]
    <3>1. [step |-> "idle", id |-> 0] \in [step : Steps, id : Nat]
      BY DEF Steps
    <3> QED
      BY <2>1, <3>1 DEF StreamInv, StreamTypes
  <2>3. \A d \in Caller, i \in Nat : Has(d, i)' => Has(d, i)
    <3>1. \A i \in Nat : ~Has(c, i)'
      BY <2>2 DEF Has
    <3>2. \A d \in Caller, i \in Nat : d # c => (Has(d, i)' => Has(d, i))
      BY <2>2, Zenon DEF Has
    <3> QED
      BY <3>1, <3>2, Zenon
  <2>4. \/ cancelled = 1 \/ run = "returned" \/ i0 = 0
        \/ ~Carries(up, i0) /\ ~Carries(down, i0)
    <3>1. SUFFICES ASSUME cancelled # 1, run # "returned", i0 # 0, Carries(up, i0) \/ Carries(down, i0)
                   PROVE  FALSE
      BY Zenon
    <3>2. i0 \in Nat \ {0}
      BY <3>1
    <3>3. Awaits(i0)
      BY <3>1, <3>2, Zenon DEF StreamInv, FlightInv
    <3>4. PICK d \in Caller : caller[d].step = "await" /\ caller[d].id = i0
      BY <3>3, Zenon DEF Awaits
    <3>5. Has(d, i0) /\ Has(c, i0) /\ c # d
      BY <1>1, <2>1, <3>4 DEF Has
    <3> QED
      BY <3>5, Zenon DEF StreamInv, IdsInv
  <2>5. \A d \in Caller, i \in Nat \ {0} :
            d # c /\ caller[d].step \in {"lookup", "send"} /\ caller[d].id = i => i # i0
    BY <1>1, <1>3, <2>1 DEF Has
  <2>6. /\ caller'[c].step \notin {"lookup", "send"} /\ pending' \subseteq pending
        /\ \A i \in pending : i \in pending' \/ i = i0
    BY <2>1, <2>2
  <2>7. FlightInv'
    BY <1>1, <1>2, <2>2, <2>4, <2>5, <2>6, FlightStays, Zenon
  <2> QED
    BY <1>2, <2>2, <2>3, <2>6, <2>7, CallerStep, Zenon
<1> QED
  BY <1>4, <1>5, <1>6, <1>7, Zenon

\* send: the message of a request that is in the map, or no message.
LEMMA SendKeeps ==
    ASSUME StreamInv, NEW c \in Caller, send(c)
    PROVE  StreamInv'
<1> USE DEF mainVars, runVars, callVars, netVars
<1>1. PICK i0 \in Nat : i0 = caller[c].id
  BY DEF StreamInv, StreamTypes
<1>2. /\ UNCHANGED <<pending, channel, requests, run, held, cancelled, uncorrelated, down>>
      /\ caller[c].step = "send"
      /\ \/ Step(c, "unregister") /\ up' = up
         \/ Step(c, "await") /\ up' = Append(up, i0)
  BY <1>1, Zenon DEF send, At
<1>3. Has(c, i0) /\ i0 \in 1 .. requests /\ i0 \in Nat \ {0} /\ i0 <= requests
  <2>1. Has(c, i0)
    BY <1>1, <1>2, Zenon DEF Has
  <2>2. i0 \in 1 .. requests /\ requests \in Nat
    BY <2>1, Zenon DEF StreamInv, StreamTypes, IdsInv
  <2> QED
    BY <2>1, <2>2
<1>4. ~Carries(up, i0) /\ ~Carries(down, i0) /\ (i0 \in pending \/ run = "returned")
  <2>1. caller[c].step \in {"lookup", "send"}
    BY <1>2, Zenon
  <2> QED
    BY <1>1, <1>3, <2>1, Zenon DEF StreamInv, FlightInv
<1>5. PICK next \in {"unregister", "await"} :
         /\ caller' = [caller EXCEPT ![c].step = next]
         /\ up' = IF next = "await" THEN Append(up, i0) ELSE up
  BY <1>2 DEF Step
<1>6. next \in Steps /\ caller[c].step \in {"lookup", "send", "await"}
  BY <1>2, <1>5, Zenon DEF Steps
<1>7. /\ caller' \in [Caller -> [step : Steps, id : Nat]]
      /\ caller'[c].step = next /\ caller'[c].id = caller[c].id
      /\ \A d \in Caller : d # c => caller'[d] = caller[d]
      /\ \A d \in Caller, i \in Nat : Has(d, i)' => Has(d, i)
  BY <1>5, <1>6, CallerFacts, Zenon
<1>8. \A d \in Caller, i \in Nat \ {0} :
          d # c /\ caller[d].step \in {"lookup", "send"} /\ caller[d].id = i => i # i0
  <2>1. \A d \in Caller, i \in Nat : Has(c, i) /\ Has(d, i) => c = d
    BY Zenon DEF StreamInv, IdsInv
  <2>2. \A d \in Caller : caller[d].step \in {"lookup", "send"} =>
            caller[d].step \in {"lookup", "send", "await", "unregister"}
    BY Zenon
  <2> QED
    BY <1>3, <2>1, <2>2, Zenon DEF Has
<1>9. up \in Seq(Nat) /\ Distinct(up) /\ \A i \in Nat : Carries(up, i) => i <= requests
  BY Zenon DEF StreamInv, StreamTypes, IdsInv, FlightInv
<1>10. CASE next = "unregister"
  <2>1. up' = up /\ caller'[c].step \notin {"lookup", "send"}
    BY <1>5, <1>7, <1>10
  <2>2. FlightInv'
    BY <1>1, <1>2, <1>4, <1>7, <1>8, <2>1, FlightStays, Zenon
  <2> QED
    BY <1>2, <1>7, <1>9, <2>1, <2>2, CallerStep, Zenon
<1>11. CASE next = "await"
  <2>1. /\ up' = Append(up, i0) /\ caller'[c].step \notin {"lookup", "send"}
        /\ caller'[c].step = "await" /\ caller'[c].id = i0
    BY <1>1, <1>5, <1>7, <1>11
  <2>2. /\ up' \in Seq(Nat) /\ Distinct(up')
        /\ \A i : Carries(up', i) <=> Carries(up, i) \/ i = i0
    BY <1>4, <1>9, <2>1, Back, ZenonT(30)
  <2>3. \A i \in Nat : Carries(up', i) => i <= requests
    BY <1>3, <1>9, <2>2, Zenon
  <2>4. Awaits(i0)'
    BY <2>1, Zenon DEF Awaits
  <2>5. Distinct(down) /\ \A i \in Nat \ {0} : ~(Carries(up', i) /\ Carries(down, i))
    BY <1>4, <2>2, Zenon DEF StreamInv, FlightInv
  <2>6. ASSUME NEW d \in Caller, NEW i \in Nat \ {0},
               caller'[d].step \in {"lookup", "send"}, caller'[d].id = i
        PROVE  ~Carries(up', i) /\ ~Carries(down, i) /\ (i \in pending \/ run = "returned")
    <3>1. d # c
      BY <2>1, <2>6, Zenon
    <3>2. caller[d].step \in {"lookup", "send"} /\ caller[d].id = i /\ i # i0
      BY <1>7, <1>8, <2>6, <3>1, Zenon
    <3>3. ~Carries(up, i) /\ ~Carries(down, i) /\ (i \in pending \/ run = "returned")
      BY <3>2, Zenon DEF StreamInv, FlightInv
    <3> QED
      BY <2>2, <3>2, <3>3, Zenon
  <2>7. ASSUME NEW i \in Nat \ {0}, Carries(up', i) \/ Carries(down, i), cancelled # 1, run # "returned"
        PROVE  i \in pending /\ Awaits(i)'
    <3>1. CASE i = i0
      BY <1>4, <2>4, <2>7, <3>1, Zenon
    <3>2. CASE i # i0
      <4>1. i \in pending /\ Awaits(i)
        BY <2>2, <2>7, <3>2, Zenon DEF StreamInv, FlightInv
      <4>2. PICK d \in Caller : caller[d].step = "await" /\ caller[d].id = i
        BY <4>1, Zenon DEF Awaits
      <4>3. caller'[d] = caller[d]
        BY <1>1, <1>7, <3>2, <4>2, Zenon
      <4> QED
        BY <4>1, <4>2, <4>3, Zenon DEF Awaits
    <3> QED
      BY <3>1, <3>2, Zenon
  <2>8. FlightInv'
    BY <1>2, <2>2, <2>5, <2>6, <2>7, Zenon DEF FlightInv, Carries, Distinct
  <2> QED
    BY <1>2, <1>7, <2>2, <2>3, <2>8, CallerStep, Zenon
<1> QED
  BY <1>5, <1>10, <1>11, Zenon

LEMMA StreamStep == StreamInv /\ [Next]_vars => StreamInv'
<1> SUFFICES ASSUME StreamInv, [Next]_vars PROVE StreamInv'
  OBVIOUS
<1>1. ASSUME NEW c \in Caller, registerPending(c) \/ CallerReturns(c) PROVE StreamInv'
  BY <1>1, RegisterKeeps, RequestKeeps, SendKeeps, Zenon DEF CallerReturns
<1>2. ASSUME RunStep \/ Network PROVE StreamInv'
  BY <1>2, MainKeeps, HelloKeeps, ReceiveKeeps, ChannelKeeps, AnswerKeeps, Zenon DEF
     RunStep, Network
<1> QED
  BY <1>1, <1>2, MainKeeps, Zenon DEF Next

\* No request's channel was closed or filled before its answer is put into it or
\* closeStream closes it.
PendingIsOpen ==
    /\ \A i \in pending : channel[i] = "empty"
    /\ run = "deliver" => channel[held] = "empty"

\* deliverPending never blocks on a full channel and never sends on a closed one,
\* and closeStream closes no channel twice (client.go): either would take the
\* agent down, or leave Run waiting outside of its select.
THEOREM PendingIsAlwaysOpen == Spec => []PendingIsOpen
<1>1. Init => StreamInv
  BY StreamInit, MaxRequestsAssumption, Zenon
<1>2. StreamInv => PendingIsOpen
  BY Zenon DEF StreamInv, IdsInv, PendingIsOpen
<1> QED
  BY <1>1, <1>2, StreamStep, PTL DEF Spec

\* However many requests a session makes, and wherever it is interrupted: Run
\* never fails with a message nobody awaits while the session is alive
\* (client.go, registerPending before send, unregisterPending after the answer).
THEOREM AnswersAlwaysFindTheirRequest == Spec => []AnswersFindTheirRequest
<1>1. Init => StreamInv
  BY StreamInit, MaxRequestsAssumption, Zenon
<1>2. StreamInv => AnswersFindTheirRequest
  BY Zenon DEF StreamInv
<1> QED
  BY <1>1, <1>2, StreamStep, PTL DEF Spec

-------------------------------------------------------------------------------
(*****************************************************************************)
(* The schedule, for any intervals and any settings of the clock. The        *)
(* inductive invariant remembers what the readings of a run's begin say of   *)
(* the clock as long as nobody sets it.                                      *)
(*****************************************************************************)

\* What the constants are taken to be (ScheduleAssumption).
ScheduleConstants ==
    /\ defaultInterval \in Nat \ {0} /\ Hours \subseteq Nat
    /\ MaxTime \in Nat /\ MaxClock \in Nat

\* While the clock was not set since a reading, it shows what was read and the
\* time that has passed since.
Advanced(r) ==
    /\ r.time <= time
    /\ r.steady => clock = r.clock + (time - r.time)

\* The inductive invariant: a run that began with readings of a steady clock
\* is due again exactly an interval after the scheduler's reading, and at most
\* an interval after the transaction's.
IntervalInv ==
    /\ ScheduleConstants /\ schedule!TypeOK
    /\ \A r \in started : Advanced(r)
    /\ \A b \in begun :
          /\ \A r \in b.now : /\ Advanced(r)
                              /\ r.steady => work.next_execute_at <= r.clock + schedule!interval(work.hours)
          /\ \A r \in b.read : /\ Advanced(r)
                               /\ r.steady => work.next_execute_at = r.clock + schedule!interval(work.hours)

-------------------------------------------------------------------------------
\* interval: a schedule without an interval gets the default one.
LEMMA IntervalIsPositive ==
    ASSUME ScheduleConstants, NEW h \in Hours PROVE schedule!interval(h) \in Nat \ {0}
BY DEF ScheduleConstants, schedule!interval

\* calculateNextExecuteFromSchedule: after a run, the earlier of the two ends
\* of an interval, the one since the last run and the one since now.
LEMMA NextExecute ==
    ASSUME ScheduleConstants, NEW h \in Hours, NEW last \in Nat, NEW now \in Nat
    PROVE  LET next == schedule!calculateNextExecuteFromSchedule(h, {last}, now)
           IN  /\ next \in Nat
               /\ next <= now + schedule!interval(h)
               /\ last <= now => next = last + schedule!interval(h)
<1>1. (CHOOSE t \in {last} : TRUE) = last
  OBVIOUS
<1>2. {last} # {}
  OBVIOUS
<1>3. schedule!calculateNextExecuteFromSchedule(h, {last}, now) =
          schedule!clampInterval(last + schedule!interval(h), now, schedule!interval(h))
  BY <1>1, <1>2 DEF schedule!calculateNextExecuteFromSchedule
<1> QED
  BY <1>3, IntervalIsPositive DEF schedule!clampInterval

\* A setting of the clock leaves no reading steady (SetClock).
LEMMA UnsteadyReadings ==
    ASSUME NEW R \in SUBSET schedule!Readings
    PROVE  /\ schedule!Unsteady(R) \in SUBSET schedule!Readings
           /\ \A r \in schedule!Unsteady(R) : ~r.steady /\ \E q \in R : r.time = q.time
BY Zenon DEF schedule!Unsteady, schedule!Readings

\* What the clock may be set to (SetClock).
LEMMA ClockReadings ==
    ASSUME NEW m \in Nat, NEW c \in 0 .. m
    PROVE  c \in Nat
OBVIOUS

LEMMA InitEstablishes ==
    ASSUME ScheduleConstants, schedule!Init
    PROVE  IntervalInv
<1>1. PICK hours \in Hours :
          work = [hours |-> hours, running |-> FALSE,
                  next_execute_at |-> schedule!calculateNextExecuteFromSchedule(hours, {}, clock)]
  BY Zenon DEF schedule!Init
<1>2. schedule!calculateNextExecuteFromSchedule(hours, {}, clock) = clock
  BY DEF schedule!calculateNextExecuteFromSchedule
<1>3. clock \in 0 .. MaxClock
  BY Zenon DEF schedule!Init
<1>4. clock \in Nat
  BY <1>3, ClockReadings, Zenon DEF ScheduleConstants
<1> QED
  BY <1>1, <1>2, <1>4, Zenon DEF schedule!Init, IntervalInv, schedule!TypeOK

-------------------------------------------------------------------------------
LEMMA StepPreserves == IntervalInv /\ [schedule!Next]_schedule!vars => IntervalInv'
<1> SUFFICES ASSUME IntervalInv, [schedule!Next]_schedule!vars PROVE IntervalInv'
  OBVIOUS
<1> USE DEF IntervalInv
<1>0. ScheduleConstants'
  BY Zenon DEF ScheduleConstants
<1>1. CASE schedule!GetDueScheduledWork
  BY <1>0, <1>1 DEF schedule!GetDueScheduledWork, schedule!TypeOK, Advanced
<1>2. CASE schedule!executeAction
  <2>1. started' = {schedule!Reading(clock, time)} /\ schedule!Reading(clock, time) \in schedule!Readings
    BY <1>2 DEF schedule!executeAction, schedule!Reading, schedule!Readings, schedule!TypeOK
  <2>2. Advanced(schedule!Reading(clock, time))'
    BY <1>2 DEF schedule!executeAction, schedule!Reading, Advanced, schedule!TypeOK
  <2> QED
    BY <1>0, <1>2, <2>1, <2>2 DEF schedule!executeAction, schedule!TypeOK, Advanced
<1>3. CASE schedule!RecordActionResult
  <2>1. /\ work' \in [hours : Hours, running : BOOLEAN, next_execute_at : Nat]
        /\ work'.hours = work.hours /\ work'.next_execute_at = work.next_execute_at
    BY <1>3, Zenon DEF schedule!RecordActionResult, schedule!TypeOK
  <2> QED
    BY <1>0, <1>3, <2>1 DEF schedule!RecordActionResult, schedule!TypeOK, Advanced
<1>4. CASE schedule!Tick
  <2>1. /\ time' = time + 1 /\ clock' = clock + 1
        /\ UNCHANGED <<work, listed, started, begun>>
    BY <1>4 DEF schedule!Tick
  <2>2. ASSUME NEW r \in schedule!Readings, Advanced(r) PROVE Advanced(r)'
    BY <2>1, <2>2 DEF Advanced, schedule!Readings, schedule!TypeOK
  <2>3. schedule!TypeOK'
    BY <2>1 DEF schedule!TypeOK
  <2> QED
    BY <1>0, <2>1, <2>2, <2>3 DEF schedule!TypeOK
<1>5. ASSUME NEW s \in started, schedule!BeginActionRun(s) PROVE IntervalInv'
  <2>1. CASE ~schedule!Due
    BY <1>0, <1>5, <2>1, Zenon DEF schedule!BeginActionRun, schedule!TypeOK, Advanced
  <2>2. CASE schedule!Due
    <3> DEFINE next == schedule!calculateNextExecuteFromSchedule(work.hours, {s.clock}, clock)
               now == schedule!Reading(clock, time)
    <3>1. /\ work' = [work EXCEPT !.running = TRUE, !.next_execute_at = next]
          /\ UNCHANGED <<time, clock>>
      BY <1>5, <2>2 DEF schedule!BeginActionRun
    <3>2. /\ begun' = {[read |-> {s}, now |-> {now}]}
          /\ started' = {} /\ listed' = FALSE
          /\ UNCHANGED <<time, clock>>
      BY <1>5, <2>2 DEF schedule!BeginActionRun
    <3>3. s \in schedule!Readings /\ now \in schedule!Readings /\ work.hours \in Hours
      BY DEF schedule!TypeOK, schedule!Reading, schedule!Readings
    <3>4. /\ next \in Nat
          /\ next <= clock + schedule!interval(work.hours)
          /\ s.clock <= clock => next = s.clock + schedule!interval(work.hours)
      <4>1. s.clock \in Nat /\ clock \in Nat
        BY <3>3 DEF schedule!Readings, schedule!TypeOK
      <4> QED
        BY <3>3, <4>1, NextExecute
    <3> HIDE DEF next
    <3>5. /\ work'.hours = work.hours /\ work'.next_execute_at = next
          /\ work' \in [hours : Hours, running : BOOLEAN, next_execute_at : Nat]
      BY <3>1, <3>4, Zenon DEF schedule!TypeOK
    <3>6. schedule!TypeOK'
      <4>1. {s} \in SUBSET schedule!Readings /\ {now} \in SUBSET schedule!Readings
        BY <3>3
      <4>2. [read |-> {s}, now |-> {now}] \in [read : SUBSET schedule!Readings, now : SUBSET schedule!Readings]
        BY <4>1
      <4>3. begun' \in SUBSET [read : SUBSET schedule!Readings, now : SUBSET schedule!Readings]
        BY <3>2, <4>2
      <4> QED
        BY <3>5, <3>2, <4>3, Zenon DEF schedule!TypeOK
    <3>7. s.steady => s.clock <= clock
      BY <3>3 DEF Advanced, schedule!Readings, schedule!TypeOK
    <3> QED
      BY <1>0, <3>3, <3>4, <3>5, <3>6, <3>7, <3>2 DEF Advanced, schedule!Reading,
         schedule!TypeOK
  <2> QED
    BY <2>1, <2>2
<1>6. ASSUME NEW hours \in Hours, schedule!ReconcilePolicy(hours) PROVE IntervalInv'
  <2>1. work' \in [hours : Hours, running : BOOLEAN, next_execute_at : Nat]
    BY <1>6, Zenon DEF schedule!ReconcilePolicy, schedule!TypeOK
  <2> QED
    BY <1>0, <1>6, <2>1 DEF schedule!ReconcilePolicy, schedule!TypeOK, Advanced
<1>7. ASSUME NEW c \in 0 .. MaxClock, schedule!SetClock(c) PROVE IntervalInv'
  <2>1. /\ clock' = c /\ c \in Nat
        /\ started' = schedule!Unsteady(started)
        /\ begun' = {[read |-> schedule!Unsteady(b.read), now |-> schedule!Unsteady(b.now)] : b \in begun}
        /\ UNCHANGED <<time, work, listed>>
    BY <1>7 DEF ScheduleConstants, schedule!SetClock
  <2>2. ASSUME NEW R \in SUBSET schedule!Readings, \A q \in R : Advanced(q)
        PROVE  /\ schedule!Unsteady(R) \in SUBSET schedule!Readings
               /\ \A r \in schedule!Unsteady(R) : ~r.steady /\ Advanced(r)'
    <3>1. ASSUME NEW r \in schedule!Unsteady(R) PROVE ~r.steady /\ Advanced(r)'
      <4>1. ~r.steady /\ \E q \in R : r.time = q.time
        BY UnsteadyReadings
      <4> QED
        BY <2>1, <2>2, <4>1 DEF Advanced
    <3> QED
      BY <3>1, UnsteadyReadings
  <2>3. ASSUME NEW b \in begun'
        PROVE  /\ b \in [read : SUBSET schedule!Readings, now : SUBSET schedule!Readings]
               /\ \A r \in b.now : ~r.steady /\ Advanced(r)'
               /\ \A r \in b.read : ~r.steady /\ Advanced(r)'
    <3>1. PICK a \in begun : b = [read |-> schedule!Unsteady(a.read), now |-> schedule!Unsteady(a.now)]
      BY <2>1
    <3>2. a.read \in SUBSET schedule!Readings /\ a.now \in SUBSET schedule!Readings
      BY DEF schedule!TypeOK
    <3>3. b.read = schedule!Unsteady(a.read) /\ b.now = schedule!Unsteady(a.now)
      BY <3>1
    <3>4. schedule!Unsteady(a.read) \in SUBSET schedule!Readings
          /\ schedule!Unsteady(a.now) \in SUBSET schedule!Readings
      BY <3>2, UnsteadyReadings, Zenon
    <3>5. b \in [read : SUBSET schedule!Readings, now : SUBSET schedule!Readings]
      BY <3>1, <3>4, Zenon
    <3>6. (\A q \in a.read : Advanced(q)) /\ (\A q \in a.now : Advanced(q))
      BY Zenon
    <3> QED
      BY <2>2, <3>2, <3>3, <3>5, <3>6, Zenon
  <2>4. /\ started' \in SUBSET schedule!Readings
        /\ \A r \in started' : ~r.steady /\ Advanced(r)'
    BY <2>1, <2>2 DEF schedule!TypeOK
  <2>5. schedule!TypeOK'
    BY <2>1, <2>3, <2>4 DEF schedule!TypeOK
  <2> QED
    BY <1>0, <2>3, <2>4, <2>5
<1>8. CASE UNCHANGED schedule!vars
  BY <1>0, <1>8 DEF schedule!vars, schedule!TypeOK, Advanced
<1> QED
  BY <1>1, <1>2, <1>3, <1>4, <1>5, <1>6, <1>7, <1>8 DEF schedule!Next

\* The invariant implies the property: the arithmetic of the two readings.
LEMMA InvariantSuffices == IntervalInv => schedule!DueOncePerInterval
<1> SUFFICES ASSUME IntervalInv, NEW b \in begun
             PROVE  /\ \A r \in b.now : r.steady /\ time - r.time >= schedule!interval(work.hours) =>
                           work.next_execute_at <= clock
                    /\ \A r \in b.read : r.steady /\ work.next_execute_at <= clock =>
                           time - r.time >= schedule!interval(work.hours)
  BY DEF schedule!DueOncePerInterval
<1>1. /\ schedule!interval(work.hours) \in Nat /\ time \in Nat /\ clock \in Nat
      /\ work.next_execute_at \in Nat
  BY IntervalIsPositive DEF IntervalInv, schedule!TypeOK
<1>2. b.now \in SUBSET schedule!Readings /\ b.read \in SUBSET schedule!Readings
  BY DEF IntervalInv, schedule!TypeOK
<1>3. ASSUME NEW r \in b.now, r.steady, time - r.time >= schedule!interval(work.hours)
      PROVE  work.next_execute_at <= clock
  BY <1>1, <1>2, <1>3 DEF IntervalInv, Advanced, schedule!Readings
<1>4. ASSUME NEW r \in b.read, r.steady, work.next_execute_at <= clock
      PROVE  time - r.time >= schedule!interval(work.hours)
  BY <1>1, <1>2, <1>4 DEF IntervalInv, Advanced, schedule!Readings
<1> QED
  BY <1>3, <1>4

\* With any schedules and any settings of the clock, an action is due again an
\* interval after its run began unless the clock was set since, and not before
\* (calculateNextExecuteFromSchedule, clampInterval).
THEOREM ActionIsDueOncePerInterval ==
    schedule!Spec => []DueOncePerInterval
<1>1. schedule!Init => IntervalInv
  BY InitEstablishes, ScheduleAssumption DEF ScheduleConstants
<1>2. IntervalInv /\ [schedule!Next]_schedule!vars => IntervalInv'
  BY StepPreserves
<1>3. IntervalInv => DueOncePerInterval
  BY InvariantSuffices DEF DueOncePerInterval
<1> QED
  BY <1>1, <1>2, <1>3, PTL DEF schedule!Spec

-------------------------------------------------------------------------------
(*****************************************************************************)
(* The systemd unit: syncs of any number of processes, each from reading the *)
(* unit to the reload of systemd, killed and disturbed anywhere. The         *)
(* inductive invariant says what an undisturbed sync has seen of the file    *)
(* and of what systemd has loaded, by the step it is at.                     *)
(*****************************************************************************)

UnitParams == [template : Nat, binary : Binary \cup {"none"}, dir : Dir \cup {BadDir, "none"}]

UnitRuns == [params : UnitParams, create : BOOLEAN,
             result : {"none", "done", "error", "killed"}]

UnitLabel == {"idle", "read", "check", "write", "reload"}

UnitTypes ==
    /\ template \in Nat /\ file \in UnitParams /\ loaded \in UnitParams
    /\ pc \in [units!Process -> UnitLabel] /\ unitRun \in [units!Process -> UnitRuns]
    /\ undisturbed \subseteq units!Process

\* An undisturbed sync that has read or written the file is right about it, and
\* is counted as undisturbed only from its reading on.
SyncInv(p) ==
    /\ pc[p] = "read" => p \notin undisturbed
    /\ pc[p] # "idle" => unitRun[p].result = "none"
    /\ p \in undisturbed /\ pc[p] \in {"check", "reload"} => file = unitRun[p].params
    /\ p \in undisturbed /\ unitRun[p].result = "done" /\ file # units!NoUnit =>
           file = unitRun[p].params /\ loaded = file

UnitsInv == UnitTypes /\ \A p \in units!Process : SyncInv(p)

\* A step of one sync: what it does to the file and to systemd disturbs or
\* agrees with the other.
LEMMA OneSync ==
    ASSUME UnitsInv, NEW p \in units!Process, NEW label \in UnitLabel, NEW r \in UnitRuns,
           pc' = [pc EXCEPT ![p] = label], unitRun' = [unitRun EXCEPT ![p] = r],
           template' \in Nat, file' \in UnitParams, loaded' \in UnitParams,
           undisturbed' \subseteq units!Process, loaded' \in {loaded, file'},
           \A q \in undisturbed' \ {p} : q \in undisturbed /\ file' = file,
           SyncInv(p)'
    PROVE  UnitsInv'
<1>1. UnitTypes'
  BY DEF UnitsInv, UnitTypes
<1>2. ASSUME NEW q \in units!Process PROVE SyncInv(q)'
  <2>1. CASE q = p
    BY <2>1, Zenon
  <2>2. CASE q # p
    <3>1. pc'[q] = pc[q] /\ unitRun'[q] = unitRun[q]
      BY <2>2 DEF UnitsInv, UnitTypes
    <3>2. q \in undisturbed' => q \in undisturbed /\ file' = file
      BY <2>2, Zenon
    <3>3. /\ pc[q] = "read" => q \notin undisturbed
          /\ pc[q] # "idle" => unitRun[q].result = "none"
          /\ q \in undisturbed /\ pc[q] \in {"check", "reload"} => file = unitRun[q].params
          /\ q \in undisturbed /\ unitRun[q].result = "done" /\ file # units!NoUnit =>
                 file = unitRun[q].params /\ loaded = file
      BY Zenon DEF UnitsInv, SyncInv
    <3>4. /\ pc'[q] = "read" => q \notin undisturbed'
          /\ pc'[q] # "idle" => unitRun'[q].result = "none"
          /\ q \in undisturbed' /\ pc'[q] \in {"check", "reload"} => file' = unitRun'[q].params
          /\ q \in undisturbed' /\ unitRun'[q].result = "done" /\ file' # units!NoUnit =>
                 file' = unitRun'[q].params /\ loaded' = file'
      BY <3>1, <3>2, <3>3
    <3> QED
      BY <3>4, Zenon DEF SyncInv, units!NoUnit
  <2> QED
    BY <2>1, <2>2, Zenon
<1> QED
  BY <1>1, <1>2, Zenon DEF UnitsInv

\* A sync goes on.
LEMMA SyncGoes ==
    ASSUME UnitsInv, NEW p \in units!Process, NEW label \in {"check", "write", "reload"},
           units!Goto(p, label), pc[p] # "idle", UNCHANGED template,
           file' \in UnitParams, loaded' \in UnitParams, loaded' \in {loaded, file'},
           undisturbed' \subseteq units!Process,
           \A q \in undisturbed' \ {p} : q \in undisturbed /\ file' = file,
           p \in undisturbed' /\ label # "write" => file' = unitRun[p].params
    PROVE  UnitsInv'
<1>1. /\ pc' = [pc EXCEPT ![p] = label] /\ unitRun' = unitRun /\ label \in UnitLabel
      /\ pc'[p] = label /\ template' \in Nat
  BY DEF units!Goto, UnitsInv, UnitTypes, UnitLabel
<1>2. unitRun' = [unitRun EXCEPT ![p] = unitRun[p]] /\ unitRun[p] \in UnitRuns
  BY <1>1 DEF UnitsInv, UnitTypes
<1>3. unitRun[p].result = "none"
  BY Zenon DEF UnitsInv, SyncInv
<1>4. SyncInv(p)'
  BY <1>1, <1>3 DEF SyncInv
<1> QED
  BY <1>1, <1>2, <1>4, OneSync, Zenon

\* A sync ends.
LEMMA SyncReturns ==
    ASSUME UnitsInv, NEW p \in units!Process, NEW result \in {"done", "error", "killed"},
           units!Return(p, result), UNCHANGED template,
           file' \in UnitParams, loaded' \in UnitParams, loaded' \in {loaded, file'},
           undisturbed' \subseteq units!Process,
           \A q \in undisturbed' \ {p} : q \in undisturbed /\ file' = file,
           p \in undisturbed' /\ result = "done" /\ file' # units!NoUnit =>
               file' = unitRun[p].params /\ loaded' = file'
    PROVE  UnitsInv'
<1>1. PICK old \in UnitRuns : old = unitRun[p]
  BY DEF UnitsInv, UnitTypes
<1>2. PICK r : r = [old EXCEPT !.result = result]
  BY Zenon
<1>3. r \in UnitRuns /\ r.result = result /\ r.params = old.params
  BY <1>2 DEF UnitRuns
<1>4. /\ pc' = [pc EXCEPT ![p] = "idle"] /\ "idle" \in UnitLabel
      /\ unitRun' = [unitRun EXCEPT ![p] = r] /\ template' \in Nat
      /\ pc'[p] = "idle" /\ unitRun'[p] = r
  BY <1>1, <1>2 DEF units!Return, UnitsInv, UnitTypes, UnitLabel
<1>5. SyncInv(p)'
  <2>1. file' # units!NoUnit <=> file' # units!NoUnit'
    BY Zenon DEF units!NoUnit
  <2> QED
    BY <1>1, <1>3, <1>4, <2>1 DEF SyncInv
<1> QED
  BY <1>3, <1>4, <1>5, OneSync, Zenon


LEMMA UnitsInit == units!Init => UnitsInv
<1> SUFFICES ASSUME units!Init PROVE UnitsInv
  OBVIOUS
<1>1. file \in UnitParams /\ units!NoRun \in UnitRuns
  BY DEF units!Init, units!Unit, units!NoUnit, units!NoRun, UnitParams, UnitRuns
<1>2. UnitTypes
  BY <1>1 DEF units!Init, UnitTypes, UnitLabel
<1>3. ASSUME NEW p \in units!Process PROVE SyncInv(p)
  <2>1. pc[p] = "idle" /\ undisturbed = {}
    BY Zenon DEF units!Init
  <2> QED
    BY <2>1, Zenon DEF SyncInv
<1> QED
  BY <1>2, <1>3, Zenon DEF UnitsInv

LEMMA SyncReadKeeps ==
    ASSUME UnitsInv, NEW p \in units!Process, units!syncRead(p)
    PROVE  UnitsInv'
<1>1. /\ pc[p] = "read" /\ UNCHANGED <<template, file, loaded>>
      /\ file' \in UnitParams /\ loaded' \in UnitParams /\ loaded' \in {loaded, file'}
  BY Zenon DEF units!syncRead, UnitsInv, UnitTypes
<1>2. undisturbed' = undisturbed \/ undisturbed' = undisturbed \cup {p}
  BY Zenon DEF units!syncRead
<1>3. /\ undisturbed' \subseteq units!Process
      /\ \A q \in undisturbed' \ {p} : q \in undisturbed /\ file' = file
  BY <1>1, <1>2 DEF UnitsInv, UnitTypes
<1>4. CASE units!Return(p, "error")
  BY <1>1, <1>3, <1>4, SyncReturns
<1>5. CASE units!Return(p, "done") /\ file = units!NoUnit
  <2>1. file' = units!NoUnit'
    BY <1>1, <1>5, Zenon DEF units!NoUnit
  <2> QED
    BY <1>1, <1>3, <1>5, <2>1, SyncReturns
<1>6. ASSUME NEW label \in {"check", "write"}, units!Goto(p, label),
             label = "check" => file = unitRun[p].params
      PROVE  UnitsInv'
  <2>1. label \in {"check", "write", "reload"} /\ (label # "write" => file' = unitRun[p].params)
    BY <1>1, <1>6
  <2> QED
    BY <1>1, <1>3, <1>6, <2>1, SyncGoes
<1>7. \/ units!Return(p, "error")
      \/ units!Return(p, "done") /\ file = units!NoUnit
      \/ units!Goto(p, IF file = unitRun[p].params THEN "check" ELSE "write")
  BY Zenon DEF units!syncRead, units!Render
<1>8. CASE units!Goto(p, IF file = unitRun[p].params THEN "check" ELSE "write")
  BY <1>6, <1>8
<1> QED
  BY <1>4, <1>5, <1>7, <1>8, Zenon

LEMMA SyncCheckKeeps ==
    ASSUME UnitsInv, NEW p \in units!Process, units!syncCheck(p)
    PROVE  UnitsInv'
<1>1. pc[p] = "check" /\ UNCHANGED <<template, file>> /\ file \in UnitParams
  BY DEF units!syncCheck, UnitsInv, UnitTypes
<1>2. p \in undisturbed => file = unitRun[p].params
  BY <1>1, Zenon DEF UnitsInv, SyncInv
<1>3. PICK stale \in BOOLEAN, ok \in BOOLEAN :
         /\ units!NeedsReload(stale, ok)
         /\ IF stale THEN units!Goto(p, "reload") ELSE units!Return(p, "done")
         /\ undisturbed' = IF ok THEN undisturbed ELSE undisturbed \ {p}
  BY Zenon DEF units!syncCheck
<1>4. undisturbed' \subseteq undisturbed /\ undisturbed \subseteq units!Process
  BY <1>3, Zenon DEF UnitsInv, UnitTypes
<1>5. /\ loaded' \in UnitParams /\ loaded' \in {loaded, file'}
      /\ p \in undisturbed' /\ ~stale => loaded' = file
  BY <1>1, <1>3 DEF units!NeedsReload, UnitsInv, UnitTypes
<1>6. undisturbed' \subseteq units!Process /\ \A q \in undisturbed' \ {p} : q \in undisturbed /\ file' = file
  BY <1>1, <1>4, Zenon
<1>7. CASE stale
  BY <1>1, <1>2, <1>3, <1>4, <1>5, <1>6, <1>7, SyncGoes, Zenon
<1>8. CASE ~stale
  BY <1>1, <1>2, <1>3, <1>4, <1>5, <1>6, <1>8, SyncReturns, Zenon
<1> QED
  BY <1>7, <1>8, Zenon

LEMMA SyncWriteKeeps ==
    ASSUME UnitsInv, NEW p \in units!Process, units!syncWrite(p)
    PROVE  UnitsInv'
<1>1. /\ pc[p] = "write" /\ UNCHANGED <<template, loaded>>
      /\ loaded \in UnitParams /\ file \in UnitParams /\ unitRun[p].params \in UnitParams
  BY DEF units!syncWrite, UnitsInv, UnitTypes, UnitRuns
<1>2. PICK ok \in BOOLEAN :
         /\ units!WriteUnit(unitRun[p].params, ok)
         /\ IF ok THEN units!Goto(p, "reload") ELSE units!Return(p, "error")
  BY Zenon DEF units!syncWrite, units!Render
<1>3. file' \in {file, unitRun[p].params} /\ (ok => file' = unitRun[p].params)
  BY <1>2, Zenon DEF units!WriteUnit
<1>4. /\ undisturbed' \subseteq units!Process
      /\ \A q \in undisturbed' \ {p} : q \in undisturbed /\ file' = file
  BY DEF units!syncWrite, UnitsInv, UnitTypes
<1>5. file' \in UnitParams /\ loaded' \in UnitParams /\ loaded' \in {loaded, file'}
  BY <1>1, <1>3, ZenonT(30)
<1>6. CASE ok
  BY <1>1, <1>2, <1>3, <1>4, <1>5, <1>6, SyncGoes, Zenon
<1>7. CASE ~ok
  BY <1>1, <1>2, <1>4, <1>5, <1>7, SyncReturns
<1> QED
  BY <1>6, <1>7, Zenon

LEMMA SyncReloadKeeps ==
    ASSUME UnitsInv, NEW p \in units!Process, units!syncReload(p) \/ units!Kill(p)
    PROVE  UnitsInv'
<1>1. /\ UNCHANGED <<template, file, undisturbed>> /\ file' \in UnitParams
      /\ undisturbed' \subseteq units!Process
      /\ \A q \in undisturbed' \ {p} : q \in undisturbed /\ file' = file
  BY Zenon DEF units!syncReload, units!Kill, UnitsInv, UnitTypes
<1>2. CASE units!syncReload(p)
  <2>1. pc[p] = "reload" /\ (p \in undisturbed => file = unitRun[p].params)
    BY <1>2 DEF units!syncReload, UnitsInv, SyncInv
  <2>2. PICK ok \in BOOLEAN : units!DaemonReload(ok) /\ units!Return(p, IF ok THEN "done" ELSE "error")
    BY <1>2, Zenon DEF units!syncReload
  <2>3. loaded' \in UnitParams /\ loaded' \in {loaded, file'} /\ (ok => loaded' = file)
    BY <1>1, <2>2 DEF units!DaemonReload, UnitsInv, UnitTypes
  <2>4. PICK result \in {"done", "error"} : units!Return(p, result) /\ (result = "done" => ok)
    BY <2>2
  <2>5. result \in {"done", "error", "killed"}
    BY <2>4, Zenon
  <2> QED
    BY <1>1, <2>1, <2>3, <2>4, <2>5, SyncReturns, Zenon
<1>3. CASE units!Kill(p)
  <2>1. units!Return(p, "killed") /\ UNCHANGED loaded /\ loaded' \in UnitParams
    BY <1>3 DEF units!Kill, UnitsInv, UnitTypes
  <2> QED
    BY <1>1, <2>1, SyncReturns
<1> QED
  BY <1>2, <1>3, Zenon

LEMMA UnitBeginKeeps ==
    ASSUME UnitsInv, NEW p \in units!Process, NEW params \in UnitParams, NEW create \in BOOLEAN,
           units!Begin(p, params, create)
    PROVE  UnitsInv'
<1>1. PICK r : r = [params |-> params, create |-> create, result |-> "none"]
  BY Zenon
<1>2. r \in UnitRuns /\ r.result = "none"
  BY <1>1, Zenon DEF UnitRuns
<1>3. /\ pc' = [pc EXCEPT ![p] = "read"] /\ unitRun' = [unitRun EXCEPT ![p] = r] /\ "read" \in UnitLabel
      /\ UNCHANGED <<template, file, loaded>> /\ undisturbed' = undisturbed \ {p}
  BY <1>1, Zenon DEF units!Begin, UnitLabel
<1>4. pc'[p] = "read" /\ unitRun'[p] = r
  BY <1>3 DEF UnitsInv, UnitTypes
<1>5. SyncInv(p)'
  BY <1>2, <1>3, <1>4 DEF SyncInv
<1>6. /\ template' \in Nat /\ file' \in UnitParams /\ loaded' \in UnitParams
      /\ undisturbed' \subseteq units!Process /\ loaded' \in {loaded, file'}
      /\ \A q \in undisturbed' \ {p} : q \in undisturbed /\ file' = file
  BY <1>3 DEF UnitsInv, UnitTypes
<1> QED
  BY <1>2, <1>3, <1>5, <1>6, OneSync, Zenon

LEMMA HostKeeps ==
    ASSUME UnitsInv, units!UpgradeAgent \/ units!Boot \/ UNCHANGED units!vars
    PROVE  UnitsInv'
<1>1. CASE units!Boot
  <2>1. units!NoRun \in UnitRuns
    BY DEF units!NoRun, units!NoUnit, UnitRuns, UnitParams
  <2>2. /\ pc' = [p \in units!Process |-> "idle"] /\ unitRun' = [p \in units!Process |-> units!NoRun]
        /\ loaded' = file /\ UNCHANGED <<template, file, undisturbed>>
    BY <1>1, Zenon DEF units!Boot
  <2>3. UnitTypes'
    BY <2>1, <2>2 DEF UnitsInv, UnitTypes, UnitLabel
  <2>4. ASSUME NEW p \in units!Process PROVE SyncInv(p)'
    <3>1. pc'[p] = "idle" /\ unitRun'[p].result = "none"
      BY <2>2 DEF units!NoRun
    <3> QED
      BY <3>1 DEF SyncInv
  <2> QED
    BY <2>3, <2>4, Zenon DEF UnitsInv
<1>2. CASE units!UpgradeAgent \/ UNCHANGED units!vars
  <2>1. UNCHANGED <<file, loaded, pc, unitRun, undisturbed>> /\ template' \in {template, template + 1}
    BY <1>2 DEF units!UpgradeAgent, units!vars
  <2>2. UnitTypes'
    BY <2>1 DEF UnitsInv, UnitTypes
  <2>3. ASSUME NEW p \in units!Process PROVE SyncInv(p)'
    BY <2>1 DEF UnitsInv, SyncInv, units!NoUnit
  <2> QED
    BY <2>2, <2>3, Zenon DEF UnitsInv
<1> QED
  BY <1>1, <1>2, Zenon

LEMMA UnitsStep == UnitsInv /\ [units!Next]_units!vars => UnitsInv'
<1> SUFFICES ASSUME UnitsInv, [units!Next]_units!vars PROVE UnitsInv'
  OBVIOUS
<1>1. ASSUME NEW p \in units!Process, units!sync(p) PROVE UnitsInv'
  BY <1>1, SyncReadKeeps, SyncCheckKeeps, SyncWriteKeeps, SyncReloadKeeps, Zenon DEF
     units!sync
<1>2. CASE units!reconcileUnitAtStartup
  <2>1. PICK params : params = [loaded EXCEPT !.template = template]
    BY Zenon
  <2>2. params \in UnitParams
    BY <2>1 DEF UnitsInv, UnitTypes, UnitParams
  <2>3. units!Begin("agent", params, FALSE) /\ "agent" \in units!Process /\ FALSE \in BOOLEAN
    BY <1>2, <2>1, Zenon DEF units!reconcileUnitAtStartup, units!Process
  <2> QED
    BY <2>2, <2>3, UnitBeginKeeps, Zenon
<1>3. ASSUME NEW b \in Binary, NEW d \in Dir \cup {BadDir}, units!runInstallUnit(b, d) PROVE UnitsInv'
  <2>1. PICK params : params = [template |-> template, binary |-> b, dir |-> d]
    BY Zenon
  <2>2. params \in UnitParams
    BY <2>1 DEF UnitsInv, UnitTypes, UnitParams
  <2>3. units!Begin("install", params, TRUE) /\ "install" \in units!Process /\ TRUE \in BOOLEAN
    BY <1>3, <2>1, Zenon DEF units!runInstallUnit, units!Process
  <2> QED
    BY <2>2, <2>3, UnitBeginKeeps, Zenon
<1> QED
  BY <1>1, <1>2, <1>3, SyncReloadKeeps, HostKeeps, Zenon DEF units!Next

\* For any directories, binaries and versions of the agent, and over any number
\* of syncs, kills, failed commands and boots: an undisturbed sync that reports
\* success has settled the unit file and what systemd has loaded (unit.sync).
THEOREM SyncAlwaysSettles == units!Spec => []SyncSettles
<1>1. UnitsInv => SyncSettles
  BY DEF UnitsInv, UnitTypes, SyncInv, SyncSettles, units!SyncSettles
<1> QED
  BY <1>1, UnitsInit, UnitsStep, PTL DEF units!Spec

===============================================================================
