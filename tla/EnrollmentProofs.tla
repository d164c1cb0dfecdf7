--------------------------- MODULE EnrollmentProofs ---------------------------
(***************************************************************************)
(* Proofs about Enrollment, for any number of machines, commands, tokens,  *)
(* keys and requests: a token's uses count the devices it enrolled, a      *)
(* machine stays one device, and credentials are those of one device.      *)
(***************************************************************************)
EXTENDS Enrollment, TLAPS

\* A leaf that names no prover is Z3's, within this many seconds.
USE SMTT(30)

\* The one certificate that a device enrolled with this key has.
CertOf(d, key) == IssueCertificateFromCSR(d, GenerateCSR(key), 0)

\* The credentials of a device.
Credentials(d, key) ==
    [device_id |-> d, certificate |-> {CertOf(d, key)}, private_key |-> key,
     pending |-> None]

Asked(r) ==
    [command |-> request[r].command, csr |-> request[r].csr,
     token |-> request[r].token, step |-> request[r].step, seen |-> request[r].seen]

State(c) == Process(proc[c].step, proc[c].key, proc[c].id, proc[c].certificate)

Shapes ==
    /\ request = [r \in DOMAIN request |-> Asked(r)]
    /\ proc = [c \in Command |-> State(c)]
    /\ file = [m \in Machine |-> file[m]]
    /\ agent = [m \in Machine |-> agent[m]]

\* Requests are numbered, and the handler of a request that created a device
\* has ended.
Types ==
    /\ requests \in Nat /\ keys \in Nat /\ raced \subseteq Machine
    /\ Shapes
    /\ \A r \in DOMAIN request : /\ r \in 1 .. requests
                                 /\ request[r].command \in Command
                                 /\ request[r].token \in Token
                                 /\ request[r].csr.key \in 1 .. keys
    /\ \A d \in DOMAIN enrolled : /\ d \in 1 .. requests /\ d \notin DOMAIN request
                                  /\ enrolled[d].key \in 1 .. keys
                                  /\ enrolled[d].machine \in Machine
    /\ \A c \in Command : /\ proc[c].key \in 0 .. keys /\ proc[c].id \in 0 .. requests
                          /\ proc[c].step \in {"idle", "loaded", "wait", "answered"}

\* Tokens and the devices they enrolled: a token that is not there, because it
\* was used up or deleted, is never there again.
TokensInv ==
    /\ spent \subseteq Token /\ DOMAIN tokens \subseteq spent
    /\ tokens = [t \in DOMAIN tokens |-> tokens[t]]
    /\ \A t \in DOMAIN tokens : /\ tokens[t] \in [max_uses : Nat, current_uses : Nat]
                                /\ tokens[t].max_uses = MaxUses[t]
    /\ \A t \in Token \ spent : EnrolledWith(t) = {}
    /\ UsesCountDevices

\* A device keeps the key and the certificate it was created with, and a key
\* that is registered is not registered again.
DevicesInv ==
    /\ DOMAIN devices \subseteq DOMAIN enrolled
    /\ \A d \in DOMAIN devices :
          /\ devices[d].identity_public_key = enrolled[d].key
          /\ devices[d].active_certificate = {CertOf(d, enrolled[d].key)}
    /\ DOMAIN devices = DOMAIN enrolled =>
           \A d, e \in DOMAIN enrolled : enrolled[d].key = enrolled[e].key => d = e

\* Somebody on the machine, or the server for it, has the key.
Holds(key, m) ==
    \/ file[m].pending = key
    \/ \E c \in Command : HostOf[c] = m /\ proc[c].key = key
    \/ \E r \in DOMAIN request : HostOf[request[r].command] = m /\ request[r].csr.key = key
    \/ \E d \in DOMAIN enrolled : enrolled[d].machine = m /\ enrolled[d].key = key

\* A key belongs to one machine.
KeysInv ==
    /\ \A m \in Machine, n \in Machine, key \in 1 .. keys :
           Holds(key, m) /\ Holds(key, n) => m = n
    /\ \A m \in Machine : file[m].pending \in 0 .. keys

Enrolls(d, key, m) ==
    d \in DOMAIN enrolled /\ enrolled[d].key = key /\ enrolled[d].machine = m

\* Credentials are those of a device of the machine, or at most a pending key.
FileInv ==
    \A m \in Machine :
        /\ \/ file[m] = Pending(file[m].pending)
           \/ \E d \in DOMAIN enrolled : /\ enrolled[d].machine = m
                                         /\ file[m] = Credentials(d, enrolled[d].key)
        /\ \/ agent[m] = NoCredentials
           \/ \E d \in DOMAIN enrolled : /\ enrolled[d].machine = m
                                         /\ agent[m] = Credentials(d, enrolled[d].key)

\* A command waits for the answer to its own request, and is answered with a
\* device that has its key.
CommandsInv ==
    \A c \in Command :
        /\ proc[c].step = "idle" => proc[c] = Idle
        /\ proc[c].step = "wait" /\ proc[c].id \in DOMAIN request =>
              /\ request[proc[c].id].command = c
              /\ request[proc[c].id].csr.key = proc[c].key
        /\ proc[c].step = "wait" => proc[c].id # None
        /\ proc[c].step = "answered" =>
              /\ Enrolls(proc[c].id, proc[c].key, HostOf[c])
              /\ proc[c].certificate = {CertOf(proc[c].id, proc[c].key)}

\* The key a machine goes by.
CurrentKey(m) == IF Ready(file[m]) THEN file[m].private_key ELSE file[m].pending

\* Unless two commands were under way at a time on a machine, it has one key,
\* the one in its file, and a command is under way only as long as it has no
\* credentials.
AloneInv ==
    \A m \in Machine \ raced :
        /\ \A c, e \in Command : HostOf[c] = m /\ HostOf[e] = m
                                 /\ proc[c].step # "idle" /\ proc[e].step # "idle" => c = e
        /\ \A c \in Command : HostOf[c] = m /\ proc[c].step # "idle" =>
               ~Ready(file[m]) /\ proc[c].key = file[m].pending
        /\ \A key \in 1 .. keys : Holds(key, m) => key = CurrentKey(m)
        /\ agent[m] = NoCredentials \/ agent[m] = file[m]

EnrollmentInv ==
    /\ Types
    /\ TokensInv
    /\ DevicesInv
    /\ KeysInv
    /\ FileInv
    /\ CommandsInv
    /\ AloneInv

-------------------------------------------------------------------------------
(* What a step that leaves its variables alone keeps. *)

LEMMA SameTokens ==
    ASSUME TokensInv, UNCHANGED <<spent, tokens, enrolled>> PROVE TokensInv'
BY DEF TokensInv, UsesCountDevices, EnrolledWith

LEMMA SameDevices ==
    ASSUME DevicesInv, UNCHANGED <<devices, enrolled>> PROVE DevicesInv'
BY DEF DevicesInv

LEMMA SameRest ==
    ASSUME EnrollmentInv, UNCHANGED <<request, requests, enrolled, machineVars>>
    PROVE  Types' /\ KeysInv' /\ FileInv' /\ CommandsInv' /\ AloneInv'
<1> USE DEF EnrollmentInv, machineVars
<1>1. Types'
  BY DEF Types, Shapes, Asked, State, Process
<1>2. \A key, m : Holds(key, m)' = Holds(key, m)
  BY DEF Holds
<1>3. KeysInv' /\ AloneInv'
  BY <1>2 DEF KeysInv, AloneInv, CurrentKey
<1>4. FileInv' /\ CommandsInv'
  BY DEF FileInv, CommandsInv, Enrolls
<1> QED
  BY <1>1, <1>3, <1>4

-------------------------------------------------------------------------------
(* The command and the agent. *)

\* A step after which nobody has a key that was not there before.
LEMMA KeysShrink ==
    ASSUME KeysInv, keys' = keys,
           \A m \in Machine, key \in 1 .. keys : Holds(key, m)' => Holds(key, m),
           \A m \in Machine : file'[m].pending \in 0 .. keys
    PROVE  KeysInv'
<1> DEFINE H(key, m) == Holds(key, m)'
<1>1. \A m \in Machine, n \in Machine, key \in 1 .. keys :
          H(key, m) /\ H(key, n) => m = n
  BY DEF KeysInv
<1> HIDE DEF H
<1>2. \A m \in Machine, n \in Machine, key \in 1 .. keys' :
          H(key, m) /\ H(key, n) => m = n
  BY <1>1
<1> QED
  BY <1>2 DEF KeysInv, H

\* What Ready says of the two forms of a file.
LEMMA ReadyMeans ==
    /\ \A key : ~Ready(Pending(key))
    /\ \A d \in Nat \ {0}, key \in Nat \ {0} : Ready(Credentials(d, key))
    /\ NoCredentials = Pending(None)
BY DEF Ready, Pending, Credentials, NoCredentials, None

LEMMA FileForms ==
    ASSUME Types, FileInv, NEW m \in Machine
    PROVE  /\ ~Ready(file[m]) => file[m] = Pending(file[m].pending)
           /\ Ready(file[m]) => \E d \in DOMAIN enrolled :
                                   /\ enrolled[d].machine = m
                                   /\ file[m] = Credentials(d, enrolled[d].key)
<1>1. \A d \in DOMAIN enrolled : d \in Nat \ {0} /\ enrolled[d].key \in Nat \ {0}
  BY DEF Types
<1> QED
  BY <1>1, ReadyMeans DEF FileInv

LEMMA LoadPreserves ==
    ASSUME EnrollmentInv, NEW c \in Command, LoadCredentials(c) PROVE EnrollmentInv'
<1> USE EnrollmentAssumption
<1> DEFINE m == HostOf[c]
<1>1. /\ proc[c].step = "idle" /\ ~Ready(file[m])
      /\ UNCHANGED <<spent, tokens, enrolled>> /\ UNCHANGED <<devices, enrolled>>
      /\ UNCHANGED <<request, requests, file, agent, keys>>
      /\ raced' = raced \cup {HostOf[b] : b \in {e \in Command :
                        HostOf[e] = m /\ proc[e].step # "idle"}}
  BY DEF LoadCredentials, adminVars, serverVars
<1>2. /\ proc' = [b \in Command |-> IF b = c THEN proc'[c] ELSE proc[b]]
      /\ proc'[c] = [step |-> "loaded", key |-> file[m].pending, id |-> None, certificate |-> {}]
  <2>1. DOMAIN proc = Command
    BY DEF EnrollmentInv, Types, Shapes
  <2> QED
    BY <2>1, Zenon DEF LoadCredentials, Process
<1>3. m \in Machine /\ file[m].pending \in 0 .. keys
  BY DEF EnrollmentInv, KeysInv
<1>4. Types'
  <2>1. \A b \in Command : proc'[b] = State(b)'
    BY <1>2 DEF EnrollmentInv, Types, Shapes, State, Process
  <2>2. proc' = [b \in Command |-> State(b)']
    BY <1>2, <2>1
  <2>3. request' = [r \in DOMAIN request' |-> Asked(r)']
    BY <1>1 DEF EnrollmentInv, Types, Shapes, Asked
  <2>4. raced' \subseteq Machine
    BY <1>1 DEF EnrollmentInv, Types
  <2>5. \A b \in Command : /\ proc'[b].key \in 0 .. keys /\ proc'[b].id \in 0 .. requests
                           /\ proc'[b].step \in {"idle", "loaded", "wait", "answered"}
    BY <1>2, <1>3 DEF EnrollmentInv, Types, None
  <2> QED
    BY <1>1, <2>2, <2>3, <2>4, <2>5, Zenon DEF EnrollmentInv, Types, Shapes
<1>5. \A n, key : Holds(key, n)' => Holds(key, n)
  BY <1>1, <1>2 DEF Holds
<1>6. KeysInv'
  BY <1>1, <1>5, KeysShrink DEF EnrollmentInv, KeysInv
<1>7. FileInv'
  BY <1>1 DEF EnrollmentInv, FileInv
<1>8. CommandsInv'
  BY <1>1, <1>2 DEF EnrollmentInv, CommandsInv, Enrolls
<1>9. AloneInv'
  <2> SUFFICES ASSUME NEW n \in Machine \ raced'
               PROVE  /\ \A b, e \in Command : HostOf[b] = n /\ HostOf[e] = n
                            /\ proc'[b].step # "idle" /\ proc'[e].step # "idle" => b = e
                      /\ \A b \in Command : HostOf[b] = n /\ proc'[b].step # "idle" =>
                            ~Ready(file[n]) /\ proc'[b].key = file[n].pending
                      /\ \A key \in 1 .. keys : Holds(key, n)' => key = CurrentKey(n)
                      /\ agent[n] = NoCredentials \/ agent[n] = file[n]
    BY <1>1 DEF AloneInv, CurrentKey
  <2>1. n \notin raced /\ (n = m => \A e \in Command : HostOf[e] = m => proc[e].step = "idle")
    BY <1>1
  <2> QED
    BY <1>1, <1>2, <1>5, <2>1 DEF EnrollmentInv, AloneInv
<1> QED
  BY <1>1, <1>4, <1>6, <1>7, <1>8, <1>9, SameTokens, SameDevices DEF EnrollmentInv

LEMMA GiveUpPreserves ==
    ASSUME EnrollmentInv, NEW c \in Command, GiveUp(c) PROVE EnrollmentInv'
<1> USE EnrollmentAssumption
<1>1. /\ UNCHANGED <<spent, tokens, enrolled>> /\ UNCHANGED <<devices, enrolled>>
      /\ UNCHANGED <<request, requests, file, agent, keys, raced>>
  BY DEF GiveUp, adminVars, serverVars
<1>2. /\ proc' = [b \in Command |-> IF b = c THEN Idle ELSE proc[b]]
      /\ Idle = [step |-> "idle", key |-> 0, id |-> 0, certificate |-> {}]
  BY Zenon DEF GiveUp, EnrollmentInv, Types, Shapes, Idle, Process, None
<1>4. Types'
  <2>1. \A b \in Command : proc'[b] = State(b)'
    BY <1>2, Zenon DEF EnrollmentInv, Types, Shapes, State, Process
  <2>2. proc' = [b \in Command |-> State(b)']
    BY <1>2, <2>1
  <2>3. request' = [r \in DOMAIN request' |-> Asked(r)']
    BY <1>1 DEF EnrollmentInv, Types, Shapes, Asked
  <2>4. \A b \in Command : /\ proc'[b].key \in 0 .. keys /\ proc'[b].id \in 0 .. requests
                           /\ proc'[b].step \in {"idle", "loaded", "wait", "answered"}
    BY <1>2 DEF EnrollmentInv, Types
  <2> QED
    BY <1>1, <2>2, <2>3, <2>4 DEF EnrollmentInv, Types, Shapes
<1>5. \A n, key : key # 0 /\ Holds(key, n)' => Holds(key, n)
  BY <1>1, <1>2 DEF Holds
<1>6. KeysInv'
  BY <1>1, <1>5, KeysShrink DEF EnrollmentInv, KeysInv
<1>7. FileInv'
  BY <1>1 DEF EnrollmentInv, FileInv
<1>8. CommandsInv'
  BY <1>1, <1>2 DEF EnrollmentInv, CommandsInv, Enrolls
<1>9. AloneInv'
  <2>1. \A n : CurrentKey(n)' = CurrentKey(n)
    BY <1>1 DEF CurrentKey
  <2> QED
    BY <1>1, <1>2, <1>5, <2>1 DEF EnrollmentInv, AloneInv
<1> QED
  BY <1>1, <1>4, <1>6, <1>7, <1>8, <1>9, SameTokens, SameDevices DEF EnrollmentInv

LEMMA StartAgentPreserves ==
    ASSUME EnrollmentInv, NEW m \in Machine, StartAgent(m) PROVE EnrollmentInv'
<1>1. /\ UNCHANGED <<spent, tokens, enrolled>> /\ UNCHANGED <<devices, enrolled>>
      /\ UNCHANGED <<request, requests, file, proc, keys, raced>>
      /\ Ready(file[m])
  BY DEF StartAgent, adminVars, serverVars
<1>2. agent' = [n \in Machine |-> IF n = m THEN file[m] ELSE agent[n]]
  BY Zenon DEF StartAgent, EnrollmentInv, Types, Shapes
<1>3. Types'
  BY <1>1, <1>2 DEF EnrollmentInv, Types, Shapes, Asked, State, Process
<1>4. \A key, n : Holds(key, n)' = Holds(key, n)
  BY <1>1, Zenon DEF Holds
<1>5. KeysInv' /\ CommandsInv'
  BY <1>1, <1>4 DEF EnrollmentInv, KeysInv, CommandsInv, Enrolls
<1>6. FileInv'
  BY <1>1, <1>2, FileForms DEF EnrollmentInv, FileInv
<1>7. AloneInv'
  <2>1. \A n : CurrentKey(n)' = CurrentKey(n)
    BY <1>1, ZenonT(30) DEF CurrentKey
  <2> QED
    BY <1>1, <1>2, <1>4, <2>1 DEF EnrollmentInv, AloneInv
<1> QED
  BY <1>1, <1>3, <1>5, <1>6, <1>7, SameTokens, SameDevices DEF EnrollmentInv

\* The credentials are the ones the command was answered with, beside the key
\* that it sent.
LEMMA SavePreserves ==
    ASSUME EnrollmentInv, NEW c \in Command, SaveCredentials(c) PROVE EnrollmentInv'
<1> USE EnrollmentAssumption
<1> DEFINE m == HostOf[c]
           d == proc[c].id
           k == proc[c].key
<1>1. /\ UNCHANGED <<spent, tokens, enrolled>> /\ UNCHANGED <<devices, enrolled>>
      /\ UNCHANGED <<request, requests, agent, keys, raced>>
      /\ proc[c].step = "answered"
  BY DEF SaveCredentials, adminVars, serverVars
<1>2. /\ proc' = [b \in Command |-> IF b = c THEN Idle ELSE proc[b]]
      /\ Idle = [step |-> "idle", key |-> 0, id |-> 0, certificate |-> {}]
  BY Zenon DEF SaveCredentials, EnrollmentInv, Types, Shapes, Idle, Process, None
<1>3. /\ d \in DOMAIN enrolled /\ enrolled[d].key = k /\ enrolled[d].machine = m
      /\ proc[c].certificate = {CertOf(d, k)} /\ m \in Machine
  BY <1>1, Zenon DEF EnrollmentInv, CommandsInv, Enrolls
<1>4. d \in Nat \ {0} /\ k \in Nat \ {0} /\ k \in 1 .. keys
  BY <1>3 DEF EnrollmentInv, Types
<1>5. file' = [n \in Machine |-> IF n = m THEN Credentials(d, k) ELSE file[n]]
  BY <1>3, Zenon DEF SaveCredentials, Credentials, EnrollmentInv, Types, Shapes
<1>6. /\ Ready(Credentials(d, k)) /\ Credentials(d, k).pending = 0
      /\ Credentials(d, k).private_key = k
  BY <1>4, ReadyMeans DEF Credentials, None
<1>7. Types'
  <2>1. \A b \in Command : proc'[b] = State(b)'
    BY <1>2, Zenon DEF EnrollmentInv, Types, Shapes, State, Process
  <2>2. proc' = [b \in Command |-> State(b)']
    BY <1>2, <2>1
  <2>3. request' = [r \in DOMAIN request' |-> Asked(r)']
    BY <1>1 DEF EnrollmentInv, Types, Shapes, Asked
  <2>4. \A b \in Command : /\ proc'[b].key \in 0 .. keys /\ proc'[b].id \in 0 .. requests
                           /\ proc'[b].step \in {"idle", "loaded", "wait", "answered"}
    BY <1>2 DEF EnrollmentInv, Types
  <2>5. file' = [n \in Machine |-> file'[n]]
    BY <1>5, Zenon
  <2> QED
    BY <1>1, <2>2, <2>3, <2>4, <2>5 DEF EnrollmentInv, Types, Shapes
<1>8. \A n \in Machine : \A key : key # 0 /\ Holds(key, n)' => Holds(key, n)
  BY <1>1, <1>2, <1>5, <1>6 DEF Holds
<1>9. KeysInv'
  <2>1. \A n \in Machine : file'[n].pending \in 0 .. keys
    BY <1>5, <1>6 DEF EnrollmentInv, KeysInv, Types
  <2> QED
    BY <1>1, <1>8, <2>1, KeysShrink DEF EnrollmentInv
<1>10. FileInv'
  BY <1>1, <1>3, <1>5 DEF EnrollmentInv, FileInv
<1>11. CommandsInv'
  BY <1>1, <1>2 DEF EnrollmentInv, CommandsInv, Enrolls
<1>12. AloneInv'
  <2> SUFFICES ASSUME NEW n \in Machine \ raced
               PROVE  /\ \A b, e \in Command : HostOf[b] = n /\ HostOf[e] = n
                            /\ proc'[b].step # "idle" /\ proc'[e].step # "idle" => b = e
                      /\ \A b \in Command : HostOf[b] = n /\ proc'[b].step # "idle" =>
                            ~Ready(file'[n]) /\ proc'[b].key = file'[n].pending
                      /\ \A key \in 1 .. keys : Holds(key, n)' => key = CurrentKey(n)'
                      /\ agent[n] = NoCredentials \/ agent[n] = file'[n]
    BY <1>1, Zenon DEF AloneInv
  <2>1. CASE n # m
    <3>1. CurrentKey(n)' = CurrentKey(n)
      BY <1>5, <2>1, ZenonT(30) DEF CurrentKey
    <3> QED
      BY <1>2, <1>5, <1>8, <2>1, <3>1 DEF EnrollmentInv, AloneInv
  <2>2. CASE n = m
    <3>1. /\ \A b \in Command : HostOf[b] = m /\ proc[b].step # "idle" => b = c
          /\ ~Ready(file[m]) /\ k = file[m].pending
          /\ \A key \in 1 .. keys : Holds(key, m) => key = CurrentKey(m)
          /\ agent[m] = NoCredentials \/ agent[m] = file[m]
      BY <1>1, <2>2, ZenonT(30) DEF EnrollmentInv, AloneInv
    <3>2. CurrentKey(m) = k /\ CurrentKey(m)' = k
      BY <1>5, <1>6, <1>3, <3>1, Zenon DEF CurrentKey
    <3>3. agent[m] = NoCredentials
      <4>1. agent[m] = NoCredentials \/ Ready(agent[m])
        BY <1>3, ReadyMeans DEF EnrollmentInv, FileInv, Types
      <4> QED
        BY <4>1, <3>1, Zenon
    <3> QED
      BY <1>2, <1>3, <1>5, <1>8, <2>2, <3>1, <3>2, <3>3
  <2> QED
    BY <2>1, <2>2
<1> QED
  BY <1>1, <1>7, <1>9, <1>10, <1>11, <1>12, SameTokens, SameDevices DEF EnrollmentInv

LEMMA KnownKeys ==
    ASSUME Types, KeysInv, NEW m \in Machine, NEW key \in Nat \ {0}, Holds(key, m)
    PROVE  key \in 1 .. keys
BY DEF Types, KeysInv, Holds

\* The key is saved before it is sent, and is the machine's until it has
\* credentials.
LEMMA EnrollPreserves ==
    ASSUME EnrollmentInv, NEW c \in Command, NEW t \in Token \cup {NoToken}, enroll(c, t)
    PROVE  EnrollmentInv'
<1> USE EnrollmentAssumption
<1> DEFINE m == HostOf[c]
<1>0. PICK n0 : n0 = requests + 1
  BY Zenon
<1>1. /\ UNCHANGED <<spent, tokens, enrolled>> /\ UNCHANGED <<devices, enrolled>>
      /\ UNCHANGED <<agent, raced>> /\ t \in Token
      /\ proc[c].step = "loaded" /\ requests' = n0
  BY <1>0 DEF enroll, RegisterAgent, adminVars, serverVars
<1>2. PICK k :
         /\ \/ k = proc[c].key /\ k # 0 /\ UNCHANGED <<file, keys>>
            \/ /\ proc[c].key = 0 /\ k = keys + 1 /\ keys' = keys + 1
               /\ file' = [file EXCEPT ![m] = Pending(k)]
         /\ request' = queries!Insert(request, requests', [command |-> c,
                     csr |-> GenerateCSR(k), token |-> t, step |-> "find", seen |-> {}])
         /\ proc' = [proc EXCEPT ![c] = Process("wait", k, requests', {})]
  <2>1. CASE proc[c].key # None
    BY <2>1, Zenon DEF enroll, RegisterAgent, None
  <2>2. CASE proc[c].key = None
    <3>1. PICK k : k = keys'
      OBVIOUS
    <3>2. /\ keys' = keys + 1 /\ file' = [file EXCEPT ![m] = Pending(keys')]
          /\ RegisterAgent(c, keys', t)
      BY <2>2, ZenonT(30) DEF enroll
    <3> QED
      BY <2>2, <3>1, <3>2, Zenon DEF RegisterAgent, None
  <2> QED
    BY <2>1, <2>2, Zenon
<1> DEFINE new == [command |-> c, csr |-> GenerateCSR(k), token |-> t, step |-> "find",
                   seen |-> {}]
<1>3. requests \in Nat /\ n0 = requests + 1 /\ keys \in Nat /\ keys' \in Nat /\ keys <= keys'
      /\ k \in 1 .. keys' /\ m \in Machine
  BY <1>0, <1>2 DEF EnrollmentInv, Types
<1>4. /\ DOMAIN request' = DOMAIN request \cup {n0} /\ n0 \notin DOMAIN request
      /\ request'[n0] = new
      /\ \A r \in DOMAIN request : request'[r] = request[r]
      /\ request' = [r \in DOMAIN request' |-> request'[r]]
  BY <1>1, <1>2, <1>3 DEF queries!Insert, EnrollmentInv, Types
<1>5. /\ proc' = [b \in Command |-> IF b = c THEN proc'[c] ELSE proc[b]]
      /\ proc'[c] = [step |-> "wait", key |-> k, id |-> n0, certificate |-> {}]
  BY <1>1, <1>2, Zenon DEF EnrollmentInv, Types, Shapes, Process
<1>6. /\ file' = [n \in Machine |-> file'[n]]
      /\ \A n \in Machine : n # m => file'[n] = file[n]
      /\ file'[m] = file[m] \/ file'[m] = Pending(k)
  BY <1>2, <1>3, Zenon DEF EnrollmentInv, Types, Shapes
<1>7. new.csr.key = k /\ new.command = c /\ Pending(k).pending = k
  BY Zenon DEF GenerateCSR, Pending
<1>8. Types'
  <2>1. \A b \in Command : proc'[b] = State(b)'
    BY <1>5 DEF EnrollmentInv, Types, Shapes, State, Process
  <2>2. proc' = [b \in Command |-> State(b)']
    BY <1>5, <2>1, Zenon
  <2>3. \A r \in DOMAIN request' : request'[r] = Asked(r)'
    <3>1. \A r \in DOMAIN request : request[r] = Asked(r)
      BY Zenon DEF EnrollmentInv, Types, Shapes
    <3>2. \A r \in DOMAIN request : Asked(r)' = Asked(r)
      BY <1>4, Zenon DEF Asked
    <3>3. Asked(n0)' = new
      BY <1>4, <1>7, Zenon DEF Asked
    <3> QED
      BY <1>4, <3>1, <3>2, <3>3, Zenon
  <2>4. request' = [r \in DOMAIN request' |-> Asked(r)']
    BY <1>4, <2>3, Zenon
  <2>5. \A b \in Command : /\ proc'[b].key \in 0 .. keys' /\ proc'[b].id \in 0 .. requests'
                           /\ proc'[b].step \in {"idle", "loaded", "wait", "answered"}
    BY <1>1, <1>3, <1>5 DEF EnrollmentInv, Types
  <2>6. \A r \in DOMAIN request' : /\ r \in 1 .. requests'
                                   /\ request'[r].command \in Command
                                   /\ request'[r].token \in Token
                                   /\ request'[r].csr.key \in 1 .. keys'
    BY <1>1, <1>3, <1>4, <1>7 DEF EnrollmentInv, Types
  <2>7. \A d \in DOMAIN enrolled' : /\ d \in 1 .. requests' /\ d \notin DOMAIN request'
                                    /\ enrolled'[d].key \in 1 .. keys'
                                    /\ enrolled'[d].machine \in Machine
    BY <1>1, <1>3, <1>4 DEF EnrollmentInv, Types
  <2>8. raced' \subseteq Machine /\ agent' = [n \in Machine |-> agent'[n]]
    BY <1>1, Zenon DEF EnrollmentInv, Types, Shapes
  <2> QED
    BY <1>1, <1>3, <1>6, <2>2, <2>4, <2>5, <2>6, <2>7, <2>8 DEF Types, Shapes
<1>9. \A n \in Machine : \A key : key # 0 /\ Holds(key, n)' => Holds(key, n) \/ (key = k /\ n = m)
  BY <1>1, <1>4, <1>5, <1>6, <1>7 DEF Holds
<1>10. Holds(k, m) \/ (k = keys + 1 /\ keys' = keys + 1)
  BY <1>2, Zenon DEF Holds
<1>11. KeysInv'
  <2>1. ASSUME NEW n \in Machine, NEW o \in Machine, NEW key \in 1 .. keys',
               Holds(key, n)', Holds(key, o)'
        PROVE  n = o
    <3>1. key \in Nat \ {0}
      BY <1>3
    <3>2. Holds(key, n) \/ (key = k /\ n = m)
      BY <1>9, <2>1, <3>1
    <3>3. Holds(key, o) \/ (key = k /\ o = m)
      BY <1>9, <2>1, <3>1
    <3>4. CASE Holds(k, m)
      <4>1. Holds(key, n) /\ Holds(key, o)
        BY <3>2, <3>3, <3>4
      <4>2. key \in 1 .. keys
        BY <4>1, <3>1, KnownKeys DEF EnrollmentInv
      <4> QED
        BY <4>1, <4>2 DEF EnrollmentInv, KeysInv
    <3>5. CASE k = keys + 1
      <4>1. CASE key = k
        <5>1. ~Holds(key, n) /\ ~Holds(key, o)
          BY <4>1, <3>1, <3>5, <1>3, KnownKeys DEF EnrollmentInv
        <5> QED
          BY <5>1, <3>2, <3>3
      <4>2. CASE key # k
        <5>1. Holds(key, n) /\ Holds(key, o)
          BY <4>2, <3>2, <3>3, Zenon
        <5>2. key \in 1 .. keys
          BY <5>1, <3>1, KnownKeys DEF EnrollmentInv
        <5> QED
          BY <5>1, <5>2 DEF EnrollmentInv, KeysInv
      <4> QED
        BY <4>1, <4>2
    <3> QED
      BY <3>4, <3>5, <1>10
  <2>2. \A n \in Machine : file'[n].pending \in 0 .. keys'
    BY <1>3, <1>6, <1>7 DEF EnrollmentInv, KeysInv
  <2> QED
    BY <2>1, <2>2 DEF KeysInv
<1>12. FileInv'
  BY <1>1, <1>6, <1>7 DEF EnrollmentInv, FileInv
<1>13. CommandsInv'
  <2>1. \A b \in Command : b # c => proc'[b] = proc[b] /\ proc[b].id # n0
    BY <1>3, <1>5 DEF EnrollmentInv, Types
  <2>2. \A b \in Command : b # c /\ proc[b].id \in DOMAIN request' =>
            proc[b].id \in DOMAIN request /\ request'[proc[b].id] = request[proc[b].id]
    BY <1>4, <2>1, ZenonT(30)
  <2>3. \A d, key, n : Enrolls(d, key, n)' = Enrolls(d, key, n)
    BY <1>1 DEF Enrolls
  <2>4. n0 # None
    BY <1>3 DEF None
  <2> QED
    BY <1>4, <1>5, <1>7, <2>1, <2>2, <2>3, <2>4 DEF EnrollmentInv, CommandsInv
<1>14. AloneInv'
  <2> SUFFICES ASSUME NEW n \in Machine \ raced
               PROVE  /\ \A b, e \in Command : HostOf[b] = n /\ HostOf[e] = n
                            /\ proc'[b].step # "idle" /\ proc'[e].step # "idle" => b = e
                      /\ \A b \in Command : HostOf[b] = n /\ proc'[b].step # "idle" =>
                            ~Ready(file'[n]) /\ proc'[b].key = file'[n].pending
                      /\ \A key \in 1 .. keys' : Holds(key, n)' => key = CurrentKey(n)'
                      /\ agent[n] = NoCredentials \/ agent[n] = file'[n]
    BY <1>1, Zenon DEF AloneInv
  <2>1. CASE n # m
    <3>1. CurrentKey(n)' = CurrentKey(n)
      BY <1>6, <2>1 DEF CurrentKey
    <3>2. \A key \in 1 .. keys' : Holds(key, n)' => Holds(key, n) /\ key \in 1 .. keys
      BY <1>3, <1>9, <2>1, KnownKeys DEF EnrollmentInv
    <3> QED
      BY <1>5, <1>6, <2>1, <3>1, <3>2 DEF EnrollmentInv, AloneInv
  <2>2. CASE n = m
    <3>1. /\ \A b \in Command : HostOf[b] = m /\ proc[b].step # "idle" => b = c
          /\ ~Ready(file[m]) /\ proc[c].key = file[m].pending
          /\ \A key \in 1 .. keys : Holds(key, m) => key = file[m].pending
          /\ agent[m] = NoCredentials \/ agent[m] = file[m]
      BY <1>1, <2>2, Zenon DEF EnrollmentInv, AloneInv, CurrentKey
    <3>2. ~Ready(file'[m]) /\ file'[m].pending = k
      BY <1>2, <1>3, <1>6, <1>7, <3>1, ReadyMeans DEF EnrollmentInv, Types
    <3>3. \A key \in 1 .. keys' : Holds(key, m)' => key = k
      <4> SUFFICES ASSUME NEW key \in 1 .. keys', Holds(key, m)', key # k PROVE FALSE
        BY Zenon
      <4>1. Holds(key, m) /\ key \in 1 .. keys
        BY <1>3, <1>9, KnownKeys DEF EnrollmentInv
      <4>2. key = proc[c].key
        BY <4>1, <3>1, Zenon
      <4> QED
        BY <4>1, <4>2, <1>2
    <3>4. agent[m] = NoCredentials \/ agent[m] = file'[m]
      <4>1. CASE proc[c].key = 0
        <5>1. file[m] = NoCredentials
          BY <4>1, <3>1, <1>3, FileForms, ReadyMeans, Zenon DEF EnrollmentInv, None
        <5> QED
          BY <5>1, <3>1, Zenon
      <4>2. CASE proc[c].key # 0
        BY <4>2, <1>2, <3>1, Zenon
      <4> QED
        BY <4>1, <4>2, Zenon
    <3>5. CurrentKey(m)' = k
      BY <3>2 DEF CurrentKey
    <3> QED
      BY <1>5, <2>2, <3>1, <3>2, <3>3, <3>4, <3>5
  <2> QED
    BY <2>1, <2>2, Zenon
<1> QED
  BY <1>1, <1>8, <1>11, <1>12, <1>13, <1>14, SameTokens, SameDevices DEF EnrollmentInv

-------------------------------------------------------------------------------
(* The administrator's actions that create no token. *)

LEMMA DeleteTokenPreserves ==
    ASSUME EnrollmentInv, NEW t \in Token, DeleteToken(t) PROVE EnrollmentInv'
<1>1. /\ UNCHANGED <<devices, enrolled>> /\ UNCHANGED spent
      /\ UNCHANGED <<request, requests, enrolled, machineVars>>
  BY DEF DeleteToken, adminVars
<1>2. tokens' = [u \in DOMAIN tokens \ {t} |-> tokens[u]]
  BY DEF DeleteToken, queries!DeleteRegistrationToken, queries!Delete, queries!Keep
<1>3. TokensInv'
  BY <1>1, <1>2 DEF EnrollmentInv, TokensInv, UsesCountDevices, EnrolledWith
<1> QED
  BY <1>1, <1>3, SameDevices, SameRest DEF EnrollmentInv

LEMMA TokenExpiresPreserves ==
    ASSUME EnrollmentInv, NEW t \in Token, TokenExpires(t) PROVE EnrollmentInv'
<1>1. /\ UNCHANGED <<spent, tokens, enrolled>> /\ UNCHANGED <<devices, enrolled>>
      /\ UNCHANGED <<request, requests, enrolled, machineVars>>
  BY DEF TokenExpires, serverVars
<1> QED
  BY <1>1, SameTokens, SameDevices, SameRest DEF EnrollmentInv

LEMMA DeleteDevicePreserves ==
    ASSUME EnrollmentInv, NEW d, DeleteDevice(d) PROVE EnrollmentInv'
<1>1. /\ UNCHANGED <<spent, tokens, enrolled>> /\ d \in DOMAIN devices
      /\ UNCHANGED <<request, requests, enrolled, machineVars>>
  BY DEF DeleteDevice, adminVars
<1>2. devices' = [e \in DOMAIN devices \ {d} |-> devices[e]]
  BY DEF DeleteDevice, queries!DeleteDevice, queries!Delete, queries!Keep
<1>3. DevicesInv'
  <2>1. DOMAIN devices' # DOMAIN enrolled'
    BY <1>1, <1>2 DEF EnrollmentInv, DevicesInv
  <2> QED
    BY <1>1, <1>2, <2>1 DEF EnrollmentInv, DevicesInv
<1> QED
  BY <1>1, <1>3, SameTokens, SameRest DEF EnrollmentInv

-------------------------------------------------------------------------------
(* Register. *)

\* The devices stay, and at most the one of this request, with the request's
\* key and on its machine, is new.
Grows(r, k, m) ==
    /\ \A e \in DOMAIN enrolled : e \in DOMAIN enrolled' /\ enrolled'[e] = enrolled[e]
    /\ \A e \in DOMAIN enrolled' :
           e \in DOMAIN enrolled \/ (e = r /\ enrolled'[e].key = k /\ enrolled'[e].machine = m)

\* The device that is answered, and its certificate.
Given(d, k, m, certificate) == Enrolls(d, k, m)' /\ certificate = {CertOf(d, k)}

Kept(c, r) == proc'[c] = proc[c] /\ ~(proc[c].step = "wait" /\ proc[c].id = r)

Served(c, r, k, d, certificate) ==
    /\ proc[c].step = "wait" /\ c = request[r].command /\ proc[c].key = k
    /\ \/ proc'[c] = Process("idle", 0, 0, {})
       \/ d # None /\ proc'[c] = Process("answered", k, d, certificate)

\* The handler ends: its request is gone, and at most the command that waits
\* for it changes.
Answered(r, k, d, certificate) ==
    /\ DOMAIN request' = DOMAIN request \ {r}
    /\ \A s \in DOMAIN request' : request'[s] = request[s]
    /\ \A c \in Command : Kept(c, r) \/ Served(c, r, k, d, certificate)

Tabulated ==
    /\ request' = [s \in DOMAIN request' |-> request'[s]]
    /\ proc' = [c \in Command |-> proc'[c]]

LEMMA AnswerFacts ==
    ASSUME EnrollmentInv, NEW r \in DOMAIN request, NEW k, NEW d, NEW certificate,
           k = request[r].csr.key, Answer(r, d, certificate)
    PROVE  Answered(r, k, d, certificate) /\ Tabulated
<1> DEFINE c0 == request[r].command
<1>1. /\ request' = [s \in DOMAIN request \ {r} |-> request[s]]
      /\ c0 \in Command /\ DOMAIN proc = Command
  BY DEF EnrollmentInv, Types, Shapes, Answer, queries!Delete, queries!Keep
<1>2. proc = [c \in Command |-> proc[c]]
  BY ZenonT(30) DEF EnrollmentInv, Types, Shapes
<1>3. \A c \in Command : proc[c].step = "wait" /\ proc[c].id = r => c = c0 /\ proc[c].key = k
  BY DEF EnrollmentInv, CommandsInv
<1>4. CASE proc[c0].step = "wait" /\ proc[c0].id = r
  <2>1. PICK new : new = IF d = None THEN Idle
                         ELSE Process("answered", proc[c0].key, d, certificate)
    BY Zenon
  <2>2. proc' = [proc EXCEPT ![c0] = new]
    BY <1>1, <1>4, <2>1 DEF Answer
  <2>3. new = Process("idle", 0, 0, {}) \/ (d # None /\ new = Process("answered", k, d, certificate))
    BY <1>1, <1>3, <1>4, <2>1 DEF Idle, None
  <2>4. \A c \in Command : Kept(c, r) \/ Served(c, r, k, d, certificate)
    BY <1>1, <1>3, <1>4, <2>2, <2>3 DEF Kept, Served
  <2> QED
    BY <1>1, <1>2, <2>2, <2>4 DEF Answered, Tabulated
<1>5. CASE ~(proc[c0].step = "wait" /\ proc[c0].id = r)
  <2>1. UNCHANGED proc
    BY <1>5 DEF Answer
  <2>2. \A c \in Command : Kept(c, r)
    BY <1>3, <1>5, <2>1, Zenon DEF Kept
  <2> QED
    BY <1>1, <1>2, <2>1, <2>2 DEF Answered, Tabulated
<1> QED
  BY <1>4, <1>5

LEMMA AnswerTypes ==
    ASSUME Types, NEW r \in DOMAIN request, NEW k \in 1 .. keys, NEW m \in Machine,
           NEW d, NEW certificate, Grows(r, k, m), d = None \/ Given(d, k, m, certificate),
           Answered(r, k, d, certificate), Tabulated,
           UNCHANGED <<requests, file, agent, keys, raced>>
    PROVE  Types'
<1>1. \A e \in DOMAIN enrolled' : /\ e \in 1 .. requests /\ e \notin DOMAIN request'
                                  /\ enrolled'[e].key \in 1 .. keys
                                  /\ enrolled'[e].machine \in Machine
  BY Zenon DEF Types, Grows, Answered
<1>2. \A c \in Command : proc'[c] = State(c)'
  <2>1. ASSUME NEW c \in Command, Kept(c, r) PROVE proc'[c] = State(c)'
    BY <2>1, ZenonT(30) DEF Types, Shapes, State, Process, Kept
  <2>2. ASSUME NEW c \in Command, Served(c, r, k, d, certificate) PROVE proc'[c] = State(c)'
    BY <2>2, Zenon DEF State, Process, Served
  <2> QED
    BY <2>1, <2>2, Zenon DEF Answered
<1>3. \A c \in Command : /\ proc'[c].key \in 0 .. keys /\ proc'[c].id \in 0 .. requests
                         /\ proc'[c].step \in {"idle", "loaded", "wait", "answered"}
  <2>1. ASSUME NEW c \in Command, Kept(c, r)
        PROVE  /\ proc'[c].key \in 0 .. keys /\ proc'[c].id \in 0 .. requests
               /\ proc'[c].step \in {"idle", "loaded", "wait", "answered"}
    BY <2>1, Zenon DEF Types, Kept
  <2>2. requests \in Nat /\ keys \in Nat /\ (d # None => d \in 0 .. requests)
    BY <1>1 DEF Types, Given, Enrolls
  <2>3. ASSUME NEW c \in Command, Served(c, r, k, d, certificate)
        PROVE  /\ proc'[c].key \in 0 .. keys /\ proc'[c].id \in 0 .. requests
               /\ proc'[c].step \in {"idle", "loaded", "wait", "answered"}
    BY <2>2, <2>3 DEF Served, Process
  <2> QED
    BY <2>1, <2>3, Zenon DEF Answered
<1>4. Shapes'
  <2>1. \A s \in DOMAIN request' : request'[s] = Asked(s)'
    <3>1. \A s \in DOMAIN request : request[s] = Asked(s)
      BY ZenonT(30) DEF Types, Shapes
    <3>2. \A s \in DOMAIN request' : s \in DOMAIN request /\ Asked(s)' = Asked(s)
      BY DEF Answered, Asked
    <3> QED
      BY <3>1, <3>2 DEF Answered
  <2>2. /\ request' = [s \in DOMAIN request' |-> Asked(s)']
        /\ proc' = [c \in Command |-> State(c)']
    BY <1>2, <2>1, Zenon DEF Tabulated
  <2> QED
    BY <2>2 DEF Types, Shapes
<1> QED
  BY <1>1, <1>3, <1>4, Zenon DEF Types, Answered

Fields(p, step, key, id, certificate) ==
    p.step = step /\ p.key = key /\ p.id = id /\ p.certificate = certificate

LEMMA ServedFields ==
    ASSUME NEW c, NEW r, NEW k, NEW d, NEW certificate, Served(c, r, k, d, certificate)
    PROVE  /\ proc[c].key = k /\ proc'[c].key \in {0, k}
           /\ \/ proc'[c] = Idle /\ proc'[c].step = "idle"
              \/ d # None /\ Fields(proc'[c], "answered", k, d, certificate)
BY DEF Served, Process, Idle, None, Fields

\* A new device has the key that the request brought, and the answered command
\* the key that it sent.
LEMMA AnswerKeys ==
    ASSUME NEW r \in DOMAIN request, NEW k, NEW m, NEW d, NEW certificate,
           k = request[r].csr.key, m = HostOf[request[r].command], Grows(r, k, m),
           Answered(r, k, d, certificate), UNCHANGED file
    PROVE  \A n \in Machine : \A key : key # 0 /\ Holds(key, n)' => Holds(key, n)
<1> SUFFICES ASSUME NEW n \in Machine, NEW key, key # 0, Holds(key, n)'
             PROVE  Holds(key, n)
  OBVIOUS
<1>1. CASE file'[n].pending = key
  BY <1>1, Zenon DEF Holds
<1>2. CASE \E c \in Command : HostOf[c] = n /\ proc'[c].key = key
  <2>1. PICK c \in Command : HostOf[c] = n /\ proc'[c].key = key
    BY <1>2, Zenon
  <2>2. CASE Kept(c, r)
    BY <2>1, <2>2, Zenon DEF Kept, Holds
  <2>3. CASE Served(c, r, k, d, certificate)
    BY <2>1, <2>3, ServedFields, ZenonT(30) DEF Holds
  <2> QED
    BY <2>2, <2>3 DEF Answered
<1>3. CASE \E s \in DOMAIN request' : HostOf[request'[s].command] = n
                                      /\ request'[s].csr.key = key
  BY <1>3 DEF Answered, Holds
<1>4. CASE \E e \in DOMAIN enrolled' : enrolled'[e].machine = n /\ enrolled'[e].key = key
  BY <1>4, Zenon DEF Grows, Holds
<1> QED
  BY <1>1, <1>2, <1>3, <1>4, Zenon DEF Holds

LEMMA AnswerCommands ==
    ASSUME CommandsInv, NEW r \in DOMAIN request, NEW k, NEW m, NEW d, NEW certificate,
           m = HostOf[request[r].command], Grows(r, k, m),
           d = None \/ Given(d, k, m, certificate), Answered(r, k, d, certificate)
    PROVE  CommandsInv'
<1> SUFFICES ASSUME NEW c \in Command
             PROVE  /\ proc'[c].step = "idle" => proc'[c] = Idle
                    /\ proc'[c].step = "wait" /\ proc'[c].id \in DOMAIN request' =>
                          /\ request'[proc'[c].id].command = c
                          /\ request'[proc'[c].id].csr.key = proc'[c].key
                    /\ proc'[c].step = "wait" => proc'[c].id # None
                    /\ proc'[c].step = "answered" =>
                          /\ Enrolls(proc[c].id, proc[c].key, HostOf[c])'
                          /\ proc'[c].certificate = {CertOf(proc'[c].id, proc'[c].key)}
  BY ZenonT(30) DEF CommandsInv
<1>1. CASE Kept(c, r)
  <2>1. proc'[c] = proc[c] /\ ~(proc[c].step = "wait" /\ proc[c].id = r)
    BY <1>1, Zenon DEF Kept
  <2>2. \A e \in DOMAIN enrolled : e \in DOMAIN enrolled' /\ enrolled'[e] = enrolled[e]
    BY Zenon DEF Grows
  <2>3. \A s \in DOMAIN request' : s \in DOMAIN request /\ request'[s] = request[s]
    BY Zenon DEF Answered
  <2>4. /\ proc'[c].step = "idle" => proc'[c] = Idle
        /\ proc'[c].step = "wait" => proc'[c].id # None
    BY <2>1, Zenon DEF CommandsInv
  <2>5. proc[c].step = "wait" /\ proc[c].id \in DOMAIN request' =>
            /\ request'[proc[c].id].command = c
            /\ request'[proc[c].id].csr.key = proc[c].key
    <3>1. proc[c].step = "wait" /\ proc[c].id \in DOMAIN request =>
              /\ request[proc[c].id].command = c
              /\ request[proc[c].id].csr.key = proc[c].key
      BY Zenon DEF CommandsInv
    <3> QED
      BY <2>3, <3>1, Zenon
  <2>6. proc[c].step = "answered" =>
            /\ proc[c].id \in DOMAIN enrolled' /\ enrolled'[proc[c].id].key = proc[c].key
            /\ enrolled'[proc[c].id].machine = HostOf[c]
    <3>1. proc[c].step = "answered" => Enrolls(proc[c].id, proc[c].key, HostOf[c])
      BY Zenon DEF CommandsInv
    <3> QED
      BY <2>2, <3>1, Zenon DEF Enrolls
  <2>7. proc'[c].step = "answered" =>
            /\ Enrolls(proc[c].id, proc[c].key, HostOf[c])'
            /\ proc'[c].certificate = {CertOf(proc'[c].id, proc'[c].key)}
    BY <2>1, <2>6, Zenon DEF CommandsInv, Enrolls
  <2> QED
    BY <2>1, <2>4, <2>5, <2>7, Zenon
<1>2. CASE Served(c, r, k, d, certificate)
  <2>1. CASE proc'[c] = Idle /\ proc'[c].step = "idle"
    BY <2>1, Zenon
  <2>2. CASE d # None /\ Fields(proc'[c], "answered", k, d, certificate)
    <3>1. HostOf[c] = m
      BY <1>2 DEF Served
    <3> QED
      BY <2>2, <3>1, ZenonT(30) DEF Fields, Given, Enrolls
  <2>3. \/ proc'[c] = Idle /\ proc'[c].step = "idle"
        \/ d # None /\ Fields(proc'[c], "answered", k, d, certificate)
    BY <1>2, ServedFields, Zenon
  <2> QED
    BY <2>1, <2>2, <2>3, Zenon
<1> QED
  BY <1>1, <1>2, Zenon DEF Answered

\* Whatever a handler answers, with the device of its key or with an error, and
\* whether or not it has just created that device.
LEMMA AnswerPreserves ==
    ASSUME EnrollmentInv, NEW r \in DOMAIN request, NEW d, NEW certificate, NEW k, NEW m,
           k = request[r].csr.key, m = HostOf[request[r].command],
           Answer(r, d, certificate), UNCHANGED <<requests, file, agent, keys, raced>>,
           Grows(r, k, m), d = None \/ Given(d, k, m, certificate)
    PROVE  Types' /\ KeysInv' /\ FileInv' /\ CommandsInv' /\ AloneInv'
<1>1. k \in 1 .. keys /\ m \in Machine
  BY EnrollmentAssumption DEF EnrollmentInv, Types
<1>2. Answered(r, k, d, certificate) /\ Tabulated
  BY AnswerFacts, Zenon
<1>3. Types'
  BY <1>1, <1>2, AnswerTypes DEF EnrollmentInv
<1>4. \A n \in Machine : \A key : key # 0 /\ Holds(key, n)' => Holds(key, n)
  BY <1>2, AnswerKeys, Zenon
<1>5. KeysInv'
  BY <1>4, KeysShrink DEF EnrollmentInv, KeysInv
<1>6. FileInv'
  BY DEF EnrollmentInv, FileInv, Grows
<1>7. CommandsInv'
  BY <1>2, AnswerCommands, ZenonT(30) DEF EnrollmentInv
<1>8. AloneInv'
  <2>1. \A n : CurrentKey(n)' = CurrentKey(n)
    BY Zenon DEF CurrentKey
  <2>2. \A c \in Command : proc'[c].step # "idle" =>
            proc[c].step # "idle" /\ proc'[c].key = proc[c].key
    <3> SUFFICES ASSUME NEW c \in Command, proc'[c].step # "idle"
                 PROVE  proc[c].step # "idle" /\ proc'[c].key = proc[c].key
      BY Zenon
    <3>1. CASE Kept(c, r)
      BY <3>1, Zenon DEF Kept
    <3>2. CASE Served(c, r, k, d, certificate)
      <4>1. proc[c].step = "wait"
        BY <3>2, Zenon DEF Served
      <4>2. proc[c].key = k /\ Fields(proc'[c], "answered", k, d, certificate)
        BY <3>2, ServedFields, ZenonT(30)
      <4> QED
        BY <4>1, <4>2, Zenon DEF Fields
    <3> QED
      BY <1>2, <3>1, <3>2, Zenon DEF Answered
  <2>3. keys \in Nat
    BY DEF EnrollmentInv, Types
  <2> QED
    BY <1>4, <2>1, <2>2, <2>3 DEF EnrollmentInv, AloneInv
<1> QED
  BY <1>3, <1>5, <1>6, <1>7, <1>8, ZenonT(30)

\* The handler of a request goes on: nothing but its own state changes.
LEMMA AdvancePreserves ==
    ASSUME EnrollmentInv, NEW r \in DOMAIN request, NEW step, NEW seen,
           \/ request' = [request EXCEPT ![r].step = step]
           \/ request' = [request EXCEPT ![r].step = step, ![r].seen = seen],
           UNCHANGED <<requests, enrolled, machineVars>>
    PROVE  Types' /\ KeysInv' /\ FileInv' /\ CommandsInv' /\ AloneInv'
<1> USE DEF machineVars
<1>1. PICK command, csr, token, old, had :
          /\ command = request[r].command /\ csr = request[r].csr /\ token = request[r].token
          /\ old = request[r].step /\ had = request[r].seen
  OBVIOUS
<1>2. PICK f : f = request[r]
  OBVIOUS
<1>3. f = [command |-> command, csr |-> csr, token |-> token, step |-> old, seen |-> had]
  BY <1>1, <1>2 DEF EnrollmentInv, Types, Shapes, Asked
<1>4. PICK g : g = [f EXCEPT !.step = step]
  BY Zenon
<1>5. g = [command |-> command, csr |-> csr, token |-> token, step |-> step, seen |-> had]
  BY <1>3, <1>4
<1>6. PICK h : h = [g EXCEPT !.seen = seen]
  BY Zenon
<1>7. h = [command |-> command, csr |-> csr, token |-> token, step |-> step, seen |-> seen]
  BY <1>5, <1>6
<1>8. request' = [request EXCEPT ![r] = g] \/ request' = [request EXCEPT ![r] = h]
  BY <1>2, <1>4, <1>6
<1>9. /\ DOMAIN request' = DOMAIN request
      /\ request' = [s \in DOMAIN request' |-> request'[s]]
      /\ \A s \in DOMAIN request \ {r} : request'[s] = request[s]
      /\ request'[r] = [command |-> command, csr |-> csr, token |-> token,
                        step |-> request'[r].step, seen |-> request'[r].seen]
  BY <1>5, <1>7, <1>8
<1>10. \A s \in DOMAIN request : /\ request'[s].command = request[s].command
                                 /\ request'[s].csr = request[s].csr
                                 /\ request'[s].token = request[s].token
  BY <1>1, <1>9
<1>11. Types'
  <2>1. \A s \in DOMAIN request \ {r} : request'[s] = Asked(s)'
    BY <1>9 DEF EnrollmentInv, Types, Shapes, Asked
  <2>2. request'[r] = Asked(r)'
    BY <1>9 DEF Asked
  <2>3. request' = [s \in DOMAIN request' |-> Asked(s)']
    BY <1>9, <2>1, <2>2, Zenon
  <2>4. proc' = [c \in Command |-> State(c)']
    BY DEF EnrollmentInv, Types, Shapes, State, Process
  <2>5. \A s \in DOMAIN request' : /\ s \in 1 .. requests /\ request'[s].command \in Command
                                   /\ request'[s].token \in Token
                                   /\ request'[s].csr.key \in 1 .. keys
    BY <1>9, <1>10 DEF EnrollmentInv, Types
  <2> QED
    BY <1>9, <2>3, <2>4, <2>5, Zenon DEF EnrollmentInv, Types, Shapes
<1>12. \A key, n : Holds(key, n)' = Holds(key, n)
  BY <1>9, <1>10 DEF Holds
<1>13. KeysInv' /\ FileInv'
  BY <1>12, ZenonT(30) DEF EnrollmentInv, KeysInv, FileInv
<1>14. CommandsInv'
  BY <1>9, <1>10 DEF EnrollmentInv, CommandsInv, Enrolls
<1>15. AloneInv'
  BY <1>12 DEF EnrollmentInv, AloneInv, CurrentKey
<1> QED
  BY <1>11, <1>13, <1>14, <1>15

\* A machine that is registered gets its own device's certificate: the key that
\* finds the device is held by no other machine.
LEMMA FindDevicePreserves ==
    ASSUME EnrollmentInv, NEW r \in DOMAIN request, FindDevice(r) PROVE EnrollmentInv'
<1> USE EnrollmentAssumption
<1>0. PICK k, m : k = request[r].csr.key /\ m = HostOf[request[r].command]
  OBVIOUS
<1>1. /\ UNCHANGED <<spent, tokens, enrolled>> /\ UNCHANGED <<devices, enrolled>>
      /\ UNCHANGED enrolled /\ UNCHANGED <<requests, file, agent, keys, raced>>
  BY Zenon DEF FindDevice, adminVars, serverVars
<1>2. /\ k \in 1 .. keys /\ m \in Machine /\ Holds(k, m)
  BY <1>0 DEF EnrollmentInv, Types, Holds
<1>3. CASE request' = [request EXCEPT ![r].step = "token"] /\ UNCHANGED proc
  <2>1. Types' /\ KeysInv' /\ FileInv' /\ CommandsInv' /\ AloneInv'
    BY <1>1, <1>3, AdvancePreserves, Zenon DEF machineVars
  <2> QED
    BY <1>1, <2>1, SameTokens, SameDevices DEF EnrollmentInv
<1>4. CASE \E d \in queries!FindDeviceByIdentityKey(devices, k) :
               Answer(r, d, devices[d].active_certificate)
  <2>1. PICK d \in DOMAIN devices : /\ devices[d].identity_public_key = k
                                    /\ Answer(r, d, devices[d].active_certificate)
    BY <1>4 DEF queries!FindDeviceByIdentityKey
  <2>2. PICK certificate : certificate = devices[d].active_certificate
    BY Zenon
  <2>3. /\ d \in DOMAIN enrolled /\ enrolled[d].key = k /\ certificate = {CertOf(d, k)}
        /\ enrolled[d].machine \in Machine
    BY <2>1, <2>2, Zenon DEF EnrollmentInv, DevicesInv, Types
  <2>4. Holds(k, enrolled[d].machine)
    BY <2>3, Zenon DEF Holds
  <2>5. enrolled[d].machine = m
    BY <2>3, <2>4, <1>2, Zenon DEF EnrollmentInv, KeysInv
  <2>6. Given(d, k, m, certificate) /\ Grows(r, k, m)
    BY <1>1, <2>3, <2>5 DEF Given, Enrolls, Grows
  <2>7. Answer(r, d, certificate)
    BY <2>1, <2>2, Zenon
  <2>8. Types' /\ KeysInv' /\ FileInv' /\ CommandsInv' /\ AloneInv'
    BY <1>0, <1>1, <2>6, <2>7, AnswerPreserves
  <2> QED
    BY <1>1, <2>8, SameTokens, SameDevices DEF EnrollmentInv
<1> QED
  BY <1>0, <1>3, <1>4 DEF FindDevice, EnrollmentIdentityFromCSR

LEMMA FindTokenPreserves ==
    ASSUME EnrollmentInv, NEW r \in DOMAIN request, FindToken(r) PROVE EnrollmentInv'
<1>0. PICK k, m : k = request[r].csr.key /\ m = HostOf[request[r].command]
  OBVIOUS
<1>1. /\ UNCHANGED <<spent, tokens, enrolled>> /\ UNCHANGED <<devices, enrolled>>
      /\ UNCHANGED enrolled /\ UNCHANGED <<requests, file, agent, keys, raced>>
  BY DEF FindToken, adminVars, serverVars
<1>2. PICK seen : seen = {tokens[request[r].token]}
  BY Zenon
<1>3. CASE /\ request' = [request EXCEPT ![r].step = "consume", ![r].seen = seen]
           /\ UNCHANGED proc
  <2>1. Types' /\ KeysInv' /\ FileInv' /\ CommandsInv' /\ AloneInv'
    BY <1>1, <1>3, AdvancePreserves, Zenon DEF machineVars
  <2> QED
    BY <1>1, <2>1, SameTokens, SameDevices DEF EnrollmentInv
<1>4. CASE Answer(r, None, {})
  <2>1. Grows(r, k, m)
    BY <1>1, ZenonT(30) DEF Grows
  <2>2. Types' /\ KeysInv' /\ FileInv' /\ CommandsInv' /\ AloneInv'
    BY <1>0, <1>1, <1>4, <2>1, AnswerPreserves
  <2> QED
    BY <1>1, <2>2, SameTokens, SameDevices DEF EnrollmentInv
<1> QED
  BY <1>2, <1>3, <1>4 DEF FindToken

\* A use of a token finds it usable, whatever row its handler remembers, and
\* leaves it counted and still usable, or not at all.
LEMMA ConsumeFacts ==
    ASSUME TokensInv, NEW t \in Token, NEW row,
           NEW consumed \in consumeRegistrationToken(t, row)
    PROVE  /\ t \in DOMAIN tokens /\ queries!usable(tokens[t])
           /\ \/ consumed = [u \in DOMAIN tokens \ {t} |-> tokens[u]]
              \/ /\ consumed = [u \in DOMAIN tokens |->
                        IF u = t THEN [tokens[t] EXCEPT !.current_uses = @ + 1] ELSE tokens[u]]
                 /\ queries!usable(consumed[t])
<1> DEFINE G == queries!GetUsableRegistrationToken(tokens, {t}, t)
           counted == queries!ConsumeRegistrationToken(tokens, {t}, t)
           last == queries!ConsumeFinalRegistrationToken(tokens, {t}, t)
<1>1. G = IF t \in DOMAIN tokens /\ queries!usable(tokens[t]) THEN {t} ELSE {}
  BY DEF queries!GetUsableRegistrationToken, queries!Get
<1>2. counted = [u \in DOMAIN tokens |->
                    IF u \in G THEN [tokens[u] EXCEPT !.current_uses = @ + 1] ELSE tokens[u]]
  BY DEF queries!ConsumeRegistrationToken, queries!Update
<1>3. last = [u \in DOMAIN tokens \ {v \in G : queries!final(tokens[v])} |-> tokens[u]]
  BY DEF queries!ConsumeFinalRegistrationToken, queries!Keep
<1> HIDE DEF G, counted, last
<1>4. /\ consumed # tokens
      /\ consumed = IF queries!final(row) THEN last
                    ELSE IF counted # tokens /\ ~queries!usable(counted[t])
                    THEN queries!DeleteRegistrationToken(counted, t) ELSE counted
  BY DEF consumeRegistrationToken, counted, last
<1>5. tokens = [u \in DOMAIN tokens |-> tokens[u]]
  BY DEF TokensInv
<1>6. G = {t}
  <2> SUFFICES ASSUME G # {t} PROVE FALSE
    OBVIOUS
  <2>1. G = {}
    BY <1>1
  <2>2. counted = [u \in DOMAIN tokens |-> tokens[u]]
    BY <1>2, <2>1
  <2>3. last = [u \in DOMAIN tokens |-> tokens[u]]
    BY <1>3, <2>1
  <2> QED
    BY <1>4, <1>5, <2>2, <2>3
<1>7. t \in DOMAIN tokens /\ queries!usable(tokens[t])
  BY <1>1, <1>6
<1>8. CASE queries!final(row)
  <2>1. consumed = last
    BY <1>4, <1>8
  <2>2. queries!final(tokens[t])
    <3> SUFFICES ASSUME ~queries!final(tokens[t]) PROVE FALSE
      OBVIOUS
    <3>1. last = [u \in DOMAIN tokens |-> tokens[u]]
      BY <1>3, <1>6
    <3> QED
      BY <1>4, <1>5, <2>1, <3>1
  <2>3. {v \in G : queries!final(tokens[v])} = {t}
    BY <1>6, <2>2
  <2> QED
    BY <1>3, <1>7, <2>1, <2>3
<1>9. CASE ~queries!final(row)
  <2>1. counted = [u \in DOMAIN tokens |->
                      IF u = t THEN [tokens[t] EXCEPT !.current_uses = @ + 1] ELSE tokens[u]]
    BY <1>2, <1>6
  <2>2. CASE queries!usable(counted[t])
    BY <1>4, <1>7, <1>9, <2>1, <2>2
  <2>3. CASE ~queries!usable(counted[t])
    <3>1. DOMAIN counted = DOMAIN tokens /\ \A u \in DOMAIN tokens \ {t} : counted[u] = tokens[u]
      BY <2>1
    <3>2. counted # tokens
      BY <1>7, <2>3
    <3>3. consumed = [u \in DOMAIN counted \ {t} |-> counted[u]]
      BY <1>4, <1>9, <2>3, <3>2, ZenonT(30)
      DEF queries!DeleteRegistrationToken, queries!Delete, queries!Keep
    <3> QED
      BY <1>7, <3>1, <3>3
  <2> QED
    BY <2>2, <2>3
<1> QED
  BY <1>8, <1>9

\* The new row, and what the model remembers of it.
Created(r, t, k, m, certificate) ==
    /\ queries!FindDeviceByIdentityKey(devices, k) = {}
    /\ devices' = queries!CreateDevice(devices, r,
           [identity_public_key |-> k, active_certificate |-> certificate])
    /\ enrolled' = queries!Insert(enrolled, r, [token |-> t, key |-> k, machine |-> m])

LEMMA CreatedFacts ==
    ASSUME NEW r, NEW t, NEW k, NEW m, NEW certificate, r \notin DOMAIN enrolled,
           Created(r, t, k, m, certificate)
    PROVE  /\ DOMAIN devices' = DOMAIN devices \cup {r}
           /\ DOMAIN enrolled' = DOMAIN enrolled \cup {r}
           /\ devices'[r].identity_public_key = k /\ devices'[r].active_certificate = certificate
           /\ enrolled'[r].key = k /\ enrolled'[r].machine = m
           /\ \A d \in DOMAIN devices : /\ d # r => devices'[d] = devices[d]
                                        /\ devices[d].identity_public_key # k
           /\ \A d \in DOMAIN enrolled : enrolled'[d] = enrolled[d]
BY DEF Created, queries!CreateDevice, queries!Insert, queries!FindDeviceByIdentityKey

\* The new device has the key of the request's machine, which no other device has.
LEMMA CreatePreserves ==
    ASSUME DevicesInv, NEW r, NEW t, NEW k, NEW m, r \notin DOMAIN enrolled,
           Created(r, t, k, m, {CertOf(r, k)})
    PROVE  DevicesInv'
<1>1. /\ DOMAIN devices' = DOMAIN devices \cup {r}
      /\ DOMAIN enrolled' = DOMAIN enrolled \cup {r}
      /\ DOMAIN devices \subseteq DOMAIN enrolled
  BY CreatedFacts, Zenon DEF DevicesInv
<1>2. /\ devices'[r].identity_public_key = k /\ devices'[r].active_certificate = {CertOf(r, k)}
      /\ enrolled'[r].key = k
  BY CreatedFacts, Zenon
<1>3. \A d \in DOMAIN devices : /\ d # r => devices'[d] = devices[d]
                                /\ devices[d].identity_public_key # k
  BY CreatedFacts, ZenonT(30)
<1>4. \A d \in DOMAIN enrolled : enrolled'[d] = enrolled[d]
  BY CreatedFacts, Zenon
<1>5. \A d \in DOMAIN devices' : /\ devices'[d].identity_public_key = enrolled'[d].key
                                 /\ devices'[d].active_certificate = {CertOf(d, enrolled'[d].key)}
  BY <1>1, <1>2, <1>3, <1>4, Zenon DEF DevicesInv
<1>6. ASSUME DOMAIN devices' = DOMAIN enrolled', NEW d \in DOMAIN enrolled',
             NEW e \in DOMAIN enrolled', enrolled'[d].key = enrolled'[e].key
      PROVE  d = e
  <2>1. DOMAIN devices = DOMAIN enrolled
    BY <1>1, <1>6, Zenon
  <2>2. \A c \in DOMAIN enrolled : enrolled[c].key # k
    BY <1>3, <2>1, ZenonT(30) DEF DevicesInv
  <2>3. \A c, f \in DOMAIN enrolled : enrolled[c].key = enrolled[f].key => c = f
    BY <2>1, Zenon DEF DevicesInv
  <2> QED
    BY <1>1, <1>2, <1>4, <1>6, <2>2, <2>3
<1> QED
  BY <1>1, <1>5, <1>6, Zenon DEF DevicesInv, CertOf, IssueCertificateFromCSR, GenerateCSR

LEMMA CreatedGrows ==
    ASSUME NEW r, NEW t, NEW k, NEW m, NEW certificate, r \notin DOMAIN enrolled,
           Created(r, t, k, m, certificate)
    PROVE  Grows(r, k, m) /\ Enrolls(r, k, m)'
<1>1. /\ DOMAIN enrolled' = DOMAIN enrolled \cup {r}
      /\ enrolled'[r].key = k /\ enrolled'[r].machine = m
      /\ \A d \in DOMAIN enrolled : enrolled'[d] = enrolled[d]
  BY CreatedFacts, ZenonT(30)
<1> QED
  BY <1>1 DEF Grows, Enrolls

-------------------------------------------------------------------------------
(* The steps that count: what they use of finite sets is Counting, which the *)
(* library's theorems prove below.                                           *)

Counting ==
    /\ Cardinality({}) = 0
    /\ \A n \in Nat : IsFiniteSet(1 .. n)
    /\ \A S : IsFiniteSet(S) => Cardinality(S) \in Nat
    /\ \A S : IsFiniteSet(S) => \A T \in SUBSET S : IsFiniteSet(T)
    /\ \A S, x : IsFiniteSet(S) /\ x \notin S => Cardinality(S \cup {x}) = Cardinality(S) + 1

LEMMA InitInv ==
    ASSUME Counting, Init PROVE EnrollmentInv
<1> USE EnrollmentAssumption DEF Init, None
<1>1. DOMAIN tokens = {} /\ DOMAIN devices = {} /\ DOMAIN enrolled = {} /\ DOMAIN request = {}
  OBVIOUS
<1>2. \A m \in Machine : /\ file[m] = NoCredentials /\ agent[m] = NoCredentials
                         /\ file[m].pending = 0
  BY DEF NoCredentials, Pending
<1>3. \A c \in Command : proc[c] = Idle
  OBVIOUS
<1>4. Types
  <2>1. request = [r \in DOMAIN request |-> Asked(r)]
    BY <1>1
  <2>2. proc = [c \in Command |-> State(c)]
    BY DEF Idle, State, Process
  <2>3. \A c \in Command : proc[c].key = 0 /\ proc[c].id = 0 /\ proc[c].step = "idle"
    BY <1>3 DEF Idle, Process
  <2> QED
    BY <1>1, <2>1, <2>2, <2>3 DEF Types, Shapes
<1>5. TokensInv
  <2>1. \A t : EnrolledWith(t) = {}
    BY <1>1, Zenon DEF EnrolledWith
  <2> QED
    <3>1. \A t \in Token : MaxUses[t] \in Nat /\ Cardinality(EnrolledWith(t)) = 0
      <4>1. Cardinality({}) = 0
        BY Zenon DEF Counting
      <4>2. \A t \in Token : MaxUses[t] \in Nat
        BY EnrollmentAssumption
      <4> QED
        BY <2>1, <4>1, <4>2, Zenon
    <3>2. UsesCountDevices
      BY <1>1, <3>1 DEF UsesCountDevices
    <3> QED
      BY <1>1, <2>1, <3>2 DEF TokensInv
<1>6. DevicesInv
  BY <1>1 DEF DevicesInv
<1>7. KeysInv
  BY <1>2 DEF KeysInv
<1>8. FileInv
  BY <1>2, ZenonT(30) DEF FileInv, Pending, NoCredentials
<1>9. CommandsInv /\ AloneInv
  BY <1>2, <1>3 DEF CommandsInv, AloneInv, Idle, Process
<1> QED
  BY <1>4, <1>5, <1>6, <1>7, <1>8, <1>9 DEF EnrollmentInv

\* The devices of a token are as many as there are.
LEMMA EnrolledIsFinite ==
    ASSUME Counting, Types
    PROVE  \A t : IsFiniteSet(EnrolledWith(t)) /\ Cardinality(EnrolledWith(t)) \in Nat
<1>1. \A t : EnrolledWith(t) \subseteq 1 .. requests
  BY DEF Types, EnrolledWith
<1>2. IsFiniteSet(1 .. requests)
  BY DEF Counting, Types
<1> QED
  BY <1>1, <1>2, ZenonT(30) DEF Counting

\* A new token has enrolled no device yet.
LEMMA CreateTokenPreserves ==
    ASSUME Counting, EnrollmentInv, NEW t \in Token, CreateToken(t) PROVE EnrollmentInv'
<1> USE EnrollmentAssumption
<1>1. /\ t \notin spent /\ spent' = spent \cup {t}
      /\ UNCHANGED <<devices, enrolled>>
      /\ UNCHANGED <<request, requests, enrolled, machineVars>>
  BY DEF CreateToken
<1>2. tokens' = [u \in DOMAIN tokens \cup {t} |->
                    IF u = t THEN [max_uses |-> MaxUses[t], current_uses |-> 0] ELSE tokens[u]]
  BY DEF CreateToken, queries!CreateRegistrationToken, queries!Insert
<1>3. TokensInv'
  <2>1. \A u : EnrolledWith(u)' = EnrolledWith(u)
    BY <1>1 DEF EnrolledWith
  <2>2. EnrolledWith(t) = {} /\ Cardinality(EnrolledWith(t)) = 0
    <3>1. Cardinality({}) = 0
      BY Zenon DEF Counting
    <3> QED
      BY <1>1, <3>1, Zenon DEF EnrollmentInv, TokensInv
  <2>3. tokens'[t] = [max_uses |-> MaxUses[t], current_uses |-> 0] /\ MaxUses[t] \in Nat
    BY <1>2
  <2>4. \A u \in DOMAIN tokens : u # t /\ tokens'[u] = tokens[u]
    BY <1>1, <1>2 DEF EnrollmentInv, TokensInv
  <2>5. DOMAIN tokens' = DOMAIN tokens \cup {t}
    BY <1>2
  <2>6. \A u \in DOMAIN tokens : /\ tokens[u].current_uses = Cardinality(EnrolledWith(u))
                                 /\ queries!usable(tokens[u])
                                 /\ tokens[u] \in [max_uses : Nat, current_uses : Nat]
                                 /\ tokens[u].max_uses = MaxUses[u]
    BY DEF EnrollmentInv, TokensInv, UsesCountDevices
  <2>7. queries!usable(tokens'[t])
    BY <2>3 DEF queries!usable
  <2>8. \A u \in DOMAIN tokens' : /\ tokens'[u].current_uses = Cardinality(EnrolledWith(u))
                                  /\ queries!usable(tokens'[u])
    <3> SUFFICES ASSUME NEW u \in DOMAIN tokens'
                 PROVE  /\ tokens'[u].current_uses = Cardinality(EnrolledWith(u))
                        /\ queries!usable(tokens'[u])
      OBVIOUS
    <3>1. CASE u = t
      <4>1. [max_uses |-> MaxUses[t], current_uses |-> 0].current_uses = 0
        OBVIOUS
      <4> QED
        BY <2>2, <2>3, <2>7, <3>1, <4>1, Zenon
    <3>2. CASE u # t
      BY <2>4, <2>5, <2>6, <3>2 DEF queries!usable
    <3> QED
      BY <3>1, <3>2
  <2>9. \A u \in Token : MaxUses[u] > 0 => Cardinality(EnrolledWith(u)) <= MaxUses[u]
    BY DEF EnrollmentInv, TokensInv, UsesCountDevices
  <2>10. UsesCountDevices'
    <3>1. (\A u \in Token : MaxUses[u] > 0 => Cardinality(EnrolledWith(u)) <= MaxUses[u])'
      BY <2>1, <2>9, Zenon
    <3>2. (\A u \in DOMAIN tokens : /\ tokens[u].current_uses = Cardinality(EnrolledWith(u))
                                     /\ queries!usable(tokens[u]))'
      BY <2>1, <2>8 DEF queries!usable
    <3> QED
      BY <3>1, <3>2 DEF UsesCountDevices
  <2>11. \A u \in DOMAIN tokens' : /\ tokens'[u] \in [max_uses : Nat, current_uses : Nat]
                                   /\ tokens'[u].max_uses = MaxUses[u]
    <3>1. /\ tokens'[t] \in [max_uses : Nat, current_uses : Nat]
          /\ tokens'[t].max_uses = MaxUses[t]
      BY <2>3
    <3> QED
      BY <2>4, <2>5, <2>6, <3>1, ZenonT(30)
  <2>12. tokens' = [u \in DOMAIN tokens' |-> tokens'[u]]
    BY <1>2
  <2>13. \A u \in Token \ spent' : EnrolledWith(u)' = {}
    BY <1>1, <2>1 DEF EnrollmentInv, TokensInv
  <2>14. spent' \subseteq Token /\ DOMAIN tokens' \subseteq spent'
    BY <1>1, <2>5, Zenon DEF EnrollmentInv, TokensInv
  <2> QED
    BY <2>10, <2>11, <2>12, <2>13, <2>14 DEF TokensInv
<1> QED
  BY <1>1, <1>3, SameDevices, SameRest DEF EnrollmentInv

\* The use and the device it creates are one transaction.
LEMMA UseIsCounted ==
    ASSUME Counting, EnrollmentInv, NEW t \in Token, NEW r, NEW row, NEW new,
           r \notin DOMAIN enrolled, new.token = t,
           tokens' \in consumeRegistrationToken(t, row), UNCHANGED spent,
           enrolled' = queries!Insert(enrolled, r, new)
    PROVE  TokensInv'
<1> USE EnrollmentAssumption
<1>1. PICK consumed : consumed = tokens' /\ consumed \in consumeRegistrationToken(t, row)
  OBVIOUS
<1>2. /\ t \in DOMAIN tokens /\ queries!usable(tokens[t])
      /\ \/ tokens' = [u \in DOMAIN tokens \ {t} |-> tokens[u]]
         \/ /\ tokens' = [u \in DOMAIN tokens |->
                   IF u = t THEN [tokens[t] EXCEPT !.current_uses = @ + 1] ELSE tokens[u]]
            /\ queries!usable(tokens'[t])
  BY <1>1, ConsumeFacts, Zenon DEF EnrollmentInv
<1>3. EnrolledWith(t)' = EnrolledWith(t) \cup {r} /\ r \notin EnrolledWith(t)
      /\ \A u : u # t => EnrolledWith(u)' = EnrolledWith(u)
  BY DEF EnrolledWith, queries!Insert
<1>4. Cardinality(EnrolledWith(t)') = Cardinality(EnrolledWith(t)) + 1
  BY <1>3, EnrolledIsFinite, Zenon DEF Counting, EnrollmentInv
<1>5. /\ tokens[t].current_uses = Cardinality(EnrolledWith(t))
      /\ tokens[t] \in [max_uses : Nat, current_uses : Nat] /\ tokens[t].max_uses = MaxUses[t]
  BY <1>2, ZenonT(30) DEF EnrollmentInv, TokensInv, UsesCountDevices
<1>6. MaxUses[t] > 0 => Cardinality(EnrolledWith(t)') <= MaxUses[t]
  <2>1. MaxUses[t] > 0 => tokens[t].current_uses < MaxUses[t]
    BY <1>2, <1>5 DEF queries!usable
  <2> QED
    BY <2>1, <1>4, <1>5
<1>7. /\ DOMAIN tokens' \subseteq DOMAIN tokens /\ tokens' = [u \in DOMAIN tokens' |-> tokens'[u]]
      /\ \A u \in DOMAIN tokens' : u # t => tokens'[u] = tokens[u]
      /\ t \in DOMAIN tokens' =>
            /\ tokens'[t] \in [max_uses : Nat, current_uses : Nat]
            /\ tokens'[t].max_uses = MaxUses[t]
            /\ tokens'[t].current_uses = tokens[t].current_uses + 1
            /\ queries!usable(tokens'[t])
  <2>1. CASE tokens' = [u \in DOMAIN tokens \ {t} |-> tokens[u]]
    BY <2>1
  <2>2. CASE /\ tokens' = [u \in DOMAIN tokens |->
                   IF u = t THEN [tokens[t] EXCEPT !.current_uses = @ + 1] ELSE tokens[u]]
             /\ queries!usable(tokens'[t])
    <3>1. tokens'[t] = [tokens[t] EXCEPT !.current_uses = @ + 1]
      BY <2>2, <1>2
    <3>2. /\ tokens'[t] \in [max_uses : Nat, current_uses : Nat]
          /\ tokens'[t].max_uses = MaxUses[t]
          /\ tokens'[t].current_uses = tokens[t].current_uses + 1
      BY <3>1, <1>5
    <3>3. DOMAIN tokens' = DOMAIN tokens /\ \A u \in DOMAIN tokens' : u # t => tokens'[u] = tokens[u]
      BY <2>2
    <3>4. tokens' = [u \in DOMAIN tokens' |-> tokens'[u]]
      BY <2>2, Zenon
    <3> QED
      BY <2>2, <3>2, <3>3, <3>4
  <2> QED
    BY <1>2, <2>1, <2>2, ZenonT(30)
<1>8. UsesCountDevices'
  <2>1. \A u \in Token : MaxUses[u] > 0 => Cardinality(EnrolledWith(u)') <= MaxUses[u]
    BY <1>3, <1>6, Zenon DEF EnrollmentInv, TokensInv, UsesCountDevices
  <2>2. \A u \in DOMAIN tokens : /\ tokens[u].current_uses = Cardinality(EnrolledWith(u))
                                 /\ queries!usable(tokens[u])
    BY ZenonT(30) DEF EnrollmentInv, TokensInv, UsesCountDevices
  <2>3. \A u \in DOMAIN tokens' : /\ tokens'[u].current_uses = Cardinality(EnrolledWith(u)')
                                  /\ queries!usable(tokens'[u])
    <3> SUFFICES ASSUME NEW u \in DOMAIN tokens'
                 PROVE  /\ tokens'[u].current_uses = Cardinality(EnrolledWith(u)')
                        /\ queries!usable(tokens'[u])
      BY Zenon
    <3>1. CASE u = t
      BY <1>4, <1>5, <1>7, <3>1, Zenon
    <3>2. CASE u # t
      <4>1. u \in DOMAIN tokens /\ tokens'[u] = tokens[u] /\ EnrolledWith(u)' = EnrolledWith(u)
        BY <1>3, <1>7, <3>2
      <4> QED
        BY <2>2, <4>1, Zenon DEF queries!usable
    <3> QED
      BY <3>1, <3>2
  <2>4. (\A u \in Token : MaxUses[u] > 0 => Cardinality(EnrolledWith(u)) <= MaxUses[u])'
    BY <2>1, ZenonT(30)
  <2>5. (\A u \in DOMAIN tokens : /\ tokens[u].current_uses = Cardinality(EnrolledWith(u))
                                   /\ queries!usable(tokens[u]))'
    BY <2>3 DEF queries!usable
  <2> QED
    BY <2>4, <2>5, Zenon DEF UsesCountDevices
<1>9. \A u \in Token \ spent : EnrolledWith(u)' = {}
  BY <1>2, <1>3, Zenon DEF EnrollmentInv, TokensInv
<1> QED
  BY <1>7, <1>8, <1>9 DEF EnrollmentInv, TokensInv

LEMMA CreateRegisters ==
    ASSUME Counting, EnrollmentInv, NEW r \in DOMAIN request, NEW t \in Token, NEW k, NEW m, NEW row,
           k = request[r].csr.key, m = HostOf[request[r].command],
           tokens' \in consumeRegistrationToken(t, row), Created(r, t, k, m, {CertOf(r, k)}),
           Answer(r, r, {CertOf(r, k)}), UNCHANGED <<spent, requests, file, agent, keys, raced>>
    PROVE  EnrollmentInv'
<1>1. r \notin DOMAIN enrolled
  BY DEF EnrollmentInv, Types
<1>2. TokensInv'
  <2>1. PICK new : new = [token |-> t, key |-> k, machine |-> m]
    BY Zenon
  <2>2. new.token = t /\ enrolled' = queries!Insert(enrolled, r, new)
    <3>1. [token |-> t, key |-> k, machine |-> m].token = t
      OBVIOUS
    <3> QED
      BY <2>1, <3>1, ZenonT(30) DEF Created
  <2> QED
    BY <1>1, <2>2, UseIsCounted, Zenon
<1>3. DevicesInv'
  BY <1>1, CreatePreserves, Zenon DEF EnrollmentInv
<1>4. Grows(r, k, m) /\ Enrolls(r, k, m)'
  BY <1>1, CreatedGrows, Zenon
<1>5. Given(r, k, m, {CertOf(r, k)})
  BY <1>4, Zenon DEF Given
<1>6. Types' /\ KeysInv' /\ FileInv' /\ CommandsInv' /\ AloneInv'
  BY <1>4, <1>5, AnswerPreserves, Zenon
<1> QED
  BY <1>2, <1>3, <1>6, ZenonT(30) DEF EnrollmentInv

LEMMA RegisterPreserves ==
    ASSUME Counting, EnrollmentInv, NEW r \in DOMAIN request, Register(r) PROVE EnrollmentInv'
<1>0. PICK k, m, t : k = request[r].csr.key /\ m = HostOf[request[r].command]
                     /\ t = request[r].token
  BY Zenon
<1>1. /\ UNCHANGED spent /\ UNCHANGED <<requests, file, agent, keys, raced>>
  BY Zenon DEF Register, adminVars
<1>2. t \in Token
  BY <1>0, Zenon DEF EnrollmentInv, Types
<1>3. {CertOf(r, k)} = {IssueCertificateFromCSR(r, request[r].csr, 0)}
  BY <1>0, Zenon DEF CertOf, IssueCertificateFromCSR, GenerateCSR
<1>4. CASE Answer(r, None, {}) /\ UNCHANGED serverVars
  <2>1. /\ UNCHANGED <<spent, tokens, enrolled>> /\ UNCHANGED <<devices, enrolled>>
        /\ Grows(r, k, m)
    BY <1>1, <1>4, ZenonT(30) DEF serverVars, Grows
  <2>2. Types' /\ KeysInv' /\ FileInv' /\ CommandsInv' /\ AloneInv'
    BY <1>0, <1>1, <1>4, <2>1, AnswerPreserves
  <2> QED
    BY <2>1, <2>2, SameTokens, SameDevices, Zenon DEF EnrollmentInv
<1>5. ASSUME NEW consumed \in UNION {consumeRegistrationToken(t, row) : row \in request[r].seen},
             tokens' = consumed, Created(r, t, k, m, {CertOf(r, k)}),
             Answer(r, r, {CertOf(r, k)})
      PROVE  EnrollmentInv'
  <2>1. PICK row : tokens' \in consumeRegistrationToken(t, row)
    BY <1>5, Zenon
  <2> QED
    BY <1>0, <1>1, <1>2, <1>5, <2>1, CreateRegisters, Zenon
<1> QED
  BY <1>0, <1>3, <1>4, <1>5, Zenon DEF Register, EnrollmentIdentityFromCSR, Created

LEMMA EnrollmentStep ==
    ASSUME Counting, EnrollmentInv, [Next]_vars PROVE EnrollmentInv'
<1>1. ASSUME NEW t \in Token, CreateToken(t) \/ DeleteToken(t) \/ TokenExpires(t)
      PROVE  EnrollmentInv'
  BY <1>1, CreateTokenPreserves, DeleteTokenPreserves, TokenExpiresPreserves
<1>2. ASSUME NEW d \in Id, DeleteDevice(d) PROVE EnrollmentInv'
  BY <1>2, DeleteDevicePreserves
<1>3. ASSUME NEW c \in Command, LoadCredentials(c) \/ GiveUp(c) \/ SaveCredentials(c)
      PROVE  EnrollmentInv'
  BY <1>3, LoadPreserves, GiveUpPreserves, SavePreserves
<1>4. ASSUME NEW c \in Command, NEW i \in Invocation, enroll(c, runEnroll(i))
      PROVE  EnrollmentInv'
  <2>1. PICK t : t = runEnroll(i)
    BY Zenon
  <2>2. t \in Token \cup {NoToken}
    BY <2>1, EnrollmentAssumption DEF runEnroll, resolveEnrollToken
  <2>3. enroll(c, t)
    BY <1>4, <2>1
  <2> QED
    BY <2>2, <2>3, EnrollPreserves
<1>5. ASSUME NEW m \in Machine, StartAgent(m) PROVE EnrollmentInv'
  BY <1>5, StartAgentPreserves, Zenon
<1>6. ASSUME NEW r \in DOMAIN request, FindDevice(r) \/ FindToken(r) \/ Register(r)
      PROVE  EnrollmentInv'
  BY <1>6, FindDevicePreserves, FindTokenPreserves, RegisterPreserves, Zenon
<1>7. CASE UNCHANGED vars
  <2>1. /\ UNCHANGED <<spent, tokens, enrolled>> /\ UNCHANGED <<devices, enrolled>>
        /\ UNCHANGED <<request, requests, enrolled, machineVars>>
    BY <1>7 DEF vars, adminVars, serverVars
  <2> QED
    BY <2>1, SameTokens, SameDevices, SameRest, Zenon DEF EnrollmentInv
<1> QED
  BY <1>1, <1>2, <1>3, <1>4, <1>5, <1>6, <1>7 DEF Next

LEMMA OneDevice == EnrollmentInv => OneDevicePerMachine
<1> SUFFICES ASSUME EnrollmentInv, DOMAIN devices = DOMAIN enrolled,
                    NEW d \in DOMAIN enrolled, NEW e \in DOMAIN enrolled,
                    enrolled[d].machine = enrolled[e].machine,
                    enrolled[d].machine \notin raced
             PROVE  d = e
  BY Zenon DEF OneDevicePerMachine
<1>1. PICK m : m = enrolled[d].machine
  BY Zenon
<1>2. /\ m \in Machine \ raced
      /\ enrolled[d].key \in 1 .. keys /\ enrolled[e].key \in 1 .. keys
  BY <1>1, Zenon DEF EnrollmentInv, Types
<1>3. Holds(enrolled[d].key, m) /\ Holds(enrolled[e].key, m)
  BY <1>1, Zenon DEF Holds
<1>4. enrolled[d].key = CurrentKey(m) /\ enrolled[e].key = CurrentKey(m)
  BY <1>2, <1>3, Zenon DEF EnrollmentInv, AloneInv
<1> QED
  BY <1>4, Zenon DEF EnrollmentInv, DevicesInv

LEMMA CredentialsMatch == EnrollmentInv => CredentialsMatchDevice
<1> USE EnrollmentAssumption
<1> SUFFICES ASSUME EnrollmentInv, NEW m \in Machine
             PROVE  /\ agent[m] \in {NoCredentials, file[m]} \/ m \in raced
                    /\ \A creds \in {file[m], agent[m]} : Ready(creds) =>
                         LET d == creds.device_id
                         IN  /\ d \in DOMAIN enrolled /\ enrolled[d].machine = m
                             /\ enrolled[d].key = creds.private_key
                             /\ d \in DOMAIN devices =>
                                    creds.certificate = devices[d].active_certificate
                             /\ \A cert \in creds.certificate :
                                    validateRenewalCertificate(cert, creds.private_key, d, 0)
  BY Zenon DEF CredentialsMatchDevice
<1>1. agent[m] \in {NoCredentials, file[m]} \/ m \in raced
  BY Zenon DEF EnrollmentInv, AloneInv
<1>2. ASSUME NEW creds \in {file[m], agent[m]}, Ready(creds)
      PROVE  LET d == creds.device_id
             IN  /\ d \in DOMAIN enrolled /\ enrolled[d].machine = m
                 /\ enrolled[d].key = creds.private_key
                 /\ d \in DOMAIN devices =>
                        creds.certificate = devices[d].active_certificate
                 /\ \A cert \in creds.certificate :
                        validateRenewalCertificate(cert, creds.private_key, d, 0)
  <2>1. PICK d \in DOMAIN enrolled : /\ enrolled[d].machine = m
                                     /\ creds = Credentials(d, enrolled[d].key)
    <3>1. /\ creds # Pending(creds.pending) /\ creds # NoCredentials
          /\ creds \in {file[m], agent[m]}
      BY <1>2, ReadyMeans, Zenon
    <3>2. CASE creds = file[m]
      BY <3>1, <3>2, Zenon DEF EnrollmentInv, FileInv
    <3>3. CASE creds = agent[m]
      BY <3>1, <3>3, Zenon DEF EnrollmentInv, FileInv
    <3> QED
      BY <3>1, <3>2, <3>3, Zenon
  <2>2. PICK k : k = enrolled[d].key
    BY Zenon
  <2>3. /\ creds.device_id = d /\ creds.private_key = k /\ creds.certificate = {CertOf(d, k)}
    BY <2>1, <2>2, ZenonT(30) DEF Credentials
  <2>4. validateRenewalCertificate(CertOf(d, k), k, d, 0)
    BY DEF validateRenewalCertificate, Valid, CertOf, IssueCertificateFromCSR, GenerateCSR
  <2>5. d \in DOMAIN devices => devices[d].active_certificate = {CertOf(d, k)}
    BY <2>2 DEF EnrollmentInv, DevicesInv
  <2> QED
    BY <2>1, <2>2, <2>3, <2>4, <2>5, Zenon
<1> QED
  BY <1>1, <1>2, Zenon

-------------------------------------------------------------------------------
(* The theorems. *)

INSTANCE FiniteSetTheorems

LEMMA CountingHolds == Counting
<1>1. Cardinality({}) = 0
  BY FS_EmptySet, Zenon
<1>2. \A n \in Nat : IsFiniteSet(1 .. n)
  BY FS_Interval
<1>3. \A S : IsFiniteSet(S) => Cardinality(S) \in Nat
  BY FS_CardinalityType, Zenon
<1>4. \A S : IsFiniteSet(S) => \A T \in SUBSET S : IsFiniteSet(T)
  BY FS_Subset, Zenon
<1>5. \A S, x : IsFiniteSet(S) /\ x \notin S => Cardinality(S \cup {x}) = Cardinality(S) + 1
  BY FS_AddElement, Zenon
<1> QED
  BY <1>1, <1>2, <1>3, <1>4, <1>5, Zenon DEF Counting

\* The inductive invariant holds at every moment: the tokens' rows count their
\* devices, a key belongs to one machine, and what enroll saves, sends and is
\* answered with belongs together.
THEOREM EnrollmentInvariant == Spec => []EnrollmentInv
<1>1. Init => EnrollmentInv
  BY InitInv, CountingHolds
<1>2. EnrollmentInv /\ [Next]_vars => EnrollmentInv'
  BY EnrollmentStep, CountingHolds
<1> QED
  BY <1>1, <1>2, PTL DEF Spec

\* consumeRegistrationToken never lets a token enrol more machines than its
\* max_uses, and its row counts exactly the devices it created.
THEOREM UsesAlwaysCountDevices == Spec => []UsesCountDevices
<1>1. EnrollmentInv => UsesCountDevices
  BY Zenon DEF EnrollmentInv, TokensInv
<1> QED
  BY <1>1, EnrollmentInvariant, PTL

\* enroll's retries with the saved key leave a machine one device, unless two
\* commands were under way on it at a time or a device was deleted.
THEOREM MachineStaysOneDevice == Spec => []OneDevicePerMachine
<1>1. EnrollmentInv => OneDevicePerMachine
  BY OneDevice
<1> QED
  BY <1>1, EnrollmentInvariant, PTL

\* What the file and the agent have as credentials is always one device's id,
\* key and certificate, and the agent's are the file's unless commands raced.
THEOREM CredentialsAlwaysMatch == Spec => []CredentialsMatchDevice
<1>1. EnrollmentInv => CredentialsMatchDevice
  BY CredentialsMatch
<1> QED
  BY <1>1, EnrollmentInvariant, PTL

===============================================================================
