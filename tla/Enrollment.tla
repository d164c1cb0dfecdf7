------------------------------ MODULE Enrollment ------------------------------
(***************************************************************************)
(* Enrollment of machines with registration tokens: `cadestrod enroll`     *)
(* (agent/internal/deviceauth/enroll.go) against the server's Register     *)
(* handler (server/internal/core/enrollment.go) and the administrator's    *)
(* token and device operations (devices.go).                               *)
(*                                                                         *)
(* Register runs three database accesses one after the other: it looks the *)
(* machine's key up, reads the token, and consumes the token and creates   *)
(* the device in one transaction.  Handlers of several machines, and of    *)
(* retries of one machine whose earlier request is still being handled,    *)
(* interleave between them.  The command reads its credentials file, and   *)
(* writes it twice, without a lock, and nothing keeps a second command     *)
(* from running on the same machine.  The agent reads the file once, when   *)
(* it starts.                                                              *)
(*                                                                         *)
(* A request is named by its number, which also names the device it may    *)
(* create (a fresh ULID in the code).  Certificates do not expire here     *)
(* (CertRotation has that), so that all are issued at time 0.              *)
(***************************************************************************)
EXTENDS Certificates, FiniteSets

CONSTANTS
    Machine,      \* hosts
    Command,      \* processes running the enroll command
    HostOf,       \* the machine each of them runs on
    Invocation,   \* their arguments: the uri, and the tokens given by tokenFile,
                  \* in the environment and as a flag, NoToken where there is none
    NoToken,
    Token,        \* registration tokens an administrator may create
    MaxUses,      \* max_uses of each token, 0 for unlimited
    MaxKeys,      \* bound: key pairs generated
    MaxRequests   \* bound: Register requests

ASSUME EnrollmentAssumption ==
    /\ HostOf \in [Command -> Machine]
    /\ NoToken \notin Token
    /\ LET Given == Token \cup {NoToken}
       IN  Invocation \subseteq [uri : Given, tokenFile : Given, env : Given, flag : Given]
    /\ MaxUses \in [Token -> Nat] /\ Validity \in Nat
    /\ MaxKeys \in Nat /\ MaxRequests \in Nat

VARIABLES
    tokens,    \* registration_tokens
    spent,     \* tokens that have existed: their values are never drawn again
    expired,   \* tokens past expires_at
    devices,   \* devices
    enrolled,  \* history: id -> token, key and machine of each device created
    request,   \* Register requests being handled: id -> their state
    requests,  \* number of requests so far
    file,      \* credentials.json of each machine
    agent,     \* what each machine's agent loaded from it
    proc,      \* the commands: how far they are
    keys,      \* number of key pairs so far
    raced      \* history: machines on which two commands were under way

adminVars == <<spent, expired>>
serverVars == <<tokens, devices, enrolled>>
machineVars == <<file, agent, proc, keys, raced>>
vars == <<adminVars, serverVars, request, requests, machineVars>>

queries == INSTANCE DeviceQueries

Key == 1 .. MaxKeys
Id == 1 .. MaxRequests
None == 0

\* The file while a key waits for its certificate.
Pending(key) ==
    [device_id |-> None, certificate |-> {}, private_key |-> None, pending |-> key]

\* Without a file, as with an empty one, no field is set.
NoCredentials == Pending(None)

\* The file holds a device's credentials, and no key that still waits for one.
Ready(creds) ==
    /\ creds.device_id # None /\ creds.certificate # {}
    /\ creds.private_key # None /\ creds.pending = None

Process(step, key, id, certificate) ==
    [step |-> step, key |-> key, id |-> id, certificate |-> certificate]

Idle == Process("idle", None, None, {})

Init ==
    /\ tokens = << >> /\ spent = {} /\ expired = {}
    /\ devices = << >> /\ enrolled = << >>
    /\ request = << >> /\ requests = 0
    /\ file = [m \in Machine |-> NoCredentials]
    /\ agent = [m \in Machine |-> NoCredentials]
    /\ proc = [c \in Command |-> Idle]
    /\ keys = 0 /\ raced = {}

-------------------------------------------------------------------------------
(* The administrator. *)

\* The value is 32 random bytes: registrationToken never repeats one.
CreateToken(t) ==
    /\ t \notin spent
    /\ tokens' = queries!CreateRegistrationToken(tokens, t, MaxUses[t])
    /\ spent' = spent \cup {t}
    /\ UNCHANGED <<expired, devices, enrolled, request, requests, machineVars>>

DeleteToken(t) ==
    /\ t \in DOMAIN tokens
    /\ tokens' = queries!DeleteRegistrationToken(tokens, t)
    /\ UNCHANGED <<adminVars, devices, enrolled, request, requests, machineVars>>

TokenExpires(t) ==
    /\ t \in spent \ expired
    /\ expired' = expired \cup {t}
    /\ UNCHANGED <<spent, serverVars, request, requests, machineVars>>

DeleteDevice(d) ==
    /\ d \in DOMAIN devices
    /\ devices' = queries!DeleteDevice(devices, d)
    /\ UNCHANGED <<adminVars, tokens, enrolled, request, requests, machineVars>>

-------------------------------------------------------------------------------
(* The enroll command. *)

resolveEnrollToken(i) ==
    IF i.tokenFile # NoToken THEN i.tokenFile
    ELSE IF i.env # NoToken THEN i.env ELSE i.flag

\* The token that the command line asks for: a registration URI has its own.
runEnroll(i) == IF i.uri # NoToken THEN i.uri ELSE resolveEnrollToken(i)

\* Load finds no usable credentials, or a key that an earlier command saved.
LoadCredentials(c) ==
    LET m == HostOf[c]
    IN  /\ proc[c].step = "idle" /\ ~Ready(file[m])
        /\ proc' = [proc EXCEPT ![c] = Process("loaded", file[m].pending, None, {})]
        /\ raced' = raced \cup {HostOf[b] : b \in {e \in Command :
                        HostOf[e] = m /\ proc[e].step # "idle"}}
        /\ UNCHANGED <<adminVars, serverVars, request, requests, file, agent, keys>>

\* A Register request for this key, whose answer the command waits for.
RegisterAgent(c, key, t) ==
    /\ requests < MaxRequests
    /\ requests' = requests + 1
    /\ request' = queries!Insert(request, requests', [command |-> c,
                     csr |-> GenerateCSR(key), token |-> t, step |-> "find", seen |-> {}])
    /\ proc' = [proc EXCEPT ![c] = Process("wait", key, requests', {})]

\* Mutant: a new key on every attempt.
enrollFreshKey(c, t) ==
    /\ proc[c].step = "loaded"
    /\ keys < MaxKeys /\ keys' = keys + 1
    /\ file' = [file EXCEPT ![HostOf[c]] = Pending(keys')]
    /\ RegisterAgent(c, keys', t)
    /\ UNCHANGED <<adminVars, serverVars, agent, raced>>

\* A pending key is used again; otherwise a new one is saved before it is
\* sent.
enroll(c, t) ==
    /\ proc[c].step = "loaded" /\ t # NoToken
    /\ IF proc[c].key # None
       THEN RegisterAgent(c, proc[c].key, t) /\ UNCHANGED <<file, keys>>
       ELSE /\ keys < MaxKeys /\ keys' = keys + 1
            /\ file' = [file EXCEPT ![HostOf[c]] = Pending(keys')]
            /\ RegisterAgent(c, keys', t)
    /\ UNCHANGED <<adminVars, serverVars, agent, raced>>

\* The command ends without credentials: it was given no token or cannot save its
\* key, its 60 seconds are over, the answer is lost, an error, or from a CA other than the pinned one, or the process dies.
\* The handler may still be running.
GiveUp(c) ==
    /\ proc[c].step # "idle"
    /\ proc' = [proc EXCEPT ![c] = Idle]
    /\ UNCHANGED <<adminVars, serverVars, request, requests, file, agent, keys, raced>>

\* Mutant: the key is taken from the file, where another command may have put
\* its own.
SaveWithStoredKey(c) ==
    /\ proc[c].step = "answered"
    /\ file' = [file EXCEPT ![HostOf[c]] =
                   [device_id |-> proc[c].id, certificate |-> proc[c].certificate,
                    private_key |-> file[HostOf[c]].pending, pending |-> None]]
    /\ proc' = [proc EXCEPT ![c] = Idle]
    /\ UNCHANGED <<adminVars, serverVars, request, requests, agent, keys, raced>>

\* The answer arrives and the credentials replace the pending key.
SaveCredentials(c) ==
    /\ proc[c].step = "answered"
    /\ file' = [file EXCEPT ![HostOf[c]] =
                   [device_id |-> proc[c].id, certificate |-> proc[c].certificate,
                    private_key |-> proc[c].key, pending |-> None]]
    /\ proc' = [proc EXCEPT ![c] = Idle]
    /\ UNCHANGED <<adminVars, serverVars, request, requests, agent, keys, raced>>

\* The daemon starts, or starts again: it exits unless it finds the machine
\* enrolled (loadCredentials), and keeps what it loaded.
StartAgent(m) ==
    /\ Ready(file[m]) /\ agent[m] # file[m]
    /\ agent' = [agent EXCEPT ![m] = file[m]]
    /\ UNCHANGED <<adminVars, serverVars, request, requests, file, proc, keys, raced>>

-------------------------------------------------------------------------------
(* Register. *)

\* The handler of request r ends, and a command that still waits for it gets
\* this device's certificate, or an error.
Answer(r, d, certificate) ==
    /\ request' = queries!Delete(request, r)
    /\ LET c == request[r].command
       IN  IF proc[c].step = "wait" /\ proc[c].id = r
           THEN proc' = [proc EXCEPT ![c] = IF d = None THEN Idle
                             ELSE Process("answered", @.key, d, certificate)]
           ELSE UNCHANGED proc

\* A machine that is already registered does not need a token.
FindDevice(r) ==
    LET found == queries!FindDeviceByIdentityKey(
                     devices, EnrollmentIdentityFromCSR(request[r].csr))
    IN  /\ request[r].step = "find" /\ parseEnrollmentCSR(request[r].csr)
        /\ \/ \E d \in found : Answer(r, d, devices[d].active_certificate)
           \/ /\ found = {} /\ UNCHANGED proc
              /\ request' = [request EXCEPT ![r].step = "token"]
        /\ UNCHANGED <<adminVars, serverVars, requests, file, agent, keys, raced>>

\* The token is read outside the transaction, and the row is remembered.  The
\* handler reads its clock once, so that a token that is not expired here does
\* not expire for this handler.
FindToken(r) ==
    LET t == request[r].token
        found == queries!GetUsableRegistrationToken(tokens, Token \ expired, t)
    IN  /\ request[r].step = "token"
        /\ IF found # {}
           THEN /\ request' = [request EXCEPT ![r].step = "consume",
                                              ![r].seen = {tokens[t]}]
                /\ UNCHANGED proc
           ELSE Answer(r, None, {})
        /\ UNCHANGED <<adminVars, serverVars, requests, file, agent, keys, raced>>

\* Mutant: a final use that deletes no row is not noticed.
consumeUnchecked(t, row) ==
    {IF queries!final(row)
     THEN queries!ConsumeFinalRegistrationToken(tokens, {t}, t)
     ELSE queries!ConsumeRegistrationToken(tokens, {t}, t)}

\* registration_tokens after a use by a handler that read this row, or nothing
\* when the statement it executes finds the token consumed concurrently.
consumeRegistrationToken(t, row) ==
    LET counted == queries!ConsumeRegistrationToken(tokens, {t}, t)
        after == IF queries!final(row)
                 THEN queries!ConsumeFinalRegistrationToken(tokens, {t}, t)
                 ELSE IF counted # tokens /\ ~queries!usable(counted[t])
                 THEN queries!DeleteRegistrationToken(counted, t)
                 ELSE counted
    IN  {after} \ {tokens}

\* The transaction: consume the token, create the device, audit.  It fails as
\* a whole when the token was consumed concurrently or the key is registered.
Register(r) ==
    LET t == request[r].token
        key == EnrollmentIdentityFromCSR(request[r].csr)
        certificate == {IssueCertificateFromCSR(r, request[r].csr, 0)}
    IN  /\ request[r].step = "consume"
        /\ \/ \E consumed \in UNION {consumeRegistrationToken(t, row) : row \in request[r].seen} :
                 /\ queries!FindDeviceByIdentityKey(devices, key) = {}
                 /\ tokens' = consumed
                 /\ devices' = queries!CreateDevice(devices, r,
                        [identity_public_key |-> key, active_certificate |-> certificate])
                 /\ enrolled' = queries!Insert(enrolled, r, [token |-> t,
                        key |-> key, machine |-> HostOf[request[r].command]])
                 /\ Answer(r, r, certificate)
           \/ /\ \/ \A row \in request[r].seen : consumeRegistrationToken(t, row) = {}
                 \/ queries!FindDeviceByIdentityKey(devices, key) # {}
              /\ Answer(r, None, {}) /\ UNCHANGED serverVars
        /\ UNCHANGED <<adminVars, requests, file, agent, keys, raced>>

-------------------------------------------------------------------------------
Next ==
    \/ \E t \in Token : CreateToken(t) \/ DeleteToken(t) \/ TokenExpires(t)
    \/ \E d \in Id : DeleteDevice(d)
    \/ \E c \in Command : \/ LoadCredentials(c) \/ GiveUp(c) \/ SaveCredentials(c)
                          \/ \E i \in Invocation : enroll(c, runEnroll(i))
    \/ \E m \in Machine : StartAgent(m)
    \/ \E r \in DOMAIN request : FindDevice(r) \/ FindToken(r) \/ Register(r)

Spec == Init /\ [][Next]_vars

-------------------------------------------------------------------------------
TypeOK ==
    /\ DOMAIN tokens \subseteq spent /\ spent \subseteq Token /\ expired \subseteq spent
    /\ \A t \in DOMAIN tokens : tokens[t] \in [max_uses : Nat, current_uses : Nat]
    /\ DOMAIN devices \subseteq DOMAIN enrolled /\ DOMAIN enrolled \subseteq Id
    /\ \A d \in DOMAIN enrolled : enrolled[d] \in [token : Token, key : Key, machine : Machine]
    /\ requests \in 0 .. MaxRequests /\ keys \in 0 .. MaxKeys
    /\ DOMAIN request \subseteq 1 .. requests
    /\ \A r \in DOMAIN request : request[r].step \in {"find", "token", "consume"}
    /\ \A m \in Machine : file[m].device_id \in Id \cup {None}
    /\ \A m \in Machine : agent[m] = NoCredentials \/ Ready(agent[m])
    /\ \A c \in Command : proc[c].step \in {"idle", "loaded", "wait", "answered"}
    /\ raced \subseteq Machine

EnrolledWith(t) == {d \in DOMAIN enrolled : enrolled[d].token = t}

\* A token enrols at most max_uses machines, and a stored token has counted
\* exactly the uses that created a device and has one left, however the
\* handlers that read it before any of them consumed it interleave, and
\* whichever of them fail (consumeRegistrationToken).
UsesCountDevices ==
    /\ \A t \in Token : MaxUses[t] > 0 =>
           Cardinality(EnrolledWith(t)) <= MaxUses[t]
    /\ \A t \in DOMAIN tokens :
           /\ tokens[t].current_uses = Cardinality(EnrolledWith(t))
           /\ queries!usable(tokens[t])

\* A machine that is enrolled again after lost answers, crashes and timeouts
\* stays one device and costs one use, as long as nobody deletes the device and
\* no two commands run at a time on it: enroll saves its key before it sends it,
\* and Register recognises it.
OneDevicePerMachine ==
    DOMAIN devices = DOMAIN enrolled =>
        \A d, e \in DOMAIN enrolled :
            enrolled[d].machine = enrolled[e].machine =>
                d = e \/ enrolled[d].machine \in raced

\* Whenever a machine's credentials are ready, in the file or in an agent that
\* loaded them, they are those of one device: the certificate carries its id
\* and the key stored beside it, that key is the one the device was registered
\* with, and the certificate is the device's active one for as long as it is
\* registered.  Commands that run at a time on one machine, each with a key of
\* its own, do not mix their credentials; and unless there were such commands,
\* no command replaces the credentials that an agent runs on.
CredentialsMatchDevice ==
    \A m \in Machine :
        /\ agent[m] \in {NoCredentials, file[m]} \/ m \in raced
        /\ \A creds \in {file[m], agent[m]} : Ready(creds) =>
               LET d == creds.device_id
               IN  /\ d \in DOMAIN enrolled /\ enrolled[d].machine = m
                   /\ enrolled[d].key = creds.private_key
                   /\ d \in DOMAIN devices =>
                          creds.certificate = devices[d].active_certificate
                   /\ \A cert \in creds.certificate :
                          validateRenewalCertificate(cert, creds.private_key, d, 0)

===============================================================================
