----------------------------- MODULE CertRotation -----------------------------
(***************************************************************************)
(* Rotation of a device's mTLS certificate: the agent's connection loop    *)
(* (agent/cmd/cadestrod/runtime.go, cert_rotation.go), its credentials     *)
(* file, and the server's handlers for the agent stream's Hello and for    *)
(* RenewCertificate (server/internal/core/agent.go, enrollment.go).        *)
(*                                                                         *)
(* Certificates are named by their serials, numbered in the order the CA   *)
(* issues them; 0 is the absence of one.  The credentials file and the     *)
(* device row hold an active certificate and possibly a pending one.  The  *)
(* two sides agree on a new certificate through requests that may be lost, *)
(* answered to nobody, or handled after the agent gave up on them; files   *)
(* may fail to be written or read; the agent may crash anywhere; and time  *)
(* passes, so that certificates become due for renewal and expire.         *)
(*                                                                         *)
(* Both sides read one clock.  A staged certificate has been validated by  *)
(* applyRenewal, so that configureAgentMTLS can always load it.            *)
(***************************************************************************)
EXTENDS Certificates, Sequences

CONSTANTS
    MaxSerial,      \* bound: certificates the CA issues for the device
    MaxTime,        \* bound: the last time on the clock
    MaxFaults,      \* bound: crashes, failed saves and lost or late requests
    MaxLoadFaults   \* bound: failed reads of the credentials file

ASSUME BoundsAssumption ==
    /\ Validity \in Nat \ {0} /\ MaxTime \in Nat
    /\ MaxSerial \in Nat \ {0} /\ MaxFaults \in Nat /\ MaxLoadFaults \in Nat

VARIABLES
    devices,      \* the devices table: the row of the one device
    certs,        \* the certificates the CA issued, by serial
    now,          \* the time
    lateHello,    \* Hello handlers still running for a session the agent left
    lateRenew,    \* serials of renewal requests the agent no longer waits for
    disk,         \* the credentials file
    mem,          \* creds, the connection loop's copy of it
    fallback,     \* fallbackActive
    usingPending, \* usingPending of this iteration
    pc,           \* where the connection loop is
    hello,        \* this iteration's Hello: how far the server is with it
    renewal,      \* this iteration's renewal: waiting, failed or the answer
    faults,       \* faults so far
    loadFaults,   \* failed reads so far
    adrift        \* history: a failed read kept a certificate no save had stored

srvVars == <<devices, certs>>
lateVars == <<lateHello, lateRenew>>
agentVars == <<disk, mem, fallback, usingPending, pc, hello, renewal>>
boundVars == <<faults, loadFaults>>
vars == <<srvVars, now, lateVars, agentVars, boundVars, adrift>>

queries == INSTANCE DeviceQueries

None == 0
Serial == 1 .. MaxSerial
DeviceID == "device"
PrivateKey == "key"
Credentials == [cert : Serial, pending : Serial \cup {None}]

\* The answers a waiting renewal can have, next to a serial.
Waiting == 0
Failed == MaxSerial + 1

\* devices.active_cert_serial and pending_cert_serial, 0 for NULL.
srvActive == devices[DeviceID].active_cert_serial
srvPending == devices[DeviceID].pending_cert_serial

\* TLS accepts the certificate, and the middleware its peer class.
Admitted(serial) == Valid(certs[serial], now) /\ AgentMiddleware(certs[serial])

Issue == IssueCertificateFromCSR(DeviceID, GenerateCSR(PrivateKey), now)

-------------------------------------------------------------------------------
(* The device as Register leaves it: one certificate, on both sides. *)

Init ==
    /\ now = 0 /\ certs = <<Issue>>
    /\ devices = [d \in {DeviceID} |->
                     [active_cert_serial |-> 1, pending_cert_serial |-> None]]
    /\ lateHello = {} /\ lateRenew = {}
    /\ disk = [cert |-> 1, pending |-> None] /\ mem = disk
    /\ fallback = 0 /\ usingPending = 0 /\ pc = "down"
    /\ hello = "none" /\ renewal = Failed
    /\ faults = 0 /\ loadFaults = 0 /\ adrift = 0

-------------------------------------------------------------------------------
(* The agent's connection loop. *)

\* The process starts with fallbackActive false and the file it just read.
Start ==
    /\ pc = "down"
    /\ pc' = "connect" /\ mem' = disk /\ fallback' = 0
    /\ UNCHANGED <<srvVars, now, lateVars, disk, usingPending, hello, renewal,
                   boundVars, adrift>>

\* When the file cannot be read the loop goes on with the copy in memory.
reloadCredsForReconnect ==
    /\ pc = "reconnect"
    /\ pc' = "connect"
    /\ \/ mem' = disk /\ UNCHANGED <<loadFaults, adrift>>
       \/ /\ loadFaults < MaxLoadFaults
          /\ loadFaults' = loadFaults + 1 /\ UNCHANGED mem
          /\ adrift' = IF mem.pending \in {None, disk.pending}
                       THEN adrift ELSE 1
    /\ UNCHANGED <<srvVars, now, lateVars, disk, fallback, usingPending, hello,
                   renewal, faults>>

presentPendingCertificate(pending, fallbackActive) ==
    pending # None /\ fallbackActive = 0

Certificate(pending) == IF pending = 1 THEN mem.pending ELSE mem.cert

\* The certificate of this iteration's TLS handshake.
Presented == Certificate(usingPending)

\* configureAgentMTLS picks the certificate; client.Run sends the Hello, if
\* the TLS handshake lets it.
Dial ==
    /\ pc = "connect"
    /\ usingPending' =
           IF presentPendingCertificate(mem.pending, fallback) THEN 1 ELSE 0
    /\ pc' = "dial"
    /\ hello' = IF Admitted(Certificate(usingPending')) THEN "read" ELSE "failed"
    /\ UNCHANGED <<srvVars, now, lateVars, disk, mem, fallback, renewal,
                   boundVars, adrift>>

\* Mutant: a failed attempt with the active certificate is repeated.
fallbackSticky(pending, presentedPending, connected) ==
    IF pending = None \/ connected THEN 0 ELSE 1

fallbackAfterConnection(pending, presentedPending, connected) ==
    IF pending = None \/ connected THEN 0 ELSE presentedPending

\* No Welcome within 30 seconds: waitForReadiness cancels the session.
ReadinessTimeout ==
    /\ pc = "dial" /\ hello = "failed"
    /\ fallback' = fallbackAfterConnection(mem.pending, usingPending, FALSE)
    /\ pc' = "reconnect" /\ hello' = "none"
    /\ UNCHANGED <<srvVars, now, lateVars, disk, mem, usingPending, renewal,
                   boundVars, adrift>>

\* Store.Save replaces the file by a rename, so a failed save leaves it alone.
Save(creds) ==
    \/ disk' = creds /\ UNCHANGED faults
    \/ faults < MaxFaults /\ faults' = faults + 1 /\ UNCHANGED disk

\* Mutant: the replaced certificate becomes the pending one.
PromoteSwaps ==
    /\ pc = "dial" /\ hello = "welcome" /\ usingPending = 1
    /\ mem' = [cert |-> mem.pending, pending |-> mem.cert]
    /\ Save(mem')
    /\ fallback' = 0 /\ pc' = "run" /\ hello' = "none"
    /\ UNCHANGED <<srvVars, now, lateVars, usingPending, renewal, loadFaults,
                   adrift>>

\* The Welcome answers a Hello sent with the pending certificate.
PromoteAfterConnect ==
    /\ pc = "dial" /\ hello = "welcome" /\ usingPending = 1
    /\ mem' = [cert |-> mem.pending, pending |-> None]
    /\ Save(mem')
    /\ fallback' = 0 /\ pc' = "run" /\ hello' = "none"
    /\ UNCHANGED <<srvVars, now, lateVars, usingPending, renewal, loadFaults,
                   adrift>>

\* The Welcome answers the active certificate: the session renews it when
\* certificateRenewalDue says so, and always when one is already staged.
ConnectedWithActive ==
    /\ pc = "dial" /\ hello = "welcome" /\ usingPending = 0
    /\ hello' = "none"
    /\ IF mem.pending # None \/ certificateRenewalDue(certs[mem.cert], now)
       THEN pc' = "renew" /\ renewal' = Waiting
       ELSE pc' = "run" /\ UNCHANGED renewal
    /\ UNCHANGED <<srvVars, now, lateVars, disk, mem, fallback, usingPending,
                   boundVars, adrift>>

\* The answered certificate passes the agent's checks.
Acceptable(serial) ==
    validateRenewalCertificate(certs[serial], PrivateKey, DeviceID, now)

\* renewCertificateIfDue gets its answer.  A staged certificate ends the
\* session; a failed save leaves it in memory and the session goes on.
ApplyRenewal ==
    /\ pc = "renew" /\ renewal \in Serial /\ Acceptable(renewal)
    /\ mem' = [mem EXCEPT !.pending = renewal]
    /\ \/ disk' = mem' /\ pc' = "reconnect" /\ UNCHANGED faults
       \/ /\ faults < MaxFaults /\ faults' = faults + 1
          /\ pc' = "run" /\ UNCHANGED disk
    /\ fallback' = IF pc' = "reconnect"
                   THEN fallbackAfterConnection(renewal, usingPending, TRUE)
                   ELSE fallback
    /\ renewal' = Failed
    /\ UNCHANGED <<srvVars, now, lateVars, usingPending, hello, loadFaults, adrift>>

RenewalFails ==
    /\ pc = "renew"
    /\ renewal = Failed \/ (renewal \in Serial /\ ~Acceptable(renewal))
    /\ pc' = "run" /\ renewal' = Failed
    /\ UNCHANGED <<srvVars, now, lateVars, disk, mem, fallback, usingPending, hello,
                   boundVars, adrift>>

StreamEnds ==
    /\ pc = "run"
    /\ fallback' = fallbackAfterConnection(mem.pending, usingPending, TRUE)
    /\ pc' = "reconnect"
    /\ UNCHANGED <<srvVars, now, lateVars, disk, mem, usingPending, hello, renewal,
                   boundVars, adrift>>

-------------------------------------------------------------------------------
(* The server. *)

\* authenticateAgent, first statement: compare the peer's serial with the row.
GetDevice(serial) ==
    IF queries!GetDevice(devices, DeviceIDFromRequest(certs[serial])) = {} THEN "failed"
    ELSE IF srvActive = serial THEN "welcome"
    ELSE IF srvPending = serial THEN "promote"
    ELSE "failed"

\* Its second statement, a separate transaction.
Promote(serial) ==
    devices' = queries!PromotePendingDeviceCertificate(devices, DeviceID, serial, None)

\* One statement of the handler of the Hello the agent is waiting on.
AuthenticateAgent ==
    /\ pc = "dial"
    /\ \/ /\ hello = "read" /\ hello' = GetDevice(Presented)
          /\ UNCHANGED devices
       \/ /\ hello = "promote"
          /\ hello' = IF srvPending = Presented THEN "welcome" ELSE "failed"
          /\ Promote(Presented)
    /\ UNCHANGED <<certs, now, lateVars, disk, mem, fallback, usingPending, pc,
                   renewal, boundVars, adrift>>

\* The same for a Hello whose session the agent has abandoned.
AuthenticateLate ==
    \E h \in lateHello :
        /\ \/ /\ h.step = "read"
              /\ lateHello' = (lateHello \ {h}) \cup
                     (IF GetDevice(h.serial) = "promote"
                      THEN {[h EXCEPT !.step = "promote"]} ELSE {})
              /\ UNCHANGED devices
           \/ /\ h.step = "promote"
              /\ lateHello' = lateHello \ {h}
              /\ Promote(h.serial)
        /\ UNCHANGED <<certs, now, lateRenew, agentVars, boundVars, adrift>>

\* SetPendingDeviceCertificate stores a new certificate for this peer.
SetPending(serial) ==
    /\ Len(certs) < MaxSerial
    /\ certs' = Append(certs, Issue)
    /\ devices' = queries!SetPendingDeviceCertificate(
                      devices, DeviceID, Len(certs'), serial)

\* Mutant: each request is answered with a new certificate.
RenewAlways(serial) ==
    IF srvActive = serial THEN SetPending(serial) ELSE UNCHANGED srvVars

\* The transaction of RenewCertificate for a peer with this serial: a pending
\* certificate is handed out again.
RenewCertificate(serial) ==
    IF srvActive = serial /\ srvPending = None /\
       AssertCSRMatchesCert(certs[serial], GenerateCSR(PrivateKey))
    THEN SetPending(serial)
    ELSE UNCHANGED srvVars

HandleRenewal ==
    /\ pc = "renew" /\ renewal = Waiting
    /\ IF Admitted(mem.cert)
       THEN /\ RenewCertificate(mem.cert)
            /\ renewal' = IF srvActive = mem.cert THEN srvPending' ELSE Failed
       ELSE renewal' = Failed /\ UNCHANGED srvVars
    /\ UNCHANGED <<now, lateVars, disk, mem, fallback, usingPending, pc, hello,
                   boundVars, adrift>>

HandleLateRenewal ==
    \E s \in lateRenew :
        /\ RenewCertificate(s)
        /\ lateRenew' = lateRenew \ {s}
        /\ UNCHANGED <<now, lateHello, agentVars, boundVars, adrift>>

-------------------------------------------------------------------------------
(* Faults. *)

\* What becomes of the handlers of the requests the agent stops waiting for:
\* they end with the connection, or run on.
LeaveRequests ==
    /\ lateHello' \in {lateHello} \cup
           {lateHello \cup {[serial |-> Presented, step |-> hello]} :
                x \in {hello} \cap {"read", "promote"}}
    /\ lateRenew' \in {lateRenew} \cup
           {lateRenew \cup {mem.cert} : x \in {renewal} \cap {Waiting}}

\* The Hello or its Welcome is lost, or comes too late for the agent.
HelloLost ==
    /\ pc = "dial" /\ hello \in {"read", "promote", "welcome"}
    /\ faults < MaxFaults /\ faults' = faults + 1
    /\ LeaveRequests /\ hello' = "failed"
    /\ UNCHANGED <<srvVars, now, disk, mem, fallback, usingPending, pc, renewal,
                   loadFaults, adrift>>

\* The renewal request or its answer is lost, or fails.
RenewalLost ==
    /\ pc = "renew" /\ renewal # Failed
    /\ faults < MaxFaults /\ faults' = faults + 1
    /\ LeaveRequests /\ renewal' = Failed
    /\ UNCHANGED <<srvVars, now, disk, mem, fallback, usingPending, pc, hello,
                   loadFaults, adrift>>

Crash ==
    /\ pc # "down"
    /\ faults < MaxFaults /\ faults' = faults + 1
    /\ LeaveRequests
    /\ pc' = "down" /\ hello' = "none" /\ renewal' = Failed
    /\ mem' = disk /\ fallback' = 0 /\ usingPending' = 0
    /\ UNCHANGED <<srvVars, now, disk, loadFaults, adrift>>

Tick ==
    /\ now < MaxTime /\ now' = now + 1
    /\ UNCHANGED <<srvVars, lateVars, agentVars, boundVars, adrift>>

-------------------------------------------------------------------------------
LoopStep ==
    \/ Start \/ reloadCredsForReconnect \/ Dial \/ ReadinessTimeout
    \/ PromoteAfterConnect \/ ConnectedWithActive \/ ApplyRenewal
    \/ RenewalFails \/ StreamEnds

ServerStep == AuthenticateAgent \/ HandleRenewal

Next ==
    \/ LoopStep \/ ServerStep
    \/ AuthenticateLate \/ HandleLateRenewal
    \/ HelloLost \/ RenewalLost \/ Crash \/ Tick

\* The loop is one goroutine that runs while the process does, and a handler
\* of a request that was not lost runs to its end.
Fairness == WF_vars(LoopStep) /\ WF_vars(ServerStep)

Spec == Init /\ [][Next]_vars /\ Fairness

-------------------------------------------------------------------------------
TypeOK ==
    /\ devices \in [{DeviceID} -> [active_cert_serial : Serial,
                                   pending_cert_serial : Serial \cup {None}]]
    /\ Len(certs) \in Serial /\ now \in 0 .. MaxTime
    /\ lateHello \subseteq [serial : Serial, step : {"read", "promote"}]
    /\ lateRenew \subseteq Serial
    /\ disk \in Credentials /\ mem \in Credentials
    /\ fallback \in 0 .. 1 /\ usingPending \in 0 .. 1
    /\ pc \in {"down", "connect", "dial", "renew", "run", "reconnect"}
    /\ hello \in {"none", "read", "promote", "welcome", "failed"}
    /\ renewal \in 0 .. Failed
    /\ faults \in 0 .. MaxFaults /\ loadFaults \in 0 .. MaxLoadFaults
    /\ adrift \in 0 .. 1

\* An agent restarted at any point of a rotation can still authenticate: the
\* certificate the server accepts as active is always in the credentials file,
\* as the active or as the pending one, and a pending one in the file, which
\* configureAgentMTLS presents first, is one the server accepts.  The one
\* exception is an agent that could neither save a renewed certificate nor read
\* the file back, and went on with the certificate in memory
\* (reloadCredsForReconnect).
FileIsAccepted ==
    adrift = 0 =>
        /\ srvActive \in {disk.cert, disk.pending}
        /\ disk.pending \in {None, srvActive, srvPending}

\* The device row only rotates forward.  The server never goes back to a
\* certificate that a newer one replaced, even when the handler of an old Hello
\* resumes between the two statements of authenticateAgent; and a certificate it
\* has issued is never withdrawn before it is used, so that a renewal retried
\* after a lost answer gets the same one (RenewCertificate).
RotatesForward ==
    [][/\ srvActive' >= srvActive
       /\ srvPending # None /\ srvPending' # srvPending =>
              srvPending' = None /\ srvActive' = srvPending]_vars

\* The CA issues one certificate for each lifetime: however requests for a
\* renewal are lost, repeated and handled late, a certificate is only issued
\* once its predecessor is due.  So a pending certificate that RenewCertificate
\* hands out again outlives the active one, and is never what has expired.
OneCertificatePerLifetime ==
    \A s \in 1 .. Len(certs) - 1 :
        certificateRenewalDue(certs[s], certs[s + 1].not_before)

\* Every certificate in the file has expired.  The loop looks for a renewal
\* only after it connects (renewCertificateIfDue), so this is where an agent
\* ends up that is away, or in one session, from before the renewal is due
\* until after the expiry.
LockedOut ==
    \A s \in {disk.cert, disk.pending} \ {None} : ~Valid(certs[s], now)

\* An agent is always connected again, whichever of its two certificates the
\* server holds (fallbackAfterConnection alternates), but for that exception
\* and for an agent that is locked out.
AgentReconnects ==
    pc # "run" ~> pc = "run" \/ adrift = 1 \/ LockedOut

===============================================================================
