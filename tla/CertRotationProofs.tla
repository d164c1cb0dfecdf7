-------------------------- MODULE CertRotationProofs --------------------------
(***************************************************************************)
(* The safety properties of CertRotation for any lifetime of certificates, *)
(* any number of them and any number of faults.                            *)
(***************************************************************************)
EXTENDS CertRotation, TLAPS

\* A leaf that names no prover is Z3's, within this many seconds.
USE SMTT(30)

Cert == [common_name : {DeviceID}, key : {PrivateKey}, uris : {{PeerClassURI("agent")}},
         not_before : Nat, not_after : Nat]

Types ==
    /\ devices \in [{DeviceID} -> [active_cert_serial : Nat, pending_cert_serial : Nat]]
    /\ certs \in Seq(Cert) /\ now \in Nat
    /\ disk \in [cert : Nat, pending : Nat] /\ mem \in [cert : Nat, pending : Nat]
    /\ lateHello \subseteq [serial : Nat, step : {"read", "promote"}]
    /\ lateRenew \subseteq Nat
    /\ usingPending \in {0, 1} /\ renewal \in Nat

\* The device row: the newest certificate is the active one, or the pending one
\* of the certificate before it.
RowInv ==
    \/ srvPending = None /\ srvActive = Len(certs) /\ srvActive > 0
    \/ srvPending = Len(certs) /\ srvActive = Len(certs) - 1 /\ srvActive > 0

\* An agent's certificates: the first one was active at some time, and as long
\* as it is, a staged one beside it is the pending one.
Staged(c) ==
    /\ c.cert > 0 /\ c.cert <= srvActive /\ c.pending <= Len(certs)
    /\ c.pending # None => /\ c.cert < c.pending
                           /\ c.cert = srvActive => c.pending = srvPending

\* The Hello under way: what it presents exists, and once it is welcome was
\* active.
HelloInv ==
    /\ hello \in {"read", "promote", "welcome"} => pc = "dial"
    /\ pc = "dial" /\ usingPending = 1 => mem.pending # None
    /\ pc = "dial" /\ hello = "welcome" => Presented <= srvActive
    /\ \A h \in lateHello : h.serial > 0 /\ h.serial <= Len(certs)

\* The renewal under way, and those the agent left: they are asked for by an
\* active certificate that is due, or have no effect any more.
Asked(s) ==
    s = srvActive => srvPending # None \/ certificateRenewalDue(certs[s], now)

RenewalInv ==
    /\ renewal = Waiting => pc = "renew" /\ Asked(mem.cert)
    /\ \A s \in lateRenew : s > 0 /\ s <= srvActive /\ Asked(s)
    /\ pc = "renew" /\ renewal \in Serial =>
           /\ \/ srvActive = mem.cert /\ srvPending = renewal
              \/ srvActive = renewal /\ srvPending = None
           /\ mem.cert < renewal
           /\ \A s \in lateRenew : s < renewal

\* Whoever may still present the pending certificate has it in the file.
FileInv ==
    adrift = 0 =>
        /\ srvActive \in {disk.cert, disk.pending}
        /\ disk.pending \in {None, srvActive, srvPending}
        /\ srvPending # None /\ (\E h \in lateHello : h.serial = srvPending) =>
               disk.pending = srvPending
        /\ pc \in {"connect", "dial"} => mem.pending \in {None, disk.pending}

RotationInv ==
    /\ Types /\ RowInv /\ Staged(disk) /\ Staged(mem) /\ HelloInv /\ RenewalInv /\ FileInv
    /\ OneCertificatePerLifetime

-------------------------------------------------------------------------------
(* The server's part: the row and the certificates. *)

\* What a statement may do to the row: nothing, the promotion of the pending
\* certificate, or a new pending one.
Promotes ==
    /\ srvPending # None /\ srvActive' = srvPending /\ srvPending' = None
    /\ certs' = certs

Issues ==
    /\ srvPending = None /\ srvActive' = srvActive /\ srvPending' = Len(certs) + 1
    /\ certs' = Append(certs, Issue)

Keeps == srvActive' = srvActive /\ srvPending' = srvPending /\ certs' = certs

RowType == devices \in [{DeviceID} -> [active_cert_serial : Nat, pending_cert_serial : Nat]]

LEMMA PromoteRow ==
    ASSUME Types, NEW s \in Nat \ {0}, Promote(s)
    PROVE  /\ RowType'
           /\ IF srvPending = s
              THEN srvPending # None /\ srvActive' = srvPending /\ srvPending' = None
              ELSE devices' = devices
<1> DEFINE row == devices[DeviceID]
<1>1. row \in [active_cert_serial : Nat, pending_cert_serial : Nat]
  BY DEF Types
<1>2. devices' = [d \in {DeviceID} |->
                     IF devices[d].pending_cert_serial = s
                     THEN [devices[d] EXCEPT !.active_cert_serial = s, !.pending_cert_serial = None]
                     ELSE devices[d]]
  BY Zenon DEF Types, Promote, queries!PromotePendingDeviceCertificate, queries!Update, queries!Get
<1>3. CASE srvPending = s
  <2>1. devices' = [d \in {DeviceID} |->
                       [row EXCEPT !.active_cert_serial = s, !.pending_cert_serial = None]]
    BY <1>2, <1>3 DEF srvPending
  <2>2. /\ devices'[DeviceID] \in [active_cert_serial : Nat, pending_cert_serial : Nat]
        /\ devices'[DeviceID].active_cert_serial = s
        /\ devices'[DeviceID].pending_cert_serial = None
    BY <1>1, <2>1, Zenon DEF None
  <2> QED
    BY <1>3, <2>1, <2>2 DEF RowType, srvActive, srvPending, None
<1>4. CASE srvPending # s
  <2>1. \A d \in {DeviceID} : devices'[d] = devices[d]
    BY <1>2, <1>4 DEF srvPending
  <2>2. devices' = devices
    BY <1>2, <2>1 DEF Types
  <2> QED
    BY <1>4, <2>2 DEF RowType, Types
<1> QED
  BY <1>3, <1>4

LEMMA IssueTyped == ASSUME now \in Nat PROVE Issue \in Cert /\ Issue.not_before = now
BY BoundsAssumption DEF Issue, IssueCertificateFromCSR, GenerateCSR, Cert

LEMMA RenewRow ==
    ASSUME Types, NEW s, RenewCertificate(s)
    PROVE  /\ RowType'
           /\ \/ srvActive = s /\ Issues
              \/ UNCHANGED srvVars
<1> DEFINE row == devices[DeviceID]
<1>1. row \in [active_cert_serial : Nat, pending_cert_serial : Nat]
  BY DEF Types
<1>2. CASE UNCHANGED srvVars
  BY <1>2 DEF srvVars, Types, RowType
<1>3. CASE srvActive = s /\ srvPending = None /\ SetPending(s)
  <2>1. certs' = Append(certs, Issue) /\ Len(certs') = Len(certs) + 1
    BY <1>3, IssueTyped DEF SetPending, Types
  <2>2. devices' = [d \in {DeviceID} |->
                       IF devices[d].active_cert_serial = s
                       THEN [devices[d] EXCEPT !.pending_cert_serial = Len(certs')]
                       ELSE devices[d]]
    BY <1>3 DEF Types, SetPending, queries!SetPendingDeviceCertificate, queries!Update, queries!Get
  <2>3. devices' = [d \in {DeviceID} |-> [row EXCEPT !.pending_cert_serial = Len(certs) + 1]]
    BY <1>3, <2>1, <2>2 DEF srvActive
  <2>4. [row EXCEPT !.pending_cert_serial = Len(certs) + 1] =
            [active_cert_serial |-> row.active_cert_serial, pending_cert_serial |-> Len(certs) + 1]
    BY <1>1
  <2>5. Len(certs) \in Nat
    BY DEF Types
  <2> QED
    BY <1>1, <1>3, <2>1, <2>3, <2>4, <2>5 DEF RowType, srvActive, srvPending, Issues
<1> QED
  BY <1>2, <1>3 DEF RenewCertificate

\* Every statement keeps the row in order and takes it forward only.
LEMMA RowMoves ==
    ASSUME Types, RowInv, OneCertificatePerLifetime, now' = now, Keeps \/ Promotes \/ Issues,
           Issues => certificateRenewalDue(certs[srvActive], now)
    PROVE  /\ RowInv' /\ OneCertificatePerLifetime'
           /\ certs' \in Seq(Cert) /\ Len(certs) \in Nat /\ Len(certs') \in Nat
           /\ srvActive \in Nat /\ srvPending \in Nat
           /\ srvActive <= srvActive' /\ Len(certs) <= Len(certs')
           /\ \A i \in 1 .. Len(certs) : certs'[i] = certs[i]
<1>1. srvActive \in Nat /\ srvPending \in Nat /\ Len(certs) \in Nat
  BY DEF Types, srvActive, srvPending
<1>2. CASE Keeps \/ Promotes
  <2>1. certs' = certs
    BY <1>2 DEF Keeps, Promotes
  <2>2. OneCertificatePerLifetime'
    BY <2>1 DEF OneCertificatePerLifetime
  <2>3. RowInv' /\ srvActive <= srvActive'
    BY <1>1, <1>2, <2>1 DEF RowInv, Keeps, Promotes, None
  <2> QED
    BY <1>1, <2>1, <2>2, <2>3 DEF Types
<1>3. CASE Issues
  <2>1. /\ certs' \in Seq(Cert) /\ Len(certs') = Len(certs) + 1
        /\ \A i \in 1 .. Len(certs) : certs'[i] = certs[i]
        /\ certs'[Len(certs) + 1] = Issue
    BY <1>3, IssueTyped DEF Issues, Types
  <2>2. RowInv' /\ srvActive' = srvActive
    BY <1>1, <1>3, <2>1 DEF RowInv, Issues, None
  <2>3. srvActive = Len(certs)
    BY <1>1, <1>3 DEF RowInv, Issues, None
  <2>4. ASSUME NEW i \in 1 .. Len(certs') - 1
        PROVE  certificateRenewalDue(certs'[i], certs'[i + 1].not_before)
    <3>1. CASE i = Len(certs)
      BY <1>1, <1>3, <2>1, <2>3, <3>1, IssueTyped DEF Types
    <3>2. CASE i < Len(certs)
      <4>1. /\ i \in 1 .. Len(certs) /\ i + 1 \in 1 .. Len(certs)
            /\ i \in 1 .. Len(certs) - 1
        BY <1>1, <3>2
      <4> QED
        BY <2>1, <4>1 DEF OneCertificatePerLifetime
    <3> QED
      BY <1>1, <2>1, <3>1, <3>2
  <2>5. OneCertificatePerLifetime'
    BY <2>4 DEF OneCertificatePerLifetime
  <2> QED
    BY <1>1, <2>1, <2>2, <2>5
<1> QED
  BY <1>2, <1>3

\* What the agent holds, and what it asked for, stay in order.
LEMMA StagedMoves ==
    ASSUME Types, RowInv, Keeps \/ Promotes \/ Issues,
           Len(certs) \in Nat /\ Len(certs') \in Nat, Len(certs) <= Len(certs'),
           NEW c \in [cert : Nat, pending : Nat], Staged(c)
    PROVE  Staged(c)'
<1>1. srvActive \in Nat /\ srvPending \in Nat /\ c.cert \in Nat /\ c.pending \in Nat
  BY DEF Types, srvActive, srvPending
<1>2. CASE Keeps
  BY <1>1, <1>2 DEF Keeps, Staged
<1>3. CASE Promotes
  BY <1>1, <1>3 DEF Promotes, Staged, RowInv, None
<1>4. CASE Issues
  BY <1>1, <1>4 DEF Issues, Staged, None
<1> QED
  BY <1>2, <1>3, <1>4

LEMMA AskedMoves ==
    ASSUME Types, RowInv, Keeps \/ Promotes \/ Issues, now' = now,
           NEW s \in Nat, s <= srvActive, Asked(s)
    PROVE  Asked(s)'
<1>1. srvActive \in Nat /\ srvPending \in Nat /\ Len(certs) \in Nat
  BY DEF Types, srvActive, srvPending
<1>2. CASE Keeps
  BY <1>2 DEF Keeps, Asked
<1>3. CASE Promotes
  BY <1>1, <1>3 DEF Promotes, Asked, RowInv, None
<1>4. CASE Issues
  BY <1>1, <1>4 DEF Issues, Asked, None
<1> QED
  BY <1>2, <1>3, <1>4

\* A statement of one of the server's handlers, whosever it is.
LEMMA HandlerSteps ==
    ASSUME RotationInv, UNCHANGED <<now, disk, mem, usingPending, pc, adrift>>, RowType',
           Keeps \/ Promotes \/ Issues,
           Issues => certificateRenewalDue(certs[srvActive], now),
           Issues => ~(pc = "renew" /\ renewal \in Serial),
           Promotes => (adrift = 0 => disk.pending = srvPending),
           lateHello' \subseteq [serial : Nat, step : {"read", "promote"}],
           \A h \in lateHello' : \E g \in lateHello : g.serial = h.serial,
           lateRenew' \subseteq lateRenew, renewal' \in Nat
    PROVE  /\ Types' /\ RowInv' /\ OneCertificatePerLifetime'
           /\ Staged(disk)' /\ Staged(mem)' /\ FileInv'
           /\ \A h \in lateHello' : h.serial > 0 /\ h.serial <= Len(certs')
           /\ \A s \in lateRenew' : s > 0 /\ s <= srvActive' /\ Asked(s)'
           /\ renewal = Waiting => Asked(mem.cert)'
           /\ renewal' = renewal => RenewalInv'
<1> USE DEF RotationInv
<1>1. /\ RowInv' /\ OneCertificatePerLifetime' /\ certs' \in Seq(Cert)
      /\ Len(certs) \in Nat /\ Len(certs') \in Nat /\ srvActive \in Nat /\ srvPending \in Nat
      /\ srvActive <= srvActive' /\ Len(certs) <= Len(certs')
  BY RowMoves
<1>2. Types'
  BY <1>1 DEF Types, RowType
<1>3. srvActive' \in Nat /\ srvPending' \in Nat
  BY <1>2 DEF Types, srvActive, srvPending
<1>4. Staged(disk)' /\ Staged(mem)'
  <2>1. \A c \in [cert : Nat, pending : Nat] : Staged(c) => Staged(c)'
    BY <1>1, StagedMoves
  <2>2. PICK d \in [cert : Nat, pending : Nat] : d = disk
    BY DEF Types
  <2>3. PICK e \in [cert : Nat, pending : Nat] : e = mem
    BY DEF Types
  <2>4. Staged(d)' /\ Staged(e)' /\ disk' = d /\ mem' = e
    BY <2>1, <2>2, <2>3
  <2> QED
    BY <2>4 DEF Staged
<1>5. \A h \in lateHello' : h.serial > 0 /\ h.serial <= Len(certs')
  <2> SUFFICES ASSUME NEW h \in lateHello' PROVE h.serial > 0 /\ h.serial <= Len(certs')
    OBVIOUS
  <2>1. PICK g \in lateHello : g.serial = h.serial
    OBVIOUS
  <2>2. g.serial > 0 /\ g.serial <= Len(certs) /\ g.serial \in Nat
    BY DEF HelloInv, Types
  <2> QED
    BY <1>1, <2>1, <2>2
<1>6. \A s \in Nat : s <= srvActive /\ Asked(s) => Asked(s)'
  BY AskedMoves
<1>7. \A s \in lateRenew' : s > 0 /\ s <= srvActive' /\ Asked(s)'
  <2> SUFFICES ASSUME NEW s \in lateRenew' PROVE s > 0 /\ s <= srvActive' /\ Asked(s)'
    OBVIOUS
  <2>1. s \in Nat /\ s > 0 /\ s <= srvActive /\ Asked(s)
    BY DEF Types, RenewalInv
  <2> QED
    BY <1>1, <1>3, <1>6, <2>1
<1>8. ASSUME renewal = Waiting PROVE Asked(mem.cert)'
  <2>1. PICK s \in Nat : s = mem.cert
    BY DEF Types
  <2>2. Asked(s) /\ s <= srvActive
    BY <1>8, <2>1 DEF RenewalInv, Staged
  <2>3. Asked(s)'
    BY <1>6, <2>2
  <2> QED
    BY <2>1, <2>3
<1>9. ASSUME renewal' = renewal PROVE RenewalInv'
  <2>1. ASSUME pc = "renew", renewal \in Serial
        PROVE  /\ \/ srvActive' = mem.cert /\ srvPending' = renewal
                  \/ srvActive' = renewal /\ srvPending' = None
               /\ mem.cert < renewal /\ \A s \in lateRenew' : s < renewal
    <3>1. Keeps \/ Promotes
      BY <2>1
    <3> QED
      BY <2>1, <3>1 DEF RenewalInv, Keeps, Promotes
  <2> QED
    BY <1>7, <1>8, <1>9, <2>1 DEF RenewalInv
<1>10. FileInv'
  <2> SUFFICES ASSUME adrift = 0
               PROVE  /\ srvActive' \in {disk.cert, disk.pending}
                      /\ disk.pending \in {None, srvActive', srvPending'}
                      /\ srvPending' # None /\ (\E h \in lateHello' : h.serial = srvPending') =>
                             disk.pending = srvPending'
                      /\ pc \in {"connect", "dial"} => mem.pending \in {None, disk.pending}
    BY DEF FileInv
  <2>1. CASE Keeps
    BY <2>1 DEF Keeps, FileInv
  <2>2. CASE Promotes
    BY <2>2 DEF Promotes, FileInv
  <2>3. CASE Issues
    <3>1. \A h \in lateHello' : h.serial # srvPending'
      <4> SUFFICES ASSUME NEW h \in lateHello', h.serial = srvPending' PROVE FALSE
        OBVIOUS
      <4>1. PICK g \in lateHello : g.serial = h.serial
        OBVIOUS
      <4>2. g.serial <= Len(certs) /\ g.serial \in Nat
        BY DEF HelloInv, Types
      <4> QED
        BY <1>1, <2>3, <4>1, <4>2 DEF Issues
    <3> QED
      BY <2>3, <3>1 DEF Issues, FileInv
  <2> QED
    BY <2>1, <2>2, <2>3
<1> QED
  BY <1>1, <1>2, <1>4, <1>5, <1>7, <1>8, <1>9, <1>10

\* What the loop presents, and that the file has it when it is the pending one.
LEMMA PresentedSerial ==
    ASSUME RotationInv, pc = "dial"
    PROVE  /\ Presented \in Nat \ {0} /\ Presented <= Len(certs)
           /\ srvPending # None /\ Presented = srvPending /\ adrift = 0 =>
                  disk.pending = srvPending
<1> USE DEF RotationInv
<1>1. /\ mem.cert \in Nat /\ mem.pending \in Nat /\ Len(certs) \in Nat
      /\ srvActive \in Nat /\ srvPending \in Nat
  BY DEF Types, srvActive, srvPending
<1>2. CASE usingPending = 1
  BY <1>1, <1>2 DEF Presented, Certificate, HelloInv, Staged, FileInv, None
<1>3. CASE usingPending = 0
  BY <1>1, <1>3 DEF Presented, Certificate, Staged, RowInv, None
<1> QED
  BY <1>2, <1>3 DEF Types

LEMMA AuthenticateAgentPreserves ==
    ASSUME RotationInv, AuthenticateAgent PROVE RotationInv'
<1> USE DEF RotationInv
<1>1. /\ pc = "dial" /\ certs' = certs
      /\ UNCHANGED <<now, disk, mem, usingPending, pc, adrift>>
      /\ UNCHANGED <<lateHello, lateRenew, renewal>>
  BY DEF AuthenticateAgent, lateVars
<1>2. Presented' = Presented
  BY <1>1 DEF Presented, Certificate
<1>3. CASE hello = "read" /\ hello' = GetDevice(Presented) /\ UNCHANGED devices
  <2>1. Keeps /\ RowType'
    BY <1>1, <1>3 DEF Keeps, RowType, Types, srvActive, srvPending
  <2>2. ~Issues /\ ~Promotes
    BY <2>1 DEF Keeps, Issues, Promotes, Types, srvPending, None
  <2>3. /\ Types' /\ RowInv' /\ OneCertificatePerLifetime'
        /\ Staged(disk)' /\ Staged(mem)' /\ FileInv' /\ RenewalInv'
    BY <1>1, <2>1, <2>2, HandlerSteps DEF Types
  <2>4. hello' \in {"welcome", "promote", "failed"} /\ (hello' = "welcome" => srvActive = Presented)
    BY <1>3 DEF GetDevice
  <2>5. HelloInv'
    BY <1>1, <1>2, <2>1, <2>4 DEF HelloInv, Keeps, Types, srvActive
  <2> QED
    BY <2>3, <2>5
<1>4. CASE /\ hello = "promote" /\ Promote(Presented)
           /\ hello' = IF srvPending = Presented THEN "welcome" ELSE "failed"
  <2>1. Presented \in Nat \ {0}
    BY <1>1, PresentedSerial
  <2>2. PICK s \in Nat \ {0} : s = Presented
    BY <2>1
  <2>3. /\ RowType'
        /\ IF srvPending = s
           THEN srvPending # None /\ srvActive' = srvPending /\ srvPending' = None
           ELSE devices' = devices
    BY <1>4, <2>2, PromoteRow
  <2>4. (srvPending = Presented /\ Promotes) \/ (srvPending # Presented /\ Keeps)
    BY <1>1, <2>2, <2>3 DEF Promotes, Keeps, srvActive, srvPending
  <2>5. ~Issues
    BY <1>1, <2>4 DEF Promotes, Keeps, Issues, Types, srvPending, None
  <2>6. Promotes => (adrift = 0 => disk.pending = srvPending)
    <3>1. Keeps => ~Promotes
      BY Zenon DEF Keeps, Promotes, None
    <3> QED
      BY <1>1, <2>4, <3>1, PresentedSerial DEF Promotes
  <2>7. /\ Types' /\ RowInv' /\ OneCertificatePerLifetime'
        /\ Staged(disk)' /\ Staged(mem)' /\ FileInv' /\ RenewalInv'
    BY <1>1, <2>3, <2>4, <2>5, <2>6, HandlerSteps DEF Types
  <2>8. HelloInv'
    BY <1>1, <1>2, <1>4, <2>1, <2>4 DEF HelloInv, Promotes
  <2> QED
    BY <2>7, <2>8
<1> QED
  BY <1>3, <1>4 DEF AuthenticateAgent

LEMMA AuthenticateLatePreserves ==
    ASSUME RotationInv, AuthenticateLate PROVE RotationInv'
<1> USE DEF RotationInv
<1>1. /\ certs' = certs /\ UNCHANGED <<now, disk, mem, usingPending, pc, adrift>>
      /\ UNCHANGED <<lateRenew, renewal, hello>>
  BY DEF AuthenticateLate, agentVars
<1>2. PICK h \in lateHello :
          \/ /\ h.step = "read"
             /\ lateHello' = (lateHello \ {h}) \cup
                    (IF GetDevice(h.serial) = "promote"
                     THEN {[h EXCEPT !.step = "promote"]} ELSE {})
             /\ UNCHANGED devices
          \/ /\ h.step = "promote" /\ lateHello' = lateHello \ {h} /\ Promote(h.serial)
  BY DEF AuthenticateLate
<1>3. h \in [serial : Nat, step : {"read", "promote"}] /\ h.serial \in Nat \ {0}
  BY DEF Types, HelloInv
<1>4. /\ lateHello' \subseteq [serial : Nat, step : {"read", "promote"}]
      /\ \A k \in lateHello' : \E g \in lateHello : g.serial = k.serial
  <2>1. PICK x : x = [h EXCEPT !.step = "promote"]
    BY Zenon
  <2>2. x \in [serial : Nat, step : {"read", "promote"}] /\ x.serial = h.serial
    BY <1>3, <2>1
  <2>3. lateHello' \subseteq lateHello \cup {x}
    BY <1>2, <2>1
  <2> QED
    BY <2>2, <2>3 DEF Types
<1>5. /\ RowType' /\ (Keeps \/ Promotes) /\ (Promotes => srvPending = h.serial)
  <2>1. CASE UNCHANGED devices
    BY <1>1, <2>1, Zenon DEF Keeps, Promotes, RowType, Types, srvActive, srvPending
  <2>2. CASE Promote(h.serial)
    <3>1. /\ RowType'
          /\ IF srvPending = h.serial
             THEN srvPending # None /\ srvActive' = srvPending /\ srvPending' = None
             ELSE devices' = devices
      BY <1>3, <2>2, PromoteRow
    <3> QED
      BY <1>1, <3>1 DEF Promotes, Keeps, srvActive, srvPending
  <2> QED
    BY <1>2, <2>1, <2>2
<1>6. ~Issues
  BY <1>1, <1>5 DEF Promotes, Keeps, Issues, Types, srvPending, None
<1>7. Promotes => (adrift = 0 => disk.pending = srvPending)
  BY <1>5, Zenon DEF Promotes, FileInv
<1>8. /\ Types' /\ RowInv' /\ OneCertificatePerLifetime'
      /\ Staged(disk)' /\ Staged(mem)' /\ FileInv' /\ RenewalInv'
      /\ \A k \in lateHello' : k.serial > 0 /\ k.serial <= Len(certs')
  BY <1>1, <1>4, <1>5, <1>6, <1>7, HandlerSteps, Zenon DEF Types
<1>9. srvActive <= srvActive' /\ srvActive \in Nat /\ srvActive' \in Nat
  BY <1>1, <1>5, <1>6, RowMoves, <1>8 DEF Types, srvActive
<1>10. HelloInv'
  <2>1. Presented' = Presented
    BY <1>1 DEF Presented, Certificate
  <2>2. Presented \in Nat
    BY DEF Presented, Certificate, Types
  <2> QED
    BY <1>1, <1>8, <1>9, <2>1, <2>2 DEF HelloInv
<1> QED
  BY <1>8, <1>10

LEMMA HandleLateRenewalPreserves ==
    ASSUME RotationInv, HandleLateRenewal PROVE RotationInv'
<1> USE DEF RotationInv
<1>1. /\ UNCHANGED <<now, disk, mem, usingPending, pc, adrift>>
      /\ UNCHANGED <<lateHello, renewal, hello>>
  BY DEF HandleLateRenewal, agentVars
<1>2. PICK s \in lateRenew : RenewCertificate(s) /\ lateRenew' = lateRenew \ {s}
  BY DEF HandleLateRenewal
<1>3. RowType' /\ ((srvActive = s /\ Issues) \/ Keeps)
  BY <1>2, RenewRow DEF srvVars, Keeps, srvActive, srvPending
<1>4. Keeps => ~Issues
  BY DEF Keeps, Issues, Types, srvPending
<1>5. ~Promotes
  BY <1>3 DEF Promotes, Keeps, Issues, None, Types, srvPending
<1>6. Issues => certificateRenewalDue(certs[srvActive], now)
  BY <1>3, <1>4, Zenon DEF RenewalInv, Asked, Issues
<1>7. Issues => ~(pc = "renew" /\ renewal \in Serial)
  BY <1>3, <1>4 DEF RenewalInv, Issues, Types, Serial, None, srvActive
<1>8. /\ Types' /\ RowInv' /\ OneCertificatePerLifetime'
      /\ Staged(disk)' /\ Staged(mem)' /\ FileInv' /\ RenewalInv'
      /\ \A k \in lateHello' : k.serial > 0 /\ k.serial <= Len(certs')
  BY <1>1, <1>2, <1>3, <1>5, <1>6, <1>7, HandlerSteps, Zenon DEF Types
<1>9. HelloInv'
  <2>1. Presented' = Presented /\ srvActive' = srvActive
    BY <1>1, <1>3, Zenon DEF Presented, Certificate, Issues, Keeps
  <2> QED
    BY <1>1, <1>8, <2>1 DEF HelloInv
<1> QED
  BY <1>8, <1>9

LEMMA HandleRenewalPreserves ==
    ASSUME RotationInv, HandleRenewal PROVE RotationInv'
<1> USE DEF RotationInv
<1>1. /\ UNCHANGED <<now, disk, mem, usingPending, pc, adrift>>
      /\ UNCHANGED <<lateHello, lateRenew, hello>> /\ pc = "renew" /\ renewal = Waiting
  BY DEF HandleRenewal, lateVars
<1>2. /\ RowType' /\ ((srvActive = mem.cert /\ Issues) \/ Keeps)
      /\ renewal' = Failed \/ (renewal' = srvPending' /\ srvActive = mem.cert)
  <2>1. CASE Admitted(mem.cert)
    <3>1. RenewCertificate(mem.cert)
          /\ renewal' = IF srvActive = mem.cert THEN srvPending' ELSE Failed
      BY <2>1, Zenon DEF HandleRenewal
    <3> QED
      BY <3>1, RenewRow DEF srvVars, Keeps, srvActive, srvPending
  <2>2. CASE ~Admitted(mem.cert)
    BY <2>2 DEF HandleRenewal, srvVars, Keeps, srvActive, srvPending, RowType, Types
  <2> QED
    BY <2>1, <2>2
<1>3. Keeps => ~Issues
  BY DEF Keeps, Issues, Types, srvPending
<1>4. ~Promotes
  BY <1>2 DEF Promotes, Keeps, Issues, None, Types, srvPending
<1>5. Issues => certificateRenewalDue(certs[srvActive], now)
  BY <1>1, <1>2, <1>3 DEF RenewalInv, Asked, Issues
<1>6. ~(renewal \in Serial)
  BY <1>1 DEF Waiting, Serial
<1>7. renewal' \in Nat /\ srvPending' \in Nat /\ srvActive \in Nat /\ mem.cert \in Nat
  BY <1>2, BoundsAssumption DEF Failed, RowType, srvPending, srvActive, Types
<1>8. /\ Types' /\ RowInv' /\ OneCertificatePerLifetime'
      /\ Staged(disk)' /\ Staged(mem)' /\ FileInv'
      /\ \A k \in lateHello' : k.serial > 0 /\ k.serial <= Len(certs')
      /\ \A s \in lateRenew' : s > 0 /\ s <= srvActive' /\ Asked(s)'
      /\ Asked(mem.cert)'
  BY <1>1, <1>2, <1>4, <1>5, <1>6, <1>7, HandlerSteps DEF Types
<1>9. srvActive' = srvActive
  BY <1>2 DEF Keeps, Issues
<1>10. HelloInv'
  <2>1. Presented' = Presented
    BY <1>1 DEF Presented, Certificate
  <2> QED
    BY <1>1, <1>8, <1>9, <2>1 DEF HelloInv
<1>11. RenewalInv'
  <2>1. ASSUME renewal' \in Serial
        PROVE  /\ srvActive' = mem.cert /\ srvPending' = renewal' /\ mem.cert < renewal'
               /\ \A s \in lateRenew : s < renewal'
    <3>1. renewal' = srvPending' /\ srvActive' = mem.cert /\ srvPending' # None
      BY <1>2, <1>9, <2>1, BoundsAssumption DEF Failed, Serial, None
    <3>2. srvActive' < srvPending'
      BY <1>7, <1>8, <1>9, <3>1 DEF RowInv, Types
    <3>3. \A s \in lateRenew : s \in Nat /\ s <= srvActive'
      BY <1>1, <1>8 DEF Types
    <3> QED
      BY <1>7, <1>9, <3>1, <3>2, <3>3
  <2> QED
    BY <1>1, <1>8, <2>1 DEF RenewalInv
<1> QED
  BY <1>8, <1>10, <1>11

-------------------------------------------------------------------------------
(* The agent's part. *)

LEMMA Serials ==
    ASSUME RotationInv
    PROVE  /\ srvActive \in Nat /\ srvPending \in Nat /\ Len(certs) \in Nat
           /\ mem.cert \in Nat /\ mem.pending \in Nat
           /\ disk.cert \in Nat /\ disk.pending \in Nat
           /\ srvActive > 0 /\ srvActive <= Len(certs)
           /\ srvPending # None => srvActive < srvPending /\ srvPending = Len(certs)
BY DEF RotationInv, Types, srvActive, srvPending, RowInv, None

\* The steps of the loop leave the server alone.
LEMMA ServerStays ==
    ASSUME RotationInv, UNCHANGED srvVars, now' = now
    PROVE  /\ srvActive' = srvActive /\ srvPending' = srvPending /\ certs' = certs
           /\ RowInv' /\ OneCertificatePerLifetime'
           /\ \A c : Staged(c)' <=> Staged(c)
           /\ \A s : Asked(s)' <=> Asked(s)
<1>1. srvActive' = srvActive /\ srvPending' = srvPending /\ certs' = certs
  BY DEF srvVars, srvActive, srvPending
<1>2. RowInv' /\ OneCertificatePerLifetime'
  BY <1>1 DEF RotationInv, RowInv, OneCertificatePerLifetime
<1> QED
  BY <1>1, <1>2 DEF Staged, Asked

\* Steps with the same credentials in the file and in memory as before, or with
\* what the file has.
LEMMA LoopSteps ==
    ASSUME RotationInv, UNCHANGED srvVars, UNCHANGED <<now, lateHello, lateRenew, disk>>,
           mem' \in {mem, disk}, usingPending' \in {0, 1}, renewal' \in Nat,
           HelloInv',
           pc' = "renew" => renewal' \notin Serial,
           renewal' = Waiting => pc' = "renew" /\ Asked(mem'.cert),
           adrift' = 0 => /\ adrift = 0
                          /\ pc' \in {"connect", "dial"} => mem'.pending \in {None, disk.pending}
    PROVE  RotationInv'
<1> USE DEF RotationInv
<1>1. /\ srvActive' = srvActive /\ srvPending' = srvPending /\ certs' = certs
      /\ RowInv' /\ OneCertificatePerLifetime'
      /\ \A c : Staged(c)' <=> Staged(c)
      /\ \A s : Asked(s)' <=> Asked(s)
  BY ServerStays
<1>2. Types'
  BY Zenon DEF Types, srvVars
<1>3. Staged(disk)' /\ Staged(mem)'
  BY <1>1, Zenon DEF Staged
<1>4. RenewalInv'
  <2>1. renewal' = Waiting => Asked(mem.cert)'
    BY <1>1, Zenon DEF Asked
  <2> QED
    BY <1>1, <2>1, Zenon DEF RenewalInv
<1>5. FileInv'
  BY <1>1, Zenon DEF FileInv
<1> QED
  BY <1>1, <1>2, <1>3, <1>4, <1>5

LEMMA StartPreserves == ASSUME RotationInv, Start PROVE RotationInv'
<1> USE DEF RotationInv
<1>1. /\ pc = "down" /\ pc' = "connect" /\ mem' = disk /\ UNCHANGED srvVars
      /\ UNCHANGED <<now, lateHello, lateRenew, disk>>
      /\ UNCHANGED <<usingPending, hello, renewal, adrift>>
  BY DEF Start, lateVars
<1>2. certs' = certs
  BY <1>1 DEF srvVars
<1>3. HelloInv'
  BY <1>1, <1>2, Zenon DEF HelloInv
<1> QED
  BY <1>1, <1>3, LoopSteps DEF Types, RenewalInv

LEMMA reloadPreserves == ASSUME RotationInv, reloadCredsForReconnect PROVE RotationInv'
<1> USE DEF RotationInv
<1>1. /\ pc = "reconnect" /\ pc' = "connect" /\ mem' \in {mem, disk} /\ UNCHANGED srvVars
      /\ UNCHANGED <<now, lateHello, lateRenew, disk>>
      /\ UNCHANGED <<usingPending, hello, renewal>>
      /\ adrift' = 0 => adrift = 0 /\ mem'.pending \in {None, disk.pending}
  BY DEF reloadCredsForReconnect, lateVars
<1>2. certs' = certs
  BY <1>1 DEF srvVars
<1>3. HelloInv'
  BY <1>1, <1>2 DEF HelloInv
<1> QED
  BY <1>1, <1>3, LoopSteps, Zenon DEF Types, RenewalInv

LEMMA DialPreserves == ASSUME RotationInv, Dial PROVE RotationInv'
<1> USE DEF RotationInv
<1>1. /\ pc = "connect" /\ pc' = "dial" /\ mem' = mem /\ UNCHANGED srvVars
      /\ UNCHANGED <<now, lateHello, lateRenew, disk>>
      /\ UNCHANGED <<renewal, adrift>> /\ hello' \in {"read", "failed"}
      /\ usingPending' = IF presentPendingCertificate(mem.pending, fallback) THEN 1 ELSE 0
  BY DEF Dial, lateVars
<1>2. certs' = certs
  BY <1>1 DEF srvVars
<1>3. usingPending' \in {0, 1} /\ (usingPending' = 1 => mem.pending # None)
  BY <1>1 DEF presentPendingCertificate
<1>4. HelloInv'
  BY <1>1, <1>2, <1>3, Zenon DEF HelloInv
<1>5. adrift = 0 => mem.pending \in {None, disk.pending}
  BY <1>1, Zenon DEF FileInv
<1> QED
  BY <1>1, <1>3, <1>4, <1>5, LoopSteps DEF Types, RenewalInv

\* Steps that leave a session, or go on with it, with the credentials as they are.
LEMMA SessionPreserves ==
    ASSUME RotationInv, ReadinessTimeout \/ ConnectedWithActive \/ RenewalFails \/ StreamEnds
    PROVE  RotationInv'
<1> USE DEF RotationInv
<1>1. /\ mem' = mem /\ UNCHANGED srvVars /\ UNCHANGED <<now, lateHello, lateRenew, disk>>
      /\ UNCHANGED <<usingPending, adrift>> /\ pc' \in {"reconnect", "renew", "run"}
      /\ hello' = "none" \/ (hello' = hello /\ pc # "dial")
      /\ pc' = "renew" => /\ pc = "dial" /\ renewal' = Waiting
                          /\ mem.pending # None \/ certificateRenewalDue(certs[mem.cert], now)
      /\ renewal' \in {renewal, Waiting, Failed}
  BY Zenon DEF ReadinessTimeout, ConnectedWithActive, RenewalFails, StreamEnds, lateVars
<1>2. certs' = certs
  BY <1>1, Zenon DEF srvVars
<1>3. HelloInv'
  BY <1>1, <1>2, Zenon DEF HelloInv
<1>4. pc' = "renew" => Asked(mem.cert)
  BY <1>1 DEF Asked, Staged
<1>5. Waiting \in Nat /\ Failed \in Nat /\ Waiting \notin Serial /\ Failed # Waiting
  BY BoundsAssumption DEF Waiting, Failed, Serial
<1>6. renewal' = Waiting => pc' = "renew"
  BY <1>5, Zenon DEF RenewalInv, ReadinessTimeout, ConnectedWithActive, RenewalFails, StreamEnds
<1> QED
  BY <1>1, <1>3, <1>4, <1>5, <1>6, LoopSteps, Zenon DEF Types

LEMMA PromoteAfterConnectPreserves ==
    ASSUME RotationInv, PromoteAfterConnect PROVE RotationInv'
<1> USE DEF RotationInv
<1>1. /\ pc = "dial" /\ hello = "welcome" /\ usingPending = 1 /\ UNCHANGED srvVars
      /\ mem' = [cert |-> mem.pending, pending |-> None] /\ disk' \in {mem', disk}
      /\ UNCHANGED <<now, lateHello, lateRenew>> /\ pc' = "run" /\ hello' = "none"
      /\ UNCHANGED <<usingPending, renewal, adrift>>
  BY Zenon DEF PromoteAfterConnect, Save, lateVars
<1>2. /\ srvActive' = srvActive /\ srvPending' = srvPending /\ certs' = certs
      /\ RowInv' /\ OneCertificatePerLifetime'
      /\ \A c : Staged(c)' <=> Staged(c)
      /\ \A s : Asked(s)' <=> Asked(s)
  BY <1>1, ServerStays
<1>3. /\ srvActive \in Nat /\ srvPending \in Nat /\ mem.pending \in Nat
      /\ srvPending # None => srvActive < srvPending
  BY Serials, Zenon
<1>4. mem.pending # None /\ mem.pending <= srvActive
  BY <1>1 DEF HelloInv, Presented, Certificate
<1>5. /\ mem' \in [cert : Nat, pending : Nat] /\ mem'.cert = mem.pending /\ mem'.pending = None
  BY <1>1, <1>3, Zenon DEF None
<1>6. Types'
  BY <1>1, <1>5, Zenon DEF Types, srvVars
<1>7. PICK x : x = [cert |-> mem.pending, pending |-> None]
  BY Zenon
<1>8. Staged(x)
  BY <1>3, <1>4, <1>7, Serials DEF Staged, None
<1>9. Staged(disk)' /\ Staged(mem)'
  BY <1>1, <1>2, <1>7, <1>8, Zenon DEF Staged
<1>10. HelloInv' /\ RenewalInv'
  BY <1>1, <1>2, Zenon DEF HelloInv, RenewalInv
<1>11. FileInv'
  <2> SUFFICES ASSUME adrift = 0
               PROVE  /\ srvActive \in {disk'.cert, disk'.pending}
                      /\ disk'.pending \in {None, srvActive, srvPending}
                      /\ srvPending # None /\ (\E h \in lateHello : h.serial = srvPending) =>
                             disk'.pending = srvPending
    BY <1>1, <1>2, Zenon DEF FileInv
  <2>1. disk.pending = mem.pending /\ disk.pending # srvPending
    BY <1>1, <1>3, <1>4 DEF FileInv
  <2>2. srvActive = mem.pending
    BY <1>4, <2>1 DEF FileInv
  <2>3. CASE disk' = disk
    BY <2>3 DEF FileInv
  <2>4. CASE disk' = mem'
    BY <1>5, <2>1, <2>2, <2>4 DEF FileInv
  <2> QED
    BY <1>1, <2>3, <2>4, Zenon
<1> QED
  BY <1>2, <1>6, <1>9, <1>10, <1>11, Zenon

LEMMA ApplyRenewalPreserves ==
    ASSUME RotationInv, ApplyRenewal PROVE RotationInv'
<1> USE DEF RotationInv
<1>1. /\ pc = "renew" /\ renewal \in Serial /\ UNCHANGED srvVars
      /\ mem' = [mem EXCEPT !.pending = renewal] /\ renewal' = Failed
      /\ (disk' = mem' /\ pc' = "reconnect") \/ (disk' = disk /\ pc' = "run")
      /\ UNCHANGED <<now, lateHello, lateRenew>> /\ UNCHANGED <<usingPending, hello, adrift>>
  BY DEF ApplyRenewal, lateVars
<1>2. /\ srvActive' = srvActive /\ srvPending' = srvPending /\ certs' = certs
      /\ RowInv' /\ OneCertificatePerLifetime'
      /\ \A c : Staged(c)' <=> Staged(c)
      /\ \A s : Asked(s)' <=> Asked(s)
  BY <1>1, ServerStays
<1>3. renewal \in Nat \ {0} /\ Failed \in Nat /\ Failed # Waiting
  BY <1>1, BoundsAssumption DEF Serial, Failed, Waiting
<1>4. PICK x : x = [mem EXCEPT !.pending = renewal]
  BY Zenon
<1>5. x \in [cert : Nat, pending : Nat] /\ x.cert = mem.cert /\ x.pending = renewal
  BY <1>3, <1>4, Zenon DEF Types
<1>6. /\ \/ srvActive = mem.cert /\ srvPending = renewal
         \/ srvActive = renewal /\ srvPending = None
      /\ mem.cert < renewal
  BY <1>1 DEF RenewalInv
<1>7. Staged(x)
  BY <1>3, <1>5, <1>6, Serials DEF Staged, None
<1>8. Types'
  BY <1>1, <1>3, <1>4, <1>5 DEF Types, srvVars
<1>9. Staged(disk)' /\ Staged(mem)'
  BY <1>1, <1>2, <1>4, <1>7, Zenon DEF Staged
<1>10. HelloInv' /\ RenewalInv'
  BY <1>1, <1>2, <1>3 DEF HelloInv, RenewalInv
<1>11. FileInv'
  <2>1. CASE disk' = disk
    BY <1>1, <1>2, <2>1 DEF FileInv
  <2>2. CASE disk' = x
    BY <1>1, <1>2, <1>5, <1>6, <2>2 DEF FileInv
  <2> QED
    BY <1>1, <1>4, <2>1, <2>2
<1> QED
  BY <1>2, <1>8, <1>9, <1>10, <1>11

-------------------------------------------------------------------------------
(* Faults and time. *)

LEMMA FaultPreserves ==
    ASSUME RotationInv, HelloLost \/ RenewalLost \/ Crash PROVE RotationInv'
<1> USE DEF RotationInv
<1>1. /\ LeaveRequests /\ UNCHANGED srvVars /\ UNCHANGED <<now, disk, adrift>>
      /\ mem' \in {mem, disk} /\ usingPending' \in {usingPending, 0}
      /\ renewal' \in {renewal, Failed} /\ (pc' = "renew" => renewal' = Failed)
      /\ hello' \in {"failed", "none"} \/ (hello' = hello /\ pc = "renew")
      /\ \/ pc' = pc /\ mem' = mem /\ usingPending' = usingPending
         \/ pc' = "down"
  BY DEF HelloLost, RenewalLost, Crash
<1>2. /\ srvActive' = srvActive /\ srvPending' = srvPending /\ certs' = certs
      /\ RowInv' /\ OneCertificatePerLifetime'
      /\ \A c : Staged(c)' <=> Staged(c)
      /\ \A s : Asked(s)' <=> Asked(s)
  BY <1>1, ServerStays, Zenon
<1>3. \A h \in lateHello' \ lateHello :
          /\ pc = "dial" /\ hello \in {"read", "promote"} /\ h.serial = Presented
          /\ h = [serial |-> Presented, step |-> hello]
  BY <1>1 DEF LeaveRequests, HelloInv
<1>4. \A s \in lateRenew' \ lateRenew : s = mem.cert /\ renewal = Waiting
  BY <1>1 DEF LeaveRequests
<1>5. Types'
  <2>1. lateHello' \subseteq [serial : Nat, step : {"read", "promote"}]
    <3>1. \A h \in lateHello' \ lateHello : h \in [serial : Nat, step : {"read", "promote"}]
      BY <1>3, PresentedSerial
    <3> QED
      BY <3>1 DEF Types
  <2>2. lateRenew' \subseteq Nat
    BY <1>4, Zenon DEF Types
  <2>3. Failed \in Nat
    BY BoundsAssumption DEF Failed
  <2> QED
    BY <1>1, <2>1, <2>2, <2>3 DEF Types, srvVars
<1>6. Staged(disk)' /\ Staged(mem)'
  BY <1>1, <1>2, Zenon DEF Staged
<1>7. HelloInv'
  <2>1. \A h \in lateHello' : h.serial > 0 /\ h.serial <= Len(certs)
    <3>1. \A h \in lateHello' \ lateHello : h.serial > 0 /\ h.serial <= Len(certs)
      BY <1>3, PresentedSerial
    <3> QED
      BY <3>1 DEF HelloInv
  <2> QED
    BY <1>1, <1>2, <2>1 DEF HelloInv
<1>8. RenewalInv'
  <2>1. \A s \in lateRenew' : s > 0 /\ s <= srvActive /\ Asked(s)
    BY <1>4 DEF RenewalInv, Staged
  <2>2. Failed # Waiting /\ Failed \notin Serial
    BY BoundsAssumption DEF Failed, Waiting, Serial
  <2>3. renewal' = Waiting => pc' = "renew" /\ pc' = pc /\ mem' = mem /\ renewal' = renewal
    BY <1>1, <2>2, Zenon DEF RenewalInv, HelloLost, RenewalLost, Crash
  <2>4. renewal' = Waiting => Asked(mem.cert)'
    BY <1>2, <2>3, Zenon DEF RenewalInv
  <2> QED
    BY <1>1, <1>2, <2>1, <2>2, <2>3, <2>4 DEF RenewalInv
<1>9. FileInv'
  <2> SUFFICES ASSUME adrift = 0
               PROVE  /\ srvPending # None /\ (\E h \in lateHello' : h.serial = srvPending) =>
                             disk.pending = srvPending
                      /\ pc' \in {"connect", "dial"} => mem'.pending \in {None, disk.pending}
    BY <1>1, <1>2, Zenon DEF FileInv
  <2>1. \A h \in lateHello' \ lateHello : srvPending # None /\ h.serial = srvPending =>
                                               disk.pending = srvPending
    BY <1>3, PresentedSerial
  <2> QED
    BY <1>1, <2>1, Zenon DEF FileInv
<1> QED
  BY <1>2, <1>5, <1>6, <1>7, <1>8, <1>9, Zenon

LEMMA TickPreserves == ASSUME RotationInv, Tick PROVE RotationInv'
<1> USE DEF RotationInv
<1>1. /\ now' = now + 1 /\ now \in Nat /\ UNCHANGED srvVars /\ UNCHANGED <<lateHello, lateRenew>>
      /\ UNCHANGED <<disk, mem, usingPending, pc, hello, renewal, adrift>>
  BY DEF Tick, Types, lateVars, agentVars
<1>2. /\ srvActive' = srvActive /\ srvPending' = srvPending /\ certs' = certs
  BY <1>1, Zenon DEF srvVars, srvActive, srvPending
<1>3. Types' /\ RowInv' /\ Staged(disk)' /\ Staged(mem)' /\ FileInv' /\ OneCertificatePerLifetime'
  BY <1>1, <1>2 DEF Types, RowInv, Staged, FileInv, OneCertificatePerLifetime, srvVars
<1>4. HelloInv'
  <2>1. Presented' = Presented
    BY <1>1 DEF Presented, Certificate
  <2> QED
    BY <1>1, <1>2, <2>1, Zenon DEF HelloInv
<1>5. \A s \in Nat : s > 0 /\ s <= srvActive /\ Asked(s) => Asked(s)'
  <2> SUFFICES ASSUME NEW s \in Nat, s > 0, s <= srvActive, Asked(s) PROVE Asked(s)'
    BY Zenon
  <2>1. certs[s] \in Cert
    BY Serials DEF Types
  <2>2. certs[s].not_before \in Nat /\ certs[s].not_after \in Nat
    BY <2>1, Zenon DEF Cert
  <2>3. certificateRenewalDue(certs[s], now) => certificateRenewalDue(certs[s], now')
    BY <1>1, <2>2 DEF certificateRenewalDue
  <2> QED
    BY <1>2, <2>3 DEF Asked
<1>6. RenewalInv'
  <2>1. \A s \in lateRenew : Asked(s)'
    BY <1>5 DEF RenewalInv, Types
  <2>2. renewal = Waiting => Asked(mem.cert)'
    <3>1. PICK s \in Nat : s = mem.cert
      BY Serials, Zenon
    <3>2. renewal = Waiting => Asked(s)'
      BY <1>5, <3>1 DEF RenewalInv, Staged
    <3> QED
      BY <1>1, <3>1, <3>2 DEF Asked
  <2> QED
    BY <1>1, <1>2, <2>1, <2>2, Zenon DEF RenewalInv
<1> QED
  BY <1>3, <1>4, <1>6

-------------------------------------------------------------------------------
LEMMA InitEstablishes == ASSUME Init PROVE RotationInv
<1>1. /\ now = 0 /\ certs = <<Issue>> /\ lateHello = {} /\ lateRenew = {}
      /\ devices = [d \in {DeviceID} |->
                       [active_cert_serial |-> 1, pending_cert_serial |-> None]]
      /\ disk = [cert |-> 1, pending |-> None] /\ mem = disk
      /\ usingPending = 0 /\ pc = "down" /\ hello = "none" /\ renewal = Failed
  BY Zenon DEF Init
<1>2. srvActive = 1 /\ srvPending = None
  BY <1>1, Zenon DEF srvActive, srvPending
<1>3. certs \in Seq(Cert) /\ Len(certs) = 1
  BY <1>1, IssueTyped
<1>4. Failed \in Nat /\ Failed # Waiting /\ Failed \notin Serial
  BY BoundsAssumption DEF Failed, Waiting, Serial
<1>5. Types
  BY <1>1, <1>3, <1>4, Zenon DEF Types, None
<1>6. RowInv /\ Staged(disk) /\ Staged(mem) /\ FileInv
  BY <1>1, <1>2, <1>3 DEF RowInv, Staged, FileInv, None
<1>7. HelloInv /\ RenewalInv
  BY <1>1, <1>4 DEF HelloInv, RenewalInv
<1>8. OneCertificatePerLifetime
  BY <1>3 DEF OneCertificatePerLifetime
<1> QED
  BY <1>5, <1>6, <1>7, <1>8, Zenon DEF RotationInv

LEMMA RotationStep ==
    ASSUME RotationInv, [Next]_vars PROVE RotationInv'
<1>1. CASE LoopStep
  BY <1>1, StartPreserves, reloadPreserves, DialPreserves, SessionPreserves,
     PromoteAfterConnectPreserves, ApplyRenewalPreserves DEF LoopStep
<1>2. CASE ServerStep
  BY <1>2, AuthenticateAgentPreserves, HandleRenewalPreserves DEF ServerStep
<1>3. CASE AuthenticateLate \/ HandleLateRenewal
  BY <1>3, AuthenticateLatePreserves, HandleLateRenewalPreserves
<1>4. CASE HelloLost \/ RenewalLost \/ Crash \/ Tick
  BY <1>4, FaultPreserves, TickPreserves
<1>5. CASE UNCHANGED vars
  <2>1. /\ UNCHANGED <<now, certs, devices, lateHello, lateRenew, disk, mem>>
        /\ UNCHANGED <<usingPending, pc, hello, renewal, adrift>>
    BY <1>5 DEF vars, srvVars, lateVars, agentVars
  <2>2. srvActive' = srvActive /\ srvPending' = srvPending
    BY <2>1, Zenon DEF srvActive, srvPending
  <2>3. Types' /\ OneCertificatePerLifetime'
    BY <2>1, Zenon DEF RotationInv, Types, OneCertificatePerLifetime
  <2>4. RowInv' /\ Staged(disk)' /\ Staged(mem)' /\ FileInv'
    BY <2>1, <2>2, Zenon DEF RotationInv, RowInv, Staged, FileInv
  <2>5. HelloInv'
    BY <2>1, <2>2, Zenon DEF RotationInv, HelloInv, Presented, Certificate
  <2>6. RenewalInv'
    BY <2>1, <2>2 DEF RotationInv, RenewalInv, Asked
  <2> QED
    BY <2>3, <2>4, <2>5, <2>6 DEF RotationInv
<1> QED
  BY <1>1, <1>2, <1>3, <1>4, <1>5 DEF Next

\* The invariant that the theorems below follow from.
THEOREM RotationInvariant == Spec => []RotationInv
<1> QED
  BY InitEstablishes, RotationStep, PTL DEF Spec

\* An agent restarted at any point of a rotation finds a certificate in its file
\* that authenticateAgent accepts, unless it went adrift.
THEOREM FileIsAlwaysAccepted == Spec => []FileIsAccepted
<1>1. RotationInv => FileIsAccepted
  BY DEF RotationInv, FileInv, FileIsAccepted
<1> QED
  BY <1>1, RotationInvariant, PTL

\* RenewCertificate issues a certificate only once its predecessor is due,
\* however requests are lost, repeated and handled late.
THEOREM CertificatesLastTheirLifetime == Spec => []OneCertificatePerLifetime
<1>1. RotationInv => OneCertificatePerLifetime
  BY DEF RotationInv
<1> QED
  BY <1>1, RotationInvariant, PTL

LEMMA ForwardStep ==
    ASSUME RotationInv, Next PROVE Keeps \/ Promotes \/ Issues
<1>1. CASE UNCHANGED srvVars
  BY <1>1, Zenon DEF srvVars, Keeps, srvActive, srvPending
<1>2. ASSUME NEW s \in Nat \ {0}, Promote(s), certs' = certs PROVE Keeps \/ Promotes
  BY <1>2, PromoteRow DEF RotationInv, Keeps, Promotes, srvActive, srvPending
<1>3. ASSUME NEW s, RenewCertificate(s) PROVE Keeps \/ Issues
  BY <1>3, RenewRow DEF RotationInv, srvVars, Keeps, srvActive, srvPending
<1>4. CASE AuthenticateAgent
  <2>1. CASE UNCHANGED devices
    BY <1>1, <1>4, <2>1, Zenon DEF AuthenticateAgent, srvVars
  <2>2. CASE Promote(Presented)
    <3>1. PICK s \in Nat \ {0} : s = Presented
      BY <1>4, PresentedSerial DEF AuthenticateAgent
    <3> QED
      BY <1>2, <1>4, <2>2, <3>1, Zenon DEF AuthenticateAgent
  <2> QED
    BY <1>4, <2>1, <2>2, Zenon DEF AuthenticateAgent
<1>5. CASE AuthenticateLate
  <2>1. PICK h \in lateHello : UNCHANGED devices \/ Promote(h.serial)
    BY <1>5 DEF AuthenticateLate
  <2>2. h.serial \in Nat \ {0} /\ certs' = certs
    BY <1>5 DEF RotationInv, Types, HelloInv, AuthenticateLate
  <2> QED
    BY <1>1, <1>2, <2>1, <2>2 DEF srvVars
<1>6. CASE HandleRenewal \/ HandleLateRenewal
  BY <1>1, <1>3, <1>6 DEF HandleRenewal, HandleLateRenewal
<1>7. CASE LoopStep \/ HelloLost \/ RenewalLost \/ Crash \/ Tick
  BY <1>1, <1>7, Zenon DEF LoopStep, HelloLost, RenewalLost, Crash, Tick, Start,
     reloadCredsForReconnect, Dial, ReadinessTimeout, PromoteAfterConnect,
     ConnectedWithActive, ApplyRenewal, RenewalFails, StreamEnds
<1> QED
  BY <1>4, <1>5, <1>6, <1>7 DEF Next, ServerStep

\* No statement of authenticateAgent or RenewCertificate, however late, takes
\* the device row back or withdraws a certificate before it is used.
THEOREM RowRotatesForward == Spec => RotatesForward
<1>1. ASSUME RotationInv, [Next]_vars
      PROVE  [/\ srvActive' >= srvActive
              /\ srvPending # None /\ srvPending' # srvPending =>
                     srvPending' = None /\ srvActive' = srvPending]_vars
  <2>1. CASE Next
    <3>1. Keeps \/ Promotes \/ Issues
      BY <1>1, <2>1, ForwardStep
    <3> QED
      BY <1>1, <3>1, Serials DEF Keeps, Promotes, Issues
  <2> QED
    BY <1>1, <2>1
<1> QED
  BY <1>1, RotationInvariant, PTL DEF Spec, RotatesForward

===============================================================================
