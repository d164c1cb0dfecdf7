----------------------------- MODULE Certificates -----------------------------
(***************************************************************************)
(* Device certificates: the request an agent makes (sdk/crypto), the       *)
(* certificate the CA makes of it (server/internal/ca), the identity the   *)
(* server takes from a TLS peer (server/internal/mtls), and the agent's    *)
(* checks of a renewed certificate (agent/cmd/cadestrod).                  *)
(*                                                                         *)
(* A key stands for an Ed25519 key pair, and a request or a certificate is *)
(* a record of the fields that one of these functions reads.  The one CA   *)
(* signs every certificate.  The minute of clockSkewAllowance is shorter   *)
(* than a unit of time.                                                    *)
(***************************************************************************)
EXTENDS Naturals

CONSTANT Validity   \* ca.validity

\* GenerateCSR with a new key, GenerateCSRFromKey with the stored one: signed
\* with the key, and without subject alternative names.
GenerateCSR(key) == [key |-> key, signed_by |-> key, sans |-> {}]

\* parseEnrollmentCSR accepts the request.
parseEnrollmentCSR(csr) == csr.signed_by = csr.key /\ csr.sans = {}

EnrollmentIdentityFromCSR(csr) == csr.key

PeerClassURI(class) == [scheme |-> "spiffe", host |-> "cadestro", path |-> class]

\* The subject is the device's id, whatever the request named.
IssueCertificateFromCSR(device, csr, now) ==
    [common_name |-> device, key |-> csr.key, uris |-> {PeerClassURI("agent")},
     not_before |-> now, not_after |-> now + Validity]

\* The classes a certificate claims; PeerClassFromCert accepts one known class.
PeerClassFromCert(cert) ==
    {u.path : u \in {v \in cert.uris : v.scheme = "spiffe" /\ v.host = "cadestro"}}

\* AgentMiddleware lets the request through, for the device it names.
AgentMiddleware(cert) == PeerClassFromCert(cert) = {"agent"}

DeviceIDFromRequest(cert) == cert.common_name

\* Proof that the peer that asks for a renewal holds the requested key.
AssertCSRMatchesCert(cert, csr) == csr.key = cert.key

\* crypto/x509: the certificate is within its validity.
Valid(cert, now) == cert.not_before <= now /\ now <= cert.not_after

\* The agent's checks of the certificate a renewal answers with.
validateRenewalCertificate(cert, key, device, now) ==
    cert.common_name = device /\ cert.key = key /\ Valid(cert, now)

\* From four fifths of its lifetime on.
certificateRenewalDue(cert, now) ==
    5 * (now - cert.not_before) >= 4 * (cert.not_after - cert.not_before)

===============================================================================
