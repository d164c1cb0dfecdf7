---------------------------- MODULE DeviceQueries -----------------------------
(***************************************************************************)
(* The SQL statements about registration tokens and devices, as the        *)
(* handlers call them.                                                     *)
(***************************************************************************)
EXTENDS Tables

-------------------------------------------------------------------------------
(* Registration tokens.  "live" are the tokens with expires_at > the handler's *)
(* now; a token is found by the hash of its value, which stands for the token. *)

CreateRegistrationToken(tokens, id, max) ==
    Insert(tokens, id, [max_uses |-> max, current_uses |-> 0])

usable(row) == row.max_uses = 0 \/ row.current_uses < row.max_uses

GetUsableRegistrationToken(tokens, live, id) ==
    {t \in Get(tokens, id) \cap live : usable(tokens[t])}

ConsumeRegistrationToken(tokens, live, id) ==
    Update(tokens, GetUsableRegistrationToken(tokens, live, id),
           LAMBDA row : [row EXCEPT !.current_uses = @ + 1])

\* This use is the token's last.
final(row) == row.max_uses > 0 /\ row.current_uses + 1 >= row.max_uses

ConsumeFinalRegistrationToken(tokens, live, id) ==
    Keep(tokens, DOMAIN tokens \
        {t \in GetUsableRegistrationToken(tokens, live, id) : final(tokens[t])})

DeleteRegistrationToken(tokens, id) == Delete(tokens, id)

ListRegistrationTokens(tokens, after, limit) == Page(tokens, after, limit)

RenameRegistrationToken(tokens, id, name) == SetName(tokens, id, name)

-------------------------------------------------------------------------------
(* Devices. *)

CreateDevice(devices, id, row) == Insert(devices, id, row)

GetDevice(devices, id) == Get(devices, id)

DeleteDevice(devices, id) == Delete(devices, id)

ListDevices(devices, after, limit) == Page(devices, after, limit)

TouchDevice(devices, id, hostname) == SetName(devices, id, hostname)

\* The row moves on only from the certificate the peer presents.
SetPendingDeviceCertificate(devices, id, serial, active) ==
    Update(devices, {d \in Get(devices, id) : devices[d].active_cert_serial = active},
           LAMBDA row : [row EXCEPT !.pending_cert_serial = serial])

\* Mutant: the row is promoted whatever its pending serial has become.
PromoteUnchecked(devices, id, serial, none) ==
    Update(devices, {id}, LAMBDA row : [row EXCEPT !.active_cert_serial = serial,
                                                   !.pending_cert_serial = none])

\* Only the certificate that is pending now becomes the active one.
PromotePendingDeviceCertificate(devices, id, serial, none) ==
    Update(devices, {d \in Get(devices, id) : devices[d].pending_cert_serial = serial},
           LAMBDA row : [row EXCEPT !.active_cert_serial = serial,
                                    !.pending_cert_serial = none])

FindDeviceByIdentityKey(devices, key) ==
    {d \in DOMAIN devices : devices[d].identity_public_key = key}

===============================================================================
