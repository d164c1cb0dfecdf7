------------------------------ MODULE Compliance ------------------------------
(***************************************************************************)
(* The compliance state of a device, which server/internal/core computes   *)
(* from its policy and the results the catalogue holds, and the answers    *)
(* that show it (devices.go, actions.go).                                  *)
(***************************************************************************)
EXTENDS Catalog, SequencesExt

Rows(d) == queries!ListComplianceResults(actions, assignments, members, results, d)

Passed(r) == results[r].outcome = <<"SUCCESS", "zero">>

\* Mutant: the result counts whatever definition it ran.
complianceAnyDigest(row) ==
    IF row.latest = {} THEN "PENDING"
    ELSE IF \E r \in row.latest : Passed(r) THEN "COMPLIANT" ELSE "NON_COMPLIANT"

\* A result of another definition than the current one says nothing.
complianceStatus(row) ==
    IF \A r \in row.latest : results[r].digest # actions[row.action] THEN "PENDING"
    ELSE IF \E r \in row.latest : Passed(r) THEN "COMPLIANT" ELSE "NON_COMPLIANT"

\* Mutant: any later row replaces a pending one.
worseLastWins(status, check) ==
    IF status = "NON_COMPLIANT" THEN status ELSE check

\* The switch that folds one more row into the summary.
worse(status, check) ==
    IF \/ check = "NON_COMPLIANT"
       \/ check = "PENDING" /\ status # "NON_COMPLIANT"
       \/ check = "COMPLIANT" /\ status = "UNSPECIFIED"
    THEN check ELSE status

\* The rows in the order of the query: by name, so in any order.
deviceCompliance(rows) ==
    FoldLeft(LAMBDA summary, row :
                 LET check == complianceStatus(row)
                 IN  [status |-> worse(summary.status, check),
                      passing |-> summary.passing + (IF check = "COMPLIANT" THEN 1 ELSE 0),
                      checks |-> Append(summary.checks, [action |-> row.action, status |-> check])],
             [status |-> "UNSPECIFIED", passing |-> 0, checks |-> <<>>],
             SelectSeq(rows, LAMBDA row : isComplianceAction(actions[row.action])))

deviceProto(rows) ==
    LET compliance == deviceCompliance(rows)
    IN  [status |-> compliance.status, total |-> Len(compliance.checks),
         passing |-> compliance.passing]

GetDevice(d, rows) == {deviceProto(rows) : x \in queries!GetDevice(devices, d)}

GetDeviceCompliance(d, rows) ==
    {[status |-> c.status, checks |-> c.checks] :
        c \in {deviceCompliance(rows) : x \in queries!GetDevice(devices, d)}}

-------------------------------------------------------------------------------
(* Properties. *)

\* The order in which the query returns its rows does not matter: the device
\* is as compliant as the worst check of its policy, with NON_COMPLIANT worse
\* than PENDING and PENDING worse than COMPLIANT (deviceCompliance).  GetDevice
\* and GetDeviceCompliance agree on it, and COMPLIANT is said of a device if
\* and only if it has checks and as many of them pass.
ComplianceIsWorstCheck ==
    \A d \in DOMAIN devices :
        LET checked == {row \in Rows(d) : isComplianceAction(actions[row.action])}
            found == {complianceStatus(row) : row \in checked}
            worst == CASE "NON_COMPLIANT" \in found -> "NON_COMPLIANT"
                       [] "NON_COMPLIANT" \notin found /\ "PENDING" \in found -> "PENDING"
                       [] found = {"COMPLIANT"} -> "COMPLIANT"
                       [] OTHER -> "UNSPECIFIED"
        IN  \A rows \in SetToSeqs(Rows(d)) :
                /\ \A view \in GetDeviceCompliance(d, rows) :
                       view.status = worst /\ Len(view.checks) = Cardinality(checked)
                /\ \A view \in GetDevice(d, rows) :
                       /\ view.status = worst
                       /\ worst = "COMPLIANT" <=> view.passing = view.total /\ view.total > 0

\* A device is shown as compliant only if each compliance action of its policy,
\* as desiredPolicy would send it, was sent to it in the definition it has now,
\* and the newest run reported for the action ran that definition and passed.
CompliantMeansChecked ==
    \A d \in Device : \A rows \in SetToSeqs(Rows(d)) :
        (\E view \in GetDevice(d, rows) : view.status = "COMPLIANT") =>
            \A a \in Assigned(d) : isComplianceAction(actions[a]) =>
                /\ <<d, a, actions[a]>> \in delivered
                /\ \E r \in DOMAIN results :
                      /\ results[r].device_id = d /\ results[r].action_id = a
                      /\ results[r].digest = actions[a] /\ Passed(r)
                      /\ \A s \in DOMAIN results :
                            results[s].device_id = d /\ results[s].action_id = a =>
                                ~queries!newer(results, s, r)

===============================================================================
