---------------------------- MODULE CatalogQueries ----------------------------
(***************************************************************************)
(* The SQL statements about actions, groups, assignments and results, as   *)
(* the handlers call them.                                                 *)
(***************************************************************************)
EXTENDS DeviceQueries

-------------------------------------------------------------------------------
(* Actions and groups.  device_group_members holds <<group, device>>. *)

CreateAction(actions, id, blob) == Insert(actions, id, blob)

GetAction(actions, id) == Get(actions, id)

ConfigureAction(actions, id, blob) == Update(actions, {id}, LAMBDA row : blob)

DeleteAction(actions, id) == Delete(actions, id)

ListActions(actions, after, limit) == Page(actions, after, limit)

RenameAction(actions, id, name) == SetName(actions, id, name)

SetActionDescription(actions, id, description) ==
    SetDescription(actions, id, description)

CreateDeviceGroup(groups, id) == Insert(groups, id, <<>>)

\* With the number of the group's members.
GetDeviceGroup(groups, members, id) ==
    {[id |-> g, member_count |-> Cardinality({m \in members : m[1] = g})] :
        g \in Get(groups, id)}

TouchDeviceGroup(groups, id) == Update(groups, {id}, LAMBDA row : row)

DeleteDeviceGroup(groups, id) == Delete(groups, id)

ListDeviceGroups(groups, after, limit) == Page(groups, after, limit)

RenameDeviceGroup(groups, id, name) == SetName(groups, id, name)

SetDeviceGroupDescription(groups, id, description) ==
    SetDescription(groups, id, description)

ListDeviceGroupMembers(members, devices, group) ==
    {d \in DOMAIN devices : <<group, d>> \in members}

\* With the number of all the members of each group.
ListDeviceGroupsForDevice(groups, members, device) ==
    UNION {GetDeviceGroup(groups, members, g) :
               g \in {h \in DOMAIN groups : <<h, device>> \in members}}

AddDeviceToGroup(members, group, device) == members \cup {<<group, device>>}

RemoveDeviceFromGroup(members, group, device) == members \ {<<group, device>>}

-------------------------------------------------------------------------------
(* Assignments, pairs <<action, target>> by their UNIQUE constraint (the type  *)
(* of the target is told by its id), and execution results.                    *)

CreateAssignment(assignments, action, target) == assignments \cup {<<action, target>>}

DeleteAssignment(assignments, row) == assignments \ {row}

\* JOIN actions, and LEFT JOIN devices and device_groups for the name of the
\* target.  A filter is one id, or {}, which matches every row.
ListAssignments(assignments, actions, devices, groups, action_filter, target_filter) ==
    {[action_id |-> a[1], target_id |-> a[2],
      named |-> a[2] \in DOMAIN devices \cup DOMAIN groups] :
        a \in {b \in assignments : /\ b[1] \in DOMAIN actions
                                  /\ action_filter \in {{}, {b[1]}}
                                  /\ target_filter \in {{}, {b[2]}}}}

DeleteAssignmentsForTarget(assignments, target) ==
    {a \in assignments : a[2] # target}

\* Mutant: the actions assigned to the device's groups are forgotten.
ListActionsOfTarget(assignments, members, device) ==
    {a[1] : a \in {b \in assignments : b[2] = device}}

\* The join: an action once for each assignment that reaches the device, made
\* DISTINCT by the set.
ListActionsForDevice(assignments, members, device) ==
    {a[1] : a \in {b \in assignments : b[2] = device \/ <<b[2], device>> \in members}}

GetExecutionResult(results, run) == Get(results, run)

\* ON CONFLICT(run_id) DO NOTHING.
CreateExecutionResult(results, run, row) ==
    IF run \in DOMAIN results THEN results ELSE Insert(results, run, row)

\* ORDER BY completed_at DESC, run_id DESC LIMIT 1, for the action on the device.
newer(results, r, s) ==
    \/ results[r].completed_at > results[s].completed_at
    \/ results[r].completed_at = results[s].completed_at /\ r > s

latest(results, device, action) ==
    LET candidates == {r \in DOMAIN results : /\ results[r].device_id = device
                                              /\ results[r].action_id = action}
    IN  {r \in candidates : \A s \in candidates \ {r} : newer(results, r, s)}

\* The actions with an assignment that reaches the device, each with its latest
\* result, if it has one.
ListComplianceResults(actions, assignments, members, results, device) ==
    {[action |-> a, latest |-> latest(results, device, a)] :
        a \in {b \in DOMAIN actions :
                  \E x \in assignments : /\ x[1] = b
                                         /\ x[2] = device \/ <<x[2], device>> \in members}}

ListExecutionResults(results, has_cursor, completed, run, limit) ==
    Limit({r \in DOMAIN results : has_cursor =>
               \/ results[r].completed_at < completed
               \/ results[r].completed_at = completed /\ r < run},
          limit, LAMBDA r, s : newer(results, r, s))

===============================================================================
