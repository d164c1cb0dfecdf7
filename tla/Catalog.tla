-------------------------------- MODULE Catalog --------------------------------
(***************************************************************************)
(* Actions, devices, device groups and assignments of the control plane,   *)
(* and the policy they make (actions.go, devices.go, assignments.go,       *)
(* agent.go of server/internal/core).                                      *)
(*                                                                         *)
(* An assignment names its target by id alone: no foreign key ties it to   *)
(* the device or the group, and the handlers keep the two together.        *)
(*                                                                         *)
(* A handler that reads before it writes holds the snapshot of its reads   *)
(* until it writes.  It is here from then on as a member of "open".  A     *)
(* handler whose first statement is a write is a single step.  Ids are     *)
(* fresh ULIDs, so a deleted row does not come back.                       *)
(***************************************************************************)
EXTENDS Naturals, FiniteSets

CONSTANTS
    Device,      \* devices
    Group,       \* device groups
    Action,      \* actions
    Definition,  \* action definitions a request may carry, as records
    Outcome,     \* what a run of each definition may report: a status and a
                 \* detection exit code
    Time,        \* completion times agents report
    MaxRuns,     \* bound: results the server receives
    MaxOpen      \* bound: handlers between their reads and their write

ASSUME CatalogAssumption ==
    /\ Device \cap Group = {} /\ Time \subseteq Nat
    /\ MaxRuns \in Nat /\ MaxOpen \in Nat

VARIABLES
    devices,      \* devices: no column of theirs is told apart
    groups,       \* device_groups, likewise
    actions,      \* actions: action_blob, the definition
    members,      \* device_group_members
    assignments,  \* assignments, as pairs of an action and a target
    results,      \* execution_results
    drawn,        \* ids drawn so far
    runs,         \* runs whose result arrived, and the id of the last one
    open,         \* transactions that have read and not written yet
    delivered     \* history: device, action and definition sent in a policy

tables == <<devices, groups, actions, members, assignments, results>>
vars == <<tables, drawn, runs, open, delivered>>

queries == INSTANCE CatalogQueries

Target == Device \cup Group

\* assignmentTargetName: a device or a group with this id.
assignmentTargetName(t) ==
    \/ t \in queries!GetDevice(devices, t)
    \/ queries!GetDeviceGroup(groups, members, t) # {}

Init ==
    /\ devices = <<>> /\ groups = <<>> /\ actions = <<>>
    /\ members = {} /\ assignments = {} /\ results = <<>>
    /\ drawn = {} /\ runs = 0 /\ open = {} /\ delivered = {}

\* ulid.Make: an id that was never drawn before.
Draw(id) == id \notin drawn /\ drawn' = drawn \cup {id}

\* A committed write: SQLite refuses the later write of every transaction
\* whose reads it made stale.
Commit == open' = {}

\* A transaction takes its snapshot.
Begin(x) ==
    /\ Cardinality(open) < MaxOpen
    /\ open' = open \cup {x}
    /\ UNCHANGED <<tables, drawn, runs, delivered>>

\* It ends without a write: an early return, an error or a cancelled request.
Rollback(x) ==
    /\ open' = open \ {x}
    /\ UNCHANGED <<tables, drawn, runs, delivered>>

-------------------------------------------------------------------------------
(* Actions. *)

\* "has" holds the scripts that are not empty.
validateAction(def) ==
    \/ def.kind = "package" /\ def.state \in {"PRESENT", "ABSENT"}
    \/ def.kind = "update" /\ def.state = "PRESENT"
    \/ /\ def.kind = "shell" /\ def.state = "PRESENT"
       /\ def.compliance => "detection" \in def.has
       /\ def.has # {}

isComplianceAction(def) == def.kind = "shell" /\ def.compliance

sameActionKind(left, right) == left.kind = right.kind

CreateAction(a, def) ==
    /\ validateAction(def) /\ Draw(a)
    /\ actions' = queries!CreateAction(actions, a, def)
    /\ Commit
    /\ UNCHANGED <<devices, groups, members, assignments, results, runs, delivered>>

\* RenameAction and SetActionDescription: a commit that changes nothing
\* modelled here but ends the transactions that are open.
RenameAction(a) ==
    /\ open # {} /\ a \in queries!GetAction(actions, a)
    /\ Commit
    /\ UNCHANGED <<tables, drawn, runs, delivered>>

\* ConfigureAction up to its write: the kind of the stored action is final.
ConfigureAction(a, def) ==
    /\ validateAction(def) /\ a \in queries!GetAction(actions, a)
    /\ sameActionKind(actions[a], def)
    /\ Begin([op |-> "configure", action |-> a, definition |-> def])

ConfigureActionWrite(x) ==
    /\ x.op = "configure"
    /\ actions' = queries!ConfigureAction(actions, x.action, x.definition)
    /\ Commit
    /\ UNCHANGED <<devices, groups, members, assignments, results, drawn, runs, delivered>>

\* The row, and by ON DELETE CASCADE its assignments and results.
DeleteAction(a) ==
    /\ a \in DOMAIN actions
    /\ actions' = queries!DeleteAction(actions, a)
    /\ assignments' = {x \in assignments : x[1] # a}
    /\ results' = queries!Keep(results, {r \in DOMAIN results : results[r].action_id # a})
    /\ Commit
    /\ UNCHANGED <<devices, groups, members, drawn, runs, delivered>>

-------------------------------------------------------------------------------
(* Devices and groups. *)

\* Register, as far as this module is concerned (Enrollment).
CreateDevice(d) ==
    /\ Draw(d)
    /\ devices' = queries!CreateDevice(devices, d, <<>>)
    /\ Commit
    /\ UNCHANGED <<groups, actions, members, assignments, results, runs, delivered>>

CreateDeviceGroup(g) ==
    /\ Draw(g)
    /\ groups' = queries!CreateDeviceGroup(groups, g)
    /\ Commit
    /\ UNCHANGED <<devices, actions, members, assignments, results, runs, delivered>>

\* RenameDeviceGroup and SetDeviceGroupDescription, likewise.
RenameDeviceGroup(g) ==
    /\ open # {} /\ g \in DOMAIN groups
    /\ groups' = queries!TouchDeviceGroup(groups, g)
    /\ Commit
    /\ UNCHANGED <<devices, actions, members, assignments, results, drawn, runs, delivered>>

\* The device's own assignments, then the row with its memberships and results.
DeleteDevice(d) ==
    /\ d \in DOMAIN devices
    /\ assignments' = queries!DeleteAssignmentsForTarget(assignments, d)
    /\ devices' = queries!DeleteDevice(devices, d)
    /\ members' = {m \in members : m[2] # d}
    /\ results' = queries!Keep(results, {r \in DOMAIN results : results[r].device_id # d})
    /\ Commit
    /\ UNCHANGED <<groups, actions, drawn, runs, delivered>>

\* Mutant: the assignments of the group are left to a cascade that is not there.
DeleteGroupRowOnly(g) ==
    /\ g \in DOMAIN groups
    /\ groups' = queries!DeleteDeviceGroup(groups, g)
    /\ members' = {m \in members : m[1] # g}
    /\ Commit
    /\ UNCHANGED <<devices, actions, assignments, results, drawn, runs, delivered>>

DeleteDeviceGroup(g) ==
    /\ g \in DOMAIN groups
    /\ assignments' = queries!DeleteAssignmentsForTarget(assignments, g)
    /\ groups' = queries!DeleteDeviceGroup(groups, g)
    /\ members' = {m \in members : m[1] # g}
    /\ Commit
    /\ UNCHANGED <<devices, actions, results, drawn, runs, delivered>>

requireDeviceAndGroup(g, d) ==
    /\ d \in queries!GetDevice(devices, d)
    /\ queries!GetDeviceGroup(groups, members, g) # {}

\* AddDeviceToGroup up to its first write.
AddDeviceToGroup(g, d) ==
    /\ requireDeviceAndGroup(g, d)
    /\ Begin([op |-> "member", group |-> g, device |-> d])

\* The primary key refuses a second membership.
AddDeviceToGroupWrite(x) ==
    /\ x.op = "member"
    /\ members' = queries!AddDeviceToGroup(members, x.group, x.device)
    /\ members' # members
    /\ groups' = queries!TouchDeviceGroup(groups, x.group)
    /\ Commit
    /\ UNCHANGED <<devices, actions, assignments, results, drawn, runs, delivered>>

RemoveDeviceFromGroup(g, d) ==
    /\ members' = queries!RemoveDeviceFromGroup(members, g, d)
    /\ members' # members
    /\ groups' = queries!TouchDeviceGroup(groups, g)
    /\ Commit
    /\ UNCHANGED <<devices, actions, assignments, results, drawn, runs, delivered>>

-------------------------------------------------------------------------------
(* Assignments and what they make of the fleet. *)

\* CreateAssignment up to its write: the action and the target are there.
CreateAssignment(a, t) ==
    /\ a \in queries!GetAction(actions, a) /\ assignmentTargetName(t)
    /\ Begin([op |-> "assign", action |-> a, target |-> t])

\* UNIQUE (action_id, target_type, target_id).
CreateAssignmentWrite(x) ==
    /\ x.op = "assign"
    /\ assignments' = queries!CreateAssignment(assignments, x.action, x.target)
    /\ assignments' # assignments
    /\ Commit
    /\ UNCHANGED <<devices, groups, actions, members, results, drawn, runs, delivered>>

DeleteAssignment(x) ==
    /\ assignments' = queries!DeleteAssignment(assignments, x)
    /\ Commit
    /\ UNCHANGED <<devices, groups, actions, members, results, drawn, runs, delivered>>

Assigned(d) == queries!ListActionsForDevice(assignments, members, d)

\* The agent gets the definitions of the actions assigned to it now.
desiredPolicy(d) ==
    /\ d \in DOMAIN devices
    /\ delivered' = delivered \cup {<<d, a, actions[a]>> : a \in Assigned(d)}
    /\ delivered' # delivered
    /\ UNCHANGED <<tables, drawn, runs, open>>

\* storeActionResult up to its write, for a run of a definition the agent was
\* given.  A result of an action that is not assigned any more is refused.
storeActionResult(d, a, def, at, outcome) ==
    /\ d \in DOMAIN devices /\ runs < MaxRuns
    /\ <<d, a, def>> \in delivered
    /\ queries!GetExecutionResult(results, runs + 1) = {} /\ a \in Assigned(d)
    /\ \A x \in open : x.op # "result"
    /\ Begin([op |-> "result", run |-> runs + 1,
              row |-> [device_id |-> d, action_id |-> a, completed_at |-> at,
                       digest |-> def, outcome |-> outcome]])

storeActionResultWrite(x) ==
    /\ x.op = "result"
    /\ runs' = x.run
    /\ results' = queries!CreateExecutionResult(results, x.run, x.row)
    /\ Commit
    /\ UNCHANGED <<devices, groups, actions, members, assignments, drawn, delivered>>

-------------------------------------------------------------------------------
(* What the console is shown.  "{}" is the answer "not found". *)

ListAssignments(action, target) ==
    queries!ListAssignments(assignments, actions, devices, groups, action, target)

actionProto(a) == [id |-> a, action |-> actions[a]]

GetAction(a) == {actionProto(x) : x \in queries!GetAction(actions, a)}

GetDeviceAssignments(d) ==
    {{actionProto(a) : a \in Assigned(x)} : x \in queries!GetDevice(devices, d)}

GetDeviceGroup(g) ==
    {[group |-> x, devices |-> queries!ListDeviceGroupMembers(members, devices, g)] :
        x \in queries!GetDeviceGroup(groups, members, g)}

ListDeviceGroupsForDevice(d) ==
    {queries!ListDeviceGroupsForDevice(groups, members, x) :
        x \in queries!GetDevice(devices, d)}

Next ==
    \/ \E a \in Action, def \in Definition : CreateAction(a, def) \/ ConfigureAction(a, def)
    \/ \E a \in Action : RenameAction(a) \/ DeleteAction(a)
    \/ \E d \in Device : CreateDevice(d) \/ DeleteDevice(d) \/ desiredPolicy(d)
    \/ \E g \in Group : CreateDeviceGroup(g) \/ RenameDeviceGroup(g) \/ DeleteDeviceGroup(g)
    \/ \E g \in Group, d \in Device : AddDeviceToGroup(g, d) \/ RemoveDeviceFromGroup(g, d)
    \/ \E a \in Action, t \in Target : CreateAssignment(a, t)
    \/ \E x \in assignments : DeleteAssignment(x)
    \/ \E x \in delivered, at \in Time : \E outcome \in Outcome[x[3]] :
          storeActionResult(x[1], x[2], x[3], at, outcome)
    \/ \E x \in open :
          \/ ConfigureActionWrite(x) \/ AddDeviceToGroupWrite(x)
          \/ CreateAssignmentWrite(x) \/ storeActionResultWrite(x)
          \/ Rollback(x)

Spec == Init /\ [][Next]_vars

-------------------------------------------------------------------------------
(* Properties. *)

\* The tables hold rows of their columns' types, and every stored action
\* passed validateAction: a compliance action has a detection script to run.
TypeOK ==
    /\ DOMAIN devices \subseteq Device /\ DOMAIN groups \subseteq Group
    /\ DOMAIN actions \subseteq Action
    /\ \A a \in DOMAIN actions :
          /\ actions[a] \in Definition
          /\ isComplianceAction(actions[a]) => "detection" \in actions[a].has
    /\ members \subseteq Group \X Device /\ assignments \subseteq Action \X Target
    /\ runs \in 0..MaxRuns /\ DOMAIN results \subseteq 1..runs
    /\ Cardinality(open) <= MaxOpen

\* An assignment never names a device, a group or an action that is not there,
\* although no foreign key says so of its target: a creation that looked its
\* target up (assignmentTargetName) cannot write once the target is deleted,
\* and a deletion takes the target's assignments along.  Memberships and
\* results belong to live rows likewise.
NoDanglingRows ==
    /\ \A x \in assignments : /\ x[1] \in DOMAIN actions
                              /\ x[2] \in DOMAIN devices \cup DOMAIN groups
    /\ \A m \in members : m[1] \in DOMAIN groups /\ m[2] \in DOMAIN devices
    /\ \A r \in DOMAIN results : /\ results[r].action_id \in DOMAIN actions
                                 /\ results[r].device_id \in DOMAIN devices

\* What the console shows of assignments and groups is what the devices get: no
\* assignment is missing from the list or without the name of its target, a
\* group counts the devices it lists, and they are the devices that list the
\* group; and a device's actions are those of the listed assignments of the
\* device and its groups, as GetAction shows them (the joins of ListAssignments,
\* GetDeviceGroup, ListDeviceGroupsForDevice and ListActionsForDevice).
ViewsAgree ==
    /\ ListAssignments({}, {}) =
           {[action_id |-> x[1], target_id |-> x[2], named |-> TRUE] : x \in assignments}
    /\ \A g \in DOMAIN groups : \A view \in GetDeviceGroup(g) :
           /\ view.group.member_count = Cardinality(view.devices)
           /\ view.devices =
                  {d \in DOMAIN devices : {view.group} \cap UNION ListDeviceGroupsForDevice(d) # {}}
    /\ \A d \in DOMAIN devices :
           LET targets == {d} \cup {g.id : g \in UNION ListDeviceGroupsForDevice(d)}
               shown == {x.action_id : x \in UNION {ListAssignments({}, {t}) : t \in targets}}
           IN  GetDeviceAssignments(d) = {UNION {GetAction(a) : a \in shown}}

================================================================================
