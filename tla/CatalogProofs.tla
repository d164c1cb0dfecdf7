---------------------------- MODULE CatalogProofs -----------------------------
(***************************************************************************)
(* NoDanglingRows and ViewsAgree for any number of devices, groups,        *)
(* actions, assignments, results and open transactions.                    *)
(***************************************************************************)
EXTENDS Catalog, TLAPS

\* A leaf that names no prover is Z3's, within this many seconds.
USE SMTT(30)

\* What a transaction read is still there: a commit of another would have ended
\* it.
ReadsAreCurrent ==
    \A x \in open :
        /\ x.op = "assign" => /\ x.action \in DOMAIN actions
                              /\ x.target \in DOMAIN devices \cup DOMAIN groups
        /\ x.op = "member" => x.group \in DOMAIN groups /\ x.device \in DOMAIN devices
        /\ x.op = "result" => /\ x.row.action_id \in DOMAIN actions
                              /\ x.row.device_id \in DOMAIN devices

RowsInv == NoDanglingRows /\ ReadsAreCurrent

-------------------------------------------------------------------------------
(* The statements, by the keys they leave in a table. *)

LEMMA InsertKeys ==
    ASSUME NEW table, NEW id, NEW row
    PROVE  DOMAIN queries!Insert(table, id, row) = DOMAIN table \cup {id}
BY Zenon DEF queries!Insert

LEMMA KeepKeys ==
    ASSUME NEW table, NEW ids
    PROVE  /\ DOMAIN queries!Keep(table, ids) = ids
           /\ \A i \in ids : queries!Keep(table, ids)[i] = table[i]
BY DEF queries!Keep

LEMMA DeleteKeys ==
    ASSUME NEW table, NEW id
    PROVE  DOMAIN queries!Delete(table, id) = DOMAIN table \ {id}
BY KeepKeys DEF queries!Delete

LEMMA UpdateKeys ==
    ASSUME NEW table, NEW id, NEW blob
    PROVE  /\ DOMAIN queries!TouchDeviceGroup(table, id) = DOMAIN table
           /\ DOMAIN queries!ConfigureAction(table, id, blob) = DOMAIN table
BY DEF queries!TouchDeviceGroup, queries!ConfigureAction, queries!Update

-------------------------------------------------------------------------------
(* A step preserves RowsInv: a commit ends what is open, and what begins has
   just read its rows. *)

LEMMA BeginPreserves ==
    ASSUME RowsInv, NEW x, Begin(x),
           x.op = "assign" => /\ x.action \in DOMAIN actions
                              /\ x.target \in DOMAIN devices \cup DOMAIN groups,
           x.op = "member" => x.group \in DOMAIN groups /\ x.device \in DOMAIN devices,
           x.op = "result" => /\ x.row.action_id \in DOMAIN actions
                              /\ x.row.device_id \in DOMAIN devices
    PROVE  RowsInv'
<1>1. open' = open \cup {x} /\ UNCHANGED tables
  BY DEF Begin
<1>2. UNCHANGED <<devices, groups, actions, members, assignments, results>>
  BY <1>1 DEF tables
<1> QED
  BY <1>1, <1>2 DEF RowsInv, NoDanglingRows, ReadsAreCurrent

\* The rows a deletion leaves behind do not name what it deletes.
LEMMA DeletionPreserves ==
    ASSUME RowsInv,
           \/ \E a \in Action : DeleteAction(a)
           \/ \E d \in Device : DeleteDevice(d)
           \/ \E g \in Group : DeleteDeviceGroup(g)
    PROVE  RowsInv'
<1>1. ReadsAreCurrent'
  BY Zenon DEF ReadsAreCurrent, DeleteAction, DeleteDevice, DeleteDeviceGroup, Commit
<1>2. ASSUME NEW a \in Action, DeleteAction(a) PROVE NoDanglingRows'
  <2>1. DOMAIN actions' = DOMAIN actions \ {a}
    BY <1>2, DeleteKeys, Zenon DEF DeleteAction, queries!DeleteAction
  <2>2. /\ DOMAIN results' = {r \in DOMAIN results : results[r].action_id # a}
        /\ \A r \in DOMAIN results' : results'[r] = results[r]
    BY <1>2, KeepKeys DEF DeleteAction
  <2> QED
    BY <1>2, <2>1, <2>2, Zenon DEF DeleteAction, RowsInv, NoDanglingRows
<1>3. ASSUME NEW d \in Device, DeleteDevice(d) PROVE NoDanglingRows'
  <2>1. DOMAIN devices' = DOMAIN devices \ {d}
    BY <1>3, DeleteKeys, Zenon DEF DeleteDevice, queries!DeleteDevice
  <2>2. /\ DOMAIN results' = {r \in DOMAIN results : results[r].device_id # d}
        /\ \A r \in DOMAIN results' : results'[r] = results[r]
    BY <1>3, KeepKeys DEF DeleteDevice
  <2> QED
    BY <1>3, <2>1, <2>2, Zenon
    DEF DeleteDevice, queries!DeleteAssignmentsForTarget, RowsInv, NoDanglingRows
<1>4. ASSUME NEW g \in Group, DeleteDeviceGroup(g) PROVE NoDanglingRows'
  <2>1. DOMAIN groups' = DOMAIN groups \ {g}
    BY <1>4, DeleteKeys, Zenon DEF DeleteDeviceGroup, queries!DeleteDeviceGroup
  <2> QED
    BY <1>4, <2>1
    DEF DeleteDeviceGroup, queries!DeleteAssignmentsForTarget, RowsInv, NoDanglingRows
<1> QED
  BY <1>1, <1>2, <1>3, <1>4 DEF RowsInv

\* A write goes to rows its transaction read.
LEMMA WritePreserves ==
    ASSUME RowsInv, NEW x \in open,
           \/ ConfigureActionWrite(x) \/ AddDeviceToGroupWrite(x)
           \/ CreateAssignmentWrite(x) \/ storeActionResultWrite(x)
    PROVE  RowsInv'
<1>1. ReadsAreCurrent'
  BY DEF ReadsAreCurrent, ConfigureActionWrite, AddDeviceToGroupWrite,
         CreateAssignmentWrite, storeActionResultWrite, Commit
<1>2. ASSUME ConfigureActionWrite(x) PROVE NoDanglingRows'
  <2>1. DOMAIN actions' = DOMAIN actions
    BY <1>2, UpdateKeys, Zenon DEF ConfigureActionWrite
  <2> QED
    BY <1>2, <2>1 DEF ConfigureActionWrite, RowsInv, NoDanglingRows
<1>3. ASSUME AddDeviceToGroupWrite(x) PROVE NoDanglingRows'
  <2>1. DOMAIN groups' = DOMAIN groups
    BY <1>3, UpdateKeys DEF AddDeviceToGroupWrite
  <2>2. members' = members \cup {<<x.group, x.device>>}
    BY <1>3, Zenon DEF AddDeviceToGroupWrite, queries!AddDeviceToGroup
  <2>3. x.group \in DOMAIN groups /\ x.device \in DOMAIN devices
    BY <1>3, Zenon DEF AddDeviceToGroupWrite, RowsInv, ReadsAreCurrent
  <2> QED
    BY <1>3, <2>1, <2>2, <2>3 DEF AddDeviceToGroupWrite, RowsInv, NoDanglingRows
<1>4. ASSUME CreateAssignmentWrite(x) PROVE NoDanglingRows'
  <2>1. assignments' = assignments \cup {<<x.action, x.target>>}
    BY <1>4, Zenon DEF CreateAssignmentWrite, queries!CreateAssignment
  <2>2. x.action \in DOMAIN actions /\ x.target \in DOMAIN devices \cup DOMAIN groups
    BY <1>4, Zenon DEF CreateAssignmentWrite, RowsInv, ReadsAreCurrent
  <2> QED
    BY <1>4, <2>1, <2>2 DEF CreateAssignmentWrite, RowsInv, NoDanglingRows
<1>5. ASSUME storeActionResultWrite(x) PROVE NoDanglingRows'
  <2>1. \/ results' = results
        \/ results' = queries!Insert(results, x.run, x.row)
    BY <1>5, Zenon DEF storeActionResultWrite, queries!CreateExecutionResult
  <2>2. \A r \in DOMAIN results' :
            \/ r \in DOMAIN results /\ results'[r] = results[r]
            \/ results'[r] = x.row
    <3>1. CASE results' = results
      BY <3>1, Zenon
    <3>2. CASE results' = queries!Insert(results, x.run, x.row)
      <4>1. /\ DOMAIN results' = DOMAIN results \cup {x.run}
            /\ results'[x.run] = x.row
            /\ \A i \in DOMAIN results \ {x.run} : results'[i] = results[i]
        BY <3>2, Zenon DEF queries!Insert
      <4> QED
        BY <4>1
    <3> QED
      BY <2>1, <3>1, <3>2
  <2>3. x.row.action_id \in DOMAIN actions /\ x.row.device_id \in DOMAIN devices
    BY <1>5, Zenon DEF storeActionResultWrite, RowsInv, ReadsAreCurrent
  <2> QED
    BY <1>5, <2>2, <2>3, Zenon DEF storeActionResultWrite, RowsInv, NoDanglingRows
<1> QED
  BY <1>1, <1>2, <1>3, <1>4, <1>5, Zenon DEF RowsInv

LEMMA RowsStep == RowsInv /\ [Next]_vars => RowsInv'
<1> SUFFICES ASSUME RowsInv, [Next]_vars PROVE RowsInv'
  BY Zenon
<1>1. ASSUME NEW a \in Action, NEW def \in Definition, CreateAction(a, def)
      PROVE  RowsInv'
  <2>1. DOMAIN actions' = DOMAIN actions \cup {a}
    BY <1>1, InsertKeys, Zenon DEF CreateAction, queries!CreateAction
  <2> QED
    BY <1>1, <2>1 DEF CreateAction, Commit, RowsInv, NoDanglingRows, ReadsAreCurrent
<1>2. ASSUME NEW a \in Action, NEW def \in Definition, ConfigureAction(a, def)
      PROVE  RowsInv'
  BY <1>2, BeginPreserves, Zenon DEF ConfigureAction
<1>3. ASSUME NEW a \in Action, RenameAction(a) PROVE RowsInv'
  BY <1>3, Zenon DEF RenameAction, Commit, tables, RowsInv, NoDanglingRows, ReadsAreCurrent
<1>4. ASSUME NEW d \in Device, CreateDevice(d) PROVE RowsInv'
  <2>1. DOMAIN devices' = DOMAIN devices \cup {d}
    BY <1>4, InsertKeys, Zenon DEF CreateDevice, queries!CreateDevice
  <2> QED
    BY <1>4, <2>1 DEF CreateDevice, Commit, RowsInv, NoDanglingRows, ReadsAreCurrent
<1>5. ASSUME NEW d \in Device, desiredPolicy(d) PROVE RowsInv'
  BY <1>5, Zenon DEF desiredPolicy, tables, RowsInv, NoDanglingRows, ReadsAreCurrent
<1>6. ASSUME NEW g \in Group, CreateDeviceGroup(g) PROVE RowsInv'
  <2>1. DOMAIN groups' = DOMAIN groups \cup {g}
    BY <1>6, InsertKeys, Zenon DEF CreateDeviceGroup, queries!CreateDeviceGroup
  <2> QED
    BY <1>6, <2>1 DEF CreateDeviceGroup, Commit, RowsInv, NoDanglingRows, ReadsAreCurrent
<1>7. ASSUME NEW g \in Group, RenameDeviceGroup(g) PROVE RowsInv'
  <2>1. DOMAIN groups' = DOMAIN groups
    BY <1>7, UpdateKeys, Zenon DEF RenameDeviceGroup
  <2> QED
    BY <1>7, <2>1, Zenon DEF RenameDeviceGroup, Commit, RowsInv, NoDanglingRows, ReadsAreCurrent
<1>8. ASSUME NEW g \in Group, NEW d \in Device, AddDeviceToGroup(g, d) PROVE RowsInv'
  <2>1. d \in DOMAIN devices /\ g \in DOMAIN groups
    BY <1>8, Zenon DEF AddDeviceToGroup, requireDeviceAndGroup, queries!GetDevice,
                queries!GetDeviceGroup, queries!Get
  <2> QED
    BY <1>8, <2>1, BeginPreserves DEF AddDeviceToGroup
<1>9. ASSUME NEW g \in Group, NEW d \in Device, RemoveDeviceFromGroup(g, d)
      PROVE  RowsInv'
  <2>1. DOMAIN groups' = DOMAIN groups
    BY <1>9, UpdateKeys, Zenon DEF RemoveDeviceFromGroup
  <2> QED
    BY <1>9, <2>1, Zenon DEF RemoveDeviceFromGroup, queries!RemoveDeviceFromGroup, Commit,
                      RowsInv, NoDanglingRows, ReadsAreCurrent
<1>10. ASSUME NEW a \in Action, NEW t \in Target, CreateAssignment(a, t)
       PROVE  RowsInv'
  <2>1. a \in DOMAIN actions /\ t \in DOMAIN devices \cup DOMAIN groups
    BY <1>10, Zenon DEF CreateAssignment, assignmentTargetName, queries!GetAction,
                 queries!GetDevice, queries!GetDeviceGroup, queries!Get
  <2> QED
    BY <1>10, <2>1, BeginPreserves DEF CreateAssignment
<1>11. ASSUME NEW x \in assignments, DeleteAssignment(x) PROVE RowsInv'
  BY <1>11, Zenon DEF DeleteAssignment, queries!DeleteAssignment, Commit,
               RowsInv, NoDanglingRows, ReadsAreCurrent
<1>12. ASSUME NEW x \in delivered, NEW at \in Time, NEW outcome \in Outcome[x[3]],
              storeActionResult(x[1], x[2], x[3], at, outcome)
       PROVE  RowsInv'
  <2>1. x[1] \in DOMAIN devices /\ x[2] \in Assigned(x[1])
    BY <1>12 DEF storeActionResult
  <2>2. x[2] \in DOMAIN actions
    BY <2>1, Zenon DEF Assigned, queries!ListActionsForDevice, RowsInv, NoDanglingRows
  <2> QED
    BY <1>12, <2>1, <2>2, BeginPreserves, Zenon DEF storeActionResult
<1>13. ASSUME NEW x \in open, Rollback(x) PROVE RowsInv'
  BY <1>13, Zenon DEF Rollback, tables, RowsInv, NoDanglingRows, ReadsAreCurrent
<1>14. CASE UNCHANGED vars
  BY <1>14 DEF vars, tables, RowsInv, NoDanglingRows, ReadsAreCurrent
<1> QED
  BY <1>1, <1>2, <1>3, <1>4, <1>5, <1>6, <1>7, <1>8, <1>9, <1>10, <1>11, <1>12,
     <1>13, <1>14, DeletionPreserves, WritePreserves DEF Next

THEOREM RowsInvariant == Spec => []RowsInv
<1>1. Init => RowsInv
  BY DEF Init, RowsInv, NoDanglingRows, ReadsAreCurrent
<1> QED
  BY <1>1, RowsStep, PTL DEF Spec

\* For any number of devices, groups, actions and handlers, no assignment names
\* an action or a target that is not there, although no foreign key ties it to
\* its target; and no membership or result outlives its rows.
THEOREM NoRowDangles == Spec => []NoDanglingRows
<1>1. RowsInv => NoDanglingRows
  BY Zenon DEF RowsInv
<1> QED
  BY <1>1, RowsInvariant, PTL

-------------------------------------------------------------------------------
(* The views.  The number of members a group is shown with counts rows of
   device_group_members, which are pairs and finitely many. *)

INSTANCE FiniteSetTheorems

MembersInv ==
    /\ IsFiniteSet(members)
    /\ \A m \in members : m = <<m[1], m[2]>>

LEMMA MembersStep == MembersInv /\ [Next]_vars => MembersInv'
<1> SUFFICES ASSUME MembersInv, [Next]_vars PROVE MembersInv'
  OBVIOUS
<1>1. \/ members' \in SUBSET members
      \/ \E g, d : members' = members \cup {<<g, d>>}
  <2>1. ASSUME NEW d \in Device, DeleteDevice(d) PROVE members' \in SUBSET members
    BY <2>1, Zenon DEF DeleteDevice
  <2>2. ASSUME NEW g \in Group, DeleteDeviceGroup(g) PROVE members' \in SUBSET members
    BY <2>2, Zenon DEF DeleteDeviceGroup
  <2>3. ASSUME NEW g \in Group, NEW d \in Device, RemoveDeviceFromGroup(g, d)
        PROVE  members' \in SUBSET members
    BY <2>3, Zenon DEF RemoveDeviceFromGroup, queries!RemoveDeviceFromGroup
  <2>4. ASSUME NEW x \in open, AddDeviceToGroupWrite(x)
        PROVE  \E g, d : members' = members \cup {<<g, d>>}
    BY <2>4, Zenon DEF AddDeviceToGroupWrite, queries!AddDeviceToGroup
  <2>5. ASSUME \/ \E a \in Action, def \in Definition :
                     CreateAction(a, def) \/ ConfigureAction(a, def)
               \/ \E a \in Action : RenameAction(a) \/ DeleteAction(a)
               \/ \E d \in Device : CreateDevice(d) \/ desiredPolicy(d)
               \/ \E g \in Group : CreateDeviceGroup(g) \/ RenameDeviceGroup(g)
               \/ \E g \in Group, d \in Device : AddDeviceToGroup(g, d)
               \/ \E a \in Action, t \in Target : CreateAssignment(a, t)
               \/ \E x \in assignments : DeleteAssignment(x)
               \/ \E x \in delivered, at \in Time : \E outcome \in Outcome[x[3]] :
                     storeActionResult(x[1], x[2], x[3], at, outcome)
               \/ \E x \in open : \/ ConfigureActionWrite(x) \/ CreateAssignmentWrite(x)
                                  \/ storeActionResultWrite(x) \/ Rollback(x)
               \/ UNCHANGED vars
        PROVE  members' = members
    BY <2>5, Zenon DEF CreateAction, ConfigureAction, RenameAction, DeleteAction, CreateDevice,
                desiredPolicy, CreateDeviceGroup, RenameDeviceGroup, AddDeviceToGroup,
                CreateAssignment, DeleteAssignment, storeActionResult,
                ConfigureActionWrite, CreateAssignmentWrite, storeActionResultWrite,
                Rollback, Begin, tables, vars
  <2> QED
    BY <2>1, <2>2, <2>3, <2>4, <2>5, Zenon DEF Next
<1>2. IsFiniteSet(members')
  BY <1>1, FS_Subset, FS_AddElement, Zenon DEF MembersInv
<1> QED
  BY <1>1, <1>2 DEF MembersInv

LEMMA SameCardinality ==
    ASSUME NEW S PROVE queries!Cardinality(S) = Cardinality(S)
BY Zenon DEF queries!Cardinality, Cardinality

GroupRow(g) == [id |-> g, member_count |-> Cardinality({m \in members : m[1] = g})]
DevicesOf(g) == {d \in DOMAIN devices : <<g, d>> \in members}

\* GetDeviceGroup, of a group that is there.
LEMMA GroupView ==
    ASSUME NEW g \in DOMAIN groups
    PROVE  /\ queries!GetDeviceGroup(groups, members, g) = {GroupRow(g)}
           /\ GetDeviceGroup(g) = {[group |-> GroupRow(g), devices |-> DevicesOf(g)]}
<1>1. queries!Get(groups, g) = {g}
  BY Zenon DEF queries!Get
<1>2. queries!GetDeviceGroup(groups, members, g) = {GroupRow(g)}
  BY <1>1, SameCardinality DEF queries!GetDeviceGroup, GroupRow
<1> QED
  BY <1>2 DEF GetDeviceGroup, queries!ListDeviceGroupMembers, DevicesOf

\* ListDeviceGroupsForDevice, of a device that is there.
LEMMA GroupsOfDevice ==
    ASSUME NEW d \in DOMAIN devices
    PROVE  UNION ListDeviceGroupsForDevice(d) =
               {GroupRow(g) : g \in {h \in DOMAIN groups : <<h, d>> \in members}}
<1>1. queries!GetDevice(devices, d) = {d}
  BY DEF queries!GetDevice, queries!Get
<1>2. UNION ListDeviceGroupsForDevice(d) =
          queries!ListDeviceGroupsForDevice(groups, members, d)
  BY <1>1, Zenon DEF ListDeviceGroupsForDevice
<1>3. \A g \in DOMAIN groups : queries!GetDeviceGroup(groups, members, g) = {GroupRow(g)}
  BY GroupView, Zenon
<1> DEFINE joined == {h \in DOMAIN groups : <<h, d>> \in members}
<1>4. queries!ListDeviceGroupsForDevice(groups, members, d) =
          UNION {queries!GetDeviceGroup(groups, members, g) : g \in joined}
  BY Zenon DEF queries!ListDeviceGroupsForDevice
<1>5. \A g \in joined : queries!GetDeviceGroup(groups, members, g) = {GroupRow(g)}
  BY <1>3
<1> HIDE DEF joined
<1>6. UNION {queries!GetDeviceGroup(groups, members, g) : g \in joined} =
          {GroupRow(g) : g \in joined}
  BY <1>5, ZenonT(30)
<1> QED
  BY <1>2, <1>4, <1>6, Zenon DEF joined

\* A group has as many members as devices, because every membership has its
\* device.
LEMMA MemberCount ==
    ASSUME NoDanglingRows, MembersInv, NEW g \in DOMAIN groups
    PROVE  GroupRow(g).member_count = Cardinality(DevicesOf(g))
<1> DEFINE rows == {m \in members : m[1] = g}
           f == [m \in rows |-> m[2]]
<1>1. IsFiniteSet(rows)
  BY FS_Subset, Zenon DEF MembersInv
<1>2. ASSUME NEW m \in rows PROVE m[2] \in DevicesOf(g)
  BY Zenon DEF DevicesOf, NoDanglingRows, MembersInv
<1>3. ASSUME NEW m \in rows, NEW n \in rows, m[2] = n[2] PROVE m = n
  BY <1>3, Zenon DEF MembersInv
<1>4. ASSUME NEW d \in DevicesOf(g) PROVE \E m \in rows : m[2] = d
  BY DEF DevicesOf
<1>5. f \in Bijection(rows, DevicesOf(g))
  BY <1>2, <1>3, <1>4, Zenon DEF Bijection, Injection, Surjection, IsInjective
<1>6. ExistsBijection(rows, DevicesOf(g))
  BY <1>5 DEF ExistsBijection
<1> QED
  BY <1>1, <1>6, FS_Bijection DEF GroupRow

LEMMA ViewsFollow ==
    ASSUME NoDanglingRows, MembersInv PROVE ViewsAgree
<1>1. ListAssignments({}, {}) =
          {[action_id |-> x[1], target_id |-> x[2], named |-> TRUE] : x \in assignments}
  BY Zenon DEF ListAssignments, queries!ListAssignments, NoDanglingRows
<1>2. ASSUME NEW g \in DOMAIN groups, NEW view \in GetDeviceGroup(g)
      PROVE  /\ view.group.member_count = Cardinality(view.devices)
             /\ view.devices = {d \in DOMAIN devices :
                    {view.group} \cap UNION ListDeviceGroupsForDevice(d) # {}}
  <2>1. view = [group |-> GroupRow(g), devices |-> DevicesOf(g)]
    BY GroupView, Zenon
  <2>2. \A h : GroupRow(h) = GroupRow(g) => h = g
    BY DEF GroupRow
  <2>3. ASSUME NEW d \in DOMAIN devices
        PROVE  {GroupRow(g)} \cap UNION ListDeviceGroupsForDevice(d) # {}
                   <=> <<g, d>> \in members
    <3>1. UNION ListDeviceGroupsForDevice(d) =
              {GroupRow(h) : h \in {k \in DOMAIN groups : <<k, d>> \in members}}
      BY GroupsOfDevice, Zenon
    <3> QED
      BY <2>2, <3>1, Zenon
  <2> QED
    BY <2>1, <2>3, MemberCount, Zenon DEF DevicesOf
<1>3. ASSUME NEW d \in DOMAIN devices
      PROVE  LET targets == {d} \cup {g.id : g \in UNION ListDeviceGroupsForDevice(d)}
                 shown == {x.action_id : x \in UNION {ListAssignments({}, {t}) : t \in targets}}
             IN  GetDeviceAssignments(d) = {UNION {GetAction(a) : a \in shown}}
  <2> DEFINE targets == {d} \cup {g.id : g \in UNION ListDeviceGroupsForDevice(d)}
             shown == {x.action_id : x \in UNION {ListAssignments({}, {t}) : t \in targets}}
  <2>1. targets = {d} \cup {g \in DOMAIN groups : <<g, d>> \in members}
    <3> DEFINE joined == {g \in DOMAIN groups : <<g, d>> \in members}
    <3>1. UNION ListDeviceGroupsForDevice(d) = {GroupRow(g) : g \in joined}
      BY GroupsOfDevice, Zenon
    <3>2. \A g : GroupRow(g).id = g
      BY Zenon DEF GroupRow
    <3> HIDE DEF joined
    <3>3. {g.id : g \in {GroupRow(h) : h \in joined}} = joined
      BY <3>2, Zenon
    <3> QED
      BY <3>1, <3>3, Zenon DEF joined
  <2> HIDE DEF targets
  <2>2. \A x \in assignments : x[2] \in targets <=> x[2] = d \/ <<x[2], d>> \in members
    BY <2>1 DEF NoDanglingRows
  <2>3. shown = {x[1] : x \in {y \in assignments : y[2] \in targets}}
    <3> DEFINE listed == {y \in assignments : y[1] \in DOMAIN actions /\ y[2] \in targets}
               line(x) == [action_id |-> x[1], target_id |-> x[2],
                           named |-> x[2] \in DOMAIN devices \cup DOMAIN groups]
    <3>1. UNION {ListAssignments({}, {t}) : t \in targets} = {line(y) : y \in listed}
      <4>1. \A t : ListAssignments({}, {t}) =
                      {line(y) : y \in {z \in assignments : z[1] \in DOMAIN actions /\ z[2] = t}}
        <5>1. \A t, u : {t} \in {{}, {u}} <=> u = t
          OBVIOUS
        <5> QED
          BY <5>1 DEF ListAssignments, queries!ListAssignments
      <4> HIDE DEF line
      <4>2. \A x, t : x \in ListAssignments({}, {t}) <=>
                       \E y \in assignments : y[1] \in DOMAIN actions /\ y[2] = t /\ x = line(y)
        BY <4>1, ZenonT(30)
      <4> DEFINE all == UNION {ListAssignments({}, {t}) : t \in targets}
                 lines == {line(y) : y \in listed}
                 at(x, t) == x \in ListAssignments({}, {t})
      <4>3. \A x : x \in lines <=>
                    \E y \in assignments : /\ y[1] \in DOMAIN actions
                                          /\ y[2] \in targets /\ x = line(y)
        BY Zenon
      <4>4. \A x : x \in all <=> \E t \in targets : at(x, t)
        BY Zenon
      <4>5. \A x, t : at(x, t) <=>
                       \E y \in assignments : y[1] \in DOMAIN actions /\ y[2] = t /\ x = line(y)
        BY <4>2, Zenon
      <4> HIDE DEF all, lines, at
      <4>6. all = lines
        BY <4>3, <4>4, <4>5, Zenon
      <4> QED
        BY <4>6, Zenon DEF all, lines
    <3>2. \A x : line(x).action_id = x[1]
      BY Zenon
    <3>3. listed = {y \in assignments : y[2] \in targets}
      BY Zenon DEF NoDanglingRows
    <3> HIDE DEF listed, line
    <3>4. {x.action_id : x \in {line(y) : y \in listed}} = {x[1] : x \in listed}
      BY <3>2, Zenon
    <3> QED
      BY <3>1, <3>3, <3>4, Zenon
  <2>4. Assigned(d) = shown
    BY <2>2, <2>3, Zenon DEF Assigned, queries!ListActionsForDevice
  <2>5. \A a \in shown : GetAction(a) = {actionProto(a)}
    BY <2>3, Zenon DEF GetAction, queries!GetAction, queries!Get, NoDanglingRows
  <2>6. GetDeviceAssignments(d) = {{actionProto(a) : a \in Assigned(d)}}
    BY Zenon DEF GetDeviceAssignments, queries!GetDevice, queries!Get
  <2> HIDE DEF shown
  <2>7. UNION {GetAction(a) : a \in shown} = {actionProto(a) : a \in shown}
    BY <2>5
  <2>8. GetDeviceAssignments(d) = {UNION {GetAction(a) : a \in shown}}
    BY <2>4, <2>6, <2>7, Zenon
  <2> QED
    BY <2>8, Zenon DEF targets, shown
<1> QED
  BY <1>1, <1>2, <1>3, Zenon DEF ViewsAgree

\* For any fleet, what the console shows of assignments and groups is what the
\* devices get: the counts, the joins and the names of ListAssignments,
\* GetDeviceGroup, ListDeviceGroupsForDevice and GetDeviceAssignments agree.
THEOREM ViewsAlwaysAgree == Spec => []ViewsAgree
<1>1. Init => MembersInv
  BY FS_EmptySet, Zenon DEF Init, MembersInv
<1>2. RowsInv /\ MembersInv => ViewsAgree
  BY ViewsFollow DEF RowsInv
<1> QED
  BY <1>1, <1>2, MembersStep, RowsInvariant, PTL DEF Spec

===============================================================================
