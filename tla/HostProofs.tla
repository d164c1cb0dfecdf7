------------------------------ MODULE HostProofs ------------------------------
(*****************************************************************************)
(* Proofs about what the agent does to its host: the files it replaces       *)
(* (FileReplace) and the actions it executes (Executor). Each holds by       *)
(* itself, for any constants.                                                *)
(*                                                                           *)
(* The files first, for any number of writers, calls and faults: every       *)
(* version a path has gone through is one that a call has made whole before  *)
(* its rename, and what a synced directory has stored is not taken back.     *)
(*****************************************************************************)
EXTENDS Host, TLAPS

\* A leaf that names no prover is Z3's, within this many seconds.
USE SMTT(30)

Label == {"idle", "read", "create", "write", "chmod", "sync", "rename", "looked",
          "dirsync", "chown"}

\* The options of a call that runs, and what it knows.
Calls == [kind : Kind, data : Data, path : Path, prior : Data \cup {None},
          temp : File \cup {None}]

FileTypes ==
    /\ log \in [Path -> Seq(File)]
    /\ kept \in [Path -> Nat] /\ floor \in [Path -> Nat]
    /\ pc \in [Writer -> Label]
    /\ call \in [Writer -> Calls \cup {None}]

\* What a directory on disk names is named, and what was acknowledged is on disk.
DiskInv == \A p \in Path : floor[p] <= kept[p] /\ kept[p] <= Len(log[p])

\* A file that has a name is complete and on disk.
Named(f) == f.whole /\ f.perm /\ f.synced
NamedInv == \A p \in Path : \A i \in 1 .. Len(log[p]) : Named(log[p][i])

\* What a temporary file is at each point of its call.
TempInv(w) ==
    /\ pc[w] \in {"write", "chmod", "sync", "rename", "looked"} =>
           Temp(w) \in File /\ Temp(w).by = call[w].kind
    /\ pc[w] \in {"chmod", "sync", "rename", "looked"} => Temp(w).whole
    /\ pc[w] \in {"sync", "rename", "looked"} => Temp(w).perm
    /\ pc[w] \in {"rename", "looked"} => Temp(w).synced

\* Only a call with Backup writes to the backup, what it has read; and only
\* without RENAME_NOREPLACE does one look first.
CallInv(w) ==
    /\ pc[w] # "idle" => call[w] \in Calls
    /\ pc[w] = "read" => call[w].kind = "backup" /\ call[w].path = Target
    /\ pc[w] # "idle" /\ call[w].path = Backup => call[w].kind = "backup" /\ call[w].prior \in Data
    /\ pc[w] = "looked" => ~noReplace

FilesInv ==
    /\ FileTypes /\ DiskInv /\ NamedInv /\ ExclusiveIsFirst
    /\ \A w \in Writer : TempInv(w) /\ CallInv(w)

\* A record with two fields replaced.
LEMMA CallUpdate ==
    ASSUME NEW K, NEW D, NEW P, NEW Q, NEW T,
           NEW b \in [kind : K, data : D, path : P, prior : Q, temp : T],
           NEW p \in P, NEW q \in Q
    PROVE  [b EXCEPT !.path = p, !.prior = q] \in
               [kind : K, data : D, path : P, prior : Q, temp : T]
BY Zenon

LEMMA FilesInit == Init => FilesInv
<1> SUFFICES ASSUME Init PROVE FilesInv
  OBVIOUS
<1>1. FileTypes
  BY DEF Init, FileTypes, Label
<1>2. \A p \in Path : Len(log[p]) = 0
  BY DEF Init
<1>3. DiskInv /\ NamedInv /\ ExclusiveIsFirst
  BY <1>2 DEF Init, DiskInv, NamedInv, ExclusiveIsFirst
<1>4. ASSUME NEW w \in Writer PROVE TempInv(w) /\ CallInv(w)
  <2>1. pc[w] = "idle"
    BY Zenon DEF Init
  <2> QED
    BY <2>1, Zenon DEF TempInv, CallInv
<1> QED
  BY <1>1, <1>3, <1>4 DEF FilesInv

\* A step of one call that leaves the directory as it is.
LEMMA CallerStep ==
    ASSUME FilesInv, UNCHANGED <<noReplace, log, kept, floor>>,
           NEW w \in Writer, NEW label \in Label, NEW c \in Calls \cup {None},
           pc' = [pc EXCEPT ![w] = label], call' = [call EXCEPT ![w] = c],
           TempInv(w)', CallInv(w)'
    PROVE  FilesInv'
<1>1. FileTypes'
  BY DEF FilesInv, FileTypes
<1>2. DiskInv' /\ NamedInv' /\ ExclusiveIsFirst'
  BY DEF FilesInv, DiskInv, NamedInv, ExclusiveIsFirst, Named
<1>3. ASSUME NEW v \in Writer PROVE TempInv(v)' /\ CallInv(v)'
  <2>1. CASE v = w
    BY <2>1
  <2>2. CASE v # w
    <3>1. pc'[v] = pc[v] /\ call'[v] = call[v]
      BY <2>2 DEF FilesInv, FileTypes
    <3> QED
      BY <3>1 DEF FilesInv, TempInv, CallInv, Temp
  <2> QED
    BY <2>1, <2>2
<1> QED
  BY <1>1, <1>2, <1>3 DEF FilesInv

\* A call that ends, in whatever way.
LEMMA ReturnKeeps ==
    ASSUME FilesInv, NEW w \in Writer, Return(w),
           UNCHANGED <<noReplace, log, kept, floor>>
    PROVE  FilesInv'
<1>1. pc'[w] = "idle"
  BY DEF Return, Goto, FilesInv, FileTypes
<1>2. TempInv(w)' /\ CallInv(w)'
  BY <1>1 DEF TempInv, CallInv
<1>3. /\ pc' = [pc EXCEPT ![w] = "idle"] /\ "idle" \in Label
      /\ call' = [call EXCEPT ![w] = None] /\ None \in Calls \cup {None}
  BY DEF Return, Goto, Label
<1> QED
  BY <1>2, <1>3, CallerStep, Zenon

LEMMA BeginKeeps ==
    ASSUME FilesInv, NEW w \in Writer, WriteFile(w) \/ WriteFileExclusive(w)
    PROVE  FilesInv'
<1>1. PICK k \in Kind, d \in Data, label \in {"read", "create"} :
         /\ call' = [call EXCEPT ![w] = Call(k, d)] /\ pc' = [pc EXCEPT ![w] = label]
         /\ label = "read" => k = "backup"
  BY DEF WriteFile, WriteFileExclusive, Goto, Kind
<1>2. pc'[w] = label /\ call'[w] = Call(k, d)
  BY <1>1 DEF FilesInv, FileTypes
<1>3. Call(k, d) \in Calls /\ Call(k, d).path = Target /\ Call(k, d).kind = k
  BY DEF Calls, Call, Path
<1>4. TempInv(w)' /\ CallInv(w)'
  BY <1>1, <1>2, <1>3 DEF TempInv, CallInv, Target, Backup
<1>5. label \in Label /\ Call(k, d) \in Calls \cup {None}
  BY <1>3 DEF Label
<1>6. UNCHANGED <<noReplace, log, kept, floor>>
  BY DEF WriteFile, WriteFileExclusive, diskVars
<1> QED
  BY <1>1, <1>4, <1>5, <1>6, CallerStep, Zenon

LEMMA BackupKeeps ==
    ASSUME FilesInv, NEW w \in Writer, BackupCurrent(w)
    PROVE  FilesInv'
<1>0. UNCHANGED <<noReplace, log, kept, floor>> /\ "create" \in Label
  BY DEF BackupCurrent, diskVars, Label
<1>1. pc[w] = "read" /\ call[w] \in Calls /\ call[w].kind = "backup" /\ call[w].path = Target
  BY DEF BackupCurrent, FilesInv, CallInv
<1>2. CASE Return(w)
  BY <1>0, <1>2, ReturnKeeps
<1>3. CASE Goto(w, "create") /\ call' = call
  <2>1. pc'[w] = "create" /\ call' = [call EXCEPT ![w] = call[w]]
    BY <1>3 DEF Goto, FilesInv, FileTypes
  <2>2. TempInv(w)' /\ CallInv(w)'
    BY <1>1, <1>3, <2>1 DEF TempInv, CallInv, Target, Backup
  <2>3. pc' = [pc EXCEPT ![w] = "create"] /\ call[w] \in Calls \cup {None}
    BY <1>1, <1>3 DEF Goto
  <2> QED
    BY <1>0, <2>1, <2>2, <2>3, CallerStep, Zenon
<1>4. CASE /\ Goto(w, "create") /\ log[Target] # <<>>
           /\ call' = [call EXCEPT ![w] = [@ EXCEPT !.path = Backup,
                                                    !.prior = Current(Target).data]]
  <2>1. Current(Target) \in File
    BY <1>4 DEF Current, FilesInv, FileTypes, Path
  <2>2. PICK d : d = Current(Target).data /\ d \in Data
    BY <2>1 DEF File
  <2>3. PICK c : c = [call[w] EXCEPT !.path = Backup, !.prior = d]
    OBVIOUS
  <2>4. call' = [call EXCEPT ![w] = c]
    BY <1>4, <2>2, <2>3
  <2>5. pc'[w] = "create" /\ pc' = [pc EXCEPT ![w] = "create"]
    BY <1>4 DEF Goto, FilesInv, FileTypes
  <2>6. c \in Calls /\ c.kind = "backup" /\ c.path = Backup /\ c.prior \in Data
    <3>1. PICK b \in Calls : b = call[w]
      BY <1>1
    <3>2. c = [b EXCEPT !.path = Backup, !.prior = d] /\ b.kind = "backup" /\ Backup \in Path
      BY <1>1, <2>3, <3>1 DEF Path
    <3>3. PICK e \in Data \cup {None} : e = d
      BY <2>2
    <3>4. [b EXCEPT !.path = Backup, !.prior = e] \in Calls
      BY <3>2, CallUpdate, Zenon DEF Calls
    <3>5. c.kind = b.kind /\ c.path = Backup /\ c.prior = d
      BY <3>2 DEF Calls
    <3> QED
      BY <2>2, <3>2, <3>3, <3>4, <3>5
  <2>7. call'[w] = c
    BY <2>4 DEF FilesInv, FileTypes
  <2>8. TempInv(w)' /\ CallInv(w)'
    BY <2>5, <2>6, <2>7 DEF TempInv, CallInv
  <2>9. c \in Calls \cup {None}
    BY <2>6
  <2> QED
    BY <1>0, <2>4, <2>5, <2>8, <2>9, CallerStep, Zenon
<1> QED
  BY <1>2, <1>3, <1>4 DEF BackupCurrent

\* A system call on the temporary file: what it leaves, or the end of the call.
LEMMA OnTempKeeps ==
    ASSUME FilesInv, NEW w \in Writer, NEW from \in Label \ {"idle"}, NEW to \in Label,
           NEW temp \in File, OnTemp(w, from, to, temp),
           temp.by = call[w].kind,
           to \in {"chmod", "sync", "rename"},
           temp.whole, to \in {"sync", "rename"} => temp.perm,
           to = "rename" => temp.synced
    PROVE  FilesInv'
<1>1. UNCHANGED <<noReplace, log, kept, floor>>
  BY DEF OnTemp, cleanup, diskVars
<1>2. CASE cleanup(w)
  BY <1>1, <1>2, ReturnKeeps DEF cleanup
<1>3. CASE Goto(w, to) /\ call' = [call EXCEPT ![w].temp = temp]
  <2>1. pc[w] = from /\ call[w] \in Calls
    BY DEF OnTemp, FilesInv, CallInv
  <2>2. PICK b \in Calls : b = call[w]
    BY <2>1
  <2>3. PICK c : c = [b EXCEPT !.temp = temp]
    BY Zenon
  <2>4. /\ c \in Calls /\ c.kind = b.kind /\ c.path = b.path /\ c.prior = b.prior
        /\ c.temp = temp
    BY <2>3 DEF Calls
  <2>5. /\ call' = [call EXCEPT ![w] = c] /\ pc' = [pc EXCEPT ![w] = to]
        /\ call'[w] = c /\ pc'[w] = to
    BY <1>3, <2>2, <2>3 DEF Goto, FilesInv, FileTypes
  <2>6. TempInv(w)'
    BY <2>2, <2>4, <2>5 DEF TempInv, Temp
  <2>7. CallInv(w)'
    BY <2>1, <2>2, <2>4, <2>5 DEF FilesInv, CallInv
  <2>8. c \in Calls \cup {None}
    BY <2>4
  <2> QED
    BY <1>1, <2>5, <2>6, <2>7, <2>8, CallerStep, Zenon
<1> QED
  BY <1>2, <1>3 DEF OnTemp

LEMMA CreateKeeps ==
    ASSUME FilesInv, NEW w \in Writer, CreateTemp(w)
    PROVE  FilesInv'
<1>1. UNCHANGED <<noReplace, log, kept, floor>>
  BY DEF CreateTemp, diskVars
<1>2. CASE Return(w)
  BY <1>1, <1>2, ReturnKeeps
<1> DEFINE made == [data |-> Content(w), by |-> call[w].kind, whole |-> FALSE,
                    perm |-> FALSE, synced |-> FALSE]
<1>3. CASE Goto(w, "write") /\ call' = [call EXCEPT ![w].temp = made]
  <2>1. pc[w] = "create" /\ call[w] \in Calls
    BY DEF CreateTemp, FilesInv, CallInv
  <2>2. PICK b \in Calls : b = call[w]
    BY <2>1
  <2>3. Content(w) \in Data
    BY <2>1, <2>2 DEF Content, FilesInv, CallInv, Calls
  <2>4. PICK temp \in File : temp = made /\ temp.by = b.kind
    <3>1. b.kind \in Kind /\ made.by = b.kind
      BY <2>2 DEF Calls
    <3>2. made \in File
      BY <2>2, <2>3, <3>1 DEF File
    <3> QED
      BY <3>1, <3>2, Zenon
  <2>5. PICK c : c = [b EXCEPT !.temp = temp]
    BY Zenon
  <2>6. /\ c \in Calls /\ c.kind = b.kind /\ c.path = b.path /\ c.prior = b.prior
        /\ c.temp = temp
    BY <2>5 DEF Calls
  <2>7. /\ call' = [call EXCEPT ![w] = c] /\ pc' = [pc EXCEPT ![w] = "write"]
        /\ call'[w] = c /\ pc'[w] = "write"
    BY <1>3, <2>2, <2>4, <2>5 DEF Goto, FilesInv, FileTypes
  <2> HIDE DEF made
  <2>8. TempInv(w)'
    BY <2>4, <2>6, <2>7 DEF TempInv, Temp
  <2>9. CallInv(w)'
    BY <2>1, <2>2, <2>6, <2>7 DEF FilesInv, CallInv
  <2>10. c \in Calls \cup {None} /\ "write" \in Label
    BY <2>6 DEF Label
  <2> QED
    BY <1>1, <2>7, <2>8, <2>9, <2>10, CallerStep, Zenon
<1> QED
  BY <1>2, <1>3 DEF CreateTemp

LEMMA TempKeeps ==
    ASSUME FilesInv, NEW w \in Writer, WriteTemp(w) \/ ChmodTemp(w) \/ SyncTemp(w)
    PROVE  FilesInv'
<1>1. pc[w] \in {"write", "chmod", "sync"} /\ Temp(w) \in File /\ Temp(w).by = call[w].kind
  BY DEF WriteTemp, ChmodTemp, SyncTemp, OnTemp, FilesInv, TempInv
<1>2. PICK made \in File : made = Temp(w)
  BY <1>1
<1>3. {"write", "chmod", "sync"} \subseteq Label \ {"idle"} /\ {"chmod", "sync", "rename"} \subseteq Label
  BY DEF Label
<1>4. CASE WriteTemp(w)
  <2>1. PICK temp : temp = [made EXCEPT !.whole = TRUE]
    BY Zenon
  <2>2. temp \in File /\ temp.by = made.by /\ temp.whole
    BY <2>1, Zenon DEF File
  <2>3. OnTemp(w, "write", "chmod", temp)
    BY <1>2, <1>4, <2>1, Zenon DEF WriteTemp
  <2>4. /\ "write" \in Label \ {"idle"} /\ "chmod" \in Label /\ "chmod" \in {"chmod", "sync", "rename"}
        /\ "chmod" \notin {"sync", "rename"} /\ "chmod" # "rename"
    BY <1>3
  <2> QED
    BY <1>1, <1>2, <2>2, <2>3, <2>4, OnTempKeeps, Zenon
<1>5. CASE ChmodTemp(w)
  <2>1. PICK temp : temp = [made EXCEPT !.perm = TRUE]
    BY Zenon
  <2>2. made.whole
    BY <1>2, <1>5 DEF ChmodTemp, OnTemp, FilesInv, TempInv
  <2>3. temp \in File /\ temp.by = made.by /\ temp.whole /\ temp.perm
    BY <2>1, <2>2, Zenon DEF File
  <2>4. OnTemp(w, "chmod", "sync", temp)
    BY <1>2, <1>5, <2>1, Zenon DEF ChmodTemp
  <2>5. /\ "chmod" \in Label \ {"idle"} /\ "sync" \in Label /\ "sync" \in {"chmod", "sync", "rename"}
        /\ "sync" # "rename"
    BY <1>3
  <2> QED
    BY <1>1, <1>2, <2>3, <2>4, <2>5, OnTempKeeps, Zenon
<1>6. CASE SyncTemp(w)
  <2>1. PICK temp : temp = [made EXCEPT !.synced = TRUE]
    BY Zenon
  <2>2. made.whole /\ made.perm
    BY <1>2, <1>6 DEF SyncTemp, OnTemp, FilesInv, TempInv
  <2>3. temp \in File /\ temp.by = made.by /\ temp.whole /\ temp.perm /\ temp.synced
    BY <2>1, <2>2, Zenon DEF File
  <2>4. OnTemp(w, "sync", "rename", temp)
    BY <1>2, <1>6, <2>1, Zenon DEF SyncTemp
  <2>5. /\ "sync" \in Label \ {"idle"} /\ "rename" \in Label /\ "rename" \in {"chmod", "sync", "rename"}
    BY <1>3
  <2> QED
    BY <1>1, <1>2, <2>3, <2>4, <2>5, OnTempKeeps, Zenon
<1> QED
  BY <1>4, <1>5, <1>6, Zenon

\* A file gets a name.
LEMMA Appended ==
    ASSUME FileTypes, NEW p \in Path, NEW f \in File,
           log' = [log EXCEPT ![p] = Append(@, f)]
    PROVE  /\ log' \in [Path -> Seq(File)]
           /\ \A q \in Path \ {p} : log'[q] = log[q]
           /\ log[p] \in Seq(File) /\ log'[p] = Append(log[p], f)
           /\ Len(log'[p]) = Len(log[p]) + 1
           /\ \A i \in 1 .. Len(log[p]) : log'[p][i] = log[p][i]
           /\ log'[p][Len(log[p]) + 1] = f
BY DEF FileTypes

LEMMA RenameKeeps ==
    ASSUME FilesInv, NEW w \in Writer, pc[w] \in {"rename", "looked"}, Rename(w),
           noReplace /\ call[w].kind = "exclusive" => log[Target] = <<>>
    PROVE  FilesInv'
<1>1. /\ Temp(w) \in File /\ Named(Temp(w)) /\ Temp(w).by = call[w].kind
      /\ call[w] \in Calls
  BY DEF FilesInv, TempInv, CallInv, Named
<1>2. PICK p \in Path, f \in File : p = call[w].path /\ f = Temp(w)
  BY <1>1 DEF Calls
<1>3. /\ log' = [log EXCEPT ![p] = Append(@, f)] /\ pc' = [pc EXCEPT ![w] = "dirsync"]
      /\ UNCHANGED <<noReplace, kept, floor, call>>
  BY <1>2 DEF Rename, Goto
<1>4. /\ log' \in [Path -> Seq(File)] /\ \A q \in Path \ {p} : log'[q] = log[q]
      /\ log[p] \in Seq(File) /\ Len(log'[p]) = Len(log[p]) + 1
      /\ \A i \in 1 .. Len(log[p]) : log'[p][i] = log[p][i]
      /\ log'[p][Len(log[p]) + 1] = f
  BY <1>3, Appended, Zenon DEF FilesInv
<1>5. FileTypes'
  BY <1>3, <1>4 DEF FilesInv, FileTypes, Label
<1>6. DiskInv'
  BY <1>3, <1>4 DEF FilesInv, FileTypes, DiskInv
<1>7. NamedInv'
  <2>1. Named(f)
    BY <1>1, <1>2
  <2> QED
    BY <1>4, <2>1 DEF FilesInv, NamedInv, Named
<1>8. ExclusiveIsFirst'
  <2>1. noReplace /\ f.by = "exclusive" => Len(log[p]) = 0
    <3>1. f.by = "exclusive" => p = Target
      <4>1. p = Backup => call[w].kind = "backup"
        <5>1. pc[w] # "idle" /\ CallInv(w)
          BY Zenon DEF FilesInv
        <5> QED
          BY <1>2, <5>1, Zenon DEF CallInv
      <4> QED
        BY <1>1, <1>2, <4>1, Zenon DEF Path
    <3>2. log[Target] = <<>> => Len(log[Target]) = 0
      OBVIOUS
    <3> QED
      BY <1>1, <1>2, <1>4, <3>1, <3>2
  <2>2. ASSUME noReplace, NEW q \in Path, NEW i \in 2 .. Len(log'[q])
        PROVE  log'[q][i].by # "exclusive"
    BY <1>4, <2>1, <2>2 DEF FilesInv, ExclusiveIsFirst
  <2> QED
    BY <1>3, <2>2 DEF ExclusiveIsFirst
<1>9. ASSUME NEW v \in Writer PROVE TempInv(v)' /\ CallInv(v)'
  <2>1. pc'[v] = pc[v] \/ (v = w /\ pc'[v] = "dirsync" /\ pc[v] \in {"rename", "looked"})
    BY <1>3 DEF FilesInv, FileTypes
  <2> QED
    BY <1>3, <2>1 DEF FilesInv, TempInv, CallInv, Temp
<1> QED
  BY <1>5, <1>6, <1>7, <1>8, <1>9, Zenon DEF FilesInv


LEMMA SafeRenameKeeps ==
    ASSUME FilesInv, NEW w \in Writer, safeRename(w)
    PROVE  FilesInv'
<1>1. pc[w] \in {"rename", "looked"}
  BY DEF safeRename
<1>2. CASE cleanup(w) \/ Exists(w)
  <2>1. Return(w) /\ UNCHANGED <<noReplace, log, kept, floor>>
    BY <1>2 DEF cleanup, Exists, diskVars
  <2> QED
    BY <2>1, ReturnKeeps, Zenon
<1>3. CASE Rename(w) /\ (noReplace /\ call[w].kind = "exclusive" => log[Target] = <<>>)
  BY <1>1, <1>3, RenameKeeps, Zenon
<1>4. CASE /\ pc[w] = "rename" /\ ~noReplace /\ Goto(w, "looked")
           /\ UNCHANGED <<noReplace, diskVars, call>>
  <2>1. /\ UNCHANGED <<noReplace, log, kept, floor>> /\ "looked" \in Label
        /\ pc' = [pc EXCEPT ![w] = "looked"] /\ pc'[w] = "looked" /\ call' = call
    BY <1>4 DEF Goto, diskVars, Label, FilesInv, FileTypes
  <2>2. call[w] \in Calls \cup {None} /\ call' = [call EXCEPT ![w] = call[w]]
    BY <2>1 DEF FilesInv, FileTypes
  <2>3. TempInv(w)'
    BY <1>4, <2>1 DEF FilesInv, TempInv, Temp
  <2>4. CallInv(w)'
    BY <1>4, <2>1 DEF FilesInv, CallInv
  <2> QED
    BY <2>1, <2>2, <2>3, <2>4, CallerStep, Zenon
<1>5. CASE pc[w] = "looked" /\ Rename(w)
  <2>1. ~noReplace
    BY <1>5 DEF FilesInv, CallInv
  <2> QED
    BY <1>1, <1>5, <2>1, RenameKeeps, Zenon
<1> QED
  BY <1>2, <1>3, <1>4, <1>5, Zenon DEF safeRename

\* The directory on disk catches up.
LEMMA KeptGrows ==
    ASSUME FileTypes, DiskInv, NEW p \in Path, UNCHANGED log,
           kept' = [kept EXCEPT ![p] = Len(log[p])],
           floor' \in {floor, [floor EXCEPT ![p] = Len(log[p])]}
    PROVE  DiskInv' /\ kept' \in [Path -> Nat] /\ floor' \in [Path -> Nat]
<1>1. \A q \in Path : Len(log[q]) \in Nat
  BY DEF FileTypes
<1> QED
  BY <1>1 DEF FileTypes, DiskInv

LEMMA SyncDirKeeps ==
    ASSUME FilesInv, NEW w \in Writer, SyncDir(w)
    PROVE  FilesInv'
<1>1. pc[w] = "dirsync" /\ call[w] \in Calls
  BY DEF SyncDir, FilesInv, CallInv
<1>2. PICK p \in Path : p = call[w].path
  BY <1>1 DEF Calls
<1>3. /\ UNCHANGED <<noReplace, log>>
      /\ \/ /\ kept' = [kept EXCEPT ![p] = Len(log[p])]
            /\ floor' = [floor EXCEPT ![p] = Len(log[p])]
         \/ UNCHANGED <<kept, floor>>
  BY <1>2, Zenon DEF SyncDir
<1>4. DiskInv' /\ kept' \in [Path -> Nat] /\ floor' \in [Path -> Nat]
  <2>1. CASE UNCHANGED <<kept, floor>>
    BY <1>3, <2>1 DEF FilesInv, FileTypes, DiskInv
  <2>2. CASE /\ kept' = [kept EXCEPT ![p] = Len(log[p])]
             /\ floor' = [floor EXCEPT ![p] = Len(log[p])]
    BY <1>3, <2>2, KeptGrows, Zenon DEF FilesInv
  <2> QED
    BY <1>3, <2>1, <2>2, Zenon
<1>5. NamedInv' /\ ExclusiveIsFirst'
  BY <1>3 DEF FilesInv, NamedInv, Named, ExclusiveIsFirst
<1>6. PICK label \in Label, c \in Calls \cup {None} :
         /\ pc' = [pc EXCEPT ![w] = label] /\ call' = [call EXCEPT ![w] = c]
         /\ label \in {"idle", "create", "chown"}
         /\ label # "idle" => c \in Calls /\ c.path = Target
  <2>1. CASE Return(w)
    <3>1. "idle" \in Label /\ None \in Calls \cup {None}
      BY DEF Label
    <3> QED
      BY <2>1, <3>1, Zenon DEF Return, Goto
  <2>2. CASE Goto(w, "chown") /\ UNCHANGED call /\ p # Backup
    <3>1. /\ "chown" \in Label /\ call[w] \in Calls \cup {None} /\ call[w].path = Target
          /\ call' = [call EXCEPT ![w] = call[w]]
      BY <1>1, <1>2, <2>2 DEF Label, Path, FilesInv, FileTypes
    <3> QED
      BY <1>1, <2>2, <3>1, Zenon DEF Goto
  <2>3. CASE /\ Goto(w, "create")
             /\ call' = [call EXCEPT ![w] = [@ EXCEPT !.path = Target, !.temp = None]]
    <3>1. PICK b \in Calls : b = call[w]
      BY <1>1
    <3>2. PICK c : c = [b EXCEPT !.path = Target, !.temp = None]
      BY Zenon
    <3>3. c \in Calls \cup {None} /\ c \in Calls /\ c.path = Target
      <4>1. Target \in Path /\ None \in File \cup {None}
        BY DEF Path
      <4> QED
        BY <3>2, <4>1, Zenon DEF Calls
    <3>4. call' = [call EXCEPT ![w] = c] /\ "create" \in Label
      BY <2>3, <3>1, <3>2 DEF Label
    <3> QED
      BY <2>3, <3>3, <3>4, Zenon DEF Goto
  <2> QED
    BY <1>2, <2>1, <2>2, <2>3, Zenon DEF SyncDir
<1>7. FileTypes'
  BY <1>3, <1>4, <1>6 DEF FilesInv, FileTypes
<1>8. ASSUME NEW v \in Writer PROVE TempInv(v)' /\ CallInv(v)'
  <2>1. CASE v = w
    <3>1. pc'[v] = label /\ call'[v] = c
      BY <1>6, <2>1 DEF FilesInv, FileTypes
    <3> QED
      BY <1>6, <3>1 DEF TempInv, CallInv, Target, Backup
  <2>2. CASE v # w
    <3>1. pc'[v] = pc[v] /\ call'[v] = call[v]
      BY <1>6, <2>2 DEF FilesInv, FileTypes
    <3> QED
      BY <1>3, <3>1 DEF FilesInv, TempInv, CallInv, Temp
  <2> QED
    BY <2>1, <2>2
<1> QED
  BY <1>4, <1>5, <1>7, <1>8, Zenon DEF FilesInv

LEMMA WritebackKeeps ==
    ASSUME FilesInv, NEW p \in Path, Writeback(p)
    PROVE  FilesInv'
<1>1. /\ UNCHANGED <<noReplace, log, floor, pc, call>>
      /\ kept' = [kept EXCEPT ![p] = Len(log[p])]
  BY DEF Writeback
<1>2. DiskInv' /\ kept' \in [Path -> Nat] /\ floor' \in [Path -> Nat]
  BY <1>1, KeptGrows, Zenon DEF FilesInv
<1>3. FileTypes' /\ NamedInv' /\ ExclusiveIsFirst'
  <2>1. FileTypes'
    BY <1>1, <1>2 DEF FilesInv, FileTypes
  <2> QED
    BY <1>1, <2>1 DEF FilesInv, NamedInv, Named, ExclusiveIsFirst
<1>4. ASSUME NEW w \in Writer PROVE TempInv(w)' /\ CallInv(w)'
  BY <1>1 DEF FilesInv, TempInv, CallInv, Temp
<1> QED
  BY <1>2, <1>3, <1>4, Zenon DEF FilesInv


\* A prefix of a sequence, put together from its last element.
LEMMA Prefix ==
    ASSUME NEW S, NEW s \in Seq(S), NEW n \in 1 .. Len(s), NEW t,
           t = Append(SubSeq(s, 1, n - 1), s[n])
    PROVE  t \in Seq(S) /\ Len(t) = n /\ \A i \in 1 .. n : t[i] = s[i]
<1>1. PICK r : r = SubSeq(s, 1, n - 1)
  BY Zenon
<1>2. r \in Seq(S) /\ Len(r) = n - 1
  BY <1>1
<1>3. \A i \in 1 .. n - 1 : r[i] = s[i]
  BY <1>1
<1>4. PICK f \in S : f = s[n]
  OBVIOUS
<1>5. t = Append(r, f)
  BY <1>1, <1>4, Zenon
<1> HIDE <1>1
<1> QED
  BY <1>2, <1>3, <1>4, <1>5

\* What the disk has of a path after a power loss: the files are synced, so
\* each that the directory on disk had seen is there.
LEMMA AfterLossFacts ==
    ASSUME FilesInv, NEW p \in Path, NEW t \in AfterLoss(p)
    PROVE  /\ t \in Seq(File) /\ Len(t) = kept[p] /\ kept[p] \in floor[p] .. Len(log[p])
           /\ \A i \in 1 .. kept[p] : t[i] = log[p][i]
<1>1. /\ kept[p] \in Nat /\ floor[p] \in Nat /\ log[p] \in Seq(File)
      /\ floor[p] <= kept[p] /\ kept[p] <= Len(log[p])
  BY DEF FilesInv, FileTypes, DiskInv
<1>2. CASE kept[p] = 0
  <2>1. t = <<>>
    BY <1>2, Zenon DEF AfterLoss
  <2> QED
    BY <1>1, <1>2, <2>1
<1>3. CASE kept[p] # 0
  <2>1. PICK n \in 1 .. Len(log[p]) : n = kept[p]
    BY <1>1, <1>3
  <2>2. log[p][n].synced
    BY Zenon DEF FilesInv, NamedInv, Named
  <2>3. t \in {Append(SubSeq(log[p], 1, n - 1), f) : f \in Decayed(log[p][n])}
    BY <1>3, <2>1, Zenon DEF AfterLoss
  <2>4. Decayed(log[p][n]) = {log[p][n]}
    BY <2>2, Zenon DEF Decayed
  <2>5. t = Append(SubSeq(log[p], 1, n - 1), log[p][n])
    BY <2>3, <2>4, Zenon
  <2>6. /\ t \in Seq(File) /\ Len(t) = n
        /\ \A i \in 1 .. n : t[i] = log[p][i]
    BY <1>1, <2>1, <2>5, Prefix
  <2> QED
    BY <1>1, <2>1, <2>6
<1> QED
  BY <1>2, <1>3, Zenon

\* After a power loss.
LEMMA LossFacts ==
    ASSUME FilesInv, PowerLoss, NEW p \in Path
    PROVE  /\ log'[p] \in Seq(File) /\ Len(log'[p]) = kept[p]
           /\ kept[p] \in floor[p] .. Len(log[p])
           /\ \A i \in 1 .. kept[p] : log'[p][i] = log[p][i]
<1>1. PICK t \in AfterLoss(p) : t = log'[p]
  <2>1. PICK t \in AfterLoss(Target), b \in AfterLoss(Backup) :
            log' = [q \in Path |-> IF q = Target THEN t ELSE b]
    BY Zenon DEF PowerLoss
  <2>2. CASE p = Target
    BY <2>1, <2>2
  <2>3. CASE p # Target
    BY <2>1, <2>3 DEF Path
  <2> QED
    BY <2>2, <2>3, Zenon
<1> QED
  BY <1>1, AfterLossFacts

LEMMA PowerLossKeeps ==
    ASSUME FilesInv, PowerLoss
    PROVE  FilesInv'
<1>1. /\ UNCHANGED <<noReplace, kept, floor>>
      /\ pc' = [w \in Writer |-> "idle"] /\ call' = [w \in Writer |-> None]
  BY DEF PowerLoss
<1>2. log' = [p \in Path |-> log'[p]]
  BY Zenon DEF PowerLoss
<1>3. FileTypes'
  <2>1. log' \in [Path -> Seq(File)]
    BY <1>2, LossFacts
  <2> QED
    BY <1>1, <2>1 DEF FilesInv, FileTypes, Label
<1>4. DiskInv'
  BY <1>1, LossFacts DEF FilesInv, FileTypes, DiskInv
<1>5. NamedInv' /\ ExclusiveIsFirst'
  <2>1. ASSUME NEW p \in Path, NEW i \in 1 .. Len(log'[p])
        PROVE  i \in 1 .. Len(log[p]) /\ log'[p][i] = log[p][i]
    BY LossFacts DEF FilesInv, FileTypes
  <2>2. ASSUME NEW p \in Path, NEW i \in 1 .. Len(log'[p]) PROVE Named(log'[p][i])
    BY <2>1, Zenon DEF FilesInv, NamedInv
  <2>3. ASSUME noReplace, NEW p \in Path, NEW i \in 2 .. Len(log'[p])
        PROVE  log'[p][i].by # "exclusive"
    <3>1. i \in 1 .. Len(log'[p]) /\ i >= 2
      BY LossFacts
    <3>2. i \in 2 .. Len(log[p]) /\ log'[p][i] = log[p][i]
      BY <2>1, <3>1
    <3> QED
      BY <2>3, <3>2, Zenon DEF FilesInv, ExclusiveIsFirst
  <2> QED
    BY <1>1, <2>2, <2>3, Zenon DEF NamedInv, Named, ExclusiveIsFirst
<1>6. ASSUME NEW w \in Writer PROVE TempInv(w)' /\ CallInv(w)'
  <2>1. pc'[w] = "idle"
    BY <1>1, Zenon
  <2> QED
    BY <2>1, Zenon DEF TempInv, CallInv
<1> QED
  BY <1>3, <1>4, <1>5, <1>6, Zenon DEF FilesInv

LEMMA FilesStep == FilesInv /\ [Next]_vars => FilesInv'
<1> SUFFICES ASSUME FilesInv, [Next]_vars PROVE FilesInv'
  OBVIOUS
<1>1. CASE UNCHANGED vars
  <2>1. UNCHANGED <<noReplace, log, kept, floor, pc, call>>
    BY <1>1 DEF vars, diskVars
  <2>2. FileTypes' /\ DiskInv'
    BY <2>1 DEF FilesInv, FileTypes, DiskInv
  <2>3. NamedInv' /\ ExclusiveIsFirst'
    BY <2>1 DEF FilesInv, NamedInv, Named, ExclusiveIsFirst
  <2>4. ASSUME NEW w \in Writer PROVE TempInv(w)' /\ CallInv(w)'
    BY <2>1 DEF FilesInv, TempInv, CallInv, Temp
  <2> QED
    BY <2>2, <2>3, <2>4, Zenon DEF FilesInv
<1>2. ASSUME NEW w \in Writer, Chown(w) \/ Kill(w) PROVE FilesInv'
  <2>1. Return(w) /\ UNCHANGED <<noReplace, log, kept, floor>>
    BY <1>2 DEF Chown, Kill, diskVars
  <2> QED
    BY <2>1, ReturnKeeps, Zenon
<1> QED
  BY <1>1, <1>2, BeginKeeps, BackupKeeps, CreateKeeps, TempKeeps, SafeRenameKeeps,
     SyncDirKeeps, WritebackKeeps, PowerLossKeeps, Zenon DEF Next

\* The inductive invariant holds at every moment: a call is where its label says,
\* and the log of a path holds whole files, in the order of their renames
\* (safeReplaceFile).
THEOREM FilesInvariant == Spec => []FilesInv
BY FilesInit, FilesStep, PTL DEF Spec

\* For any number of calls, killed anywhere and over any power losses: where
\* safeRename has RENAME_NOREPLACE, WriteFileExclusive never replaces a file.
THEOREM ExclusiveIsAlwaysFirst == Spec => []ExclusiveIsFirst
<1>1. FilesInv => ExclusiveIsFirst
  BY Zenon DEF FilesInv
<1> QED
  BY <1>1, FilesInvariant, PTL

-------------------------------------------------------------------------------
(* The files implement the log of complete contents. *)

View(s) == [i \in 1 .. Len(s) |-> Load(s[i])]

Contents == [p \in Path |-> View(log[p])]

LEMMA AppendFacts ==
    ASSUME NEW S, NEW s \in Seq(S), NEW f \in S, NEW t, t = Append(s, f)
    PROVE  /\ t \in Seq(S) /\ Len(t) = Len(s) + 1 /\ t[Len(s) + 1] = f
           /\ \A i \in 1 .. Len(s) : t[i] = s[i]
OBVIOUS

LEMMA OneChanged ==
    ASSUME NEW S, NEW c, NEW e, NEW p \in S, NEW x, c = [q \in S |-> c[q]],
           e = [q \in S |-> e[q]], e[p] = x, \A q \in S \ {p} : e[q] = c[q]
    PROVE  e = [c EXCEPT ![p] = x]
OBVIOUS

LEMMA ViewAppend ==
    ASSUME NEW s \in Seq(File), NEW f \in File
    PROVE  View(Append(s, f)) = Append(View(s), Load(f))
<1>0. PICK t : t = Append(s, f)
  BY Zenon
<1>1. /\ Len(t) = Len(s) + 1 /\ t[Len(s) + 1] = f
      /\ \A i \in 1 .. Len(s) : t[i] = s[i]
  BY <1>0, AppendFacts
<1>2. PICK n \in Nat : n = Len(s)
  OBVIOUS
<1>3. View(s) = [i \in 1 .. n |-> Load(s[i])] /\ View(t) = [i \in 1 .. n + 1 |-> Load(t[i])]
  BY <1>1, <1>2 DEF View
<1>4. \A i \in 1 .. n : Load(t[i]) = Load(s[i])
  BY <1>1, <1>2, Zenon
<1> QED
  BY <1>0, <1>1, <1>2, <1>3, <1>4

\* A rename is the path's next contents, those of one call.
LEMMA RenameReplaces ==
    ASSUME FilesInv, NEW w \in Writer, pc[w] \in {"rename", "looked"}, Rename(w)
    PROVE  \E p \in Path, d \in Data : Contents' = [Contents EXCEPT ![p] = Append(@, d)]
<1>1. Temp(w) \in File /\ Named(Temp(w)) /\ call[w] \in Calls
  BY DEF FilesInv, TempInv, CallInv, Named
<1>2. PICK p \in Path, f \in File : p = call[w].path /\ f = Temp(w)
  BY <1>1 DEF Calls
<1>3. PICK d \in Data : d = Load(f)
  BY <1>1, <1>2, Zenon DEF Load, Named, File
<1>4. log' = [log EXCEPT ![p] = Append(@, f)]
  BY <1>2, Zenon DEF Rename
<1>5. /\ log[p] \in Seq(File) /\ log'[p] = Append(log[p], f)
      /\ \A q \in Path \ {p} : log'[q] = log[q]
  BY <1>4, Appended, Zenon DEF FilesInv
<1>6. View(log'[p]) = Append(View(log[p]), d)
  BY <1>3, <1>5, ViewAppend, Zenon
<1>7. \A q \in Path \ {p} : View(log'[q]) = View(log[q])
  BY <1>5, Zenon
<1>8. Contents' = [q \in Path |-> View(log'[q])]
  BY Zenon DEF Contents, View, Load
<1>9. Contents' = [Contents EXCEPT ![p] = Append(@, d)]
  <2>1. /\ Contents = [q \in Path |-> Contents[q]] /\ Contents' = [q \in Path |-> Contents'[q]]
        /\ \A q \in Path : Contents[q] = View(log[q]) /\ Contents'[q] = View(log'[q])
    BY <1>8, Zenon DEF Contents
  <2>2. \A q \in Path \ {p} : Contents'[q] = Contents[q]
    BY <1>7, <2>1, Zenon
  <2>3. Contents'[p] = Append(Contents[p], d)
    BY <1>6, <2>1, Zenon
  <2> QED
    BY <2>1, <2>2, <2>3, OneChanged, Zenon
<1> QED
  BY <1>9, Zenon

\* After a power loss a path is as it was at some time, and not before a
\* directory sync that a caller saw.
LEMMA LossTakesBack ==
    ASSUME FilesInv, PowerLoss, NEW p \in Path
    PROVE  \E n \in floor[p] .. Len(Contents[p]) : Contents'[p] = SubSeq(Contents[p], 1, n)
<1>1. /\ log'[p] \in Seq(File) /\ Len(log'[p]) = kept[p] /\ kept[p] \in floor[p] .. Len(log[p])
      /\ \A i \in 1 .. kept[p] : log'[p][i] = log[p][i]
  BY LossFacts, Zenon
<1>2. PICK s \in Seq(File), n \in Nat : s = log[p] /\ n = kept[p] /\ n <= Len(s)
  BY <1>1 DEF FilesInv, FileTypes
<1>3. Contents[p] = [i \in 1 .. Len(s) |-> Load(s[i])]
  BY <1>2, Zenon DEF Contents, View
<1>4. Contents'[p] = [i \in 1 .. n |-> Load(s[i])]
  <2>1. Contents'[p] = [i \in 1 .. Len(log'[p]) |-> Load(log'[p][i])]
    BY Zenon DEF Contents, View, Load
  <2>2. \A i \in 1 .. n : Load(log'[p][i]) = Load(s[i])
    BY <1>1, <1>2, Zenon
  <2> QED
    BY <1>1, <1>2, <2>1, <2>2, Zenon
<1>5. [i \in 1 .. n |-> Load(s[i])] = SubSeq([i \in 1 .. Len(s) |-> Load(s[i])], 1, n)
  BY <1>2
<1>6. Len(Contents[p]) = Len(s)
  BY <1>3
<1> QED
  BY <1>1, <1>2, <1>3, <1>4, <1>5, <1>6, Zenon


\* The steps that change what a directory names or what is known of it.
LEMMA DiskSteps ==
    ASSUME [Next]_vars
    PROVE  \/ UNCHANGED <<log, floor>> \/ PowerLoss
           \/ \E w \in Writer : SyncDir(w)
           \/ \E w \in Writer : pc[w] \in {"rename", "looked"} /\ Rename(w)
<1>1. ASSUME NEW w \in Writer,
             \/ WriteFile(w) \/ WriteFileExclusive(w) \/ BackupCurrent(w) \/ CreateTemp(w)
             \/ cleanup(w) \/ Exists(w) \/ Chown(w) \/ Kill(w)
      PROVE  UNCHANGED <<log, floor>>
  BY <1>1, Zenon DEF WriteFile, WriteFileExclusive, BackupCurrent, CreateTemp, cleanup,
     Exists,
     Chown, Kill, diskVars
<1>2. ASSUME NEW w \in Writer, WriteTemp(w) \/ ChmodTemp(w) \/ SyncTemp(w)
      PROVE  UNCHANGED <<log, floor>>
  BY <1>1, <1>2, Zenon DEF WriteTemp, ChmodTemp, SyncTemp, OnTemp, diskVars
<1>3. ASSUME NEW w \in Writer, safeRename(w)
      PROVE  UNCHANGED <<log, floor>> \/ (pc[w] \in {"rename", "looked"} /\ Rename(w))
  BY <1>1, <1>3, Zenon DEF safeRename, diskVars
<1>4. ASSUME NEW p \in Path, Writeback(p) PROVE UNCHANGED <<log, floor>>
  BY <1>4, Zenon DEF Writeback
<1>5. UNCHANGED vars => UNCHANGED <<log, floor>>
  BY Zenon DEF vars, diskVars
<1> QED
  BY <1>1, <1>2, <1>3, <1>4, <1>5, Zenon DEF Next

\* Every step of the calls, of the file system and of the faults is a step of
\* the log or leaves it as it is.
LEMMA FilesStepMaps ==
    ASSUME FilesInv, [Next]_vars
    PROVE  \/ \E p \in Path, d \in Data : /\ Contents' = [Contents EXCEPT ![p] = Append(@, d)]
                                          /\ UNCHANGED floor
           \/ \E p \in Path : /\ floor' \in {[floor EXCEPT ![p] = n] :
                                                 n \in floor[p] .. Len(Contents[p])}
                              /\ Contents' = Contents
           \/ /\ \A p \in Path : \E n \in floor[p] .. Len(Contents[p]) :
                     Contents'[p] = SubSeq(Contents[p], 1, n)
              /\ DOMAIN Contents' = Path /\ UNCHANGED floor
           \/ Contents' = Contents /\ UNCHANGED floor
<1>1. CASE UNCHANGED log
  <2>1. Contents' = Contents
    BY <1>1, Zenon DEF Contents, View, Load
  <2>2. CASE UNCHANGED floor
    BY <2>1, <2>2, Zenon
  <2>3. CASE floor' # floor
    <3>1. PICK w \in Writer : SyncDir(w)
      <4>1. PowerLoss => UNCHANGED floor
        BY Zenon DEF PowerLoss
      <4>2. \A w \in Writer : Rename(w) => UNCHANGED floor
        BY Zenon DEF Rename
      <4> QED
        BY <2>3, <4>1, <4>2, DiskSteps, Zenon
    <3>2. call[w] \in Calls
      BY <3>1 DEF SyncDir, FilesInv, CallInv
    <3>3. PICK p \in Path : p = call[w].path
      BY <3>2 DEF Calls
    <3>4. floor' = [floor EXCEPT ![p] = Len(log[p])]
      BY <2>3, <3>1, <3>3, Zenon DEF SyncDir
    <3>5. Len(Contents[p]) = Len(log[p]) /\ Len(log[p]) \in floor[p] .. Len(log[p])
      <4>1. log[p] \in Seq(File) /\ floor[p] \in Nat /\ floor[p] <= Len(log[p])
        BY DEF FilesInv, FileTypes, DiskInv
      <4>2. Contents[p] = [i \in 1 .. Len(log[p]) |-> Load(log[p][i])]
        BY Zenon DEF Contents, View
      <4> QED
        BY <4>1, <4>2
    <3> QED
      BY <2>1, <3>4, <3>5, Zenon
  <2> QED
    BY <2>2, <2>3, Zenon
<1>2. CASE log' # log
  <2>1. CASE PowerLoss
    <3>1. DOMAIN Contents' = Path /\ UNCHANGED floor
      BY <2>1, Zenon DEF Contents, PowerLoss
    <3> QED
      BY <2>1, <3>1, LossTakesBack, Zenon
  <2>2. CASE \E w \in Writer : pc[w] \in {"rename", "looked"} /\ Rename(w)
    <3>1. PICK w \in Writer : pc[w] \in {"rename", "looked"} /\ Rename(w)
      BY <2>2, Zenon
    <3>2. UNCHANGED floor
      BY <3>1, Zenon DEF Rename
    <3> QED
      BY <3>1, <3>2, RenameReplaces, Zenon
  <2> QED
    <3>1. \A w \in Writer : SyncDir(w) => UNCHANGED log
      BY Zenon DEF SyncDir
    <3> QED
      BY <1>2, <2>1, <2>2, <3>1, DiskSteps, Zenon
<1> QED
  BY <1>1, <1>2, Zenon

\* For any number of calls and faults: a path goes through complete contents
\* of single calls, and none that a synced directory has stored is taken back
\* (safeReplaceFile writes, chmods and syncs before safeRename).
THEOREM FilesImplementLog == Spec => ImplementsFileLog
<1>1. Init => Abstract!Init
  <2> SUFFICES ASSUME Init PROVE Abstract!Init
    OBVIOUS
  <2>1. \A p \in Path : View(log[p]) = <<>>
    BY DEF Init, View
  <2> QED
    BY <2>1 DEF Init, Abstract!Init, View
<1>2. FilesInv /\ [Next]_vars => [Abstract!Next]_<<Contents, floor>>
  <2> SUFFICES ASSUME FilesInv, [Next]_vars PROVE [Abstract!Next]_<<Contents, floor>>
    OBVIOUS
  <2> QED
    BY FilesStepMaps, Zenon
       DEF Abstract!Next, Abstract!Replace, Abstract!Acknowledge, Abstract!PowerLoss, Contents, View
<1> QED
  BY <1>1, <1>2, FilesInvariant, PTL DEF Spec, ImplementsFileLog, Abstract!Spec, Contents,
     View

-------------------------------------------------------------------------------
(*****************************************************************************)
(* The executor, for any actions, versions and package managers. The         *)
(* inductive invariant says at each step of a run what the run may have seen *)
(* of the host, and that a run of an action that was settled has changed     *)
(* nothing.                                                                  *)
(*****************************************************************************)

\* What is on the host.
HostInv ==
    /\ backend \in executor!Backend \cup {"none"}
    /\ installed \in executor!Version \cup {executor!None} /\ leftover \in executor!Version \cup {executor!None}
    /\ leftover # executor!None => backend = "apt" /\ installed = executor!None

RunTypes ==
    /\ expired \in 0 .. 1 /\ healthy \in 0 .. 1 /\ drift \in Nat
    /\ changes \in Nat /\ remedied \in Nat

\* The package is not as the action wants it, as far as the package manager can
\* tell and as this run was told.
Unsettled ==
    \/ ~executor!Desired(action) \/ executor!Residue \/ misread = 1
    \/ action.version \in {executor!Bare(v) : v \in executor!Version}

PackageSteps == {"probe", "version", "index", "install", "remove", "upgrade"}
Wants == action.kind = "package" /\ action.state # "ABSENT"

\* What a run knows when it comes to a command.
StepInv ==
    /\ step # "finished" => status # "SUCCESS"
    /\ step \in PackageSteps => backend \in executor!Backend
    /\ step = "detect" => action.kind = "shell" /\ "detection" \in action.has
    /\ step = "script" => action.kind = "shell" /\ ("detection" \in action.has => 1 \in asked)
    /\ step = "verify" => action.kind = "shell"
    /\ step = "probe" => action.kind = "package"
    /\ step = "version" => Wants /\ action.version # executor!None
    /\ step = "index" => Wants \/ action.kind = "update"
    /\ step = "install" => Wants
    /\ step = "remove" => action.kind = "package" /\ action.state = "ABSENT"
    /\ step = "upgrade" => action.kind = "update"
    /\ drift = 0 /\ (step \in {"install", "remove"} \/ (step = "index" /\ Wants)) => Unsettled

ExecutorInv == HostInv /\ RunTypes /\ StepInv /\ executor!SuccessWasSeen

LEMMA NoneIsNoVersion == executor!None \notin executor!Version
BY DEF executor!None, executor!Version

LEMMA BackendFacts ==
    ASSUME HostInv, backend \in executor!Backend
    PROVE  /\ executor!Known = {installed, leftover} \ {executor!None}
           /\ \A exit : executor!IsInstalled(exit) <=> exit = 0
           /\ \A exit : executor!InstalledVersion(exit) = IF exit = 0 THEN executor!Known ELSE {}
           /\ \A spec : executor!Installs(spec) \subseteq {v \in executor!Version : spec \in {executor!None, v, executor!Bare(v)}}
           /\ executor!Removes => /\ installed' = executor!None /\ leftover' \in executor!Version \cup {executor!None}
                                  /\ leftover' # executor!None => backend = "apt"
<1>1. CASE backend = "apt"
  <2>1. /\ executor!Known = executor!aptKnown
        /\ \A exit : executor!IsInstalled(exit) = executor!aptIsInstalled(exit)
        /\ \A exit : executor!InstalledVersion(exit) = executor!aptInstalledVersion(exit)
        /\ \A spec : executor!Installs(spec) = executor!aptInstall(spec)
        /\ executor!Removes = executor!aptRemove
    BY <1>1 DEF executor!Known, executor!IsInstalled, executor!InstalledVersion,
       executor!Installs, executor!Removes
  <2>2. \A spec : executor!aptInstall(spec) \subseteq {v \in executor!Version : spec \in {executor!None, v, executor!Bare(v)}}
    BY Zenon DEF executor!aptInstall
  <2>3. executor!aptRemove => installed' = executor!None /\ leftover' \in executor!Version \cup {executor!None}
    BY DEF executor!aptRemove, HostInv
  <2>4. /\ executor!aptKnown = {installed, leftover} \ {executor!None}
        /\ \A exit : executor!aptIsInstalled(exit) <=> exit = 0
        /\ \A exit : executor!aptInstalledVersion(exit) = IF exit = 0 THEN executor!aptKnown ELSE {}
    BY Zenon DEF executor!aptKnown, executor!aptInstalledVersion, executor!aptIsInstalled
  <2> QED
    BY <1>1, <2>1, <2>2, <2>3, <2>4
<1>2. CASE backend # "apt"
  <2>1. leftover = executor!None /\ leftover \in executor!Version \cup {executor!None} /\ backend \in {"dnf", "pacman", "zypper"}
    BY <1>2 DEF HostInv, executor!Backend
  <2>2. CASE backend = "dnf"
    BY <2>1, <2>2 DEF executor!Known, executor!IsInstalled, executor!InstalledVersion,
       executor!Installs, executor!Removes,
       executor!dnfKnown, executor!dnfIsInstalled, executor!dnfInstalledVersion,
       executor!dnfInstall, executor!dnfRemove
  <2>3. CASE backend = "pacman"
    BY <2>1, <2>3 DEF executor!Known, executor!IsInstalled, executor!InstalledVersion,
       executor!Installs, executor!Removes,
       executor!pacmanKnown, executor!pacmanIsInstalled, executor!pacmanInstalledVersion,
       executor!pacmanInstall, executor!pacmanRemove
  <2>4. CASE backend = "zypper"
    BY <2>1, <2>4 DEF executor!Known, executor!IsInstalled, executor!InstalledVersion,
       executor!Installs, executor!Removes,
       executor!zypperKnown, executor!zypperIsInstalled, executor!zypperInstalledVersion,
       executor!zypperInstall, executor!zypperRemove
  <2> QED
    BY <2>1, <2>2, <2>3, <2>4
<1> QED
  BY <1>1, <1>2, Zenon

\* A command that ends without an error has run to its end.
LEMMA ExecFacts ==
    ASSUME RunTypes, NEW codes, NEW r \in executor!exec(codes)
    PROVE  /\ r.ran \in 0 .. 1 /\ r.late \in 0 .. 1 /\ r.err \in 0 .. 1
           /\ r.err = 0 => r.ran = 1 /\ r.out.exit \in codes
<1>1. r \in {executor!NotStarted} \/ r \in executor!Denied
      \/ r \in {[out |-> executor!Exit(c, e), err |-> 0, ran |-> 1, late |-> 0] : c \in codes, e \in 0..1}
      \/ r \in {[out |-> executor!Exit(c, e), err |-> 1, ran |-> 1, late |-> 1] : c \in 0..1, e \in 0..1}
  BY DEF executor!exec
<1>2. CASE r \in {executor!NotStarted}
  BY <1>2 DEF executor!NotStarted, RunTypes
<1>3. CASE r \in executor!Denied
  <2>1. PICK n \in 0 .. 1 : r = [out |-> executor!Exit(1, 1), err |-> 1, ran |-> n, late |-> 0]
    BY <1>3 DEF executor!Denied
  <2> QED
    BY <2>1
<1>4. CASE r \in {[out |-> executor!Exit(c, e), err |-> 0, ran |-> 1, late |-> 0] : c \in codes, e \in 0..1}
  <2>1. PICK c \in codes, e \in 0 .. 1 : r = [out |-> executor!Exit(c, e), err |-> 0, ran |-> 1, late |-> 0]
    BY <1>4
  <2> QED
    BY <2>1 DEF executor!Exit
<1>5. CASE r \in {[out |-> executor!Exit(c, e), err |-> 1, ran |-> 1, late |-> 1] : c \in 0..1, e \in 0..1}
  <2>1. PICK c \in 0 .. 1, e \in 0 .. 1 : r = [out |-> executor!Exit(c, e), err |-> 1, ran |-> 1, late |-> 1]
    BY <1>5
  <2> QED
    BY <2>1
<1> QED
  BY <1>1, <1>2, <1>3, <1>4, <1>5

-------------------------------------------------------------------------------
(* The end of a run. *)

\* Whatever the run was about, it is enough to look at what it reports.
LEMMA RunEnds ==
    ASSUME HostInv', RunTypes', step' = "finished", executor!SuccessWasSeen'
    PROVE  ExecutorInv'
<1>1. StepInv'
  BY DEF StepInv, PackageSteps
<1> QED
  BY <1>1, Zenon DEF ExecutorInv

LEMMA FailedEnds ==
    ASSUME HostInv', RunTypes', NEW out, NEW det, executor!Fail(out, det)
    PROVE  ExecutorInv'
<1>1. step' = "finished" /\ status' \in {"TIMEOUT", "FAILED"}
  BY Zenon DEF executor!Fail
<1>2. executor!SuccessWasSeen'
  BY <1>1 DEF executor!SuccessWasSeen
<1> QED
  BY <1>1, <1>2, RunEnds, Zenon

LEMMA HostStays ==
    ASSUME HostInv, UNCHANGED executor!host
    PROVE  HostInv'
BY Zenon DEF HostInv, executor!host

\* A command of a script, with the deadline and what it does to the device.
LEMMA RunStays ==
    ASSUME RunTypes, NEW codes, NEW r \in executor!exec(codes), expired' = r.late,
           healthy' \in 0 .. 1, UNCHANGED drift,
           changes' \in {changes, changes + r.ran}, remedied' \in {remedied, remedied + r.ran}
    PROVE  RunTypes'
<1>1. r.ran \in 0 .. 1 /\ r.late \in 0 .. 1
  BY ExecFacts
<1> QED
  BY <1>1 DEF RunTypes

-------------------------------------------------------------------------------
(* Shell actions. *)

LEMMA DetectKeeps ==
    ASSUME ExecutorInv, executor!Detect
    PROVE  ExecutorInv'
<1>1. PICK r \in executor!exec({1 - healthy}) :
         /\ expired' = r.late
         /\ asked' = asked \cup IF r.err = 1 THEN {} ELSE {r.out.exit}
         /\ IF r.err = 1 THEN executor!Fail({}, {executor!outputWithError(r.out)})
            ELSE IF r.out.exit = 0 \/ action.compliance THEN executor!Succeed({}, {r.out})
            ELSE IF "script" \notin action.has THEN executor!Fail({}, {r.out})
            ELSE executor!Continue("script", {}, {r.out})
  BY Zenon DEF executor!Detect, executor!runShell
<1>2. /\ step = "detect" /\ UNCHANGED <<action, healthy, drift, remedied, changes>> /\ UNCHANGED executor!host
  BY Zenon DEF executor!Detect
<1>3. /\ HostInv' /\ RunTypes' /\ action.kind = "shell" /\ "detection" \in action.has
      /\ healthy \in 0 .. 1 /\ status # "SUCCESS"
  <2>1. HostInv /\ RunTypes /\ StepInv
    BY Zenon DEF ExecutorInv
  <2>2. healthy' \in 0 .. 1
    BY <1>2, <2>1 DEF RunTypes
  <2>3. RunTypes'
    BY <1>1, <1>2, <2>1, <2>2, RunStays
  <2> QED
    BY <1>2, <2>1, <2>2, <2>3, HostStays DEF StepInv
<1>4. r.err \in 0 .. 1 /\ (r.err = 0 => r.out.exit \in {1 - healthy})
  BY ExecFacts, Zenon DEF ExecutorInv
<1>5. CASE r.err = 1
  BY <1>1, <1>3, <1>5, FailedEnds, Zenon
<1>6. CASE r.err # 1 /\ (r.out.exit = 0 \/ action.compliance)
  <2>1. executor!Succeed({}, {r.out}) /\ asked' = asked \cup {r.out.exit}
    BY <1>1, <1>6, Zenon
  <2>2. /\ step' = "finished" /\ detection' = {r.out} /\ r.out.exit \in asked'
    BY <2>1, Zenon DEF executor!Succeed
  <2>3. action'.kind # "package"
    BY <1>2, <1>3
  <2>4. executor!SuccessWasSeen'
    BY <1>2, <1>6, <2>2, <2>3, Zenon DEF executor!SuccessWasSeen
  <2> QED
    BY <1>3, <2>2, <2>4, RunEnds, Zenon
<1>7. CASE r.err # 1 /\ ~(r.out.exit = 0 \/ action.compliance) /\ "script" \notin action.has
  <2>1. executor!Fail({}, {r.out})
    BY <1>1, <1>7, Zenon
  <2> QED
    BY <1>3, <2>1, FailedEnds, Zenon
<1>8. CASE r.err # 1 /\ ~(r.out.exit = 0 \/ action.compliance) /\ "script" \in action.has
  <2>1. executor!Continue("script", {}, {r.out}) /\ asked' = asked \cup {r.out.exit}
    BY <1>1, <1>8, Zenon
  <2>2. r.out.exit = 1
    BY <1>3, <1>4, <1>8
  <2>3. step' = "script" /\ status' # "SUCCESS" /\ 1 \in asked' /\ action' = action
    BY <1>2, <1>3, <2>1, <2>2, Zenon DEF executor!Continue
  <2>4. StepInv'
    BY <1>3, <2>3 DEF StepInv, PackageSteps
  <2>5. executor!SuccessWasSeen'
    BY <2>3, Zenon DEF executor!SuccessWasSeen
  <2> QED
    BY <1>3, <2>4, <2>5, Zenon DEF ExecutorInv
<1> QED
  BY <1>5, <1>6, <1>7, <1>8, Zenon

LEMMA RemediateKeeps ==
    ASSUME ExecutorInv, executor!Remediate
    PROVE  ExecutorInv'
<1>1. PICK r \in executor!exec(0 .. 1) :
         /\ expired' = r.late /\ remedied' = remedied + r.ran
         /\ healthy' \in IF r.ran = 1 THEN 0 .. 1 ELSE {healthy}
         /\ IF r.err = 1 \/ r.out.exit # 0
            THEN executor!Fail({executor!outputWithError(r.out)}, detection)
            ELSE IF "detection" \in action.has THEN executor!Continue("verify", {r.out}, detection)
            ELSE executor!Succeed({r.out}, {})
  BY Zenon DEF executor!Remediate, executor!runShell
<1>2. /\ step = "script" /\ UNCHANGED <<action, drift, asked, changes>> /\ UNCHANGED executor!host
  BY Zenon DEF executor!Remediate
<1>3. HostInv /\ RunTypes /\ StepInv
  BY Zenon DEF ExecutorInv
<1>4. healthy' \in 0 .. 1
  BY <1>1, <1>3 DEF RunTypes
<1>5. /\ HostInv' /\ RunTypes' /\ action.kind = "shell" /\ status # "SUCCESS"
  BY <1>1, <1>2, <1>3, <1>4, HostStays, RunStays DEF StepInv
<1>6. CASE r.err = 1 \/ r.out.exit # 0
  BY <1>1, <1>5, <1>6, FailedEnds, Zenon
<1>7. CASE ~(r.err = 1 \/ r.out.exit # 0) /\ "detection" \in action.has
  <2>1. executor!Continue("verify", {r.out}, detection)
    BY <1>1, <1>7, Zenon
  <2>2. step' = "verify" /\ status' # "SUCCESS" /\ action' = action
    BY <1>2, <1>5, <2>1, Zenon DEF executor!Continue
  <2>3. StepInv'
    BY <1>5, <2>2 DEF StepInv, PackageSteps
  <2>4. executor!SuccessWasSeen'
    BY <2>2, Zenon DEF executor!SuccessWasSeen
  <2> QED
    BY <1>5, <2>3, <2>4, Zenon DEF ExecutorInv
<1>8. CASE ~(r.err = 1 \/ r.out.exit # 0) /\ "detection" \notin action.has
  <2>1. executor!Succeed({r.out}, {})
    BY <1>1, <1>8, Zenon
  <2>2. step' = "finished" /\ detection' = {} /\ action'.kind # "package" /\ "detection" \notin action'.has
    BY <1>2, <1>5, <1>8, <2>1 DEF executor!Succeed
  <2>3. executor!SuccessWasSeen'
    BY <2>2, Zenon DEF executor!SuccessWasSeen
  <2> QED
    BY <1>5, <2>2, <2>3, RunEnds, Zenon
<1> QED
  BY <1>6, <1>7, <1>8, Zenon

LEMMA VerifyKeeps ==
    ASSUME ExecutorInv, executor!Verify
    PROVE  ExecutorInv'
<1>1. PICK r \in executor!exec({1 - healthy}) :
         /\ expired' = r.late
         /\ asked' = asked \cup IF r.err = 1 THEN {} ELSE {r.out.exit}
         /\ IF r.err = 1 \/ r.out.exit # 0
            THEN executor!Fail(output, {executor!outputWithError(r.out)})
            ELSE executor!Succeed(output, {r.out})
  BY Zenon DEF executor!Verify, executor!runShell
<1>2. /\ step = "verify" /\ UNCHANGED <<action, healthy, drift, remedied, changes>> /\ UNCHANGED executor!host
  BY Zenon DEF executor!Verify
<1>3. HostInv /\ RunTypes /\ StepInv
  BY Zenon DEF ExecutorInv
<1>4. healthy' \in 0 .. 1
  BY <1>2, <1>3 DEF RunTypes
<1>5. /\ HostInv' /\ RunTypes' /\ action.kind = "shell"
  BY <1>1, <1>2, <1>3, <1>4, HostStays, RunStays DEF StepInv
<1>6. CASE r.err = 1 \/ r.out.exit # 0
  BY <1>1, <1>5, <1>6, FailedEnds, Zenon
<1>7. CASE ~(r.err = 1 \/ r.out.exit # 0)
  <2>1. executor!Succeed(output, {r.out}) /\ asked' = asked \cup {r.out.exit} /\ r.out.exit = 0
    BY <1>1, <1>7, Zenon
  <2>2. step' = "finished" /\ detection' = {r.out} /\ 0 \in asked' /\ action'.kind # "package"
    BY <1>2, <1>5, <2>1 DEF executor!Succeed
  <2>3. executor!SuccessWasSeen'
    BY <2>1, <2>2, Zenon DEF executor!SuccessWasSeen
  <2> QED
    BY <1>5, <2>2, <2>3, RunEnds, Zenon
<1> QED
  BY <1>6, <1>7, Zenon

-------------------------------------------------------------------------------
(* Package and update actions. *)

\* A command that changes nothing on the host: what holds before it.
LEMMA LookFacts ==
    ASSUME ExecutorInv, NEW codes, NEW r \in executor!exec(codes), expired' = r.late,
           UNCHANGED <<action, healthy, drift, changes, remedied>>, UNCHANGED executor!host,
           step \in PackageSteps
    PROVE  /\ HostInv /\ HostInv' /\ RunTypes' /\ backend \in executor!Backend /\ status # "SUCCESS"
           /\ backend' = backend
           /\ misread' = misread => Unsettled' = Unsettled
           /\ executor!Desired(action)' = executor!Desired(action) /\ executor!Residue' = executor!Residue
<1>1. HostInv /\ RunTypes /\ StepInv /\ executor!host = <<backend, installed, leftover>>
  BY Zenon DEF ExecutorInv, executor!host
<1>2. healthy' \in 0 .. 1
  BY <1>1 DEF RunTypes
<1>3. UNCHANGED <<backend, installed, leftover>>
  BY Zenon DEF executor!host
<1>4. HostInv' /\ RunTypes' /\ backend \in executor!Backend /\ status # "SUCCESS"
  BY <1>1, <1>2, HostStays, RunStays DEF StepInv, PackageSteps
<1>5. /\ misread' = misread => Unsettled' = Unsettled
      /\ executor!Desired(action)' = executor!Desired(action) /\ executor!Residue' = executor!Residue
  BY <1>3, Zenon DEF Unsettled, executor!Desired, executor!Residue
<1> QED
  BY <1>1, <1>3, <1>4, <1>5, Zenon

LEMMA ProbeKeeps ==
    ASSUME ExecutorInv, executor!Probe
    PROVE  ExecutorInv'
<1>1. PICK r \in executor!exec(executor!Query) :
         /\ expired' = r.late
         /\ misread' = IF executor!Misreads(r) THEN 1 ELSE 0
         /\ IF r.err = 1 THEN executor!Fail({}, {})
            ELSE IF action.state = "ABSENT"
            THEN IF executor!IsInstalled(r.out.exit) THEN executor!Continue("remove", {}, {})
                 ELSE executor!Succeed({executor!Exit(0, 0)}, {})
            ELSE IF ~executor!IsInstalled(r.out.exit) THEN executor!Continue("index", {}, {})
                 ELSE IF action.version = executor!None THEN executor!Succeed({executor!Exit(0, 0)}, {})
                 ELSE executor!Continue("version", {}, {})
  BY ZenonT(30) DEF executor!Probe
<1>2. /\ step = "probe" /\ UNCHANGED <<action, healthy, drift, changes, remedied>> /\ UNCHANGED executor!host
      /\ step \in PackageSteps /\ action.kind = "package"
  BY DEF executor!Probe, PackageSteps, ExecutorInv, StepInv
<1>3. /\ HostInv /\ HostInv' /\ RunTypes' /\ backend \in executor!Backend /\ status # "SUCCESS"
      /\ backend' = backend
      /\ executor!Desired(action)' = executor!Desired(action) /\ executor!Residue' = executor!Residue
  BY <1>1, <1>2, LookFacts, Zenon
<1> DEFINE there == executor!IsInstalled(r.out.exit)
<1>4. r.err # 1 =>
         /\ there => installed # executor!None \/ leftover # executor!None
         /\ ~there => (installed = executor!None /\ leftover = executor!None) \/ misread' = 1
  <2>1. executor!Known = {installed, leftover} \ {executor!None} /\ (there <=> r.out.exit = 0)
    BY <1>3, BackendFacts, Zenon
  <2>2. r.err \in 0 .. 1 /\ (r.err = 0 => r.out.exit \in executor!Query)
    BY ExecFacts, Zenon DEF ExecutorInv
  <2>3. ASSUME r.err # 1, there PROVE executor!Known # {}
    BY <2>1, <2>2, <2>3 DEF executor!Query
  <2>4. ASSUME r.err # 1, ~there, executor!Known # {} PROVE misread' = 1
    <3>1. r.err = 0
      BY <2>2, <2>4
    <3> QED
      BY <1>1, <2>4, <3>1, Zenon DEF executor!Misreads
  <2> HIDE DEF there
  <2> QED
    BY <2>1, <2>3, <2>4, Zenon
<1> HIDE DEF there
<1>5. ASSUME NEW out, executor!Succeed(out, {}),
             executor!Desired(action) \/ executor!Residue \/ (action.state = "ABSENT" /\ misread' = 1)
      PROVE  ExecutorInv'
  <2>1. step' = "finished" /\ detection' = {} /\ action'.kind # "shell" /\ action' = action
    BY <1>2, <1>5 DEF executor!Succeed
  <2>2. executor!Desired(action)' \/ executor!Residue' \/ (action'.state = "ABSENT" /\ misread' = 1)
    BY <1>3, <1>5, <2>1, Zenon
  <2>3. executor!SuccessWasSeen'
    BY <2>1, <2>2, Zenon DEF executor!SuccessWasSeen, executor!Desired
  <2> QED
    BY <1>3, <2>1, <2>3, RunEnds, Zenon
<1>6. ASSUME NEW next \in {"remove", "index", "version"}, executor!Continue(next, {}, {}),
             next = "remove" => action.state = "ABSENT" /\ Unsettled',
             next # "remove" => action.state # "ABSENT",
             next = "index" => Unsettled', next = "version" => action.version # executor!None
      PROVE  ExecutorInv'
  <2>1. step' = next /\ status' # "SUCCESS" /\ action' = action
    BY <1>2, <1>3, <1>6, Zenon DEF executor!Continue
  <2>2. StepInv'
    <3>1. backend' \in executor!Backend /\ action'.kind = "package" /\ status' # "SUCCESS"
      BY <1>2, <1>3, <2>1, Zenon
    <3>2. CASE next = "remove"
      <4>1. step' = "remove" /\ action'.state = "ABSENT" /\ Unsettled'
        BY <1>6, <2>1, <3>2, Zenon
      <4> QED
        BY <3>1, <4>1 DEF StepInv, PackageSteps
    <3>3. CASE next = "index"
      <4>1. step' = "index" /\ Wants' /\ Unsettled'
        BY <1>6, <2>1, <3>1, <3>3 DEF Wants
      <4> QED
        BY <3>1, <4>1 DEF StepInv, PackageSteps
    <3>4. CASE next = "version"
      <4>1. step' = "version" /\ Wants' /\ action'.version # executor!None
        BY <1>6, <2>1, <3>1, <3>4 DEF Wants
      <4> QED
        BY <3>1, <4>1 DEF StepInv, PackageSteps
    <3> QED
      BY <1>6, <3>2, <3>3, <3>4, Zenon
  <2>3. executor!SuccessWasSeen'
    BY <2>1, Zenon DEF executor!SuccessWasSeen
  <2> QED
    BY <1>3, <2>2, <2>3, Zenon DEF ExecutorInv
<1>7. ~executor!Desired(action) \/ executor!Residue \/ misread' = 1 => Unsettled'
  BY <1>3, Zenon DEF Unsettled
<1>8. CASE r.err = 1
  BY <1>1, <1>3, <1>8, FailedEnds, Zenon
<1>9. CASE r.err # 1 /\ action.state = "ABSENT" /\ there
  <2>1. executor!Continue("remove", {}, {})
    BY <1>1, <1>9, Zenon DEF there
  <2>2. Unsettled'
    BY <1>4, <1>7, <1>9, Zenon DEF executor!Desired, executor!Residue
  <2> QED
    BY <1>6, <1>9, <2>1, <2>2
<1>10. CASE r.err # 1 /\ action.state = "ABSENT" /\ ~there
  <2>1. executor!Succeed({executor!Exit(0, 0)}, {})
    BY <1>1, <1>10, Zenon DEF there
  <2>2. executor!Desired(action) \/ (action.state = "ABSENT" /\ misread' = 1)
    BY <1>4, <1>10, Zenon DEF executor!Desired
  <2> QED
    BY <1>5, <2>1, <2>2, Zenon
<1>11. CASE r.err # 1 /\ action.state # "ABSENT" /\ ~there
  <2>1. executor!Continue("index", {}, {})
    BY <1>1, <1>11, Zenon DEF there
  <2>2. Unsettled'
    BY <1>4, <1>7, <1>11, Zenon DEF executor!Desired
  <2> QED
    BY <1>6, <1>11, <2>1, <2>2
<1>12. CASE r.err # 1 /\ action.state # "ABSENT" /\ there /\ action.version = executor!None
  <2>1. executor!Succeed({executor!Exit(0, 0)}, {})
    BY <1>1, <1>12, Zenon DEF there
  <2>2. executor!Desired(action) \/ executor!Residue
    BY <1>4, <1>12, Zenon DEF executor!Desired, executor!Residue
  <2> QED
    BY <1>5, <2>1, <2>2, Zenon
<1>13. CASE r.err # 1 /\ action.state # "ABSENT" /\ there /\ action.version # executor!None
  <2>1. executor!Continue("version", {}, {})
    BY <1>1, <1>13, Zenon DEF there
  <2> QED
    BY <1>6, <1>13, <2>1
<1> QED
  BY <1>8, <1>9, <1>10, <1>11, <1>12, <1>13, Zenon

LEMMA ProbeVersionKeeps ==
    ASSUME ExecutorInv, executor!ProbeVersion
    PROVE  ExecutorInv'
<1>1. PICK r \in executor!exec(executor!Query) :
         /\ expired' = r.late
         /\ IF r.err = 1 \/ executor!InstalledVersion(r.out.exit) = {} THEN executor!Fail({}, {})
            ELSE IF action.version \in executor!InstalledVersion(r.out.exit) THEN executor!Succeed({executor!Exit(0, 0)}, {})
            ELSE executor!Continue("index", {}, {})
  BY ZenonT(30) DEF executor!ProbeVersion
<1>2. /\ step = "version" /\ UNCHANGED <<action, healthy, drift, changes, remedied, misread>> /\ UNCHANGED executor!host
      /\ step \in PackageSteps /\ Wants /\ action.version # executor!None
  BY DEF executor!ProbeVersion, executor!history, PackageSteps, ExecutorInv, StepInv
<1>3. /\ HostInv /\ HostInv' /\ RunTypes' /\ backend \in executor!Backend /\ status # "SUCCESS"
      /\ backend' = backend
      /\ Unsettled' = Unsettled /\ executor!Desired(action)' = executor!Desired(action) /\ executor!Residue' = executor!Residue
  BY <1>1, <1>2, LookFacts, Zenon
<1>4. executor!InstalledVersion(r.out.exit) \in {{installed, leftover} \ {executor!None}, {}}
  BY <1>3, BackendFacts, Zenon
<1>5. CASE r.err = 1 \/ executor!InstalledVersion(r.out.exit) = {}
  BY <1>1, <1>3, <1>5, FailedEnds, Zenon
<1>6. CASE ~(r.err = 1 \/ executor!InstalledVersion(r.out.exit) = {}) /\ action.version \in executor!InstalledVersion(r.out.exit)
  <2>1. executor!Succeed({executor!Exit(0, 0)}, {})
    BY <1>1, <1>6, Zenon
  <2>2. executor!Desired(action) \/ executor!Residue
    BY <1>2, <1>3, <1>4, <1>6 DEF executor!Desired, executor!Residue, Wants, HostInv
  <2>3. step' = "finished" /\ detection' = {} /\ action'.kind # "shell"
    BY <1>2, <2>1 DEF executor!Succeed, Wants
  <2>4. executor!SuccessWasSeen'
    BY <1>3, <2>2, <2>3, Zenon DEF executor!SuccessWasSeen, executor!Desired
  <2> QED
    BY <1>3, <2>3, <2>4, RunEnds, Zenon
<1>7. CASE ~(r.err = 1 \/ executor!InstalledVersion(r.out.exit) = {}) /\ action.version \notin executor!InstalledVersion(r.out.exit)
  <2>1. executor!Continue("index", {}, {})
    BY <1>1, <1>7, Zenon
  <2>2. Unsettled
    <3>1. CASE installed = executor!None
      BY <1>4, <1>7, <3>1, Zenon DEF Unsettled, executor!Residue
    <3>2. CASE installed # executor!None
      <4>1. installed \in executor!Version /\ action.version # installed
        BY <1>2, <1>3, <1>4, <1>7, <3>2, Zenon DEF HostInv
      <4>2. executor!Desired(action) => action.version = executor!Bare(installed)
        BY <1>2, <4>1 DEF executor!Desired, Wants
      <4> QED
        BY <4>1, <4>2 DEF Unsettled
    <3> QED
      BY <3>1, <3>2, Zenon
  <2>3. step' = "index" /\ status' # "SUCCESS" /\ action' = action
    BY <1>2, <1>3, <2>1, ZenonT(30) DEF executor!Continue
  <2>4. StepInv'
    BY <1>2, <1>3, <2>2, <2>3 DEF StepInv, PackageSteps, Wants
  <2>5. executor!SuccessWasSeen'
    BY <2>3, Zenon DEF executor!SuccessWasSeen
  <2> QED
    BY <1>3, <2>4, <2>5, Zenon DEF ExecutorInv
<1> QED
  BY <1>5, <1>6, <1>7, Zenon

LEMMA UpdateIndexKeeps ==
    ASSUME ExecutorInv, executor!UpdateIndex
    PROVE  ExecutorInv'
<1>1. /\ step = "index" /\ UNCHANGED <<action, healthy, drift, changes, remedied, misread>> /\ UNCHANGED executor!host
      /\ step \in PackageSteps /\ (Wants \/ action.kind = "update")
      /\ drift = 0 /\ Wants => Unsettled
  BY DEF executor!UpdateIndex, executor!history, PackageSteps, ExecutorInv, StepInv
<1>2. /\ HostInv /\ HostInv' /\ RunTypes' /\ backend \in executor!Backend /\ status # "SUCCESS"
      /\ backend' = backend
      /\ Unsettled' = Unsettled /\ executor!Desired(action)' = executor!Desired(action) /\ executor!Residue' = executor!Residue
  <2>1. CASE UNCHANGED expired
    <3>1. HostInv /\ RunTypes /\ StepInv
      BY Zenon DEF ExecutorInv
    <3>2. UNCHANGED <<backend, installed, leftover>>
      BY <1>1, Zenon DEF executor!host
    <3>3. RunTypes' /\ HostInv' /\ backend \in executor!Backend /\ status # "SUCCESS"
      BY <1>1, <2>1, <3>1, HostStays DEF RunTypes, StepInv
    <3>4. Unsettled' = Unsettled /\ executor!Desired(action)' = executor!Desired(action) /\ executor!Residue' = executor!Residue
      BY <1>1, <3>2, Zenon DEF Unsettled, executor!Desired, executor!Residue
    <3> QED
      BY <3>1, <3>2, <3>3, <3>4, Zenon
  <2>2. CASE \E r \in executor!exec(executor!Codes) : expired' = r.late
    BY <1>1, <2>2, LookFacts, Zenon
  <2> QED
    BY <2>1, <2>2, Zenon DEF executor!UpdateIndex
<1>3. \/ executor!Continue(IF action.kind = "update" THEN "upgrade" ELSE "install", {}, {})
      \/ \E out : executor!Fail(out, {})
  BY Zenon DEF executor!UpdateIndex
<1>4. CASE \E out : executor!Fail(out, {})
  BY <1>2, <1>4, FailedEnds, Zenon
<1>5. CASE executor!Continue(IF action.kind = "update" THEN "upgrade" ELSE "install", {}, {})
  <2>1. /\ step' = IF action.kind = "update" THEN "upgrade" ELSE "install"
        /\ status' # "SUCCESS" /\ action' = action
    BY <1>1, <1>2, <1>5, Zenon DEF executor!Continue
  <2>2. StepInv'
    BY <1>1, <1>2, <2>1 DEF StepInv, PackageSteps, Wants
  <2>3. executor!SuccessWasSeen'
    BY <2>1, Zenon DEF executor!SuccessWasSeen
  <2> QED
    BY <1>2, <2>2, <2>3, Zenon DEF ExecutorInv
<1> QED
  BY <1>3, <1>4, <1>5, ZenonT(30)

\* commandResult: the run ends, and with SUCCESS only if the command ran to its
\* end and its exit code was accepted.
LEMMA CommandEnds ==
    ASSUME HostInv', RunTypes', RunTypes, NEW r \in executor!exec(executor!Codes), executor!commandResult(r),
           executor!accepted(r, executor!Write) /\ action'.kind = "package" /\ drift' = 0 =>
               executor!Desired(action)' \/ executor!Residue',
           action'.kind # "shell"
    PROVE  ExecutorInv'
<1>1. CASE executor!accepted(r, executor!Write) /\ r.out.exit = 0
  <2>1. step' = "finished" /\ detection' = {}
    BY <1>1, Zenon DEF executor!commandResult, executor!Succeed
  <2>2. executor!SuccessWasSeen'
    BY <1>1, <2>1, Zenon DEF executor!SuccessWasSeen, executor!Desired
  <2> QED
    BY <2>1, <2>2, RunEnds, Zenon
<1>2. CASE ~(executor!accepted(r, executor!Write) /\ r.out.exit = 0)
  <2>1. executor!Fail({executor!returned(r)}, {})
    BY <1>2, Zenon DEF executor!commandResult
  <2> QED
    BY <2>1, FailedEnds, Zenon
<1> QED
  BY <1>1, <1>2, Zenon

LEMMA InstallKeeps ==
    ASSUME ExecutorInv, executor!Install
    PROVE  ExecutorInv'
<1>1. PICK r \in executor!exec(executor!Codes) :
         /\ expired' = r.late /\ changes' = changes + r.ran /\ executor!commandResult(r)
         /\ \/ r.ran = 0 /\ UNCHANGED <<installed, leftover>>
            \/ executor!accepted(r, executor!Write) /\ installed' \in executor!Installs(action.version) /\ leftover' = executor!None
            \/ /\ r.ran = 1 /\ ~executor!accepted(r, executor!Write)
               /\ \E h \in executor!HostStates : installed' = h[1] /\ leftover' = h[2]
  BY Zenon DEF executor!Install
<1>2. step = "install" /\ UNCHANGED <<backend, action, healthy, drift, asked, remedied>>
  BY Zenon DEF executor!Install
<1>3. HostInv /\ RunTypes /\ StepInv
  BY Zenon DEF ExecutorInv
<1>4. backend \in executor!Backend /\ Wants
  BY <1>2, <1>3 DEF StepInv, PackageSteps
<1>5. RunTypes'
  <2>1. healthy' \in 0 .. 1
    BY <1>2, <1>3 DEF RunTypes
  <2> QED
    BY <1>1, <1>2, <1>3, <2>1, RunStays
<1>6. executor!accepted(r, executor!Write) => r.ran = 1
  BY <1>3, ExecFacts, Zenon DEF executor!accepted
<1>7. installed' \in executor!Installs(action.version) =>
          /\ installed' \in executor!Version /\ installed' # executor!None
          /\ action.version \in {executor!None, installed', executor!Bare(installed')}
  BY <1>3, <1>4, BackendFacts, NoneIsNoVersion
<1>8. HostInv'
  <2>1. CASE UNCHANGED <<installed, leftover>>
    BY <1>2, <1>3, <2>1, HostStays, ZenonT(30) DEF executor!host
  <2>2. CASE installed' \in executor!Installs(action.version) /\ leftover' = executor!None
    BY <1>2, <1>3, <1>7, <2>2 DEF HostInv
  <2>3. CASE \E h \in executor!HostStates : installed' = h[1] /\ leftover' = h[2]
    BY <1>2, <1>3, <2>3 DEF HostInv, executor!HostStates
  <2> QED
    BY <1>1, <2>1, <2>2, <2>3, Zenon
<1>9. executor!accepted(r, executor!Write) => executor!Desired(action)'
  <2>1. ASSUME executor!accepted(r, executor!Write) PROVE installed' \in executor!Installs(action.version)
    BY <1>1, <1>6, <2>1
  <2> QED
    BY <1>2, <1>4, <1>7, <2>1, Zenon DEF executor!Desired, Wants
<1>10. action'.kind # "shell"
  BY <1>2, <1>4 DEF Wants
<1> QED
  BY <1>1, <1>3, <1>5, <1>8, <1>9, <1>10, CommandEnds, Zenon

LEMMA RemoveKeeps ==
    ASSUME ExecutorInv, executor!Remove
    PROVE  ExecutorInv'
<1>1. PICK r \in executor!exec(executor!Codes) :
         /\ expired' = r.late /\ changes' = changes + r.ran /\ executor!commandResult(r)
         /\ \/ ~executor!accepted(r, executor!Write) /\ UNCHANGED <<installed, leftover>>
            \/ r.ran = 1 /\ executor!Removes
  BY Zenon DEF executor!Remove
<1>2. step = "remove" /\ UNCHANGED <<backend, action, healthy, drift, asked, remedied>>
  BY Zenon DEF executor!Remove
<1>3. HostInv /\ RunTypes /\ StepInv
  BY Zenon DEF ExecutorInv
<1>4. backend \in executor!Backend /\ action.kind = "package" /\ action.state = "ABSENT"
  BY <1>2, <1>3 DEF StepInv, PackageSteps
<1>5. RunTypes'
  <2>1. healthy' \in 0 .. 1
    BY <1>2, <1>3 DEF RunTypes
  <2> QED
    BY <1>1, <1>2, <1>3, <2>1, RunStays
<1>6. executor!Removes => /\ installed' = executor!None /\ leftover' \in executor!Version \cup {executor!None}
                          /\ leftover' # executor!None => backend = "apt"
  BY <1>3, <1>4, BackendFacts, Zenon
<1>7. HostInv'
  <2>1. CASE UNCHANGED <<installed, leftover>>
    BY <1>2, <1>3, <2>1, HostStays, Zenon DEF executor!host
  <2>2. CASE executor!Removes
    BY <1>2, <1>3, <1>6, <2>2, Zenon DEF HostInv, executor!None
  <2> QED
    BY <1>1, <2>1, <2>2, Zenon
<1>8. executor!accepted(r, executor!Write) => executor!Desired(action)'
  BY <1>1, <1>2, <1>4, <1>6, Zenon DEF executor!Desired
<1>9. action'.kind # "shell"
  BY <1>2, <1>4
<1> QED
  BY <1>1, <1>3, <1>5, <1>7, <1>8, <1>9, CommandEnds, Zenon

LEMMA UpgradeKeeps ==
    ASSUME ExecutorInv, executor!UpgradeAll
    PROVE  ExecutorInv'
<1>1. PICK r \in executor!exec(executor!Codes) :
         /\ expired' = r.late /\ executor!commandResult(r)
         /\ installed' \in IF r.ran = 1 /\ installed # executor!None THEN executor!Version ELSE {installed}
  BY Zenon DEF executor!UpgradeAll
<1>2. step = "upgrade" /\ UNCHANGED <<backend, leftover, action, healthy, drift, changes, remedied>>
  BY Zenon DEF executor!UpgradeAll, executor!history
<1>3. HostInv /\ RunTypes /\ StepInv
  BY Zenon DEF ExecutorInv
<1>4. action'.kind = "update"
  BY <1>2, <1>3, Zenon DEF StepInv
<1>5. RunTypes'
  <2>1. healthy' \in 0 .. 1
    BY <1>2, <1>3 DEF RunTypes
  <2> QED
    BY <1>1, <1>2, <1>3, <2>1, RunStays
<1>6. HostInv'
  BY <1>1, <1>2, <1>3 DEF HostInv
<1>7. action'.kind # "shell" /\ action'.kind # "package"
  BY <1>4
<1> QED
  BY <1>1, <1>3, <1>5, <1>6, <1>7, CommandEnds, Zenon

-------------------------------------------------------------------------------
(* The other steps. *)

LEMMA ExecutorBeginKeeps ==
    ASSUME ExecutorInv, NEW a, executor!ExecuteAction(a) \/ executor!Invalid
    PROVE  ExecutorInv'
<1>1. HostInv /\ RunTypes /\ StepInv
  BY Zenon DEF ExecutorInv
<1>2. CASE executor!ExecuteAction(a)
  <2>1. /\ action' = a /\ step' = executor!FirstStep(a) /\ expired' = 0 /\ status' = "none"
        /\ remedied' = 0 /\ changes' = 0 /\ UNCHANGED executor!host /\ UNCHANGED <<healthy, drift>>
    BY <1>2, Zenon DEF executor!ExecuteAction
  <2>2. HostInv' /\ RunTypes' /\ backend' = backend /\ backend \in executor!Backend \cup {"none"}
    BY <1>1, <2>1, HostStays DEF RunTypes, executor!host, HostInv
  <2>3. executor!SuccessWasSeen'
    BY <2>1 DEF executor!SuccessWasSeen
  <2>4. \/ step' = "detect" /\ a.kind = "shell" /\ "detection" \in a.has
        \/ step' = "script" /\ a.kind = "shell" /\ "detection" \notin a.has
        \/ step' = "probe" /\ a.kind = "package" /\ backend # "none"
        \/ step' = "index" /\ a.kind = "update" /\ backend # "none"
        \/ step' = "invalid"
    BY <2>1, Zenon DEF executor!FirstStep
  <2>5. StepInv'
    BY <2>1, <2>2, <2>4 DEF StepInv, PackageSteps, Wants
  <2> QED
    BY <2>2, <2>3, <2>5, Zenon DEF ExecutorInv
<1>3. CASE executor!Invalid
  <2>1. executor!Fail({}, {}) /\ UNCHANGED executor!host /\ UNCHANGED <<expired, healthy, drift, changes, remedied>>
    BY <1>3, Zenon DEF executor!Invalid, executor!history
  <2>2. HostInv' /\ RunTypes'
    BY <1>1, <2>1, HostStays DEF RunTypes
  <2> QED
    BY <2>1, <2>2, FailedEnds, Zenon
<1> QED
  BY <1>2, <1>3, Zenon

LEMMA OthersKeep ==
    ASSUME ExecutorInv, executor!Expire \/ executor!Drift \/ UNCHANGED executor!vars
    PROVE  ExecutorInv'
<1>1. HostInv /\ RunTypes /\ StepInv /\ executor!SuccessWasSeen
  BY Zenon DEF ExecutorInv
<1>2. UNCHANGED <<action, step, detection, status, asked, changes, remedied, misread, backend>>
  BY DEF executor!Expire, executor!Drift, executor!vars, executor!result,
     executor!history, executor!host
<1>3. CASE executor!Expire \/ UNCHANGED executor!vars
  <2>1. /\ UNCHANGED <<installed, leftover, healthy, drift>> /\ expired' \in {expired, 1}
    BY <1>3 DEF executor!Expire, executor!vars, executor!host
  <2>2. HostInv'
    BY <1>1, <1>2, <2>1, Zenon DEF HostInv
  <2>3. RunTypes'
    BY <1>1, <1>2, <2>1 DEF RunTypes
  <2>4. /\ Unsettled' = Unsettled /\ Wants' = Wants
        /\ \A a : executor!Desired(a)' = executor!Desired(a) /\ executor!Residue' = executor!Residue
    BY <1>2, <2>1, Zenon DEF Unsettled, executor!Desired, executor!Residue, Wants
  <2>5. StepInv'
    BY <1>1, <1>2, <2>1, <2>4, Zenon DEF StepInv
  <2>6. executor!SuccessWasSeen'
    BY <1>1, <1>2, <2>1, Zenon DEF executor!SuccessWasSeen, executor!Desired,
       executor!Residue
  <2> QED
    BY <2>2, <2>3, <2>5, <2>6, Zenon DEF ExecutorInv
<1>4. CASE executor!Drift
  <2>1. /\ healthy' \in 0 .. 1 /\ drift' = drift + 1 /\ UNCHANGED expired
        /\ \E h \in executor!HostStates : installed' = h[1] /\ leftover' = h[2]
    BY <1>4, Zenon DEF executor!Drift
  <2>2. HostInv'
    BY <1>1, <1>2, <2>1 DEF HostInv, executor!HostStates
  <2>3. RunTypes' /\ drift' # 0
    BY <1>1, <1>2, <2>1 DEF RunTypes
  <2>4. Wants' = Wants
    BY <1>2, Zenon DEF Wants
  <2>5. StepInv'
    BY <1>1, <1>2, <2>3, <2>4, Zenon DEF StepInv
  <2>6. executor!SuccessWasSeen'
    BY <1>1, <1>2, <2>3, Zenon DEF executor!SuccessWasSeen
  <2> QED
    BY <2>2, <2>3, <2>5, <2>6, Zenon DEF ExecutorInv
<1> QED
  BY <1>3, <1>4, Zenon

LEMMA ExecutorInit == executor!Init => ExecutorInv
<1> SUFFICES ASSUME executor!Init PROVE ExecutorInv
  OBVIOUS
<1>1. HostInv /\ RunTypes
  BY DEF executor!Init, HostInv, RunTypes
<1>2. StepInv
  BY DEF executor!Init, StepInv, PackageSteps
<1>3. executor!SuccessWasSeen
  BY DEF executor!Init, executor!SuccessWasSeen
<1> QED
  BY <1>1, <1>2, <1>3, Zenon DEF ExecutorInv

LEMMA ExecutorStep == ExecutorInv /\ [executor!Next]_executor!vars => ExecutorInv'
<1> SUFFICES ASSUME ExecutorInv, [executor!Next]_executor!vars PROVE ExecutorInv'
  OBVIOUS
<1>1. CASE executor!Step
  BY <1>1, ExecutorBeginKeeps, DetectKeeps, RemediateKeeps, VerifyKeeps, ProbeKeeps,
     ProbeVersionKeeps,
     UpdateIndexKeeps, InstallKeeps, RemoveKeeps, UpgradeKeeps, ZenonT(30) DEF executor!Step
<1>2. CASE executor!Done
  BY <1>2, OthersKeep, Zenon DEF executor!Done
<1> QED
  BY <1>1, <1>2, ExecutorBeginKeeps, OthersKeep, Zenon DEF executor!Next

\* For any actions, versions and package managers, any outcome of any command,
\* a deadline that passes anywhere and any number of changes by others: what a
\* run reports as SUCCESS is what was seen (executor.go).  Of a package, while
\* nobody else has changed the device: it is in the state asked for, unless dpkg
\* answered for what is left of it, or ABSENT was told that it is not there by a
\* query that failed.
THEOREM SuccessWasAlwaysSeen == executor!Spec => []SuccessWasSeen
<1>1. ExecutorInv => SuccessWasSeen
  BY Zenon DEF ExecutorInv, SuccessWasSeen
<1> QED
  BY <1>1, ExecutorInit, ExecutorStep, PTL DEF executor!Spec

\* A run changes a package only if it found it, or was told by a query that
\* failed, in another state than it should be in, and remedies only what the
\* detection script found.
LEMMA SettledStep ==
    ExecutorInv /\ [executor!Next]_executor!vars =>
        [/\ changes' > changes /\ drift = 0 => Unsettled
         /\ remedied' > remedied /\ "detection" \in action.has => 1 \in asked]_executor!vars
<1> SUFFICES ASSUME ExecutorInv, executor!Next
             PROVE  /\ changes' > changes /\ drift = 0 => Unsettled
                    /\ remedied' > remedied /\ "detection" \in action.has => 1 \in asked
  OBVIOUS
<1>1. changes \in Nat /\ remedied \in Nat /\ StepInv
  BY Zenon DEF ExecutorInv, RunTypes
<1>2. ASSUME changes' \in {changes, 0}, remedied' \in {remedied, 0}
      PROVE  ~(changes' > changes) /\ ~(remedied' > remedied)
  BY <1>1, <1>2
<1>3. CASE step \in {"install", "remove"} /\ UNCHANGED remedied
  <2>1. drift = 0 => Unsettled
    BY <1>1, <1>3, Zenon DEF StepInv
  <2>2. ~(remedied' > remedied)
    BY <1>1, <1>3
  <2> QED
    BY <2>1, <2>2, Zenon
<1>4. CASE executor!Remediate
  <2>1. "detection" \in action.has => 1 \in asked
    BY <1>1, <1>4, Zenon DEF StepInv, executor!Remediate
  <2>2. changes' = changes
    BY <1>4, Zenon DEF executor!Remediate
  <2> QED
    BY <1>1, <2>1, <2>2
<1>5. \/ changes' \in {changes, 0} /\ remedied' \in {remedied, 0}
      \/ step \in {"install", "remove"} /\ UNCHANGED remedied
      \/ executor!Remediate
  <2>1. CASE \E a \in Action : executor!ExecuteAction(a)
    BY <2>1, Zenon DEF executor!ExecuteAction
  <2>2. CASE executor!Install \/ executor!Remove
    BY <2>2, Zenon DEF executor!Install, executor!Remove
  <2>3. CASE executor!Invalid \/ executor!Detect \/ executor!Verify
    BY <2>3, Zenon DEF executor!Invalid, executor!Detect, executor!Verify, executor!history
  <2>4. CASE executor!Probe \/ executor!ProbeVersion \/ executor!UpdateIndex \/ executor!UpgradeAll
    BY <2>4, Zenon DEF executor!Probe, executor!ProbeVersion, executor!UpdateIndex,
       executor!UpgradeAll, executor!history
  <2>5. CASE executor!Expire \/ executor!Drift \/ executor!Done
    BY <2>5, Zenon DEF executor!Expire, executor!Drift, executor!Done, executor!vars,
       executor!history
  <2> QED
    BY <2>1, <2>2, <2>3, <2>4, <2>5, Zenon DEF executor!Next, executor!Step
<1> QED
  BY <1>2, <1>3, <1>4, <1>5, Zenon

\* For every value of the constants: a device that is as it should be is left
\* alone, so that a run repeated by the schedule changes nothing.  Of a package
\* this is said while nobody else has changed the device, with the exceptions of
\* SettledIsLeftAlone: a version named without its release, what dpkg keeps of a
\* removed package, and a query for the package that failed.
THEOREM SettledIsAlwaysLeftAlone == executor!Spec => SettledIsLeftAlone
<1>1. ExecutorInv /\ [executor!Next]_executor!vars =>
          [/\ changes' > changes /\ drift = 0 =>
                 \/ ~executor!Desired(action) \/ executor!Residue \/ misread = 1
                 \/ action.version \in {executor!Bare(v) : v \in executor!Version}
           /\ remedied' > remedied /\ "detection" \in action.has => 1 \in asked]_executor!vars
  BY SettledStep, Zenon DEF Unsettled
<1> QED
  BY <1>1, ExecutorInit, ExecutorStep, PTL DEF executor!Spec, SettledIsLeftAlone,
     executor!SettledIsLeftAlone

===============================================================================
