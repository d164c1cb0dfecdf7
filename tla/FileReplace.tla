----------------------------- MODULE FileReplace -----------------------------
(***************************************************************************)
(* The Direct write path of sdk/sys/fs: WriteFile, WriteFileExclusive and  *)
(* the backup of the prior contents, called by any number of processes on  *)
(* the same two paths.  credentials.Store saves its file this way.         *)
(*                                                                         *)
(* The file system is external.  A directory entry changes in memory at    *)
(* the rename and on disk at some later time, or at the directory's sync.  *)
(* A file that was not synced may lose its contents and its mode in a      *)
(* power loss.  A process may also be killed alone.  Temporary names are   *)
(* random, so the files left behind by killed calls are never met again.   *)
(***************************************************************************)
EXTENDS Naturals, Sequences

CONSTANTS
    Writer,    \* the calls that may run at the same time
    Data,      \* the contents they write
    MaxCalls,  \* bound: calls that start
    MaxFaults  \* bound: failed system calls, kills and power losses

Target == "target"
Backup == "backup"
Path == {Target, Backup}
None == "none"

\* WriteFile, WriteFile with Backup, WriteFileExclusive.
Kind == {"plain", "backup", "exclusive"}

\* A file as the disk has it: whole is whether all the data is there, perm
\* whether the mode is the one asked for.
File == [data : Data, by : Kind, whole : BOOLEAN, perm : BOOLEAN,
         synced : BOOLEAN]

VARIABLES
    noReplace,  \* the file system knows RENAME_NOREPLACE
    log,        \* per path the files it has named, the last one current
    kept,       \* how many of them the directory on disk has seen
    floor,      \* history: how many of them a synced directory has stored
    pc,         \* where each call is
    call,       \* its options, the path it replaces, what it read, its temp file
    calls, faults

diskVars == <<log, kept, floor>>
boundVars == <<calls, faults>>
vars == <<noReplace, diskVars, pc, call, boundVars>>

Current(p) == log[p][Len(log[p])]
Temp(w) == call[w].temp

Init ==
    /\ noReplace \in BOOLEAN
    /\ log = [p \in Path |-> <<>>]
    /\ kept = [p \in Path |-> 0] /\ floor = [p \in Path |-> 0]
    /\ pc = [w \in Writer |-> "idle"] /\ call = [w \in Writer |-> None]
    /\ calls = 0 /\ faults = 0

Goto(w, label) == pc' = [pc EXCEPT ![w] = label]
Return(w) == Goto(w, "idle") /\ call' = [call EXCEPT ![w] = None]
Fault == faults < MaxFaults /\ faults' = faults + 1

-------------------------------------------------------------------------------
(* The calls. *)

Call(kind, data) == [kind |-> kind, data |-> data, path |-> Target,
                     prior |-> None, temp |-> None]

WriteFile(w) ==
    /\ pc[w] = "idle" /\ calls < MaxCalls /\ calls' = calls + 1
    /\ \E d \in Data, k \in Kind \ {"exclusive"} :
           /\ call' = [call EXCEPT ![w] = Call(k, d)]
           /\ Goto(w, IF k = "backup" THEN "read" ELSE "create")
    /\ UNCHANGED <<noReplace, diskVars, faults>>

WriteFileExclusive(w) ==
    /\ pc[w] = "idle" /\ calls < MaxCalls /\ calls' = calls + 1
    /\ \E d \in Data :
           call' = [call EXCEPT ![w] = Call("exclusive", d)]
    /\ Goto(w, "create")
    /\ UNCHANGED <<noReplace, diskVars, faults>>

\* safeBackupAndReplace reads the current file through one descriptor; with
\* no file there is nothing to back up.
BackupCurrent(w) ==
    /\ pc[w] = "read"
    /\ \/ /\ log[Target] = <<>> /\ Goto(w, "create")
          /\ UNCHANGED <<call, faults>>
       \/ /\ log[Target] # <<>> /\ Goto(w, "create")
          /\ call' = [call EXCEPT ![w] = [@ EXCEPT !.path = Backup,
                                                   !.prior = Current(Target).data]]
          /\ UNCHANGED faults
       \/ log[Target] # <<>> /\ Fault /\ Return(w)
    /\ UNCHANGED <<noReplace, diskVars, calls>>

-------------------------------------------------------------------------------
(* safeReplaceFile. *)

\* What is written: a backup carries the data that was read.
Content(w) == IF call[w].path = Backup THEN call[w].prior ELSE call[w].data

\* An error from here on removes the temporary file.
cleanup(w) ==
    /\ Fault /\ Return(w)
    /\ UNCHANGED <<noReplace, diskVars, calls>>

CreateTemp(w) ==
    /\ pc[w] = "create"
    /\ \/ /\ Goto(w, "write")
          /\ call' = [call EXCEPT ![w].temp =
                 [data |-> Content(w), by |-> call[w].kind, whole |-> FALSE,
                  perm |-> FALSE, synced |-> FALSE]]
          /\ UNCHANGED faults
       \/ Fault /\ Return(w)
    /\ UNCHANGED <<noReplace, diskVars, calls>>

\* A system call on the temporary file, which may fail.
OnTemp(w, from, to, temp) ==
    /\ pc[w] = from
    /\ \/ /\ Goto(w, to)
          /\ call' = [call EXCEPT ![w].temp = temp]
          /\ UNCHANGED <<noReplace, diskVars, boundVars>>
       \/ cleanup(w)

\* The reopened file is written; f.Write reports a short write as an error.
WriteTemp(w) == OnTemp(w, "write", "chmod", [Temp(w) EXCEPT !.whole = TRUE])

ChmodTemp(w) == OnTemp(w, "chmod", "sync", [Temp(w) EXCEPT !.perm = TRUE])

\* Mutant: the file is renamed without having been synced.
RenameUnsynced(w) == OnTemp(w, "sync", "rename", Temp(w))

\* f.Sync and f.Close.
SyncTemp(w) == OnTemp(w, "sync", "rename", [Temp(w) EXCEPT !.synced = TRUE])

\* os.Rename over whatever is there.
Rename(w) ==
    /\ log' = [log EXCEPT ![call[w].path] = Append(@, Temp(w))]
    /\ Goto(w, "dirsync")
    /\ UNCHANGED <<noReplace, kept, floor, call, boundVars>>

\* ErrExists.
Exists(w) ==
    /\ Return(w)
    /\ UNCHANGED <<noReplace, diskVars, boundVars>>

\* Mutant: an exclusive write is renamed over the file.
RenameOver(w) ==
    pc[w] = "rename" /\ (Rename(w) \/ cleanup(w))

\* With removeExisting one rename.  Without, renameat2 with RENAME_NOREPLACE,
\* and on a file system that does not know it a look before a plain rename.
safeRename(w) ==
    \/ /\ pc[w] = "rename"
       /\ \/ call[w].kind # "exclusive" /\ Rename(w)
          \/ /\ call[w].kind = "exclusive" /\ noReplace
             /\ IF log[Target] = <<>> THEN Rename(w) ELSE Exists(w)
          \/ /\ call[w].kind = "exclusive" /\ ~noReplace
             /\ IF log[Target] = <<>>
                THEN /\ Goto(w, "looked")
                     /\ UNCHANGED <<noReplace, diskVars, call, boundVars>>
                ELSE Exists(w)
          \/ cleanup(w)
    \/ pc[w] = "looked" /\ (Rename(w) \/ cleanup(w))

\* The directory is synced if it can be; errors are ignored.  A backup is
\* followed by the replacement it was made for, and a replacement with an
\* Owner by its chown.
SyncDir(w) ==
    LET p == call[w].path IN
    /\ pc[w] = "dirsync"
    /\ \/ /\ kept' = [kept EXCEPT ![p] = Len(log[p])]
          /\ floor' = [floor EXCEPT ![p] = Len(log[p])] /\ UNCHANGED faults
       \/ Fault /\ UNCHANGED <<kept, floor>>
    /\ IF p = Backup
       THEN /\ Goto(w, "create")
            /\ call' = [call EXCEPT ![w] = [@ EXCEPT !.path = Target, !.temp = None]]
       ELSE Return(w) \/ (Goto(w, "chown") /\ UNCHANGED call)
    /\ UNCHANGED <<noReplace, log, calls>>

\* FchownNoFollow: the call fails, with the file replaced, if this does.
Chown(w) ==
    /\ pc[w] = "chown" /\ Return(w)
    /\ Fault \/ UNCHANGED faults
    /\ UNCHANGED <<noReplace, diskVars, calls>>

-------------------------------------------------------------------------------
(* The file system and the faults around the calls. *)

\* The kernel writes a directory entry back on its own.
Writeback(p) ==
    /\ kept[p] < Len(log[p])
    /\ kept' = [kept EXCEPT ![p] = Len(log[p])]
    /\ UNCHANGED <<noReplace, log, floor, pc, call, boundVars>>

\* The process of the call dies.
Kill(w) ==
    /\ pc[w] # "idle" /\ Fault /\ Return(w)
    /\ UNCHANGED <<noReplace, diskVars, calls>>

\* Memory is lost: the directory is the one on disk, and files that were not
\* synced may be empty and have any mode.
Decayed(f) == IF f.synced THEN {f}
              ELSE {f, [f EXCEPT !.whole = FALSE, !.perm = FALSE]}

AfterLoss(p) ==
    IF kept[p] = 0 THEN {<<>>}
    ELSE {Append(SubSeq(log[p], 1, kept[p] - 1), f) :
              f \in Decayed(log[p][kept[p]])}

PowerLoss ==
    /\ Fault
    /\ \E t \in AfterLoss(Target), b \in AfterLoss(Backup) :
           log' = [p \in Path |-> IF p = Target THEN t ELSE b]
    /\ pc' = [w \in Writer |-> "idle"] /\ call' = [w \in Writer |-> None]
    /\ UNCHANGED <<noReplace, kept, floor, calls>>

Next ==
    \/ \E w \in Writer :
           \/ WriteFile(w) \/ WriteFileExclusive(w) \/ BackupCurrent(w)
           \/ CreateTemp(w) \/ WriteTemp(w) \/ ChmodTemp(w) \/ SyncTemp(w)
           \/ safeRename(w) \/ SyncDir(w) \/ Chown(w) \/ Kill(w)
    \/ \E p \in Path : Writeback(p)
    \/ PowerLoss

Spec == Init /\ [][Next]_vars

-------------------------------------------------------------------------------
TypeOK ==
    /\ noReplace \in BOOLEAN
    /\ \A p \in Path :
           /\ log[p] \in Seq(File)
           /\ floor[p] \in 0 .. kept[p] /\ kept[p] \in 0 .. Len(log[p])
    /\ pc \in [Writer -> {"idle", "read", "create", "write", "chmod", "sync",
                          "rename", "looked", "dirsync", "chown"}]
    /\ calls \in 0 .. MaxCalls /\ faults \in 0 .. MaxFaults

\* What reading a file gives: the data of one call, or None for a file that
\* is cut short or has not got its mode (Store.Load refuses the latter).
Load(f) == IF f.whole /\ f.perm THEN f.data ELSE None

Abstract == INSTANCE FileLog WITH
    contents <- [p \in Path |-> [i \in 1 .. Len(log[p]) |-> Load(log[p][i])]]

\* However the calls interleave and wherever one is killed or the power goes,
\* a path names no file or the complete contents of one call with the mode it
\* asked for, and contents whose directory was synced are never taken back
\* (safeReplaceFile writes and syncs a temporary file before the rename).
ImplementsFileLog == Abstract!Spec

\* Where the file system knows RENAME_NOREPLACE, WriteFileExclusive never
\* replaces a file, whatever another call does at the same time (safeRename).
ExclusiveIsFirst ==
    noReplace =>
        \A p \in Path : \A i \in 2 .. Len(log[p]) :
            log[p][i].by # "exclusive"

===============================================================================
