---------------------------- MODULE PackageManager ----------------------------
(***************************************************************************)
(* The package managers of sdk/pkg, as far as the executor calls them: one *)
(* package on one host, and per backend what each method makes of the exit *)
(* codes and answers of the commands it runs.  A method that changes the   *)
(* host is given by the exit codes it takes for success and by what the    *)
(* command then has done; one that asks, by what it makes of the exit code *)
(* of its query.  What a backend's database knows is no code of the agent. *)
(*                                                                         *)
(* A version is a pair of an upstream version and the release of its       *)
(* packaging.  A request names both, or the upstream version alone.        *)
(***************************************************************************)
EXTENDS Naturals

CONSTANTS
    Upstream,   \* upstream versions
    Release     \* releases of the packaging

None == <<>>   \* no version

Version == Upstream \X Release
Bare(v) == <<v[1]>>

VARIABLES
    backend,    \* the backend New was given, or "none"
    installed,  \* the installed version of the package, or None
    leftover    \* the version whose configuration files dpkg still keeps

host == <<backend, installed, leftover>>

\* Exit codes: done, failed, and the informational ones of "dnf check-update"
\* (100) and of zypper (100 to 103).
Informational == 100
Unsupported == {}

-------------------------------------------------------------------------------
(* apt: dpkg keeps the configuration files of a package that was removed and *)
(* not purged, and goes on to answer for it.                                 *)

aptWrite == {0}
aptUpdate == aptWrite
aptInstall(spec) == {v \in Version : spec \in {None, v}}
aptRemove ==
    /\ installed' = None
    /\ leftover' \in IF installed = None THEN {leftover} ELSE {None, installed}
aptKnown == {installed, leftover} \ {None}
aptIsInstalled(exit) == exit = 0
aptInstalledVersion(exit) == IF exit = 0 THEN aptKnown ELSE {}

(* dnf and dnf5: "check-update" ends with 100 when there are updates. *)

dnfWrite == {0}
dnfUpdate == {0, Informational}
dnfInstall(spec) == {v \in Version : spec \in {None, v, Bare(v)}}
dnfRemove == installed' = None /\ UNCHANGED leftover
dnfKnown == {installed} \ {None}
dnfIsInstalled(exit) == exit = 0
dnfInstalledVersion(exit) == IF exit = 0 THEN dnfKnown ELSE {}

(* pacman: the index cannot be refreshed on its own. *)

pacmanWrite == {0}
pacmanUpdate == Unsupported
pacmanInstall(spec) == {v \in Version : spec \in {None, v, Bare(v)}}
pacmanRemove == installed' = None /\ UNCHANGED leftover
pacmanKnown == {installed} \ {None}
pacmanIsInstalled(exit) == exit = 0
pacmanInstalledVersion(exit) == IF exit = 0 THEN pacmanKnown ELSE {}

(* zypper: 100 to 103 tell of updates, a reboot or a restart to do. *)

zypperWrite == {0, Informational}
zypperUpdate == zypperWrite
zypperInstall(spec) == {v \in Version : spec \in {None, v, Bare(v)}}
zypperRemove == installed' = None /\ UNCHANGED leftover
zypperKnown == {installed} \ {None}
zypperIsInstalled(exit) == exit = 0
zypperInstalledVersion(exit) == IF exit = 0 THEN zypperKnown ELSE {}

-------------------------------------------------------------------------------
(* Manager: the method of the backend at hand. *)

Backend == {"apt", "dnf", "pacman", "zypper"}

Write == CASE backend = "apt" -> aptWrite
           [] backend = "dnf" -> dnfWrite
           [] backend = "pacman" -> pacmanWrite
           [] backend = "zypper" -> zypperWrite

Update == CASE backend = "apt" -> aptUpdate
            [] backend = "dnf" -> dnfUpdate
            [] backend = "pacman" -> pacmanUpdate
            [] backend = "zypper" -> zypperUpdate

\* The versions an installation that succeeds may leave.
Installs(spec) == CASE backend = "apt" -> aptInstall(spec)
                    [] backend = "dnf" -> dnfInstall(spec)
                    [] backend = "pacman" -> pacmanInstall(spec)
                    [] backend = "zypper" -> zypperInstall(spec)

Removes == CASE backend = "apt" -> aptRemove
             [] backend = "dnf" -> dnfRemove
             [] backend = "pacman" -> pacmanRemove
             [] backend = "zypper" -> zypperRemove

\* The versions the database of the backend answers for, at most one.
Known == CASE backend = "apt" -> aptKnown
           [] backend = "dnf" -> dnfKnown
           [] backend = "pacman" -> pacmanKnown
           [] backend = "zypper" -> zypperKnown

\* How a query for the package may end: it fails if the package is not known,
\* and it may fail though it is (a database that is locked or damaged, say).
Query == IF Known = {} THEN {1} ELSE {0, 1}

\* Every failure of the query is taken for "not installed".
IsInstalled(exit) == CASE backend = "apt" -> aptIsInstalled(exit)
                       [] backend = "dnf" -> dnfIsInstalled(exit)
                       [] backend = "pacman" -> pacmanIsInstalled(exit)
                       [] backend = "zypper" -> zypperIsInstalled(exit)

\* At most one version; none stands for ErrNotFound.
InstalledVersion(exit) == CASE backend = "apt" -> aptInstalledVersion(exit)
                            [] backend = "dnf" -> dnfInstalledVersion(exit)
                            [] backend = "pacman" -> pacmanInstalledVersion(exit)
                            [] backend = "zypper" -> zypperInstalledVersion(exit)

\* The states of the package on a host with this backend.
HostStates ==
    {h \in (Version \cup {None}) \X (Version \cup {None}) :
        h[2] # None => backend = "apt" /\ h[1] = None}

===============================================================================
