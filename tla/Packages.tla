------------------------------- MODULE Packages -------------------------------
(***************************************************************************)
(* The Manager of sdk/pkg: what its methods do to a host and what they     *)
(* answer about pins, for each backend.  Calls come one after the other.   *)
(*                                                                         *)
(* The package managers themselves are external: a command either fails    *)
(* and leaves the packages as they are or does what its arguments say, and *)
(* keeps its hands off packages that are held.  A method that changes the  *)
(* host is the set of its outcomes, pairs of "no error" and the host       *)
(* afterwards; a method that reads is its answer in a set, which is empty  *)
(* for an error.  "ran" says whether the command that it reads succeeded.  *)
(***************************************************************************)
EXTENDS Naturals, Sequences

CONSTANTS
    Package,     \* names of packages
    Invalid,     \* a name that ValidatePackageName refuses
    MaxVersion,  \* bound: versions of a package
    Confs,       \* the pacman.conf to begin with
    MaxConf      \* bound: lines of pacman.conf

VARIABLES
    backend,     \* the backend New was given
    tools,       \* the optional tools on the host
    security,    \* the packages whose last version is a security update
    published,   \* the versions in the repositories
    host,        \* the packages, the index, the locks and pacman.conf
    asked,       \* history: the packages callers asked to pin and did not release
    sure         \* history: those of them no rewrite has failed on the way since

vars == <<backend, tools, security, published, host, asked, sure>>

sequences == INSTANCE SequencesExt

Backend == {"apt", "dnf", "dnf5", "pacman", "zypper"}
Tool == {"versionlock", "unattended-upgrade"}
None == 0
Version == 1 .. MaxVersion

\* A line of pacman.conf: the header of the options or of a repository, an
\* IgnorePkg line with its names, or another one.
Line == [kind : {"options", "repository", "IgnorePkg", "other"}, names : SUBSET Package]
Other == [kind |-> "other", names |-> {}]

-------------------------------------------------------------------------------
(* The host, external. *)

\* pacman heeds the IgnorePkg lines of its options.
InOptions(conf, i) ==
    \E j \in 1 .. i : /\ conf[j].kind = "options"
                      /\ \A k \in j .. i : conf[k].kind # "repository"

HasOptions(conf) == \E i \in 1 .. Len(conf) : conf[i].kind = "options"

Held(h) ==
    IF backend # "pacman" THEN h.locks
    ELSE UNION {h.conf[i].names :
                    i \in {j \in 1 .. Len(h.conf) : InOptions(h.conf, j)}}

Outdated(h) == {p \in Package : h.installed[p] \in 1 .. h.available[p] - 1}

Refreshed(h) == [h EXCEPT !.available = published]

Raised(h, S) ==
    [h EXCEPT !.installed = [p \in Package |->
        IF p \in S \cap Outdated(h) THEN h.available[p] ELSE h.installed[p]]]

\* Packages that are asked for are there on their own account from then on.
Placed(h, S, v) ==
    [h EXCEPT !.installed = [p \in Package |-> IF p \notin S THEN h.installed[p]
                                               ELSE IF v = None THEN h.available[p] ELSE v],
              !.leftover = [p \in Package |-> IF p \in S THEN None ELSE h.leftover[p]],
              !.orphans = @ \ S]

\* dpkg keeps the configuration files of the packages in kept.
Removed(h, S, kept) ==
    [h EXCEPT !.installed = [p \in Package |-> IF p \in S THEN None ELSE h.installed[p]],
              !.leftover = [p \in Package |->
                  IF p \notin S THEN h.leftover[p]
                  ELSE IF p \notin kept THEN None
                  ELSE IF h.installed[p] = None THEN h.leftover[p] ELSE h.installed[p]],
              !.orphans = @ \ S]

Lowers(h, S, v) == v # None /\ \E p \in S : v < h.installed[p]

Offers(h, S, v) == \A p \in S : v <= h.available[p]

-------------------------------------------------------------------------------
(* How a method ends. *)

Nothing(h) == {<<TRUE, h>>}
Refused(h) == {<<FALSE, h>>}

\* A command that succeeds or fails; one that would change a held package fails.
Ran(h, after) ==
    {<<FALSE, h>>} \cup
        {o \in {<<TRUE, after>>} :
            \A p \in Held(h) : o[2].installed[p] = h.installed[p]}
RanAnyway(h, after) == {<<FALSE, h>>, <<TRUE, after>>}

ValidatePackageNames(names) == Invalid \notin names

\* No names, no command.
Named(h, names, outcomes) ==
    IF names = {} THEN Nothing(h)
    ELSE IF ~ValidatePackageNames(names) THEN Refused(h) ELSE outcomes

Answer(v) == {v}
NotFound == {}

\* A command that fails is an error.
readOut(ran, v) == IF ran THEN Answer(v) ELSE NotFound

\* The names with their versions; one without a version fails them all.
Versions(names, InstalledVersion(_)) ==
    IF \E p \in names : InstalledVersion(p) = NotFound THEN NotFound
    ELSE Answer({<<p, v>> \in names \X Version : v \in InstalledVersion(p)})

-------------------------------------------------------------------------------
(* apt.  dpkg goes on to answer for a package that was removed and not       *)
(* purged.                                                                   *)

aptInstall(h, names, v, downgrade) ==
    Named(h, names,
          IF (Lowers(h, names, v) /\ ~downgrade) \/ ~Offers(h, names, v)
          THEN Refused(h) ELSE Ran(h, Placed(h, names, v)))

aptInstallLocal(h, file, downgrade) ==
    IF Lowers(h, {file.name}, file.version) /\ ~downgrade THEN Refused(h)
    ELSE Ran(h, Placed(h, {file.name}, file.version))

aptRemove(h, names, purge) ==
    Named(h, names,
          UNION {Ran(h, Removed(h, names, kept)) :
                     kept \in IF purge THEN {{}}
                              ELSE {k \in SUBSET names :
                                        \A p \in names \ k : h.leftover[p] = None}})

aptUpdate(h) == Ran(h, Refreshed(h))

aptUpgrade(h, names) == Named(h, names, Ran(h, Raised(h, names)))

aptUpgradeAll(h) == Ran(h, Raised(h, Package \ Held(h)))

\* unattended-upgrade has to be there.
aptUpgradeSecurity(h) ==
    IF "unattended-upgrade" \notin tools THEN Refused(h)
    ELSE Ran(h, Raised(h, security \ Held(h)))

aptPin(h, names) == Named(h, names, Ran(h, [h EXCEPT !.locks = @ \cup names]))
aptUnpin(h, names) == Named(h, names, Ran(h, [h EXCEPT !.locks = @ \ names]))

aptAutoremove(h) ==
    UNION {Ran(h, Removed(h, h.orphans \ Held(h), kept)) : kept \in SUBSET h.orphans}

aptInstalledVersion(p) == {host.installed[p], host.leftover[p]} \ {None}

aptIsPinned(p, ran) == readOut(ran, p \in host.locks)

aptListPinned == Versions(host.locks, aptInstalledVersion)

-------------------------------------------------------------------------------
(* dnf and dnf5. *)

\* dnf takes an older version that is named without being told to.
dnfInstall(h, names, v, downgrade) ==
    Named(h, names,
          IF \/ Lowers(h, names, v) /\ backend = "dnf5" /\ ~downgrade
             \/ ~Offers(h, names, v)
          THEN Refused(h) ELSE Ran(h, Placed(h, names, v)))

dnfInstallLocal(h, file, downgrade, unsigned) ==
    IF \/ ~file.signed /\ ~unsigned
       \/ Lowers(h, {file.name}, file.version) /\ backend = "dnf5" /\ ~downgrade
    THEN Refused(h) ELSE Ran(h, Placed(h, {file.name}, file.version))

\* A lock holds the version and does not keep the package.
dnfRemove(h, names, purge) ==
    IF names = {} THEN Nothing(h)
    ELSE IF purge \/ ~ValidatePackageNames(names) THEN Refused(h)
    ELSE RanAnyway(h, Removed(h, names, {}))

\* "check-update" ends with 0 or 100.
dnfUpdate(h) == Ran(h, Refreshed(h))

dnfUpgrade(h, names) == Named(h, names, Ran(h, Raised(h, names \ Held(h))))

dnfUpgradeAll(h) == Ran(h, Raised(h, Package \ Held(h)))

dnfUpgradeSecurity(h) == Ran(h, Raised(h, security \ Held(h)))

versionLockAvailable == "versionlock" \in tools

dnfPin(h, names) ==
    Named(h, names, IF ~versionLockAvailable THEN Refused(h)
                    ELSE Ran(h, [h EXCEPT !.locks = @ \cup names]))

dnfUnpin(h, names) ==
    Named(h, names, IF ~versionLockAvailable THEN Refused(h)
                    ELSE Ran(h, [h EXCEPT !.locks = @ \ names]))

dnfAutoremove(h) == RanAnyway(h, Removed(h, h.orphans, {}))

dnfInstalledVersion(p) == {host.installed[p]} \ {None}

dnfIsPinned(p, ran) ==
    IF versionLockAvailable THEN readOut(ran, p \in host.locks) ELSE NotFound

dnfListPinned ==
    IF versionLockAvailable THEN Versions(host.locks, dnfInstalledVersion) ELSE NotFound

-------------------------------------------------------------------------------
(* pacman.  It has no locks of its own: packages are pinned by rewriting     *)
(* pacman.conf.  A package that is named is installed although it is pinned. *)

\* pacman knows one version; --needed leaves a package that has it alone.
pacmanInstall(h, names, v) ==
    Named(h, names,
          IF \E p \in names : v \notin {None, h.available[p]} THEN Refused(h)
          ELSE RanAnyway(h, Placed(h, names, v)))

pacmanInstallLocal(h, file) ==
    IF ~file.signed THEN Refused(h)
    ELSE RanAnyway(h, Placed(h, {file.name}, file.version))

pacmanRemove(h, names) == Named(h, names, RanAnyway(h, Removed(h, names, {})))

pacmanUpdate(h) == Refused(h)

\* "-S" also installs a package that is not there.
pacmanUpgrade(h, names) == Named(h, names, RanAnyway(h, Placed(h, names, None)))

\* "-Syu" refreshes the index first.
pacmanUpgradeAll(h) ==
    RanAnyway(h, Raised(Refreshed(h), Package \ Held(h)))

pacmanUpgradeSecurity(h) == Refused(h)

\* The orphans are listed by one command and removed by another.
pacmanAutoremove(h) ==
    IF h.orphans = {} THEN Nothing(h) ELSE RanAnyway(h, Removed(h, h.orphans, {}))

getIgnoredPackages(conf) ==
    UNION {conf[i].names : i \in {j \in 1 .. Len(conf) : conf[j].kind = "IgnorePkg"}}

IgnorePkg(ignored) ==
    IF ignored = {} THEN <<>> ELSE <<[kind |-> "IgnorePkg", names |-> ignored]>>

\* Mutant: every IgnorePkg line but the first is kept.
buildKeepingLines(conf, ignored) ==
    LET first(kind) == sequences!SelectInSeq(conf, LAMBDA l : l.kind = kind)
        at == IF first("IgnorePkg") > 0 THEN first("IgnorePkg") - 1 ELSE first("options")
    IN  IF at = 0 THEN Append(conf, Other)
        ELSE Append(SubSeq(conf, 1, at) \o IgnorePkg(ignored)
                        \o SubSeq(conf, at + 1 + (IF first("IgnorePkg") > 0 THEN 1 ELSE 0), Len(conf)), Other)

\* The names go where the first IgnorePkg line was, or else below the header
\* of the options; without one they are dropped.  A newline is added to the
\* end at every rewrite.
buildIgnorePkgConf(conf, ignored) ==
    LET first(kind) == sequences!SelectInSeq(conf, LAMBDA l : l.kind = kind)
        rest(lines) == SelectSeq(lines, LAMBDA l : l.kind # "IgnorePkg")
        at == IF first("IgnorePkg") > 0 THEN first("IgnorePkg") ELSE first("options")
        before == rest(SubSeq(conf, 1, at))
        after == rest(SubSeq(conf, at + 1, Len(conf)))
    IN  Append(IF at = 0 THEN conf ELSE before \o IgnorePkg(ignored) \o after, Other)

\* tee empties the file and writes it again; it may fail on the way.
writeIgnorePkg(h, ignored) ==
    LET text == buildIgnorePkgConf(h.conf, ignored) IN
    {<<TRUE, [h EXCEPT !.conf = text]>>} \cup
    {<<FALSE, [h EXCEPT !.conf = SubSeq(text, 1, n)]>> : n \in 0 .. Len(text)}

\* The file may also not be read.
pacmanPin(h, names) ==
    Named(h, names,
          Refused(h) \cup writeIgnorePkg(h, getIgnoredPackages(h.conf) \cup names))

pacmanUnpin(h, names) ==
    Named(h, names,
          Refused(h) \cup writeIgnorePkg(h, getIgnoredPackages(h.conf) \ names))

pacmanInstalledVersion(p) == {host.installed[p]} \ {None}

pacmanIsPinned(p, ran) == readOut(ran, p \in getIgnoredPackages(host.conf))

pacmanListPinned == Versions(getIgnoredPackages(host.conf), pacmanInstalledVersion)

-------------------------------------------------------------------------------
(* zypper.  The exit codes 100 to 103 tell of what is left to do. *)

zypperInstall(h, names, v, downgrade) ==
    Named(h, names,
          IF (Lowers(h, names, v) /\ ~downgrade) \/ ~Offers(h, names, v)
          THEN Refused(h) ELSE Ran(h, Placed(h, names, v)))

zypperInstallLocal(h, file, downgrade, unsigned) ==
    IF \/ ~file.signed /\ ~unsigned
       \/ Lowers(h, {file.name}, file.version) /\ ~downgrade
    THEN Refused(h) ELSE Ran(h, Placed(h, {file.name}, file.version))

zypperRemove(h, names, purge) ==
    IF names = {} THEN Nothing(h)
    ELSE IF purge \/ ~ValidatePackageNames(names) THEN Refused(h)
    ELSE Ran(h, Removed(h, names, {}))

zypperUpdate(h) == Ran(h, Refreshed(h))

zypperUpgrade(h, names) == Named(h, names, Ran(h, Raised(h, names)))

zypperUpgradeAll(h) == Ran(h, Raised(h, Package \ Held(h)))

zypperUpgradeSecurity(h) == Ran(h, Raised(h, security \ Held(h)))

zypperPin(h, names) == Named(h, names, Ran(h, [h EXCEPT !.locks = @ \cup names]))
zypperUnpin(h, names) == Named(h, names, Ran(h, [h EXCEPT !.locks = @ \ names]))

zypperAutoremove(h) == Refused(h)

zypperInstalledVersion(p) == {host.installed[p]} \ {None}

\* Locks that cannot be listed are taken for none.
zypperIsPinned(p, ran) == Answer(ran /\ p \in host.locks)

zypperListPinned == Versions(host.locks, zypperInstalledVersion)

-------------------------------------------------------------------------------
(* Manager: the method of the backend at hand. *)

By(apt, dnf, pacman, zypper) ==
    CASE backend = "apt" -> apt
      [] backend \in {"dnf", "dnf5"} -> dnf
      [] backend = "pacman" -> pacman
      [] backend = "zypper" -> zypper

File == [name : Package, version : Version, signed : BOOLEAN]

InstallOf(h, names, v, downgrade) ==
    By(aptInstall(h, names, v, downgrade), dnfInstall(h, names, v, downgrade),
       pacmanInstall(h, names, v), zypperInstall(h, names, v, downgrade))

InstallLocalOf(h, file, downgrade, unsigned) ==
    By(aptInstallLocal(h, file, downgrade), dnfInstallLocal(h, file, downgrade, unsigned),
       pacmanInstallLocal(h, file), zypperInstallLocal(h, file, downgrade, unsigned))

RemoveOf(h, names, purge) ==
    By(aptRemove(h, names, purge), dnfRemove(h, names, purge),
       pacmanRemove(h, names), zypperRemove(h, names, purge))

UpdateOf(h) ==
    By(aptUpdate(h), dnfUpdate(h),
       pacmanUpdate(h), zypperUpdate(h))

UpgradeOf(h, names) ==
    By(aptUpgrade(h, names), dnfUpgrade(h, names),
       pacmanUpgrade(h, names), zypperUpgrade(h, names))

UpgradeAllOf(h) ==
    By(aptUpgradeAll(h), dnfUpgradeAll(h),
       pacmanUpgradeAll(h), zypperUpgradeAll(h))

UpgradeSecurityOf(h) ==
    By(aptUpgradeSecurity(h), dnfUpgradeSecurity(h),
       pacmanUpgradeSecurity(h), zypperUpgradeSecurity(h))

PinOf(h, names) ==
    By(aptPin(h, names), dnfPin(h, names),
       pacmanPin(h, names), zypperPin(h, names))

UnpinOf(h, names) ==
    By(aptUnpin(h, names), dnfUnpin(h, names),
       pacmanUnpin(h, names), zypperUnpin(h, names))

AutoremoveOf(h) ==
    By(aptAutoremove(h), dnfAutoremove(h),
       pacmanAutoremove(h), zypperAutoremove(h))

IsPinned(p, ran) ==
    By(aptIsPinned(p, ran), dnfIsPinned(p, ran),
       pacmanIsPinned(p, ran), zypperIsPinned(p, ran))

ListPinned ==
    By(aptListPinned, dnfListPinned,
       pacmanListPinned, zypperListPinned)

-------------------------------------------------------------------------------
(* The calls. *)

\* The manifest of what is there to begin with: first versions, no locks.
Init ==
    /\ backend \in Backend
    /\ tools \in CASE backend = "apt" -> {{}, {"unattended-upgrade"}}
                   [] backend \in {"dnf", "dnf5"} -> {{}, {"versionlock"}}
                   [] OTHER -> {{}}
    /\ security \in IF backend = "pacman" THEN {{}} ELSE SUBSET Package
    /\ published = [p \in Package |-> 1]
    /\ \E there \in SUBSET Package, orphans \in SUBSET Package,
          conf \in IF backend = "pacman" THEN Confs ELSE {<<>>} :
           /\ orphans \subseteq there
           /\ host = [installed |-> [p \in Package |-> IF p \in there THEN 1 ELSE None],
                      available |-> published, orphans |-> orphans,
                      leftover |-> [p \in Package |-> None],
                      locks |-> {}, conf |-> conf]
    /\ asked = Held(host) /\ sure = asked

\* A call with any of the outcomes; one that changes nothing is no step.
Call(outcomes) ==
    /\ host' \in {o[2] : o \in outcomes} \ {host}
    /\ UNCHANGED <<backend, tools, security, published, asked, sure>>

Names == SUBSET (Package \cup {Invalid})

Install ==
    Call(UNION {InstallOf(host, names, v, downgrade) :
                    names \in Names, v \in Version \cup {None}, downgrade \in BOOLEAN})

InstallLocal ==
    Call(UNION {InstallLocalOf(host, file, downgrade, unsigned) :
                    file \in File, downgrade \in BOOLEAN, unsigned \in BOOLEAN})

Remove == Call(UNION {RemoveOf(host, names, purge) : names \in Names, purge \in BOOLEAN})

Update == Call(UpdateOf(host))

Upgrade == Call(UNION {UpgradeOf(host, names) : names \in Names})

UpgradeAll == Call(UpgradeAllOf(host))

UpgradeSecurity == Call(UpgradeSecurityOf(host))

Autoremove == Call(AutoremoveOf(host))

\* A call about pins: what is asked for and sure after it succeeded, and what is
\* asked for after it failed on the way, when no pin is sure.
PinCall(outcomes, askedThen, sureThen, askedElse) ==
    /\ Len(host.conf) < MaxConf
    /\ \E o \in outcomes \ Refused(host) :
           /\ host' = o[2]
           /\ asked' = IF o[1] THEN askedThen ELSE askedElse
           /\ sure' = IF o[1] THEN sureThen ELSE {}
    /\ UNCHANGED <<backend, tools, security, published>>

\* A Pin that fails may have pinned, an Unpin that fails may not have released.
Pin ==
    \E names \in Names :
        PinCall(PinOf(host, names), asked \cup names, sure \cup names, asked \cup names)

Unpin ==
    \E names \in Names :
        PinCall(UnpinOf(host, names), asked \ names, sure \ names, asked)

\* A new version appears in the repositories.
Publish(p) ==
    /\ published[p] < MaxVersion
    /\ published' = [published EXCEPT ![p] = @ + 1]
    /\ UNCHANGED <<backend, tools, security, host, asked, sure>>

Next ==
    \/ Install \/ InstallLocal \/ Remove \/ Update
    \/ Upgrade \/ UpgradeAll \/ UpgradeSecurity \/ Autoremove
    \/ Pin \/ Unpin
    \/ \E p \in Package : Publish(p)

Spec == Init /\ [][Next]_vars

-------------------------------------------------------------------------------
(* Properties. *)

TypeOK ==
    /\ backend \in Backend /\ tools \in SUBSET Tool /\ security \in SUBSET Package
    /\ published \in [Package -> Version] /\ asked \in SUBSET Package
    /\ sure \in SUBSET asked
    /\ host \in [installed : [Package -> Version \cup {None}],
                 available : [Package -> Version], orphans : SUBSET Package,
                 leftover : [Package -> Version \cup {None}],
                 locks : SUBSET Package, conf : Seq(Line)]

\* The pins a caller can count on: whose Pin reported success, since which no
\* rewrite of pacman.conf failed on the way.  (Without an options header, as in
\* a file that a failed tee cut short, Pin reports success and pins nothing.)
Kept == IF backend # "pacman" \/ HasOptions(host.conf) THEN sure ELSE {}

\* Pinning as a caller of Pin and Unpin sees it, through any sequence of calls.
\* Whatever failed, nothing is reported as pinned that nobody asked to pin or
\* that was released since.  A pin that a caller can count on is there: IsPinned
\* says so (but zypper's says no when the locks cannot be listed), ListPinned,
\* if it answers, lists it, and neither a full upgrade nor a security upgrade
\* moves it.  For pacman that takes rewriting pacman.conf so that other names
\* and other lines stay (buildIgnorePkgConf).
PinsHold ==
    /\ \A p \in Package, ran \in BOOLEAN : \A answer \in IsPinned(p, ran) :
           /\ answer => p \in asked
           /\ p \in Kept => answer \/ (backend = "zypper" /\ ~ran)
    /\ \A list \in ListPinned :
           LET listed == {l[1] : l \in list} IN Kept \subseteq listed /\ listed \subseteq asked
    /\ \A o \in UpgradeAllOf(host) \cup UpgradeSecurityOf(host) :
           \A p \in Kept : o[2].installed[p] = host.installed[p]

===============================================================================
