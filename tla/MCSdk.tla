--------------------------------- MODULE MCSdk --------------------------------
(***************************************************************************)
(* The sdk's command runner and its package managers.  The two share no    *)
(* state here, so a behaviour of this model is one of CommandRun or of     *)
(* Packages.                                                               *)
(***************************************************************************)
EXTENDS CommandRun

CONSTANTS Package, Invalid, MaxVersion, MaxConf

VARIABLES backend, tools, security, published, host, asked, sure, part

\* A pacman.conf as it is shipped, and one with pins in two lines already.
Options == [kind |-> "options", names |-> {}]
Repository == [kind |-> "repository", names |-> {}]
Ignore(p) == [kind |-> "IgnorePkg", names |-> {p}]
Confs ==
    {<<Options, Repository>>} \cup
    {<<Options, Ignore(pq[1]), Ignore(pq[2]), Repository>> :
         pq \in {x \in Package \X Package : x[1] # x[2]}}

packages == INSTANCE Packages

packagesVars == <<backend, tools, security, published, host, asked, sure>>
allVars == <<vars, packagesVars, part>>

NoPackages ==
    /\ backend = "apt" /\ tools = {} /\ security = {} /\ published = <<>>
    /\ host = [installed |-> <<>>, available |-> <<>>, orphans |-> {},
               leftover |-> <<>>, locks |-> {}, conf |-> <<>>]
    /\ asked = {} /\ sure = {}

MCInit ==
    /\ Init
    /\ \/ part = "command" /\ NoPackages
       \/ part = "packages" /\ packages!Init

Command(A) == part = "command" /\ A /\ UNCHANGED <<packagesVars, part>>
PackagesNext == part = "packages" /\ packages!Next /\ UNCHANGED <<vars, part>>
MCNext == Command(Next) \/ PackagesNext

MCSpec ==
    /\ MCInit /\ [][MCNext]_allVars
    /\ WF_allVars(Command(Collect)) /\ WF_allVars(Command(Library))
    /\ WF_allVars(Command(Runner))

\* Packages: what callers pinned is what is pinned, listed and held back.
PinsHold == part = "packages" => packages!PinsHold

===============================================================================
