----------------------------- MODULE ConsoleProofs -----------------------------
(*****************************************************************************)
(* Proofs about Console, for any number of tabs, requests, logins and        *)
(* versions of the user's row: a tab does not lose its session to itself, a  *)
(* login makes one session, and logins stay apart.                           *)
(*                                                                           *)
(* A session is a version of the pair of tokens that the server has signed.  *)
(* The inductive invariant relates the three places that hold one, the       *)
(* storage that the tabs share, a refresh under way and a login's answer, to *)
(* the versions that the server has signed and to the tab that had each of   *)
(* them renewed.                                                             *)
(*****************************************************************************)
EXTENDS Console, TLAPS

\* A leaf that names no prover is Z3's, within this many seconds.
USE SMTT(30)

\* What the constants are taken to be (ConsoleAssumption).
ConsoleConstants ==
    /\ TabOf \in [Call -> Tab] /\ 0 \notin Tab
    /\ AccessTTL \in Nat /\ RefreshTTL \in Nat /\ MaxLogins \in Nat

TokenPair == [login : Nat, expires : Nat, refresh_expires : Nat]
SessionId == 0 .. Len(pairs)

LoginRows(S) == [step : {"none", "url", "failed", "answered", "done"}, at : Nat, session : S]
RefreshRows(S) == [tab : Tab, session : S \ {0},
                   step : {"sent", "ok", "refused", "error"}, renewed : S]
CallRows(S) == [step : {"idle", "refreshing", "refreshed", "sent", "refused"},
                initiating : S, session : S, attempted : BOOLEAN]

ServerTypes ==
    /\ pairs \in Seq(TokenPair) /\ movedBy \in Seq(Tab \cup {None})
    /\ Len(movedBy) = Len(pairs)

ConsoleTypes ==
    /\ ConsoleConstants /\ now \in Nat /\ ServerTypes
    /\ storage \in SessionId /\ login \in [Login -> LoginRows(SessionId)]
    /\ inFlight \in [Tab -> SessionId] /\ refreshes \subseteq RefreshRows(SessionId)
    /\ call \in [Call -> CallRows(SessionId)]

\* A session is on its way to the storage as the answer to a login or to a
\* refresh.
Answered(s) == \E n \in Login : login[n].session = s
Renewed(s) == \E r \in refreshes : r.step = "ok" /\ r.renewed = s

\* It is so once, and not stored yet.
HoldersInv ==
    /\ \A n, m \in Login : login[n].session = login[m].session /\ login[n].session # None => n = m
    /\ \A n \in Login : login[n].session # None =>
           storage # login[n].session /\ ~Renewed(login[n].session)
    /\ \A r \in refreshes : r.step = "ok" =>
           r.renewed = r.session + 1 /\ storage # r.renewed
           /\ pairs[r.renewed].login = pairs[r.session].login
    /\ \A r, q \in refreshes : r.step = "ok" /\ q.step = "ok" /\ r.renewed = q.renewed => r = q

\* A tab refreshes a session once at a time, and only one that was stored.
RefreshInv ==
    /\ \A r, q \in refreshes : r.tab = q.tab /\ r.session = q.session => r = q
    /\ \A r \in refreshes :
           /\ ~Answered(r.session) /\ ~Renewed(r.session)
           /\ storage = r.session => inFlight[r.tab] = r.session

\* A session that a tab has had renewed is stored only until that is answered.
MovedInv ==
    \A s \in 1 .. Len(pairs) - 1 : movedBy[s + 1] # None =>
        /\ ~Answered(s) /\ ~Renewed(s)
        /\ storage = s => \E r \in refreshes : r.tab = movedBy[s + 1] /\ r.session = s /\ r.step = "ok"
        /\ \A r \in refreshes : r.tab = movedBy[s + 1] /\ r.session = s => r.step = "ok"

\* A request refreshes the session it began with, and goes on with one of the
\* same login.
CallInv(c) ==
    /\ call[c].step = "refreshing" => call[c].session = call[c].initiating
    /\ call[c].step = "refreshed" =>
           call[c].session = None \/ LoginOf(call[c].session) = LoginOf(call[c].initiating)
    /\ call[c].step = "sent" => LoginOf(call[c].session) = LoginOf(call[c].initiating)

\* A login's versions follow one another, and its code is spent.
StartsLogin(n, v) ==
    v \in 1 .. Len(pairs) /\ pairs[v].login = n /\ (v = 1 \/ pairs[v - 1].login # n)
LoginInv ==
    /\ \A v \in 1 .. Len(pairs) : pairs[v].login \in redeemed \cup {None}
    /\ \A n \in Login, v, w \in 1 .. Len(pairs) : StartsLogin(n, v) /\ StartsLogin(n, w) => v = w

ConsoleInv ==
    /\ ConsoleTypes /\ HoldersInv /\ RefreshInv /\ MovedInv /\ LoginInv
    /\ \A c \in Call : CallInv(c)

-------------------------------------------------------------------------------
(* The server's versions. *)

LEMMA Appending ==
    ASSUME NEW S, NEW s \in Seq(S), NEW x \in S
    PROVE  /\ Append(s, x) \in Seq(S) /\ Len(s) \in Nat /\ Len(Append(s, x)) = Len(s) + 1
           /\ \A i \in 1 .. Len(s) : Append(s, x)[i] = s[i]
           /\ Append(s, x)[Len(s) + 1] = x
OBVIOUS

\* The versions there are stay as they are, and there may be another one.
Grown ==
    /\ ServerTypes' /\ Len(pairs) \in Nat /\ Len(pairs') \in {Len(pairs), Len(pairs) + 1}
    /\ \A i \in 1 .. Len(pairs) : pairs'[i] = pairs[i]

LEMMA Stays ==
    ASSUME ServerTypes, UNCHANGED serverVars
    PROVE  Grown /\ Len(pairs') = Len(pairs) /\ movedBy' = movedBy
BY DEF ServerTypes, serverVars, Grown

LEMMA Moves ==
    ASSUME ServerTypes, NEW pair \in TokenPair, NEW by \in Tab \cup {None}, Move(pair, by)
    PROVE  /\ Grown /\ Len(pairs') = Len(pairs) + 1 /\ version' = Len(pairs) + 1
           /\ pairs'[Len(pairs) + 1] = pair /\ movedBy'[Len(pairs) + 1] = by
           /\ \A i \in 1 .. Len(pairs) : movedBy'[i] = movedBy[i]
<1>1. pairs' = Append(pairs, pair) /\ movedBy' = Append(movedBy, by) /\ Len(movedBy) = Len(pairs)
  BY Zenon DEF Move, ServerTypes
<1>2. /\ pairs' \in Seq(TokenPair) /\ Len(pairs) \in Nat /\ Len(pairs') = Len(pairs) + 1
      /\ \A i \in 1 .. Len(pairs) : pairs'[i] = pairs[i]
      /\ pairs'[Len(pairs) + 1] = pair
  <2>1. pairs \in Seq(TokenPair)
    BY Zenon DEF ServerTypes
  <2>2. /\ Append(pairs, pair) \in Seq(TokenPair) /\ Len(pairs) \in Nat
        /\ Len(Append(pairs, pair)) = Len(pairs) + 1
        /\ \A i \in 1 .. Len(pairs) : Append(pairs, pair)[i] = pairs[i]
        /\ Append(pairs, pair)[Len(pairs) + 1] = pair
    BY <2>1, Appending
  <2> QED
    BY <1>1, <2>2
<1>3. /\ movedBy' \in Seq(Tab \cup {None}) /\ Len(movedBy') = Len(movedBy) + 1
      /\ \A i \in 1 .. Len(movedBy) : movedBy'[i] = movedBy[i]
      /\ movedBy'[Len(movedBy) + 1] = by
  <2>1. movedBy \in Seq(Tab \cup {None})
    BY Zenon DEF ServerTypes
  <2>2. /\ Append(movedBy, by) \in Seq(Tab \cup {None})
        /\ Len(Append(movedBy, by)) = Len(movedBy) + 1
        /\ \A i \in 1 .. Len(movedBy) : Append(movedBy, by)[i] = movedBy[i]
        /\ Append(movedBy, by)[Len(movedBy) + 1] = by
    BY <2>1, Appending
  <2> QED
    BY <1>1, <2>2
<1>4. Grown
  BY <1>1, <1>2, <1>3 DEF Grown, ServerTypes
<1> QED
  BY <1>1, <1>2, <1>3, <1>4 DEF version

LEMMA WiderRows ==
    ASSUME NEW S, NEW T, S \subseteq T
    PROVE  /\ LoginRows(S) \subseteq LoginRows(T)
           /\ RefreshRows(S) \subseteq RefreshRows(T)
           /\ CallRows(S) \subseteq CallRows(T)
<1>1. ASSUME NEW r \in LoginRows(S) PROVE r \in LoginRows(T)
  BY <1>1 DEF LoginRows
<1>2. ASSUME NEW r \in RefreshRows(S) PROVE r \in RefreshRows(T)
  BY <1>2 DEF RefreshRows
<1>3. ASSUME NEW r \in CallRows(S) PROVE r \in CallRows(T)
  BY <1>3 DEF CallRows
<1> QED
  BY <1>1, <1>2, <1>3, Zenon

LEMMA GrownFacts ==
    ASSUME Grown
    PROVE  /\ SessionId \subseteq SessionId' /\ LoginRows(SessionId) \subseteq LoginRows(SessionId')
           /\ RefreshRows(SessionId) \subseteq RefreshRows(SessionId')
           /\ CallRows(SessionId) \subseteq CallRows(SessionId')
           /\ \A s \in SessionId : LoginOf(s)' = LoginOf(s)
           /\ Len(pairs) + 1 \notin SessionId /\ 0 \in SessionId /\ SessionId \subseteq Nat
<1>1. /\ SessionId \subseteq SessionId' /\ Len(pairs) + 1 \notin SessionId /\ 0 \in SessionId
      /\ SessionId \subseteq Nat
  BY DEF Grown, SessionId
<1>2. /\ LoginRows(SessionId) \subseteq LoginRows(SessionId')
      /\ RefreshRows(SessionId) \subseteq RefreshRows(SessionId')
      /\ CallRows(SessionId) \subseteq CallRows(SessionId')
  BY <1>1, WiderRows, Zenon
<1>3. ASSUME NEW s \in SessionId PROVE LoginOf(s)' = LoginOf(s)
  <2>1. CASE s = None
    BY <2>1, Zenon DEF LoginOf, None
  <2>2. CASE s # None
    <3>1. s \in 1 .. Len(pairs)
      BY <2>2 DEF SessionId, Grown, None
    <3> QED
      BY <2>2, <3>1, Zenon DEF LoginOf, Grown, None
  <2> QED
    BY <2>1, <2>2, Zenon
<1> QED
  BY <1>1, <1>2, <1>3, Zenon

\* A request that does not move is under its login still.
LEMMA CallsStay ==
    ASSUME ConsoleInv, Grown, UNCHANGED call
    PROVE  call' \in [Call -> CallRows(SessionId')] /\ \A c \in Call : CallInv(c)'
<1>1. call \in [Call -> CallRows(SessionId)] /\ \A c \in Call : CallInv(c)
  BY Zenon DEF ConsoleInv, ConsoleTypes
<1>2. CallRows(SessionId) \subseteq CallRows(SessionId') /\ \A s \in SessionId : LoginOf(s)' = LoginOf(s)
  BY GrownFacts, Zenon
<1>3. \A c \in Call : call[c].session \in SessionId /\ call[c].initiating \in SessionId
  BY <1>1 DEF CallRows
<1>4. ASSUME NEW c \in Call PROVE CallInv(c)'
  BY <1>1, <1>2, <1>3, Zenon DEF CallInv, None
<1>5. call' \in [Call -> CallRows(SessionId')]
  BY <1>1, <1>2
<1> QED
  BY <1>4, <1>5, Zenon

LEMMA RowFacts ==
    ASSUME ConsoleTypes
    PROVE  /\ \A n \in Login : login[n].session \in SessionId /\ n \in Nat /\ n # None
           /\ \A r \in refreshes : /\ r.tab \in Tab /\ r.session \in SessionId /\ r.session # None
                                   /\ r.step \in {"sent", "ok", "refused", "error"}
                                   /\ r.renewed \in SessionId
           /\ \A c \in Call : /\ call[c].initiating \in SessionId /\ call[c].session \in SessionId
                              /\ TabOf[c] \in Tab
<1>1. \A n \in Login : login[n].session \in SessionId /\ n \in Nat /\ n # None
  BY DEF ConsoleTypes, ConsoleConstants, LoginRows, Login, None
<1>2. ASSUME NEW r \in refreshes
      PROVE  /\ r.tab \in Tab /\ r.session \in SessionId /\ r.session # None
             /\ r.step \in {"sent", "ok", "refused", "error"} /\ r.renewed \in SessionId
  <2>1. r \in RefreshRows(SessionId)
    BY Zenon DEF ConsoleTypes
  <2> QED
    BY <2>1 DEF RefreshRows, None
<1>3. ASSUME NEW c \in Call
      PROVE  call[c].initiating \in SessionId /\ call[c].session \in SessionId /\ TabOf[c] \in Tab
  <2>1. call[c] \in CallRows(SessionId) /\ TabOf[c] \in Tab
    BY DEF ConsoleTypes, ConsoleConstants
  <2> QED
    BY <2>1 DEF CallRows
<1> QED
  BY <1>1, <1>2, <1>3, Zenon

LEMMA ConsoleInit ==
    ASSUME ConsoleConstants, Init
    PROVE  ConsoleInv
<1> USE DEF None
<1>1. pairs = <<>> /\ Len(pairs) = 0 /\ SessionId = {0} /\ ServerTypes
  BY DEF Init, SessionId, ServerTypes
<1>2. login \in [Login -> LoginRows(SessionId)] /\ \A n \in Login : login[n].session = None
  BY <1>1 DEF Init, LoginRows
<1>3. call \in [Call -> CallRows(SessionId)] /\ \A c \in Call : call[c].step = "idle"
  BY <1>1 DEF Init, CallRows, Idle
<1>4. inFlight \in [Tab -> SessionId] /\ refreshes = {} /\ storage = None /\ now \in Nat
  BY <1>1 DEF Init
<1>5. ConsoleTypes
  BY <1>1, <1>2, <1>3, <1>4 DEF ConsoleTypes
<1>6. HoldersInv /\ RefreshInv
  BY <1>2, <1>4, Zenon DEF HoldersInv, RefreshInv
<1>7. MovedInv /\ LoginInv
  BY <1>1 DEF MovedInv, LoginInv
<1>8. \A c \in Call : CallInv(c)
  BY <1>3 DEF CallInv
<1> QED
  BY <1>5, <1>6, <1>7, <1>8, Zenon DEF ConsoleInv

\* The user's row may move on to a version that nobody holds, the storage may be
\* cleared, and a login may go on without a session.
LEMMA QuietStep ==
    ASSUME ConsoleInv, Grown, now' \in Nat, UNCHANGED <<inFlight, refreshes, call>>,
           login' \in [Login -> LoginRows(SessionId')],
           \A n \in Login : login'[n].session \in {login[n].session, None},
           redeemed \subseteq redeemed', storage' \in {storage, None},
           \A i \in 1 .. Len(pairs) : movedBy'[i] = movedBy[i],
           \/ Len(pairs') = Len(pairs)
           \/ pairs'[Len(pairs) + 1].login = None /\ movedBy'[Len(pairs) + 1] = None
    PROVE  ConsoleInv'
<1>1. ConsoleTypes /\ HoldersInv /\ RefreshInv /\ MovedInv /\ LoginInv
  BY Zenon DEF ConsoleInv
<1>2. /\ SessionId \subseteq SessionId' /\ RefreshRows(SessionId) \subseteq RefreshRows(SessionId')
      /\ 0 \in SessionId /\ Len(pairs) \in Nat /\ Len(pairs') \in {Len(pairs), Len(pairs) + 1}
      /\ \A i \in 1 .. Len(pairs) : pairs'[i] = pairs[i]
  BY GrownFacts, Zenon DEF Grown
<1>3. call' \in [Call -> CallRows(SessionId')] /\ \A c \in Call : CallInv(c)'
  BY CallsStay, Zenon
<1>4. storage' \in SessionId' /\ inFlight' \in [Tab -> SessionId']
  BY <1>1, <1>2 DEF ConsoleTypes, None
<1>5. ConsoleTypes'
  BY <1>1, <1>2, <1>3, <1>4 DEF ConsoleTypes, ConsoleConstants, Grown
<1>6. \A s : (Answered(s)' /\ s # None => Answered(s)) /\ (Renewed(s)' => Renewed(s))
  BY Zenon DEF Answered, Renewed
<1>7. /\ \A r \in refreshes : r.session \in SessionId /\ r.session # None /\ r.renewed \in SessionId
      /\ \A n \in Login : n # None
  BY <1>1, RowFacts, Zenon
<1>8. HoldersInv'
  <2>1. \A n \in Login : login'[n].session # None =>
            login[n].session = login'[n].session /\ storage' # login'[n].session
    BY <1>1, Zenon DEF HoldersInv
  <2>2. \A n, m \in Login : login'[n].session = login'[m].session /\ login'[n].session # None => n = m
    BY <1>1, <2>1, ZenonT(30) DEF HoldersInv
  <2>3. \A n \in Login : \A s : login'[n].session # None /\ s = login'[n].session => ~Renewed(s)'
    BY <1>1, <1>6, <2>1, Zenon DEF HoldersInv
  <2>4. ASSUME NEW r \in refreshes, r.step = "ok"
        PROVE  /\ r.renewed = r.session + 1 /\ storage' # r.renewed
               /\ pairs'[r.renewed].login = pairs'[r.session].login
    <3>1. /\ r.renewed = r.session + 1 /\ storage # r.renewed
          /\ pairs[r.renewed].login = pairs[r.session].login
      BY <1>1, <2>4, Zenon DEF HoldersInv
    <3>2. r.session \in 0 .. Len(pairs) /\ r.session # 0 /\ r.renewed \in 0 .. Len(pairs)
      BY <1>7, <2>4, Zenon DEF SessionId, None
    <3>3. r.session \in 1 .. Len(pairs) /\ r.renewed \in 1 .. Len(pairs)
      BY <1>2, <3>1, <3>2
    <3>4. r.renewed # None
      BY <3>3 DEF None
    <3> QED
      BY <1>2, <3>1, <3>3, <3>4, Zenon
  <2> QED
    BY <1>1, <2>1, <2>2, <2>3, <2>4, Zenon DEF HoldersInv
<1>9. RefreshInv'
  BY <1>1, <1>6, <1>7, Zenon DEF RefreshInv
<1>10. MovedInv'
  <2> SUFFICES ASSUME NEW s \in 1 .. Len(pairs') - 1, movedBy'[s + 1] # None
               PROVE  /\ ~Answered(s)' /\ ~Renewed(s)'
                      /\ storage' = s => \E r \in refreshes' :
                             r.tab = movedBy'[s + 1] /\ r.session = s /\ r.step = "ok"
                      /\ \A r \in refreshes' : r.tab = movedBy'[s + 1] /\ r.session = s => r.step = "ok"
    BY Zenon DEF MovedInv
  <2>1. s \in 1 .. Len(pairs) - 1 /\ movedBy'[s + 1] = movedBy[s + 1] /\ s # None
    BY <1>2 DEF None
  <2>2. /\ ~Answered(s) /\ ~Renewed(s)
        /\ storage = s => \E r \in refreshes :
               r.tab = movedBy[s + 1] /\ r.session = s /\ r.step = "ok"
        /\ \A r \in refreshes : r.tab = movedBy[s + 1] /\ r.session = s => r.step = "ok"
    BY <1>1, <2>1, Zenon DEF MovedInv
  <2>3. refreshes' = refreshes /\ (storage' = s => storage = s)
    BY <2>1, Zenon
  <2> QED
    BY <1>6, <2>1, <2>2, <2>3, Zenon
<1>11. LoginInv'
  <2>1. \A v \in 1 .. Len(pairs') : pairs'[v].login \in redeemed' \cup {None}
    BY <1>1, <1>2 DEF LoginInv
  <2>2. ASSUME NEW n \in Login, NEW v, StartsLogin(n, v)' PROVE v \in 1 .. Len(pairs) /\ StartsLogin(n, v)
    BY <1>2, <1>7, <2>2 DEF StartsLogin
  <2> QED
    BY <1>1, <2>1, <2>2, Zenon DEF LoginInv
<1> QED
  BY <1>3, <1>5, <1>8, <1>9, <1>10, <1>11, Zenon DEF ConsoleInv

LEMMA ServerQuiet ==
    ASSUME ConsoleInv, Move(NoPair, None) \/ UNCHANGED serverVars
    PROVE  /\ Grown /\ \A i \in 1 .. Len(pairs) : movedBy'[i] = movedBy[i]
           /\ \/ Len(pairs') = Len(pairs)
              \/ pairs'[Len(pairs) + 1].login = None /\ movedBy'[Len(pairs) + 1] = None
<1>1. ServerTypes
  BY Zenon DEF ConsoleInv, ConsoleTypes
<1>2. CASE UNCHANGED serverVars
  BY <1>1, <1>2, Stays, Zenon
<1>3. CASE Move(NoPair, None)
  <2>1. NoPair \in TokenPair /\ NoPair.login = None
    BY DEF NoPair, TokenPair, None
  <2>2. None \in Tab \cup {None}
    BY Zenon
  <2> QED
    BY <1>1, <1>3, <2>1, <2>2, Moves, Zenon
<1> QED
  BY <1>2, <1>3, Zenon

\* The same, for a step that leaves the logins to themselves.
LEMMA QuietServerStep ==
    ASSUME ConsoleInv, Move(NoPair, None) \/ UNCHANGED serverVars, now' \in Nat,
           UNCHANGED <<loginVars, inFlight, refreshes, call>>, storage' \in {storage, None}
    PROVE  ConsoleInv'
<1>1. login \in [Login -> LoginRows(SessionId)]
  BY Zenon DEF ConsoleInv, ConsoleTypes
<1>2. /\ Grown /\ \A i \in 1 .. Len(pairs) : movedBy'[i] = movedBy[i]
      /\ \/ Len(pairs') = Len(pairs)
         \/ pairs'[Len(pairs) + 1].login = None /\ movedBy'[Len(pairs) + 1] = None
  BY ServerQuiet, Zenon
<1>3. LoginRows(SessionId) \subseteq LoginRows(SessionId')
  BY <1>2, GrownFacts, Zenon
<1>4. login' = login /\ redeemed' = redeemed
  BY Zenon DEF loginVars
<1>5. login' \in [Login -> LoginRows(SessionId')]
  BY <1>1, <1>3, <1>4
<1>6. /\ \A n \in Login : login'[n].session \in {login[n].session, None}
      /\ redeemed \subseteq redeemed' /\ UNCHANGED <<inFlight, refreshes, call>>
  BY <1>4, Zenon
<1> QED
  BY <1>2, <1>5, <1>6, QuietStep, Zenon

\* And for one that leaves the server to itself.
LEMMA QuietLoginStep ==
    ASSUME ConsoleInv, UNCHANGED <<now, serverVars, browserVars>>, redeemed \subseteq redeemed',
           NEW n \in Login, NEW row \in LoginRows(SessionId), row.session \in {login[n].session, None},
           login' = [login EXCEPT ![n] = row]
    PROVE  ConsoleInv'
<1>1. login \in [Login -> LoginRows(SessionId)] /\ now' \in Nat
  BY Zenon DEF ConsoleInv, ConsoleTypes
<1>2. /\ Grown /\ \A i \in 1 .. Len(pairs) : movedBy'[i] = movedBy[i]
      /\ \/ Len(pairs') = Len(pairs)
         \/ pairs'[Len(pairs) + 1].login = None /\ movedBy'[Len(pairs) + 1] = None
  BY ServerQuiet, Zenon
<1>3. LoginRows(SessionId) \subseteq LoginRows(SessionId')
  BY <1>2, GrownFacts, Zenon
<1>4. login' \in [Login -> LoginRows(SessionId')]
  BY <1>1, <1>3
<1>5. \A m \in Login : login'[m].session \in {login[m].session, None}
  BY <1>1, Zenon
<1>6. UNCHANGED <<inFlight, refreshes, call>> /\ storage' \in {storage, None}
  BY Zenon DEF browserVars
<1> QED
  BY <1>1, <1>2, <1>4, <1>5, <1>6, QuietStep, Zenon

LEMMA QuietActionsKeep ==
    ASSUME ConsoleInv, RevokeUserSessions \/ Logout \/ Tick \/ UNCHANGED vars
    PROVE  ConsoleInv'
<1>1. now' \in Nat
  <2>1. now \in Nat
    BY Zenon DEF ConsoleInv, ConsoleTypes
  <2>2. now' = now + 1 \/ now' = now
    BY Zenon DEF RevokeUserSessions, Logout, Tick, vars
  <2> QED
    BY <2>1, <2>2
<1>2. Move(NoPair, None) \/ UNCHANGED serverVars
  BY Zenon DEF RevokeUserSessions, Logout, Tick, vars
<1>3. /\ UNCHANGED <<loginVars, inFlight, refreshes, call>> /\ storage' \in {storage, None}
  BY Zenon DEF RevokeUserSessions, Logout, Tick, vars, browserVars
<1> QED
  BY <1>1, <1>2, <1>3, QuietServerStep, Zenon

LEMMA LoginActionsKeep ==
    ASSUME ConsoleInv, NEW n \in Login,
           GetSSOLoginURL(n) \/ ReloadCallback(n) \/
           (Fails(n) /\ redeemed \subseteq redeemed' /\ UNCHANGED <<now, browserVars>>)
    PROVE  ConsoleInv'
<1>1. login \in [Login -> LoginRows(SessionId)] /\ now \in Nat /\ 0 \in SessionId
  <2>1. Len(pairs) \in Nat
    BY DEF ConsoleInv, ConsoleTypes, ServerTypes
  <2>2. 0 \in SessionId
    BY <2>1 DEF SessionId
  <2> QED
    BY <2>2, Zenon DEF ConsoleInv, ConsoleTypes
<1>2. login[n] \in LoginRows(SessionId)
  BY <1>1
<1>3. PICK row \in LoginRows(SessionId) :
          row.session \in {login[n].session, None} /\ login' = [login EXCEPT ![n] = row]
  <2>1. CASE GetSSOLoginURL(n)
    <3>1. login' = [login EXCEPT ![n] = [login[n] EXCEPT !.step = "url", !.at = now]]
      BY <2>1, Zenon DEF GetSSOLoginURL
    <3>2. PICK t : t = login[n]
      BY Zenon
    <3>3. t \in LoginRows(SessionId) /\ now \in Nat
      BY <1>1, <1>2, <3>2, Zenon
    <3>4. [t EXCEPT !.step = "url", !.at = now] \in LoginRows(SessionId)
      BY <3>3, Zenon DEF LoginRows
    <3>5. [t EXCEPT !.step = "url", !.at = now].session = t.session
      BY <3>3 DEF LoginRows
    <3> QED
      BY <3>1, <3>2, <3>4, <3>5, Zenon
  <2>2. CASE ReloadCallback(n)
    <3>1. login' = [login EXCEPT ![n] = [login[n] EXCEPT !.step = "url"]]
      BY <1>1, <2>2 DEF ReloadCallback
    <3>2. /\ [login[n] EXCEPT !.step = "url"] \in LoginRows(SessionId)
          /\ [login[n] EXCEPT !.step = "url"].session = login[n].session
      BY <1>1, <1>2 DEF LoginRows
    <3> QED
      BY <3>1, <3>2, Zenon
  <2>3. CASE Fails(n)
    <3>1. login' = [login EXCEPT ![n] = [step |-> "failed", at |-> 0, session |-> None]]
      BY <2>3, Zenon DEF Fails
    <3>2. /\ [step |-> "failed", at |-> 0, session |-> None] \in LoginRows(SessionId)
          /\ [step |-> "failed", at |-> 0, session |-> None].session = None
      BY <1>1 DEF LoginRows, None
    <3> QED
      BY <3>1, <3>2, Zenon
  <2> QED
    BY <2>1, <2>2, <2>3, Zenon
<1>4. UNCHANGED <<now, serverVars, browserVars>> /\ redeemed \subseteq redeemed'
  BY Zenon DEF GetSSOLoginURL, ReloadCallback, Fails
<1> QED
  BY <1>3, <1>4, QuietLoginStep, Zenon

LEMMA PairFacts ==
    ASSUME ConsoleInv, NEW n \in Nat
    PROVE  GenerateTokens(n) \in TokenPair /\ GenerateTokens(n).login = n
BY DEF ConsoleInv, ConsoleTypes, ConsoleConstants, GenerateTokens, TokenPair

\* A login begins with a version of its own: its code was not spent before.
LEMMA SucceedsKeeps ==
    ASSUME ConsoleInv, NEW n \in Login, Succeeds(n), n \notin redeemed,
           redeemed' = redeemed \cup {n}, UNCHANGED <<now, browserVars>>
    PROVE  ConsoleInv'
<1>1. ConsoleTypes /\ HoldersInv /\ RefreshInv /\ MovedInv /\ LoginInv /\ ServerTypes
  BY Zenon DEF ConsoleInv, ConsoleTypes
<1>2. PICK L : L = Len(pairs) + 1
  BY Zenon
<1>3. Len(pairs) \in Nat /\ L \in Nat /\ L # None
  BY <1>1, <1>2 DEF ServerTypes, None
<1>4. /\ \A m \in Login : login[m].session \in SessionId /\ m \in Nat /\ m # None
      /\ \A r \in refreshes : /\ r.session \in SessionId /\ r.session # None
                              /\ r.renewed \in SessionId
  BY <1>1, RowFacts, Zenon
<1>5. /\ Grown /\ Len(pairs') = L /\ version' = L /\ pairs'[L].login = n /\ movedBy'[L] = None
      /\ \A i \in 1 .. Len(pairs) : movedBy'[i] = movedBy[i]
  <2>1. GenerateTokens(n) \in TokenPair /\ GenerateTokens(n).login = n
    BY <1>4, PairFacts, Zenon
  <2>2. Move(GenerateTokens(n), None) /\ None \in Tab \cup {None}
    BY Zenon DEF Succeeds
  <2> QED
    BY <1>1, <1>2, <2>1, <2>2, Moves, Zenon
<1>6. /\ SessionId \subseteq SessionId' /\ RefreshRows(SessionId) \subseteq RefreshRows(SessionId')
      /\ LoginRows(SessionId) \subseteq LoginRows(SessionId') /\ L \notin SessionId
      /\ \A i \in 1 .. Len(pairs) : pairs'[i] = pairs[i]
  BY <1>2, <1>5, GrownFacts, Zenon DEF Grown
<1>7. L \in SessionId'
  BY <1>3, <1>5 DEF SessionId
<1>8. call' \in [Call -> CallRows(SessionId')] /\ \A c \in Call : CallInv(c)'
  BY <1>5, CallsStay, Zenon DEF browserVars
<1>9. /\ login' \in [Login -> LoginRows(SessionId')] /\ login'[n].session = L
      /\ \A m \in Login \ {n} : login'[m] = login[m]
  <2>1. login \in [Login -> LoginRows(SessionId')]
    BY <1>1, <1>6 DEF ConsoleTypes
  <2>2. login' = [login EXCEPT ![n].step = "answered", ![n].session = L]
    BY <1>5, Zenon DEF Succeeds
  <2>3. login' \in [Login -> LoginRows(SessionId')]
    BY <1>7, <2>1, <2>2, Zenon DEF LoginRows
  <2>4. login'[n].session = L /\ \A m \in Login \ {n} : login'[m] = login[m]
    BY <1>7, <2>1, <2>2 DEF LoginRows
  <2> QED
    BY <2>3, <2>4, Zenon
<1>10. UNCHANGED <<storage, inFlight, refreshes>>
  BY Zenon DEF browserVars
<1>11. ConsoleTypes'
  <2>1. storage' \in SessionId' /\ inFlight' \in [Tab -> SessionId']
        /\ refreshes' \subseteq RefreshRows(SessionId')
    BY <1>1, <1>6, <1>10 DEF ConsoleTypes
  <2> QED
    BY <1>1, <1>5, <1>8, <1>9, <2>1, Zenon DEF ConsoleTypes, ConsoleConstants, Grown
<1>12. \A s \in SessionId : (Answered(s)' => Answered(s)) /\ (Renewed(s)' => Renewed(s))
  BY <1>6, <1>9, <1>10, Zenon DEF Answered, Renewed
<1>13. HoldersInv'
  <2>1. \A m \in Login : m # n => login'[m].session = login[m].session /\ login'[m].session # L
    BY <1>4, <1>6, <1>9, Zenon
  <2>2. \A m, k \in Login : login'[m].session = login'[k].session /\ login'[m].session # None => m = k
    BY <1>1, <1>9, <2>1, ZenonT(30) DEF HoldersInv
  <2>3. storage \in SessionId /\ ~Renewed(L)'
    BY <1>1, <1>4, <1>6, <1>10, Zenon DEF ConsoleTypes, Renewed
  <2>4. ASSUME NEW m \in Login, NEW s, s = login'[m].session, s # None
        PROVE  storage' # s /\ ~Renewed(s)'
    <3>1. CASE m = n
      BY <1>6, <1>9, <1>10, <2>3, <2>4, <3>1, Zenon
    <3>2. CASE m # n
      BY <1>1, <1>4, <1>10, <1>12, <2>1, <2>4, <3>2, Zenon DEF HoldersInv
    <3> QED
      BY <3>1, <3>2, Zenon
  <2>5. ASSUME NEW r \in refreshes, r.step = "ok"
        PROVE  /\ r.renewed = r.session + 1 /\ storage' # r.renewed
               /\ pairs'[r.renewed].login = pairs'[r.session].login
    <3>1. /\ r.renewed = r.session + 1 /\ storage # r.renewed
          /\ pairs[r.renewed].login = pairs[r.session].login
      BY <1>1, <2>5, Zenon DEF HoldersInv
    <3>2. r.renewed \in 1 .. Len(pairs) /\ r.session \in 1 .. Len(pairs)
      BY <1>3, <1>4, <3>1 DEF SessionId, None
    <3> QED
      BY <1>6, <1>10, <3>1, <3>2, Zenon
  <2> QED
    BY <1>1, <1>10, <2>2, <2>4, <2>5, Zenon DEF HoldersInv
<1>14. RefreshInv'
  BY <1>1, <1>4, <1>10, <1>12, Zenon DEF RefreshInv
<1>15. MovedInv'
  <2> SUFFICES ASSUME NEW s \in 1 .. Len(pairs') - 1, movedBy'[s + 1] # None
               PROVE  /\ ~Answered(s)' /\ ~Renewed(s)'
                      /\ storage' = s => \E r \in refreshes' :
                             r.tab = movedBy'[s + 1] /\ r.session = s /\ r.step = "ok"
                      /\ \A r \in refreshes' : r.tab = movedBy'[s + 1] /\ r.session = s => r.step = "ok"
    BY Zenon DEF MovedInv
  <2>1. s \in 1 .. Len(pairs) - 1 /\ movedBy'[s + 1] = movedBy[s + 1] /\ s \in SessionId
    BY <1>2, <1>3, <1>5 DEF SessionId
  <2>2. /\ ~Answered(s) /\ ~Renewed(s)
        /\ storage = s => \E r \in refreshes :
               r.tab = movedBy[s + 1] /\ r.session = s /\ r.step = "ok"
        /\ \A r \in refreshes : r.tab = movedBy[s + 1] /\ r.session = s => r.step = "ok"
    BY <1>1, <2>1, Zenon DEF MovedInv
  <2> QED
    BY <1>10, <1>12, <2>1, <2>2, Zenon
<1>16. LoginInv'
  <2>1. \A v \in 1 .. Len(pairs) : pairs'[v].login \in redeemed \cup {None} /\ pairs'[v].login # n
    BY <1>1, <1>4, <1>6, Zenon DEF LoginInv
  <2>2. \A v \in 1 .. L : v \in 1 .. Len(pairs) \/ v = L
    BY <1>2, <1>3
  <2>3. \A v \in 1 .. Len(pairs') : pairs'[v].login \in redeemed' \cup {None}
    BY <1>5, <2>1, <2>2, Zenon
  <2>4. ASSUME NEW m \in Login, NEW v, StartsLogin(m, v)'
        PROVE  IF m = n THEN v = L ELSE v \in 1 .. Len(pairs) /\ StartsLogin(m, v)
    <3>1. v \in 1 .. L /\ pairs'[v].login = m /\ (v = 1 \/ pairs'[v - 1].login # m)
      BY <1>5, <2>4, Zenon DEF StartsLogin
    <3>2. CASE m = n
      BY <2>1, <2>2, <3>1, <3>2, Zenon
    <3>3. CASE m # n
      <4>1. v \in 1 .. Len(pairs)
        BY <1>5, <2>2, <3>1, <3>3, Zenon
      <4>2. v = 1 \/ v - 1 \in 1 .. Len(pairs)
        BY <1>3, <4>1
      <4> QED
        BY <1>6, <3>1, <3>3, <4>1, <4>2, Zenon DEF StartsLogin
    <3> QED
      BY <3>2, <3>3, Zenon
  <2>5. ASSUME NEW m \in Login, NEW v, NEW w, StartsLogin(m, v)', StartsLogin(m, w)' PROVE v = w
    <3>1. CASE m = n
      BY <2>4, <2>5, <3>1
    <3>2. CASE m # n
      <4>1. /\ v \in 1 .. Len(pairs) /\ StartsLogin(m, v)
            /\ w \in 1 .. Len(pairs) /\ StartsLogin(m, w)
        BY <2>4, <2>5, <3>2
      <4> QED
        BY <1>1, <4>1, Zenon DEF LoginInv
    <3> QED
      BY <3>1, <3>2, Zenon
  <2> QED
    BY <2>3, <2>5, Zenon DEF LoginInv
<1> QED
  BY <1>8, <1>11, <1>13, <1>14, <1>15, <1>16, Zenon DEF ConsoleInv

\* What a step keeps that leaves the server's versions to themselves.
LEMMA SameServer ==
    ASSUME ConsoleInv, pairs' = pairs, UNCHANGED <<now, redeemed>>
    PROVE  /\ now' \in Nat /\ ConsoleConstants' /\ SessionId' = SessionId /\ LoginInv'
           /\ \A s : LoginOf(s)' = LoginOf(s)
<1>1. now' \in Nat /\ ConsoleConstants'
  BY Zenon DEF ConsoleInv, ConsoleTypes, ConsoleConstants
<1>2. SessionId' = SessionId /\ \A s : LoginOf(s)' = LoginOf(s)
  BY Zenon DEF SessionId, LoginOf, None
<1>3. LoginInv
  BY Zenon DEF ConsoleInv
<1>4. \A n, v : StartsLogin(n, v)' <=> StartsLogin(n, v)
  BY Zenon DEF StartsLogin
<1>5. LoginInv'
  BY <1>3, <1>4, Zenon DEF LoginInv
<1> QED
  BY <1>1, <1>2, <1>5, Zenon

LEMMA FinishLoginKeeps ==
    ASSUME ConsoleInv, NEW n \in Login, FinishLogin(n)
    PROVE  ConsoleInv'
<1>1. ConsoleTypes /\ HoldersInv /\ RefreshInv /\ MovedInv /\ ServerTypes
  BY Zenon DEF ConsoleInv, ConsoleTypes
<1>2. UNCHANGED <<now, redeemed, pairs, movedBy, inFlight, refreshes, call>> /\ UNCHANGED serverVars
  BY Zenon DEF FinishLogin, serverVars
<1>3. /\ now' \in Nat /\ ConsoleConstants' /\ SessionId' = SessionId /\ LoginInv'
  BY <1>2, SameServer, Zenon
<1>4. call' \in [Call -> CallRows(SessionId')] /\ \A c \in Call : CallInv(c)'
  BY <1>1, <1>2, Stays, CallsStay, Zenon
<1>5. PICK S : S = login[n].session
  BY Zenon
<1>6. storage' = S /\ login' = [login EXCEPT ![n] = [login[n] EXCEPT !.step = "done", !.session = None]]
  BY <1>5, Zenon DEF FinishLogin
<1>7. login \in [Login -> LoginRows(SessionId)] /\ login[n] \in LoginRows(SessionId) /\ 0 \in SessionId
  <2>1. Len(pairs) \in Nat
    BY <1>1 DEF ServerTypes
  <2> QED
    BY <1>1, <2>1 DEF ConsoleTypes, SessionId
<1>8. [login[n] EXCEPT !.step = "done", !.session = None] \in LoginRows(SessionId)
  BY <1>7, Zenon DEF LoginRows, None
<1>9. /\ login' \in [Login -> LoginRows(SessionId)] /\ login'[n].session = None
      /\ \A m \in Login \ {n} : login'[m] = login[m]
  <2>1. [login[n] EXCEPT !.step = "done", !.session = None].session = None
    BY <1>7 DEF LoginRows
  <2> QED
    BY <1>6, <1>7, <1>8, <2>1
<1>10. S \in SessionId /\ ServerTypes'
  BY <1>1, <1>2, <1>5, RowFacts, Zenon DEF ServerTypes
<1>11. ConsoleTypes'
  BY <1>1, <1>2, <1>3, <1>4, <1>6, <1>9, <1>10, Zenon DEF ConsoleTypes
<1>12. \A s : (Renewed(s)' => Renewed(s)) /\ (Answered(s)' /\ s # None => Answered(s))
  BY <1>2, <1>9, Zenon DEF Answered, Renewed
<1>13. \A r \in refreshes : r.session # None /\ r.renewed \in SessionId
  BY <1>1, RowFacts, Zenon
<1>14. S # None => Answered(S) /\ ~Renewed(S)
  BY <1>1, <1>5, Zenon DEF Answered, HoldersInv
<1>15. HoldersInv'
  <2>1. \A m \in Login : login'[m].session # None => m # n /\ login'[m].session = login[m].session
    BY <1>9, Zenon
  <2>2. \A m, k \in Login : login'[m].session = login'[k].session /\ login'[m].session # None => m = k
    BY <1>1, <2>1, ZenonT(30) DEF HoldersInv
  <2>3. ASSUME NEW m \in Login, NEW s, s = login'[m].session, s # None PROVE storage' # s /\ ~Renewed(s)'
    BY <1>1, <1>5, <1>6, <1>12, <2>1, <2>3, Zenon DEF HoldersInv
  <2>4. ASSUME NEW r \in refreshes, r.step = "ok"
        PROVE  /\ r.renewed = r.session + 1 /\ storage' # r.renewed
               /\ pairs'[r.renewed].login = pairs'[r.session].login
    <3>1. /\ r.renewed = r.session + 1 /\ pairs[r.renewed].login = pairs[r.session].login
      BY <1>1, <2>4, Zenon DEF HoldersInv
    <3>2. Renewed(r.renewed)
      BY <2>4, Zenon DEF Renewed
    <3>3. r.session \in Nat /\ r.renewed # None
      <4>1. r.session \in SessionId
        BY <1>1, RowFacts, Zenon
      <4> QED
        BY <3>1, <4>1 DEF SessionId, None
    <3> QED
      BY <1>2, <1>6, <1>14, <3>1, <3>2, <3>3, Zenon
  <2> QED
    BY <1>1, <1>2, <2>2, <2>3, <2>4, Zenon DEF HoldersInv
<1>16. RefreshInv'
  <2>1. \A r \in refreshes : ~Answered(r.session)' /\ ~Renewed(r.session)' /\ storage' # r.session
    BY <1>1, <1>6, <1>12, <1>13, <1>14, Zenon DEF RefreshInv
  <2> QED
    BY <1>1, <1>2, <2>1, Zenon DEF RefreshInv
<1>17. MovedInv'
  <2> SUFFICES ASSUME NEW s \in 1 .. Len(pairs) - 1, movedBy[s + 1] # None
               PROVE  /\ ~Answered(s)' /\ ~Renewed(s)' /\ storage' # s
                      /\ \A r \in refreshes : r.tab = movedBy[s + 1] /\ r.session = s => r.step = "ok"
    BY <1>2, Zenon DEF MovedInv
  <2>1. s # None
    BY DEF None
  <2>2. /\ ~Answered(s) /\ ~Renewed(s)
        /\ \A r \in refreshes : r.tab = movedBy[s + 1] /\ r.session = s => r.step = "ok"
    BY <1>1, Zenon DEF MovedInv
  <2> QED
    BY <1>6, <1>12, <1>14, <2>1, <2>2, Zenon
<1> QED
  BY <1>3, <1>4, <1>11, <1>15, <1>16, <1>17, Zenon DEF ConsoleInv

LEMMA StillOne ==
    ASSUME NEW R, NEW r \in R, NEW q, q.tab = r.tab, q.session = r.session,
           \A p, k \in R : p.tab = k.tab /\ p.session = k.session => p = k
    PROVE  \A p, k \in (R \ {r}) \cup {q} : p.tab = k.tab /\ p.session = k.session => p = k
<1> SUFFICES ASSUME NEW p \in (R \ {r}) \cup {q}, NEW k \in (R \ {r}) \cup {q},
                    p.tab = k.tab, p.session = k.session
             PROVE  p = k
  BY Zenon
<1>1. \A x \in R \ {r} : ~(x.tab = q.tab /\ x.session = q.session)
  BY Zenon
<1>2. CASE p = q
  BY <1>1, <1>2, Zenon
<1>3. CASE k = q
  BY <1>1, <1>3, Zenon
<1>4. CASE p # q /\ k # q
  BY <1>4, Zenon
<1> QED
  BY <1>2, <1>3, <1>4, Zenon

\* The server's refresh of a token that another one took the place of.
LEMMA RefusedKeeps ==
    ASSUME ConsoleInv, NEW r \in refreshes, NEW q, r.step # "ok", q.step \in {"refused", "error"},
           q \in RefreshRows(SessionId), q.tab = r.tab, q.session = r.session,
           refreshes' = (refreshes \ {r}) \cup {q},
           UNCHANGED <<now, serverVars, loginVars, storage, inFlight, call>>
    PROVE  ConsoleInv'
<1>1. ConsoleTypes /\ HoldersInv /\ RefreshInv /\ MovedInv /\ ServerTypes
  BY Zenon DEF ConsoleInv, ConsoleTypes
<1>2. UNCHANGED <<now, redeemed, login, pairs, movedBy, storage, inFlight, call>>
  BY Zenon DEF serverVars, loginVars
<1>3. now' \in Nat /\ ConsoleConstants' /\ SessionId' = SessionId /\ LoginInv'
  BY <1>2, SameServer, Zenon
<1>4. call' \in [Call -> CallRows(SessionId')] /\ \A c \in Call : CallInv(c)'
  BY <1>1, <1>2, Stays, CallsStay, Zenon
<1>5. ConsoleTypes'
  BY <1>1, <1>2, <1>3, <1>4, Zenon DEF ConsoleTypes, ServerTypes
<1>6. q.step # "ok"
  OBVIOUS
<1>7. \A p \in refreshes' : (p \in refreshes /\ p # r) \/ p = q
  BY Zenon
<1>8. \A s : (Answered(s)' => Answered(s)) /\ (Renewed(s)' => Renewed(s))
  BY <1>2, <1>6, <1>7, Zenon DEF Answered, Renewed
<1>9. HoldersInv'
  BY <1>1, <1>2, <1>6, <1>7, <1>8, Zenon DEF HoldersInv
<1>10. RefreshInv'
  <2>1. \A p, k \in refreshes' : p.tab = k.tab /\ p.session = k.session => p = k
    <3>1. \A p, k \in refreshes : p.tab = k.tab /\ p.session = k.session => p = k
      BY <1>1, Zenon DEF RefreshInv
    <3>2. \A p, k \in (refreshes \ {r}) \cup {q} : p.tab = k.tab /\ p.session = k.session => p = k
      BY <3>1, StillOne
    <3> QED
      BY <3>2, Zenon
  <2>2. \A p \in refreshes' : ~Answered(p.session) /\ ~Renewed(p.session) /\
            (storage = p.session => inFlight[p.tab] = p.session)
    BY <1>1, <1>7, Zenon DEF RefreshInv
  <2> QED
    BY <1>2, <1>8, <2>1, <2>2, Zenon DEF RefreshInv
<1>11. MovedInv'
  <2> SUFFICES ASSUME NEW s \in 1 .. Len(pairs') - 1, movedBy'[s + 1] # None
               PROVE  /\ ~Answered(s)' /\ ~Renewed(s)'
                      /\ storage' = s => \E p \in refreshes' :
                             p.tab = movedBy'[s + 1] /\ p.session = s /\ p.step = "ok"
                      /\ \A p \in refreshes' : p.tab = movedBy'[s + 1] /\ p.session = s => p.step = "ok"
    BY Zenon DEF MovedInv
  <2>1. /\ ~Answered(s) /\ ~Renewed(s)
        /\ storage = s => \E p \in refreshes :
               p.tab = movedBy[s + 1] /\ p.session = s /\ p.step = "ok"
        /\ \A p \in refreshes : p.tab = movedBy[s + 1] /\ p.session = s => p.step = "ok"
    BY <1>1, <1>2, Zenon DEF MovedInv
  <2> QED
    BY <1>2, <1>7, <1>8, <2>1, Zenon
<1> QED
  BY <1>3, <1>4, <1>5, <1>9, <1>10, <1>11, Zenon DEF ConsoleInv

\* The server renews a token: the answer continues the login, and is the only
\* refresh of the session by this tab.
LEMMA RenewedKeeps ==
    ASSUME ConsoleInv, NEW r \in refreshes, NEW q, q.step = "ok", r.session = Len(pairs), r.step # "ok",
           q \in RefreshRows(SessionId'), q.tab = r.tab, q.session = r.session,
           q.renewed = Len(pairs) + 1,
           Move(GenerateTokens(pairs[r.session].login), r.tab),
           refreshes' = (refreshes \ {r}) \cup {q},
           UNCHANGED <<now, loginVars, storage, inFlight, call>>
    PROVE  ConsoleInv'
<1>1. ConsoleTypes /\ HoldersInv /\ RefreshInv /\ MovedInv /\ LoginInv /\ ServerTypes
  BY Zenon DEF ConsoleInv, ConsoleTypes
<1>2. PICK L : L = Len(pairs) + 1
  BY Zenon
<1>3. /\ \A p \in refreshes : /\ p.tab \in Tab /\ p.session \in SessionId /\ p.session # None
                              /\ p.renewed \in SessionId
      /\ \A m \in Login : login[m].session \in SessionId
  BY <1>1, RowFacts, Zenon
<1>4. Len(pairs) \in Nat /\ L \in Nat /\ r.session \in 1 .. Len(pairs) /\ 0 \notin Tab
  BY <1>1, <1>2, <1>3 DEF ServerTypes, None, SessionId, ConsoleTypes, ConsoleConstants
<1>5. PICK l : l = pairs[r.session].login
  BY Zenon
<1>6. l \in Nat
  <2>1. pairs[r.session] \in TokenPair
    BY <1>1, <1>4 DEF ServerTypes
  <2> QED
    BY <1>5, <2>1 DEF TokenPair
<1>7. /\ Grown /\ Len(pairs') = L /\ pairs'[L].login = l /\ movedBy'[L] = r.tab
      /\ \A i \in 1 .. Len(pairs) : movedBy'[i] = movedBy[i]
  <2>1. GenerateTokens(l) \in TokenPair /\ GenerateTokens(l).login = l
    BY <1>6, PairFacts, Zenon
  <2>2. Move(GenerateTokens(l), r.tab) /\ r.tab \in Tab \cup {None}
    BY <1>3, <1>5, Zenon
  <2> QED
    BY <1>1, <1>2, <2>1, <2>2, Moves, Zenon
<1>8. /\ SessionId \subseteq SessionId' /\ RefreshRows(SessionId) \subseteq RefreshRows(SessionId')
      /\ LoginRows(SessionId) \subseteq LoginRows(SessionId') /\ L \notin SessionId
      /\ \A i \in 1 .. Len(pairs) : pairs'[i] = pairs[i]
  BY <1>2, <1>7, GrownFacts, Zenon DEF Grown
<1>9. UNCHANGED <<now, redeemed, login, storage, inFlight, call>>
  BY Zenon DEF loginVars
<1>10. call' \in [Call -> CallRows(SessionId')] /\ \A c \in Call : CallInv(c)'
  BY <1>7, <1>9, CallsStay, Zenon
<1>11. \A p \in refreshes' : (p \in refreshes /\ p # r) \/ p = q
  BY Zenon
<1>12. ConsoleTypes'
  <2>1. /\ storage' \in SessionId' /\ inFlight' \in [Tab -> SessionId']
        /\ login' \in [Login -> LoginRows(SessionId')]
    BY <1>1, <1>8, <1>9 DEF ConsoleTypes
  <2>2. refreshes' \subseteq RefreshRows(SessionId')
    BY <1>1, <1>8, <1>11, Zenon DEF ConsoleTypes
  <2> QED
    BY <1>1, <1>7, <1>9, <1>10, <2>1, <2>2, ZenonT(30) DEF ConsoleTypes, ConsoleConstants,
       Grown
<1>13. \A s \in SessionId : (Answered(s)' => Answered(s)) /\ (Renewed(s)' => Renewed(s))
  BY <1>2, <1>8, <1>9, <1>11, Zenon DEF Answered, Renewed
<1>14. HoldersInv'
  <2>1. ASSUME NEW m \in Login, NEW s, s = login[m].session, s # None
        PROVE  storage # s /\ ~Renewed(s)'
    BY <1>1, <1>3, <1>13, <2>1, Zenon DEF HoldersInv
  <2>2. ASSUME NEW p \in refreshes, p.step = "ok"
        PROVE  /\ p.renewed = p.session + 1 /\ storage # p.renewed
               /\ pairs'[p.renewed].login = pairs'[p.session].login
    <3>1. /\ p.renewed = p.session + 1 /\ storage # p.renewed
          /\ pairs[p.renewed].login = pairs[p.session].login
      BY <1>1, <2>2, Zenon DEF HoldersInv
    <3>2. p.renewed \in 1 .. Len(pairs) /\ p.session \in 1 .. Len(pairs)
      BY <1>3, <1>4, <3>1 DEF SessionId, None
    <3> QED
      BY <1>8, <3>1, <3>2, Zenon
  <2>3. /\ q.renewed = q.session + 1 /\ storage # q.renewed
        /\ pairs'[q.renewed].login = pairs'[q.session].login
    <3>1. storage \in SessionId
      BY <1>1, Zenon DEF ConsoleTypes
    <3> QED
      BY <1>2, <1>4, <1>5, <1>7, <1>8, <3>1, ZenonT(30)
  <2>4. \A p, k \in refreshes' : p.step = "ok" /\ k.step = "ok" /\ p.renewed = k.renewed => p = k
    <3>1. \A p \in refreshes : p.renewed # q.renewed
      BY <1>2, <1>3, <1>8, Zenon
    <3>2. \A p, k \in refreshes : p.step = "ok" /\ k.step = "ok" /\ p.renewed = k.renewed => p = k
      BY <1>1, Zenon DEF HoldersInv
    <3> QED
      BY <1>11, <3>1, <3>2, ZenonT(30)
  <2>5. \A p \in refreshes' : p.step = "ok" =>
            /\ p.renewed = p.session + 1 /\ storage # p.renewed
            /\ pairs'[p.renewed].login = pairs'[p.session].login
    BY <1>11, <2>2, <2>3, Zenon
  <2> QED
    BY <1>1, <1>9, <2>1, <2>4, <2>5, Zenon DEF HoldersInv
<1>15. RefreshInv'
  <2>1. \A p, k \in refreshes' : p.tab = k.tab /\ p.session = k.session => p = k
    <3>1. \A p, k \in refreshes : p.tab = k.tab /\ p.session = k.session => p = k
      BY <1>1, Zenon DEF RefreshInv
    <3>2. \A p, k \in (refreshes \ {r}) \cup {q} : p.tab = k.tab /\ p.session = k.session => p = k
      BY <3>1, StillOne
    <3> QED
      BY <3>2, Zenon
  <2>2. \A p \in refreshes' : p.session \in SessionId /\ ~Answered(p.session) /\ ~Renewed(p.session) /\
            (storage = p.session => inFlight[p.tab] = p.session)
    BY <1>1, <1>3, <1>11, ZenonT(30) DEF RefreshInv
  <2> QED
    BY <1>9, <1>13, <2>1, <2>2, Zenon DEF RefreshInv
<1>16. MovedInv'
  <2> SUFFICES ASSUME NEW s \in 1 .. Len(pairs') - 1, movedBy'[s + 1] # None
               PROVE  /\ ~Answered(s)' /\ ~Renewed(s)'
                      /\ storage' = s => \E p \in refreshes' :
                             p.tab = movedBy'[s + 1] /\ p.session = s /\ p.step = "ok"
                      /\ \A p \in refreshes' : p.tab = movedBy'[s + 1] /\ p.session = s => p.step = "ok"
    BY Zenon DEF MovedInv
  <2>1. s \in 1 .. Len(pairs) /\ s \in SessionId
    BY <1>2, <1>4, <1>7 DEF SessionId
  <2>2. CASE s = Len(pairs)
    <3>1. movedBy'[s + 1] = r.tab /\ s = r.session
      BY <1>2, <1>7, <2>2, Zenon
    <3>2. ~Answered(s) /\ ~Renewed(s)
      BY <1>1, <3>1, Zenon DEF RefreshInv
    <3>3. \A p \in refreshes' : p.tab = r.tab /\ p.session = s => p.step = "ok"
      BY <1>1, <1>11, <3>1, Zenon DEF RefreshInv
    <3> QED
      BY <1>13, <2>1, <3>1, <3>2, <3>3, Zenon
  <2>3. CASE s # Len(pairs)
    <3>1. s \in 1 .. Len(pairs) - 1 /\ movedBy'[s + 1] = movedBy[s + 1] /\ s # r.session
      BY <1>4, <1>7, <2>1, <2>3
    <3>2. /\ ~Answered(s) /\ ~Renewed(s)
          /\ storage = s => \E p \in refreshes :
                 p.tab = movedBy[s + 1] /\ p.session = s /\ p.step = "ok"
          /\ \A p \in refreshes : p.tab = movedBy[s + 1] /\ p.session = s => p.step = "ok"
      BY <1>1, <3>1, Zenon DEF MovedInv
    <3> QED
      BY <1>9, <1>11, <1>13, <2>1, <3>1, <3>2, ZenonT(30)
  <2> QED
    BY <2>2, <2>3, Zenon
<1>17. LoginInv'
  <2>1. \A v \in 1 .. L : v \in 1 .. Len(pairs) \/ v = L
    BY <1>2, <1>4
  <2>2. l \in redeemed \cup {None}
    BY <1>1, <1>4, <1>5, Zenon DEF LoginInv
  <2>3. \A v \in 1 .. Len(pairs') : pairs'[v].login \in redeemed' \cup {None}
    BY <1>1, <1>7, <1>8, <1>9, <2>1, <2>2, ZenonT(30) DEF LoginInv
  <2>4. ASSUME NEW m \in Login, NEW v, StartsLogin(m, v)' PROVE v \in 1 .. Len(pairs) /\ StartsLogin(m, v)
    <3>1. v \in 1 .. L /\ pairs'[v].login = m /\ (v = 1 \/ pairs'[v - 1].login # m)
      BY <1>7, <2>4, Zenon DEF StartsLogin
    <3>2. L # 1 /\ L - 1 = r.session
      BY <1>2, <1>4
    <3>3. v # L
      BY <1>4, <1>5, <1>7, <1>8, <3>1, <3>2, ZenonT(30)
    <3>4. v \in 1 .. Len(pairs)
      BY <2>1, <3>1, <3>3, Zenon
    <3>5. v = 1 \/ v - 1 \in 1 .. Len(pairs)
      BY <1>4, <3>4
    <3> QED
      BY <1>8, <3>1, <3>4, <3>5, Zenon DEF StartsLogin
  <2> QED
    BY <1>1, <2>3, <2>4, Zenon DEF LoginInv
<1> QED
  BY <1>10, <1>12, <1>14, <1>15, <1>16, <1>17, Zenon DEF ConsoleInv

LEMMA RefreshTokenKeeps ==
    ASSUME ConsoleInv, NEW r \in refreshes, RefreshToken(r)
    PROVE  ConsoleInv'
<1>1. ConsoleTypes /\ ServerTypes /\ Len(pairs) \in Nat
  BY DEF ConsoleInv, ConsoleTypes, ServerTypes
<1>2. r \in RefreshRows(SessionId) /\ r.step \in {"sent", "again"} /\ r.step # "ok"
  BY <1>1 DEF ConsoleTypes, RefreshToken
<1>3. UNCHANGED <<now, loginVars, storage, inFlight, call>>
  BY Zenon DEF RefreshToken
<1>4. CASE r.session = version /\ ValidateToken(r.session, "refresh")
  <2>1. PICK l : l = pairs[r.session].login
    BY Zenon
  <2>2. Move(GenerateTokens(l), r.tab)
        /\ refreshes' = (refreshes \ {r}) \cup {[r EXCEPT !.step = "ok", !.renewed = version']}
    BY <1>4, <2>1, Zenon DEF RefreshToken
  <2>3. pairs' = Append(pairs, GenerateTokens(l))
    BY <2>2, Zenon DEF Move
  <2>4. l \in Nat
    <3>1. r.session \in 1 .. Len(pairs)
      BY <1>1, <1>2, <1>4 DEF version, RefreshRows, SessionId
    <3>2. pairs[r.session] \in TokenPair
      BY <1>1, <3>1 DEF ServerTypes
    <3> QED
      BY <2>1, <3>2 DEF TokenPair
  <2>5. GenerateTokens(l) \in TokenPair /\ r.tab \in Tab \cup {None}
    <3>1. r.tab \in Tab
      BY <1>2 DEF RefreshRows
    <3> QED
      BY <2>4, <3>1, PairFacts, Zenon
  <2>6. Grown /\ version' = Len(pairs) + 1 /\ Len(pairs') = Len(pairs) + 1
    BY <1>1, <2>2, <2>5, Moves, Zenon
  <2>7. Len(pairs) + 1 \in SessionId'
    BY <1>1, <2>6 DEF SessionId
  <2>8. PICK q : q = [r EXCEPT !.step = "ok", !.renewed = Len(pairs) + 1]
    BY Zenon
  <2>9. r \in RefreshRows(SessionId')
    BY <1>2, <2>6, GrownFacts, Zenon
  <2>10. q \in RefreshRows(SessionId')
    BY <2>7, <2>8, <2>9, Zenon DEF RefreshRows
  <2>11. /\ q.step = "ok" /\ q.tab = r.tab /\ q.session = r.session /\ q.renewed = Len(pairs) + 1
    BY <2>8, <2>9 DEF RefreshRows
  <2>12. refreshes' = (refreshes \ {r}) \cup {q} /\ r.session = Len(pairs)
    BY <1>4, <2>2, <2>6, <2>8, Zenon DEF version
  <2> QED
    BY <1>2, <1>3, <2>1, <2>2, <2>10, <2>11, <2>12, RenewedKeeps, Zenon
<1>5. CASE ~(r.session = version /\ ValidateToken(r.session, "refresh"))
  <2>1. PICK q : q = [r EXCEPT !.step = "refused"]
    BY Zenon
  <2>2. refreshes' = (refreshes \ {r}) \cup {q} /\ UNCHANGED serverVars
    BY <1>5, <2>1, Zenon DEF RefreshToken
  <2>3. q \in RefreshRows(SessionId)
    BY <1>2, <2>1, Zenon DEF RefreshRows
  <2>4. q.step \in {"refused", "error"} /\ q.tab = r.tab /\ q.session = r.session
    BY <1>2, <2>1 DEF RefreshRows
  <2> QED
    BY <1>2, <1>3, <2>2, <2>3, <2>4, RefusedKeeps, Zenon
<1> QED
  BY <1>4, <1>5, Zenon

\* The answer with the renewed session is lost, and nobody holds that.
LEMMA AnswerLostKeeps ==
    ASSUME ConsoleInv, NEW r \in refreshes, NEW q, r.step = "ok", q.step = "error",
           q \in RefreshRows(SessionId), q.tab = r.tab, q.session = r.session,
           refreshes' = (refreshes \ {r}) \cup {q},
           movedBy' = [movedBy EXCEPT ![r.renewed] = None],
           UNCHANGED <<now, pairs, loginVars, storage, inFlight, call>>
    PROVE  ConsoleInv'
<1>1. ConsoleTypes /\ HoldersInv /\ RefreshInv /\ MovedInv /\ ServerTypes
  BY Zenon DEF ConsoleInv, ConsoleTypes
<1>2. UNCHANGED <<now, redeemed, login, pairs, storage, inFlight, call>>
  BY Zenon DEF loginVars
<1>3. now' \in Nat /\ ConsoleConstants' /\ SessionId' = SessionId /\ LoginInv'
  BY <1>2, SameServer, Zenon
<1>4. r.renewed = r.session + 1 /\ r.session \in SessionId /\ r.session # None /\ r.renewed \in SessionId
  BY <1>1, RowFacts, Zenon DEF HoldersInv
<1>5. r.renewed \in 1 .. Len(pairs)
  BY <1>1, <1>4 DEF SessionId, None, ServerTypes
<1>6. /\ ServerTypes' /\ Len(pairs) \in Nat /\ movedBy'[r.renewed] = None
      /\ \A i \in 1 .. Len(pairs) : movedBy'[i] # None => movedBy'[i] = movedBy[i] /\ i # r.renewed
  BY <1>1, <1>2, <1>5 DEF ServerTypes
<1>7. Grown
  BY <1>2, <1>6 DEF Grown
<1>8. call' \in [Call -> CallRows(SessionId')] /\ \A c \in Call : CallInv(c)'
  BY <1>2, <1>7, CallsStay, Zenon
<1>9. ConsoleTypes'
  BY <1>1, <1>2, <1>3, <1>6, <1>8, Zenon DEF ConsoleTypes
<1>10. q.step # "ok"
  OBVIOUS
<1>11. \A p \in refreshes' : (p \in refreshes /\ p # r) \/ p = q
  BY Zenon
<1>12. \A s : (Answered(s)' => Answered(s)) /\ (Renewed(s)' => Renewed(s))
  BY <1>2, <1>10, <1>11, Zenon DEF Answered, Renewed
<1>13. HoldersInv'
  BY <1>1, <1>2, <1>10, <1>11, <1>12, ZenonT(30) DEF HoldersInv
<1>14. RefreshInv'
  <2>1. \A p, k \in refreshes' : p.tab = k.tab /\ p.session = k.session => p = k
    <3>1. \A p, k \in refreshes : p.tab = k.tab /\ p.session = k.session => p = k
      BY <1>1, Zenon DEF RefreshInv
    <3>2. \A p, k \in (refreshes \ {r}) \cup {q} : p.tab = k.tab /\ p.session = k.session => p = k
      BY <3>1, StillOne
    <3> QED
      BY <3>2, Zenon
  <2>2. \A p \in refreshes' : ~Answered(p.session) /\ ~Renewed(p.session) /\
            (storage = p.session => inFlight[p.tab] = p.session)
    BY <1>1, <1>11, Zenon DEF RefreshInv
  <2> QED
    BY <1>2, <1>12, <2>1, <2>2, Zenon DEF RefreshInv
<1>15. MovedInv'
  <2> SUFFICES ASSUME NEW s \in 1 .. Len(pairs') - 1, movedBy'[s + 1] # None
               PROVE  /\ ~Answered(s)' /\ ~Renewed(s)'
                      /\ storage' = s => \E p \in refreshes' :
                             p.tab = movedBy'[s + 1] /\ p.session = s /\ p.step = "ok"
                      /\ \A p \in refreshes' : p.tab = movedBy'[s + 1] /\ p.session = s => p.step = "ok"
    BY Zenon DEF MovedInv
  <2>1. s \in 1 .. Len(pairs) - 1 /\ s + 1 \in 1 .. Len(pairs)
    BY <1>2, <1>6
  <2>2. movedBy'[s + 1] = movedBy[s + 1] /\ s # r.session
    BY <1>4, <1>6, <2>1, Zenon
  <2>3. /\ ~Answered(s) /\ ~Renewed(s)
        /\ storage = s => \E p \in refreshes :
               p.tab = movedBy[s + 1] /\ p.session = s /\ p.step = "ok"
        /\ \A p \in refreshes : p.tab = movedBy[s + 1] /\ p.session = s => p.step = "ok"
    BY <1>1, <2>1, <2>2, Zenon DEF MovedInv
  <2> QED
    BY <1>2, <1>11, <1>12, <2>2, <2>3, ZenonT(30)
<1> QED
  BY <1>3, <1>8, <1>9, <1>13, <1>14, <1>15, Zenon DEF ConsoleInv

LEMMA RefreshLostKeeps ==
    ASSUME ConsoleInv, NEW r \in refreshes, RefreshLost(r)
    PROVE  ConsoleInv'
<1>1. ConsoleTypes /\ ServerTypes /\ Len(pairs) \in Nat
  BY DEF ConsoleInv, ConsoleTypes, ServerTypes
<1>2. r \in RefreshRows(SessionId) /\ 0 \in SessionId
  BY <1>1 DEF ConsoleTypes, SessionId
<1>3. PICK q : q = [r EXCEPT !.step = "error", !.renewed = None]
  BY Zenon
<1>4. q \in RefreshRows(SessionId)
  BY <1>2, <1>3, Zenon DEF RefreshRows, None
<1>5. q.step = "error" /\ q.tab = r.tab /\ q.session = r.session
  BY <1>2, <1>3 DEF RefreshRows
<1>6. /\ refreshes' = (refreshes \ {r}) \cup {q}
      /\ UNCHANGED <<now, pairs, loginVars, storage, inFlight, call>>
  BY <1>3, Zenon DEF RefreshLost
<1>7. CASE r.step = "ok"
  <2>1. movedBy' = [movedBy EXCEPT ![r.renewed] = None]
    BY <1>7, Zenon DEF RefreshLost
  <2> QED
    BY <1>4, <1>5, <1>6, <1>7, <2>1, AnswerLostKeeps, Zenon
<1>8. CASE r.step # "ok"
  <2>1. UNCHANGED <<now, serverVars, loginVars, storage, inFlight, call>>
    BY <1>6, <1>8, Zenon DEF RefreshLost, serverVars
  <2>2. q.step \in {"refused", "error"}
    BY <1>5, Zenon
  <2> QED
    BY <1>4, <1>5, <1>6, <1>8, <2>1, <2>2, RefusedKeeps, Zenon
<1> QED
  BY <1>7, <1>8, Zenon

\* The requests that a settled refresh wakes go on under their login.
LEMMA WokenKeep ==
    ASSUME ConsoleInv, NEW r \in refreshes, RefreshSettles(r)
    PROVE  call' \in [Call -> CallRows(SessionId)] /\ \A c \in Call : CallInv(c)'
<1>1. /\ ConsoleTypes /\ HoldersInv /\ call \in [Call -> CallRows(SessionId)]
      /\ \A c \in Call : CallInv(c)
  BY Zenon DEF ConsoleInv, ConsoleTypes
<1>2. pairs' = pairs /\ UNCHANGED <<now, redeemed>>
  BY Zenon DEF RefreshSettles, serverVars, loginVars
<1>3. \A s : LoginOf(s)' = LoginOf(s)
  BY <1>2, SameServer, Zenon
<1>4. /\ r.session \in SessionId /\ r.session # None /\ r.renewed \in SessionId /\ Len(pairs) \in Nat
  <2>1. Len(pairs) \in Nat
    BY <1>1 DEF ConsoleTypes, ServerTypes
  <2> QED
    BY <1>1, <2>1, RowFacts, Zenon
<1>5. PICK next : next = IF r.step = "ok" /\ storage = r.session THEN r.renewed ELSE None
  BY Zenon
<1>6. next \in SessionId /\ (next = None \/ LoginOf(next) = LoginOf(r.session))
  <2>1. CASE r.step = "ok" /\ storage = r.session
    <3>1. next = r.renewed /\ r.renewed = r.session + 1 /\ pairs[r.renewed].login = pairs[r.session].login
      BY <1>1, <1>5, <2>1, Zenon DEF HoldersInv
    <3>2. r.renewed # None
      BY <1>4, <3>1 DEF SessionId, None
    <3> QED
      BY <1>4, <3>1, <3>2, Zenon DEF LoginOf
  <2>2. CASE ~(r.step = "ok" /\ storage = r.session)
    <3>1. next = None
      BY <1>5, <2>2, Zenon
    <3> QED
      BY <1>4, <3>1 DEF SessionId, None
  <2> QED
    BY <2>1, <2>2, Zenon
<1>7. ASSUME NEW c \in Call PROVE call'[c] \in CallRows(SessionId) /\ CallInv(c)'
  <2>1. call[c] \in CallRows(SessionId) /\ CallInv(c)
    BY <1>1
  <2>2. CASE call[c].step = "refreshing" /\ TabOf[c] = r.tab /\ call[c].session = r.session
    <3>1. call'[c] = [call[c] EXCEPT !.step = "refreshed", !.session = next]
      BY <1>5, <2>2, Zenon DEF RefreshSettles
    <3>2. call'[c] \in CallRows(SessionId)
      BY <1>6, <2>1, <3>1, Zenon DEF CallRows
    <3>3. call'[c].step = "refreshed" /\ call'[c].session = next /\ call'[c].initiating = call[c].initiating
      BY <2>1, <3>1 DEF CallRows
    <3>4. call[c].initiating = r.session
      BY <2>1, <2>2, Zenon DEF CallInv
    <3>5. next = None \/ LoginOf(next)' = LoginOf(r.session)'
      BY <1>3, <1>6, Zenon
    <3>6. "refreshed" # "refreshing" /\ "refreshed" # "sent"
      OBVIOUS
    <3> QED
      BY <3>2, <3>3, <3>4, <3>5, <3>6, Zenon DEF CallInv, LoginOf
  <2>3. CASE ~(call[c].step = "refreshing" /\ TabOf[c] = r.tab /\ call[c].session = r.session)
    <3>1. call'[c] = call[c]
      BY <2>3, Zenon DEF RefreshSettles
    <3> QED
      BY <1>2, <2>1, <3>1, Zenon DEF CallInv, LoginOf
  <2> QED
    BY <2>2, <2>3, Zenon
<1>8. call' \in [Call -> CallRows(SessionId)]
  <2>1. call' = [c \in Call |-> call'[c]]
    BY Zenon DEF RefreshSettles
  <2> QED
    BY <1>7, <2>1, Zenon
<1> QED
  BY <1>7, <1>8, Zenon

LEMMA RefreshSettlesKeeps ==
    ASSUME ConsoleInv, NEW r \in refreshes, RefreshSettles(r)
    PROVE  ConsoleInv'
<1>1. ConsoleTypes /\ HoldersInv /\ RefreshInv /\ MovedInv /\ ServerTypes
  BY Zenon DEF ConsoleInv, ConsoleTypes
<1>2. UNCHANGED <<now, redeemed, login, pairs, movedBy>>
  BY Zenon DEF RefreshSettles, serverVars, loginVars
<1>3. now' \in Nat /\ ConsoleConstants' /\ SessionId' = SessionId /\ LoginInv'
  BY <1>2, SameServer, Zenon
<1>4. call' \in [Call -> CallRows(SessionId')] /\ \A c \in Call : CallInv(c)'
  BY <1>3, WokenKeep, Zenon
<1>5. /\ r.tab \in Tab /\ r.session \in SessionId /\ r.session # None /\ r.renewed \in SessionId
      /\ \A p \in refreshes : p.tab \in Tab /\ p.session # None
  BY <1>1, RowFacts, Zenon
<1>6. 0 \in SessionId /\ Len(pairs) \in Nat
  BY <1>1 DEF ServerTypes, SessionId
<1>7. /\ refreshes' = refreshes \ {r} /\ storage' = settled(r)
      /\ inFlight' = [inFlight EXCEPT ![r.tab] = IF inFlight[r.tab] = r.session THEN None ELSE inFlight[r.tab]]
      /\ r.step \in {"ok", "refused", "error"}
  BY Zenon DEF RefreshSettles
<1>8. /\ inFlight' \in [Tab -> SessionId]
      /\ \A t \in Tab : inFlight'[t] = inFlight[t] \/ (t = r.tab /\ inFlight[t] = r.session)
  BY <1>1, <1>5, <1>6, <1>7 DEF ConsoleTypes, None
<1>9. \/ storage # r.session /\ storage' = storage
      \/ storage = r.session /\ r.step = "ok" /\ storage' = r.renewed
      \/ storage = r.session /\ storage' = None
      \/ storage = r.session /\ r.step = "error" /\ storage' = storage
  BY <1>7 DEF settled
<1>10. storage' \in SessionId /\ refreshes' \subseteq RefreshRows(SessionId) /\ ServerTypes'
  BY <1>1, <1>2, <1>5, <1>6, <1>7, <1>9 DEF ConsoleTypes, ServerTypes, None
<1>11. ConsoleTypes'
  BY <1>1, <1>2, <1>3, <1>4, <1>8, <1>10, Zenon DEF ConsoleTypes
<1>12. \A s : (Answered(s)' => Answered(s)) /\ (Renewed(s)' => Renewed(s))
  BY <1>2, <1>7, Zenon DEF Answered, Renewed
<1>13. r.step = "ok" => Renewed(r.renewed)
  BY Zenon DEF Renewed
<1>14. HoldersInv'
  <2>1. ASSUME NEW n \in Login, NEW s, s = login[n].session, s # None PROVE storage' # s /\ ~Renewed(s)'
    <3>1. storage # s /\ ~Renewed(s)
      BY <1>1, <2>1, Zenon DEF HoldersInv
    <3> QED
      BY <1>9, <1>12, <1>13, <2>1, <3>1, Zenon
  <2>2. ASSUME NEW p \in refreshes', p.step = "ok"
        PROVE  /\ p.renewed = p.session + 1 /\ storage' # p.renewed
               /\ pairs[p.renewed].login = pairs[p.session].login
    <3>1. /\ p.renewed = p.session + 1 /\ storage # p.renewed
          /\ pairs[p.renewed].login = pairs[p.session].login
          /\ r.step = "ok" => p.renewed # r.renewed
      BY <1>1, <1>7, <2>2, Zenon DEF HoldersInv
    <3>2. p.renewed # None
      <4>1. p.session \in SessionId
        BY <1>1, <1>7, RowFacts, Zenon
      <4> QED
        BY <1>6, <3>1, <4>1 DEF SessionId, None
    <3> QED
      BY <1>9, <3>1, <3>2, Zenon
  <2>3. \A p, k \in refreshes' : p.step = "ok" /\ k.step = "ok" /\ p.renewed = k.renewed => p = k
    BY <1>1, <1>7, Zenon DEF HoldersInv
  <2> QED
    BY <1>1, <1>2, <2>1, <2>2, <2>3, Zenon DEF HoldersInv
<1>15. RefreshInv'
  <2>1. \A p, k \in refreshes' : p.tab = k.tab /\ p.session = k.session => p = k
    BY <1>1, <1>7, Zenon DEF RefreshInv
  <2>2. ASSUME NEW p \in refreshes' PROVE ~Answered(p.session) /\ ~Renewed(p.session)
    BY <1>1, <1>7, Zenon DEF RefreshInv
  <2>3. ASSUME NEW p \in refreshes', storage' = p.session PROVE inFlight'[p.tab] = p.session
    <3>1. p \in refreshes /\ p # r /\ p.tab \in Tab /\ p.session # None
      BY <1>5, <1>7, Zenon
    <3>2. storage' = storage
      BY <1>9, <1>13, <2>2, <2>3, <3>1, Zenon
    <3>3. inFlight[p.tab] = p.session
      BY <1>1, <2>3, <3>1, <3>2, Zenon DEF RefreshInv
    <3>4. ~(p.tab = r.tab /\ p.session = r.session)
      BY <1>1, <3>1, Zenon DEF RefreshInv
    <3> QED
      BY <1>8, <3>1, <3>3, <3>4, Zenon
  <2> QED
    BY <1>12, <2>1, <2>2, <2>3, Zenon DEF RefreshInv
<1>16. MovedInv'
  <2> SUFFICES ASSUME NEW s \in 1 .. Len(pairs') - 1, movedBy'[s + 1] # None
               PROVE  /\ ~Answered(s)' /\ ~Renewed(s)'
                      /\ storage' = s => \E p \in refreshes' :
                             p.tab = movedBy'[s + 1] /\ p.session = s /\ p.step = "ok"
                      /\ \A p \in refreshes' : p.tab = movedBy'[s + 1] /\ p.session = s => p.step = "ok"
    BY Zenon DEF MovedInv
  <2>1. s # None
    BY <1>2, <1>6 DEF None
  <2>2. /\ ~Answered(s) /\ ~Renewed(s)
        /\ storage = s => \E p \in refreshes :
               p.tab = movedBy[s + 1] /\ p.session = s /\ p.step = "ok"
        /\ \A p \in refreshes : p.tab = movedBy[s + 1] /\ p.session = s => p.step = "ok"
    BY <1>1, <1>2, Zenon DEF MovedInv
  <2>3. ASSUME storage' = s PROVE storage = s /\ (r.session # s \/ r.step # "ok")
    <3>1. \/ storage # r.session /\ storage' = storage
          \/ storage = r.session /\ r.step = "error" /\ storage' = storage
      BY <1>9, <1>13, <2>1, <2>2, <2>3, ZenonT(30)
    <3> QED
      BY <2>3, <3>1
  <2>4. ASSUME storage' = s
        PROVE  \E p \in refreshes' : p.tab = movedBy[s + 1] /\ p.session = s /\ p.step = "ok"
    BY <1>7, <2>2, <2>3, <2>4, Zenon
  <2> QED
    BY <1>2, <1>7, <1>12, <2>2, <2>4, Zenon
<1> QED
  BY <1>3, <1>4, <1>11, <1>14, <1>15, <1>16, Zenon DEF ConsoleInv

\* A page asks for a refresh of the stored session, or for none.
LEMMA RequestsKeep ==
    ASSUME ConsoleInv, NEW t \in Tab, UNCHANGED <<now, serverVars, loginVars, storage>>,
           UNCHANGED <<inFlight, refreshes>> \/ (storage # None /\ refresh(t, storage)),
           call' \in [Call -> CallRows(SessionId)], \A c \in Call : CallInv(c)'
    PROVE  ConsoleInv'
<1>1. ConsoleTypes /\ HoldersInv /\ RefreshInv /\ MovedInv /\ ServerTypes
  BY Zenon DEF ConsoleInv, ConsoleTypes
<1>2. UNCHANGED <<now, redeemed, login, pairs, movedBy, storage>>
  BY Zenon DEF serverVars, loginVars
<1>3. now' \in Nat /\ ConsoleConstants' /\ SessionId' = SessionId /\ LoginInv'
  BY <1>2, SameServer, Zenon
<1>4. CASE UNCHANGED <<inFlight, refreshes>>
  <2>1. ConsoleTypes'
    BY <1>1, <1>2, <1>3, <1>4, Zenon DEF ConsoleTypes, ServerTypes
  <2>2. \A s : (Answered(s)' => Answered(s)) /\ (Renewed(s)' => Renewed(s))
    BY <1>2, <1>4, Zenon DEF Answered, Renewed
  <2>3. HoldersInv'
    BY <1>1, <1>2, <1>4, <2>2, Zenon DEF HoldersInv
  <2>4. RefreshInv'
    BY <1>1, <1>2, <1>4, <2>2, Zenon DEF RefreshInv
  <2>5. MovedInv'
    BY <1>1, <1>2, <1>4, ZenonT(30) DEF MovedInv, Answered, Renewed
  <2> QED
    BY <1>3, <2>1, <2>3, <2>4, <2>5, Zenon DEF ConsoleInv
<1>5. CASE storage # None /\ refresh(t, storage) /\ ~UNCHANGED <<inFlight, refreshes>>
  <2>1. PICK q : q = [tab |-> t, session |-> storage, step |-> "sent", renewed |-> None]
    BY Zenon
  <2>2. /\ inFlight[t] # storage /\ refreshes' = refreshes \cup {q}
        /\ inFlight' = [inFlight EXCEPT ![t] = storage]
    BY <1>5, <2>1, Zenon DEF refresh
  <2>3. storage \in SessionId /\ storage # None /\ 0 \in SessionId
    <3>1. Len(pairs) \in Nat
      BY <1>1 DEF ServerTypes
    <3> QED
      BY <1>1, <1>5, <3>1 DEF ConsoleTypes, SessionId
  <2>4. q \in RefreshRows(SessionId) /\ q.tab = t /\ q.session = storage /\ q.step # "ok"
    BY <2>1, <2>3 DEF RefreshRows, None
  <2>5. /\ inFlight' \in [Tab -> SessionId] /\ inFlight'[t] = storage
        /\ \A k \in Tab \ {t} : inFlight'[k] = inFlight[k]
    BY <1>1, <2>2, <2>3 DEF ConsoleTypes
  <2>6. ConsoleTypes'
    BY <1>1, <1>2, <1>3, <2>2, <2>4, <2>5, Zenon DEF ConsoleTypes, ServerTypes
  <2>7. \A s : (Answered(s)' => Answered(s)) /\ (Renewed(s)' => Renewed(s))
    BY <1>2, <2>2, <2>4, Zenon DEF Answered, Renewed
  <2>8. ~Answered(storage) /\ ~Renewed(storage)
    BY <1>1, <2>3, Zenon DEF HoldersInv, Answered, Renewed
  <2>9. \A p \in refreshes : p.tab \in Tab /\ ~(p.tab = t /\ p.session = storage)
    BY <1>1, <2>2, RowFacts, Zenon DEF RefreshInv
  <2>10. \A p \in refreshes' : p \in refreshes \/ p = q
    BY <2>2, Zenon
  <2>11. HoldersInv'
    BY <1>1, <1>2, <2>4, <2>7, <2>10, Zenon DEF HoldersInv
  <2>12. RefreshInv'
    <3>1. \A p, k \in refreshes : p.tab = k.tab /\ p.session = k.session => p = k
      BY <1>1, Zenon DEF RefreshInv
    <3>2. ASSUME NEW p \in refreshes', NEW k \in refreshes', p.tab = k.tab, p.session = k.session
          PROVE  p = k
      BY <2>4, <2>9, <2>10, <3>1, <3>2, Zenon
    <3>3. ASSUME NEW p \in refreshes' PROVE ~Answered(p.session) /\ ~Renewed(p.session)
      BY <1>1, <2>4, <2>8, <2>10, Zenon DEF RefreshInv
    <3>4. ASSUME NEW p \in refreshes', storage = p.session PROVE inFlight'[p.tab] = p.session
      <4>1. CASE p = q
        BY <2>4, <2>5, <4>1, Zenon
      <4>2. CASE p \in refreshes
        BY <1>1, <2>5, <2>9, <3>4, <4>2, Zenon DEF RefreshInv
      <4> QED
        BY <2>10, <4>1, <4>2, Zenon
    <3> QED
      BY <1>2, <2>7, <3>2, <3>3, <3>4, Zenon DEF RefreshInv
  <2>13. MovedInv'
    <3> SUFFICES ASSUME NEW s \in 1 .. Len(pairs') - 1, movedBy'[s + 1] # None
                 PROVE  /\ ~Answered(s)' /\ ~Renewed(s)'
                        /\ storage' = s => \E p \in refreshes' :
                               p.tab = movedBy'[s + 1] /\ p.session = s /\ p.step = "ok"
                        /\ \A p \in refreshes' : p.tab = movedBy'[s + 1] /\ p.session = s => p.step = "ok"
      BY Zenon DEF MovedInv
    <3>1. /\ ~Answered(s) /\ ~Renewed(s)
          /\ storage = s => \E p \in refreshes :
                 p.tab = movedBy[s + 1] /\ p.session = s /\ p.step = "ok"
          /\ \A p \in refreshes : p.tab = movedBy[s + 1] /\ p.session = s => p.step = "ok"
      BY <1>1, <1>2, Zenon DEF MovedInv
    <3>2. storage = s => movedBy[s + 1] # t
      BY <2>9, <3>1, Zenon
    <3>3. \A p \in refreshes' : p.tab = movedBy[s + 1] /\ p.session = s => p.step = "ok"
      BY <2>4, <2>10, <3>1, <3>2, Zenon
    <3>4. storage = s => \E p \in refreshes' :
              p.tab = movedBy[s + 1] /\ p.session = s /\ p.step = "ok"
      BY <2>2, <3>1, Zenon
    <3> QED
      BY <1>2, <2>7, <3>1, <3>3, <3>4, Zenon
  <2> QED
    BY <1>3, <2>6, <2>11, <2>12, <2>13, Zenon DEF ConsoleInv
<1> QED
  BY <1>4, <1>5, Zenon

\* A request goes on: the others stay as they are.
LEMMA CallGoes ==
    ASSUME ConsoleInv, pairs' = pairs, UNCHANGED <<now, redeemed>>,
           NEW c \in Call, NEW row \in CallRows(SessionId), call' = [call EXCEPT ![c] = row],
           row.step = "refreshing" => row.session = row.initiating,
           row.step # "refreshed",
           row.step = "sent" => LoginOf(row.session) = LoginOf(row.initiating)
    PROVE  call' \in [Call -> CallRows(SessionId)] /\ \A k \in Call : CallInv(k)'
<1>1. call \in [Call -> CallRows(SessionId)] /\ \A k \in Call : CallInv(k)
  BY Zenon DEF ConsoleInv, ConsoleTypes
<1>2. /\ call' \in [Call -> CallRows(SessionId)] /\ call'[c] = row
      /\ \A k \in Call \ {c} : call'[k] = call[k]
  BY <1>1, Zenon
<1>3. ASSUME NEW k \in Call PROVE CallInv(k)'
  <2>1. CASE k = c
    BY <1>2, <2>1, Zenon DEF CallInv, LoginOf
  <2>2. CASE k # c
    <3>1. call'[k] = call[k] /\ CallInv(k)
      BY <1>1, <1>2, <2>2, Zenon
    <3> QED
      BY <3>1, Zenon DEF CallInv, LoginOf
  <2> QED
    BY <2>1, <2>2, Zenon
<1> QED
  BY <1>2, <1>3, Zenon

LEMMA IdleFacts ==
    ASSUME ConsoleInv
    PROVE  Idle \in CallRows(SessionId) /\ Idle.step = "idle"
<1>1. Len(pairs) \in Nat
  BY DEF ConsoleInv, ConsoleTypes, ServerTypes
<1> QED
  BY <1>1 DEF Idle, CallRows, SessionId, None

LEMMA BeginKeeps ==
    ASSUME ConsoleInv, NEW c \in Call, Begin(c)
    PROVE  ConsoleInv'
<1>1. storage \in SessionId /\ TabOf[c] \in Tab
  <2>1. ConsoleTypes
    BY Zenon DEF ConsoleInv
  <2> QED
    BY <2>1, RowFacts, Zenon DEF ConsoleTypes
<1>2. pairs' = pairs /\ UNCHANGED <<now, redeemed>> /\ UNCHANGED <<now, serverVars, loginVars, storage>>
  BY Zenon DEF Begin, serverVars, loginVars
<1>3. CASE storage # None /\ expiring(storage)
  <2>1. PICK row : row = [step |-> "refreshing", initiating |-> storage, session |-> storage,
                          attempted |-> TRUE]
    BY Zenon
  <2>2. refresh(TabOf[c], storage) /\ call' = [call EXCEPT ![c] = row]
    BY <1>3, <2>1, Zenon DEF Begin
  <2>3. row \in CallRows(SessionId)
    BY <1>1, <2>1, Zenon DEF CallRows
  <2>4. row.session = row.initiating /\ row.step # "refreshed" /\ row.step # "sent"
    BY <2>1
  <2>5. call' \in [Call -> CallRows(SessionId)] /\ \A k \in Call : CallInv(k)'
    BY <1>2, <2>2, <2>3, <2>4, CallGoes, Zenon
  <2> QED
    BY <1>1, <1>2, <1>3, <2>2, <2>5, RequestsKeep, Zenon
<1>4. CASE ~(storage # None /\ expiring(storage))
  <2>1. PICK row : row = [step |-> "sent", initiating |-> storage, session |-> storage,
                          attempted |-> FALSE]
    BY Zenon
  <2>2. UNCHANGED <<inFlight, refreshes>> /\ call' = [call EXCEPT ![c] = row]
    BY <1>4, <2>1, Zenon DEF Begin
  <2>3. row \in CallRows(SessionId)
    BY <1>1, <2>1, Zenon DEF CallRows
  <2>4. row.session = row.initiating /\ row.step # "refreshed" /\ row.step # "refreshing"
    BY <2>1
  <2>5. call' \in [Call -> CallRows(SessionId)] /\ \A k \in Call : CallInv(k)'
    BY <1>2, <2>2, <2>3, <2>4, CallGoes, Zenon
  <2> QED
    BY <1>1, <1>2, <2>2, <2>5, RequestsKeep, Zenon
<1> QED
  BY <1>3, <1>4, Zenon

LEMMA CallStepKeeps ==
    ASSUME ConsoleInv, NEW c \in Call, CallStep(c)
    PROVE  ConsoleInv'
<1>1. /\ storage \in SessionId /\ TabOf[c] \in Tab /\ call[c] \in CallRows(SessionId) /\ CallInv(c)
      /\ call \in [Call -> CallRows(SessionId)]
  <2>1. ConsoleTypes /\ CallInv(c)
    BY Zenon DEF ConsoleInv
  <2> QED
    BY <2>1, RowFacts, Zenon DEF ConsoleTypes
<1>2. pairs' = pairs /\ UNCHANGED <<now, redeemed>> /\ UNCHANGED <<now, serverVars, loginVars, storage>>
  BY Zenon DEF CallStep, Resume, Handle, Retry, serverVars, loginVars
<1>3. Idle \in CallRows(SessionId) /\ Idle.step \notin {"refreshing", "refreshed", "sent"}
  BY IdleFacts
<1>4. ASSUME NEW row \in CallRows(SessionId), call' = [call EXCEPT ![c] = row],
             row.step = "refreshing" => row.session = row.initiating, row.step # "refreshed",
             row.step = "sent" => LoginOf(row.session) = LoginOf(row.initiating),
             UNCHANGED <<inFlight, refreshes>> \/ (storage # None /\ refresh(TabOf[c], storage))
      PROVE  ConsoleInv'
  <2>1. call' \in [Call -> CallRows(SessionId)] /\ \A k \in Call : CallInv(k)'
    BY <1>2, <1>4, CallGoes, Zenon
  <2> QED
    BY <1>1, <1>2, <1>4, <2>1, RequestsKeep, ZenonT(30)
<1>5. ASSUME call' = [call EXCEPT ![c] = Idle], UNCHANGED <<inFlight, refreshes>> PROVE ConsoleInv'
  BY <1>3, <1>4, <1>5, Zenon
<1>6. CASE Resume(c)
  <2>1. PICK row : row = [call[c] EXCEPT !.step = "sent"]
    BY Zenon
  <2>2. /\ call' = [call EXCEPT ![c] = IF call[c].session # None /\ storage = call[c].session
                                       THEN row ELSE Idle]
        /\ UNCHANGED <<inFlight, refreshes>> /\ call[c].step = "refreshed"
    BY <1>6, <2>1, Zenon DEF Resume
  <2>3. row \in CallRows(SessionId)
    BY <1>1, <2>1, Zenon DEF CallRows
  <2>4. row.step = "sent" /\ row.session = call[c].session /\ row.initiating = call[c].initiating
    BY <1>1, <2>1 DEF CallRows
  <2>5. call[c].session # None => LoginOf(row.session) = LoginOf(row.initiating)
    BY <1>1, <2>2, <2>4, Zenon DEF CallInv
  <2>6. row.step # "refreshing" /\ row.step # "refreshed"
    BY <2>4
  <2>7. CASE call[c].session # None /\ storage = call[c].session
    <3>1. call' = [call EXCEPT ![c] = row]
      BY <2>2, <2>7, Zenon
    <3> QED
      BY <1>4, <2>2, <2>3, <2>5, <2>6, <2>7, <3>1, ZenonT(30)
  <2>8. CASE ~(call[c].session # None /\ storage = call[c].session)
    <3>1. call' = [call EXCEPT ![c] = Idle]
      BY <2>2, <2>8, Zenon
    <3> QED
      BY <1>5, <2>2, <3>1, Zenon
  <2> QED
    BY <2>7, <2>8, Zenon
<1>7. CASE Handle(c)
  <2>1. PICK row : row = [call[c] EXCEPT !.step = "refused"]
    BY Zenon
  <2>2. call' = [call EXCEPT ![c] = row] \/ call' = [call EXCEPT ![c] = Idle]
    <3>1. PICK p \in Called :
              call' = [call EXCEPT ![c] = IF WrapUnary(p, call[c].session) = "unauthenticated"
                                          THEN row ELSE Idle]
      BY <1>7, <2>1, Zenon DEF Handle
    <3> QED
      BY <3>1, Zenon
  <2>3. UNCHANGED <<inFlight, refreshes>>
    BY <1>7, Zenon DEF Handle
  <2>4. row \in CallRows(SessionId)
    BY <1>1, <2>1, Zenon DEF CallRows
  <2>5. row.step = "refused"
    BY <1>1, <2>1 DEF CallRows
  <2>6. row.step # "sent" /\ row.step # "refreshing" /\ row.step # "refreshed"
    BY <2>5
  <2> QED
    BY <1>4, <1>5, <2>2, <2>3, <2>4, <2>6, Zenon
<1>8. CASE Retry(c)
  <2>1. CASE call[c].attempted \/ storage = None \/ storage # call[c].initiating
    <3>1. call' = [call EXCEPT ![c] = Idle] /\ UNCHANGED <<inFlight, refreshes>>
      BY <1>8, <2>1, Zenon DEF Retry
    <3> QED
      BY <1>5, <3>1, Zenon
  <2>2. CASE ~(call[c].attempted \/ storage = None \/ storage # call[c].initiating)
    <3>1. PICK row : row = [call[c] EXCEPT !.step = "refreshing", !.session = storage, !.attempted = TRUE]
      BY Zenon
    <3>2. /\ storage # None /\ storage = call[c].initiating /\ refresh(TabOf[c], storage)
          /\ call' = [call EXCEPT ![c].step = "refreshing", ![c].session = storage, ![c].attempted = TRUE]
      BY <1>8, <2>2, Zenon DEF Retry, Refreshing
    <3>3. call' = [call EXCEPT ![c] = row]
      BY <3>1, <3>2, Zenon
    <3>4. row \in CallRows(SessionId)
      BY <1>1, <3>1, Zenon DEF CallRows
    <3>5. row.step = "refreshing" /\ row.session = storage /\ row.initiating = call[c].initiating
      BY <1>1, <3>1 DEF CallRows
    <3>6. row.session = row.initiating /\ row.step # "refreshed" /\ row.step # "sent"
      BY <3>2, <3>5
    <3> QED
      BY <1>4, <3>2, <3>3, <3>4, <3>6, Zenon
  <2> QED
    BY <2>1, <2>2, Zenon
<1> QED
  BY <1>6, <1>7, <1>8, Zenon DEF CallStep

LEMMA SSOCallbackKeeps ==
    ASSUME ConsoleInv, NEW n \in Login, SSOCallback(n)
    PROVE  ConsoleInv'
<1>1. UNCHANGED <<now, browserVars>>
  BY Zenon DEF SSOCallback
<1>2. \/ Fails(n) /\ redeemed \subseteq redeemed'
      \/ Succeeds(n) /\ n \notin redeemed /\ redeemed' = redeemed \cup {n}
  <2>1. AuthCodeURL(transaction(n)).state = n
    BY DEF AuthCodeURL, transaction, SignOIDCTransaction
  <2> QED
    BY <2>1, Zenon DEF SSOCallback, ExchangeCode, Exchange
<1> QED
  BY <1>1, <1>2, LoginActionsKeep, SucceedsKeeps, Zenon

LEMMA ConsoleStep ==
    ASSUME ConsoleInv, [Next]_vars
    PROVE  ConsoleInv'
<1>1. CASE \E n \in Login : GetSSOLoginURL(n) \/ SSOCallback(n) \/ FinishLogin(n) \/ ReloadCallback(n)
  BY <1>1, LoginActionsKeep, SSOCallbackKeeps, FinishLoginKeeps, Zenon
<1>2. CASE Logout \/ RevokeUserSessions \/ Tick \/ UNCHANGED vars
  BY <1>2, QuietActionsKeep, Zenon
<1>3. CASE RefreshStep \/ \E r \in refreshes : RefreshLost(r)
  BY <1>3, RefreshTokenKeeps, RefreshSettlesKeeps, RefreshLostKeeps, Zenon DEF RefreshStep
<1>4. CASE \E c \in Call : Begin(c) \/ CallStep(c)
  BY <1>4, BeginKeeps, CallStepKeeps, Zenon
<1> QED
  BY <1>1, <1>2, <1>3, <1>4, Zenon DEF Next

-------------------------------------------------------------------------------
(* What follows. *)

LEMMA RefreshesOnce ==
    ASSUME ConsoleInv
    PROVE  RefreshedOnce
<1>1. ConsoleTypes /\ MovedInv /\ ServerTypes /\ 0 \notin Tab
  BY Zenon DEF ConsoleInv, ConsoleTypes, ConsoleConstants
<1>2. ASSUME NEW r \in refreshes, r.step = "refused", r.session # version, movedBy[r.session + 1] = r.tab
      PROVE  FALSE
  <2>1. r.tab \in Tab /\ r.session \in SessionId /\ r.session # None
    BY <1>1, RowFacts, Zenon
  <2>2. r.session \in 1 .. Len(pairs) - 1
    BY <1>1, <1>2, <2>1 DEF SessionId, None, version, ServerTypes
  <2>3. movedBy[r.session + 1] # None
    BY <1>1, <1>2, <2>1, Zenon DEF None
  <2>4. r.step = "ok"
    BY <1>1, <1>2, <2>2, <2>3, Zenon DEF MovedInv
  <2> QED
    BY <1>2, <2>4
<1> QED
  BY <1>2, Zenon DEF RefreshedOnce

INSTANCE FiniteSetTheorems

LEMMA OneSession ==
    ASSUME ConsoleInv
    PROVE  OneSessionPerLogin
<1> SUFFICES ASSUME NEW n \in Login
             PROVE  Cardinality({v \in 1 .. version : /\ pairs[v].login = n
                                                      /\ v = 1 \/ pairs[v - 1].login # n}) <= 1
  BY Zenon DEF OneSessionPerLogin
<1>1. PICK V : V = {v \in 1 .. version : pairs[v].login = n /\ (v = 1 \/ pairs[v - 1].login # n)}
  BY Zenon
<1>2. \A v, w \in V : v = w
  <2>1. LoginInv /\ \A v \in V : v \in 1 .. Len(pairs) /\ StartsLogin(n, v)
    BY <1>1, Zenon DEF ConsoleInv, StartsLogin, version
  <2> QED
    BY <2>1, Zenon DEF LoginInv
<1>3. V = {} \/ \E v : V = {v}
  <2>1. ASSUME NEW v \in V PROVE V = {v}
    BY <1>2, <2>1
  <2> QED
    BY <2>1, Zenon
<1>4. Cardinality(V) <= 1
  <2>1. CASE V = {}
    <3>1. Cardinality(V) = 0
      BY <2>1, FS_EmptySet, Zenon
    <3> QED
      BY <3>1
  <2>2. CASE \E v : V = {v}
    <3>1. Cardinality(V) = 1
      BY <2>2, FS_Singleton, Zenon
    <3> QED
      BY <3>1
  <2> QED
    BY <1>3, <2>1, <2>2, Zenon
<1> QED
  BY <1>1, <1>4, Zenon

\* The stored session changes with its login, or to none.
StoredApart ==
    storage' \notin {storage, None} =>
        \/ \E n \in Login : login[n].step = "answered" /\ storage' = login[n].session
        \/ storage # None /\ LoginOf(storage') = LoginOf(storage)

LEMMA StorageStep ==
    ASSUME ConsoleInv, [Next]_vars
    PROVE  StoredApart
<1>1. CASE \E n \in Login : FinishLogin(n)
  BY <1>1, Zenon DEF FinishLogin, StoredApart
<1>2. ASSUME NEW r \in refreshes, RefreshSettles(r) PROVE StoredApart
  <2>1. HoldersInv /\ ConsoleTypes
    BY Zenon DEF ConsoleInv
  <2>2. r.session # None /\ r.session \in SessionId /\ Len(pairs) \in Nat
    <3>1. Len(pairs) \in Nat
      BY <2>1 DEF ConsoleTypes, ServerTypes
    <3> QED
      BY <2>1, <3>1, RowFacts, Zenon
  <2>3. \/ storage' \in {storage, None}
        \/ storage = r.session /\ r.step = "ok" /\ storage' = r.renewed
    BY <1>2, Zenon DEF RefreshSettles, settled
  <2>4. ASSUME storage = r.session, r.step = "ok", storage' = r.renewed
        PROVE  storage # None /\ LoginOf(storage') = LoginOf(storage)
    <3>1. r.renewed = r.session + 1 /\ pairs[r.renewed].login = pairs[r.session].login
      BY <2>1, <2>4, Zenon DEF HoldersInv
    <3>2. r.renewed # None
      BY <2>2, <3>1 DEF SessionId, None
    <3> QED
      BY <2>2, <2>4, <3>1, <3>2, Zenon DEF LoginOf
  <2> QED
    BY <2>3, <2>4, Zenon DEF StoredApart
<1>3. ASSUME storage' \in {storage, None} PROVE StoredApart
  BY <1>3, Zenon DEF StoredApart
<1>4. ASSUME NEW n \in Login, GetSSOLoginURL(n) \/ SSOCallback(n) \/ ReloadCallback(n) PROVE storage' = storage
  BY <1>4, Zenon DEF GetSSOLoginURL, SSOCallback, ReloadCallback, browserVars
<1>5. ASSUME Logout \/ RevokeUserSessions \/ Tick \/ UNCHANGED vars PROVE storage' \in {storage, None}
  BY <1>5, Zenon DEF Logout, RevokeUserSessions, Tick, vars, browserVars
<1>6. ASSUME NEW r \in refreshes, RefreshToken(r) \/ RefreshLost(r) PROVE storage' = storage
  BY <1>6, Zenon DEF RefreshToken, RefreshLost
<1>7. ASSUME NEW c \in Call, Begin(c) \/ CallStep(c) PROVE storage' = storage
  BY <1>7, Zenon DEF Begin, CallStep, Resume, Handle, Retry
<1> QED
  BY <1>1, <1>2, <1>3, <1>4, <1>5, <1>6, <1>7, ZenonT(30) DEF Next, RefreshStep

LEMMA ConstantsHold == ConsoleConstants
BY ConsoleAssumption DEF ConsoleConstants

\* A tab does not lose its session to itself, in any number of tabs, requests and
\* refreshes: a refused refresh is of a version that this tab has not had renewed.
THEOREM AlwaysRefreshedOnce == Spec => []RefreshedOnce
<1>1. Init => ConsoleInv
  BY ConsoleInit, ConstantsHold, Zenon
<1>2. ConsoleInv /\ [Next]_vars => ConsoleInv'
  BY ConsoleStep, Zenon
<1>3. ConsoleInv => RefreshedOnce
  BY RefreshesOnce, ZenonT(30)
<1> QED
  BY <1>1, <1>2, <1>3, PTL DEF Spec

\* A login's transaction makes one session at most, however often its callback
\* page is loaded (SSOCallback).
THEOREM AlwaysOneSessionPerLogin == Spec => []OneSessionPerLogin
<1>1. Init => ConsoleInv
  BY ConsoleInit, ConstantsHold, Zenon
<1>2. ConsoleInv /\ [Next]_vars => ConsoleInv'
  BY ConsoleStep, Zenon
<1>3. ConsoleInv => OneSessionPerLogin
  BY OneSession, Zenon
<1> QED
  BY <1>1, <1>2, <1>3, PTL DEF Spec

\* Logins do not mix: the stored session is replaced by a login's own or by the
\* continuation of the same login, and a request is sent under the login it was
\* begun under (RefreshSettles, authenticate).
THEOREM LoginsAlwaysStayApart == Spec => LoginsStayApart
<1>1. Init => ConsoleInv
  BY ConsoleInit, ConstantsHold, Zenon
<1>2. ConsoleInv /\ [Next]_vars => ConsoleInv'
  BY ConsoleStep, Zenon
<1>3. ConsoleInv => UnderOwnLogin
  BY Zenon DEF ConsoleInv, CallInv, UnderOwnLogin
<1>4. ConsoleInv /\ [Next]_vars => StoredApart
  BY StorageStep, Zenon
<1>5. StoredApart /\ UnderOwnLogin' =>
          [/\ storage' \notin {storage, None} =>
                 \/ \E n \in Login : login[n].step = "answered" /\ storage' = login[n].session
                 \/ storage # None /\ LoginOf(storage') = LoginOf(storage)
           /\ UnderOwnLogin']_vars
  BY Zenon DEF StoredApart
<1> QED
  BY <1>1, <1>2, <1>3, <1>4, <1>5, PTL DEF Spec, LoginsStayApart

===============================================================================
