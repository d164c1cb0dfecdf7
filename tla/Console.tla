------------------------------- MODULE Console -------------------------------
(***************************************************************************)
(* The web console's session: how the pages of one browser log in through  *)
(* the identity provider (server/internal/core/auth.go, internal/idp, the  *)
(* callback page), attach the access token to their requests, renew it and *)
(* log out (web/src/lib/api.ts, session.ts), and how the server admits a   *)
(* request (server/internal/auth).                                         *)
(*                                                                         *)
(* The session is in the browser's local storage, which its tabs share.    *)
(* Every await of the code is a point where other requests, other tabs and *)
(* the server go on.  Answers may be lost, and a callback page may be      *)
(* loaded again.                                                           *)
(*                                                                         *)
(* One user.  A token pair is named by the session version it was signed   *)
(* for: Sessions shows that a version has one pair.  The transaction of a  *)
(* login, with its state, nonce and code verifier, is named by its number. *)
(***************************************************************************)
EXTENDS Access, Naturals, Sequences, FiniteSets

CONSTANTS
    Call,          \* API requests under way at a time
    Tab,           \* the tabs that make them
    TabOf,         \* the tab of each request
    Called,        \* the procedures they call
    Granted,       \* the user's permissions
    AccessTTL,     \* AccessTokenExpiry
    RefreshTTL,    \* RefreshTokenExpiry
    StateTTL,      \* authStateTTL
    Margin,        \* the 30 seconds before the expiry in which a token is renewed
    MaxTime,       \* bound: the last time on the clock
    MaxLogins,     \* bound: logins
    MaxVersion,    \* bound: the version at which requests and revocations end
    MaxLost        \* bound: lost answers and reloaded pages

ASSUME ConsoleAssumption ==
    /\ TabOf \in [Call -> Tab] /\ 0 \notin Tab
    /\ Called \subseteq Procedure /\ Granted \subseteq Permission
    /\ {AccessTTL, RefreshTTL, StateTTL, Margin, MaxTime} \subseteq Nat
    /\ {MaxLogins, MaxVersion, MaxLost} \subseteq Nat

VARIABLES
    now,        \* the time
    pairs,      \* the pairs signed so far, by version; the last is the user's
    movedBy,    \* history: what ended each version
    login,      \* the logins
    cookie,     \* the browser's transaction cookie: a login, or 0
    redeemed,   \* external: codes the identity provider has exchanged
    storage,    \* the stored session: a version, or 0
    inFlight,   \* refreshInFlight of each tab: the session refreshed, or 0
    refreshes,  \* refresh requests and what became of them
    call,       \* the API requests
    lost        \* lost answers and reloaded pages so far

serverVars == <<pairs, movedBy>>
loginVars == <<login, cookie, redeemed>>
browserVars == <<storage, inFlight, refreshes, call>>
vars == <<now, serverVars, loginVars, browserVars, lost>>

None == 0
Login == 1 .. MaxLogins
Idle == [step |-> "idle", initiating |-> None, session |-> None, attempted |-> FALSE]

Init ==
    /\ now = 0 /\ pairs = <<>> /\ movedBy = <<>>
    /\ login = [n \in Login |-> [step |-> "none", at |-> 0, session |-> None]]
    /\ cookie = None /\ redeemed = {}
    /\ storage = None /\ inFlight = [t \in Tab |-> None] /\ refreshes = {}
    /\ call = [c \in Call |-> Idle] /\ lost = 0

-------------------------------------------------------------------------------
(* The server. *)

version == Len(pairs)

\* GenerateTokens, for a session that a login begins or a refresh continues.
GenerateTokens(n) ==
    [login |-> n, expires |-> now + AccessTTL, refresh_expires |-> now + RefreshTTL]

\* The user's row moves on to the next version, for which this pair is signed.
Move(pair, by) ==
    /\ pairs' = Append(pairs, pair)
    /\ movedBy' = Append(movedBy, by)

NoPair == [login |-> None, expires |-> 0, refresh_expires |-> 0]

\* ValidateToken: signed here, of the right type, and not expired.
ValidateToken(session, type) ==
    /\ session # None
    /\ now < IF type = "access" THEN pairs[session].expires
                                ELSE pairs[session].refresh_expires

\* WrapUnary: the code the request ends with.
WrapUnary(p, session) ==
    IF publicProcedure(p) THEN "ok"
    ELSE IF ~ValidateToken(session, "access") THEN "unauthenticated"
    ELSE IF ~userHasPermission(Granted, p) THEN "denied" ELSE "ok"

\* RevokeUserSessions, or a role change: nobody holds the next version.
RevokeUserSessions ==
    /\ version \in 1 .. MaxVersion - 1
    /\ Move(NoPair, None)
    /\ UNCHANGED <<now, loginVars, browserVars, lost>>

Tick ==
    /\ now < MaxTime /\ now' = now + 1
    /\ UNCHANGED <<serverVars, loginVars, browserVars, lost>>

-------------------------------------------------------------------------------
(* Logging in. *)

\* The transaction of a login, its random values named by the login's number.
SignOIDCTransaction(n, at) ==
    [state |-> n, nonce |-> n, code_verifier |-> n, expires |-> at + StateTTL]

transaction(n) == SignOIDCTransaction(n, login[n].at)

\* What the identity provider learns of it.
AuthCodeURL(t) ==
    [state |-> t.state, nonce |-> t.nonce, code_challenge |-> t.code_verifier]

\* GetSSOLoginURL signs a transaction into the cookie and answers with the URL
\* that the page goes to.
GetSSOLoginURL(n) ==
    /\ login[n].step = "none" /\ \A k \in Login : k < n => login[k].step # "none"
    /\ login' = [login EXCEPT ![n] = [@ EXCEPT !.step = "url", !.at = now]]
    /\ cookie' = n
    /\ UNCHANGED <<now, serverVars, redeemed, browserVars, lost>>

\* ValidateOIDCTransaction, for the cookie the callback is sent with.
\* The callback compares the state it is sent with.
ValidateOIDCTransaction(n) == cookie = transaction(n).state /\ now < transaction(n).expires

\* External: the provider exchanges a code once, for the identity token of the
\* transaction that the code was issued in.
Exchange(url) == url.state \notin redeemed /\ redeemed' = redeemed \cup {url.state}
IdToken(url) == [nonce |-> url.nonce, subject |-> "user"]

\* The code that came back for this URL is exchanged with the verifier.
ExchangeCode(url, code_verifier) == url.code_challenge = code_verifier /\ Exchange(url)

\* VerifyAndExtractClaims, and the callback's own test of the subject.
VerifyIDToken(token, nonce) == token.nonce = nonce /\ token.subject # ""

Fails(n) ==
    /\ login' = [login EXCEPT ![n] = [step |-> "failed", at |-> 0, session |-> None]]
    /\ UNCHANGED serverVars

Succeeds(n) ==
    /\ Move(GenerateTokens(n), None)
    /\ login' = [login EXCEPT ![n].step = "answered", ![n].session = version']

\* Mutant: the identity is taken without an exchange of the code.
CallbackWithoutExchange(n) ==
    /\ login[n].step = "url"
    /\ IF ValidateOIDCTransaction(n) THEN Succeeds(n) ELSE Fails(n)
    /\ UNCHANGED <<now, cookie, redeemed, browserVars, lost>>

\* SSOCallback: the identity provider has sent the browser to the callback page
\* with a code, bound to this transaction's verifier and nonce.  From there on
\* the answer clears the cookie, also when the provider or the exchange fails.
\* The link and the tokens are one step here; Sessions has them apart.
SSOCallback(n) ==
    /\ login[n].step = "url"
    /\ \/ /\ ~ValidateOIDCTransaction(n)
          /\ Fails(n) /\ UNCHANGED <<cookie, redeemed>>
       \/ /\ ValidateOIDCTransaction(n)
          /\ ExchangeCode(AuthCodeURL(transaction(n)), transaction(n).code_verifier)
          /\ VerifyIDToken(IdToken(AuthCodeURL(transaction(n))), transaction(n).nonce)
          /\ Succeeds(n) /\ UNCHANGED cookie
       \/ /\ ValidateOIDCTransaction(n)
          /\ redeemed' \in {redeemed, redeemed \cup {n}}
          /\ Fails(n) /\ cookie' = None
    /\ UNCHANGED <<now, browserVars, lost>>

\* The answer clears the cookie and the page stores the session.
FinishLogin(n) ==
    /\ login[n].step = "answered"
    /\ storage' = login[n].session /\ cookie' = None
    /\ login' = [login EXCEPT ![n] = [@ EXCEPT !.step = "done", !.session = None]]
    /\ UNCHANGED <<now, serverVars, redeemed, inFlight, refreshes, call, lost>>

\* The callback page is loaded again: before its answer comes, which is lost,
\* or from the browser's history.
ReloadCallback(n) ==
    /\ login[n].step \in {"answered", "done"}
    /\ lost < MaxLost /\ lost' = lost + 1
    /\ login' = [login EXCEPT ![n].step = "url"]
    /\ UNCHANGED <<now, serverVars, cookie, redeemed, browserVars>>

\* logout: the storage at once, and the server's session, if that gets through.
Logout ==
    /\ storage # None /\ storage' = None
    /\ \/ storage = version /\ ValidateToken(storage, "refresh") /\ Move(NoPair, None)
       \/ UNCHANGED serverVars
    /\ UNCHANGED <<now, loginVars, inFlight, refreshes, call, lost>>

-------------------------------------------------------------------------------
(* Refreshing. *)

\* Mutant: every caller makes a request of its own.
refreshAlways(t, session) ==
    /\ refreshes' = refreshes \cup {[tab |-> t, session |-> session,
                         step |-> IF \E r \in refreshes : r.tab = t THEN "again" ELSE "sent",
                         renewed |-> None]}
    /\ inFlight' = [inFlight EXCEPT ![t] = session]

\* A refresh of the session in this tab joins the one that is in flight.
refresh(t, session) ==
    IF inFlight[t] = session THEN UNCHANGED <<inFlight, refreshes>>
    ELSE /\ refreshes' = refreshes \cup {[tab |-> t, session |-> session,
                                          step |-> "sent", renewed |-> None]}
         /\ inFlight' = [inFlight EXCEPT ![t] = session]

\* RefreshToken: the version the token names moves on, if it is current.
RefreshToken(r) ==
    /\ r \in refreshes /\ r.step \in {"sent", "again"}
    /\ IF r.session = version /\ ValidateToken(r.session, "refresh")
       THEN /\ Move(GenerateTokens(pairs[r.session].login), r.tab)
            /\ refreshes' = (refreshes \ {r}) \cup
                   {[r EXCEPT !.step = "ok", !.renewed = version']}
       ELSE /\ refreshes' = (refreshes \ {r}) \cup {[r EXCEPT !.step = "refused"]}
            /\ UNCHANGED serverVars
    /\ UNCHANGED <<now, loginVars, storage, inFlight, call, lost>>

\* The request or its answer is lost.
RefreshLost(r) ==
    /\ r \in refreshes /\ r.step \in {"sent", "ok"}
    /\ lost < MaxLost /\ lost' = lost + 1
    /\ refreshes' = (refreshes \ {r}) \cup {[r EXCEPT !.step = "error", !.renewed = None]}
    /\ movedBy' = IF r.step = "ok" THEN [movedBy EXCEPT ![r.renewed] = None] ELSE movedBy
    /\ UNCHANGED <<now, pairs, loginVars, storage, inFlight, call>>

\* The stored session once the promise settles: the renewed one replaces the
\* session it renews, and a refused session is cleared, if still there.
settled(r) ==
    IF storage # r.session THEN storage
    ELSE IF r.step = "ok" THEN r.renewed
    ELSE IF r.step = "refused" THEN None ELSE storage

\* Mutant: a refresh that fails wakes nobody.
settlesUnheard(r) ==
    /\ r \in refreshes /\ r.step \in {"ok", "refused", "error"}
    /\ refreshes' = refreshes \ {r}
    /\ inFlight' = [inFlight EXCEPT ![r.tab] = IF @ = r.session THEN None ELSE @]
    /\ storage' = settled(r)
    /\ UNCHANGED <<now, serverVars, loginVars, call, lost>>

\* The promise settles, and the requests that await it go on with its value.
RefreshSettles(r) ==
    /\ r \in refreshes /\ r.step \in {"ok", "refused", "error"}
    /\ refreshes' = refreshes \ {r}
    /\ inFlight' = [inFlight EXCEPT ![r.tab] = IF @ = r.session THEN None ELSE @]
    /\ storage' = settled(r)
    /\ call' = [c \in Call |->
           IF call[c].step = "refreshing" /\ TabOf[c] = r.tab /\ call[c].session = r.session
           THEN [call[c] EXCEPT !.step = "refreshed",
                     !.session = IF r.step = "ok" /\ storage = r.session
                                 THEN r.renewed ELSE None]
           ELSE call[c]]
    /\ UNCHANGED <<now, serverVars, loginVars, lost>>

-------------------------------------------------------------------------------
(* Requests: the interceptor "authenticate". *)

Refreshing(c, session) ==
    /\ refresh(TabOf[c], session)
    /\ call' = [call EXCEPT ![c].step = "refreshing", ![c].session = session,
                            ![c].attempted = TRUE]

expiring(session) == pairs[session].expires <= now + Margin

\* A request begins, without a token if there is no session.  A token about
\* to expire is renewed first.
Begin(c) ==
    /\ call[c].step = "idle" /\ version < MaxVersion
    /\ IF storage # None /\ expiring(storage)
       THEN /\ refresh(TabOf[c], storage)
            /\ call' = [call EXCEPT ![c] = [step |-> "refreshing", initiating |-> storage,
                                            session |-> storage, attempted |-> TRUE]]
       ELSE /\ call' = [call EXCEPT ![c] = [step |-> "sent", initiating |-> storage,
                                            session |-> storage, attempted |-> FALSE]]
            /\ UNCHANGED <<inFlight, refreshes>>
    /\ UNCHANGED <<now, serverVars, loginVars, storage, lost>>

\* Mutant: the request goes on with whatever session is stored.
resumeWithStored(c) ==
    /\ call[c].step = "refreshed"
    /\ call' = [call EXCEPT ![c] = IF storage # None
                    THEN [@ EXCEPT !.step = "sent", !.session = storage] ELSE Idle]
    /\ UNCHANGED <<now, serverVars, loginVars, storage, inFlight, refreshes, lost>>

\* A renewed session must still be the stored one, or the request fails.
Resume(c) ==
    /\ call[c].step = "refreshed"
    /\ call' = [call EXCEPT ![c] = IF call[c].session # None /\ storage = call[c].session
                    THEN [@ EXCEPT !.step = "sent"] ELSE Idle]
    /\ UNCHANGED <<now, serverVars, loginVars, storage, inFlight, refreshes, lost>>

\* The server's interceptor, and the answer.
Handle(c) ==
    /\ call[c].step = "sent"
    /\ \E p \in Called :
          call' = [call EXCEPT ![c] = IF WrapUnary(p, call[c].session) = "unauthenticated"
                       THEN [@ EXCEPT !.step = "refused"] ELSE Idle]
    /\ UNCHANGED <<now, serverVars, loginVars, storage, inFlight, refreshes, lost>>

\* A refused request is retried once, if its session is still the stored one.
Retry(c) ==
    /\ call[c].step = "refused"
    /\ IF call[c].attempted \/ storage = None \/ storage # call[c].initiating
       THEN call' = [call EXCEPT ![c] = Idle] /\ UNCHANGED <<inFlight, refreshes>>
       ELSE Refreshing(c, call[c].initiating)
    /\ UNCHANGED <<now, serverVars, loginVars, storage, lost>>

-------------------------------------------------------------------------------
RefreshStep ==
    \E r \in refreshes : RefreshToken(r) \/ RefreshSettles(r)

CallStep(c) == Resume(c) \/ Handle(c) \/ Retry(c)

Next ==
    \/ \E n \in Login : \/ GetSSOLoginURL(n) \/ SSOCallback(n)
                        \/ FinishLogin(n) \/ ReloadCallback(n)
    \/ Logout \/ RevokeUserSessions \/ Tick
    \/ RefreshStep \/ \E r \in refreshes : RefreshLost(r)
    \/ \E c \in Call : Begin(c) \/ CallStep(c)

\* The server answers what it receives, and a page goes on with an answer.
Fairness ==
    /\ WF_vars(RefreshStep)
    /\ \A c \in Call : WF_vars(CallStep(c))

Spec == Init /\ [][Next]_vars /\ Fairness

-------------------------------------------------------------------------------
LoginOf(session) == IF session = None THEN None ELSE pairs[session].login

UnderOwnLogin ==
    \A c \in Call : call[c].step = "sent" =>
        LoginOf(call[c].session) = LoginOf(call[c].initiating)

\* Logins do not mix.  The stored session changes to none, to the session a
\* login's own page got for it, or to the continuation of the same login: a
\* refresh that is answered after a logout does not restore the session, and one
\* that is answered after a newer login does not replace it (RefreshSettles).
\* And a request is only ever sent under the login it was begun under: neither
\* the wait for a refresh nor the retry replays it under another (authenticate).
LoginsStayApart ==
    [][/\ storage' \notin {storage, None} =>
             \/ \E n \in Login : login[n].step = "answered" /\ storage' = login[n].session
             \/ storage # None /\ LoginOf(storage') = LoginOf(storage)
       /\ UnderOwnLogin']_vars

\* A tab does not lose its session to itself: a refresh is refused only because
\* of a logout, a revocation, another login or another tab, because the refresh
\* token has expired, or because an answer was lost, never because this tab had
\* the token renewed already (refreshInFlight).
RefreshedOnce ==
    \A r \in refreshes : r.step = "refused" =>
        \/ r.session = version
        \/ movedBy[r.session + 1] # r.tab

\* A transaction makes one session at most, although its callback page can be
\* loaded any number of times and the cookie is only cleared by the answer.
OneSessionPerLogin ==
    \A n \in Login :
        Cardinality({v \in 1 .. version : /\ pairs[v].login = n
                                          /\ v = 1 \/ pairs[v - 1].login # n}) <= 1

\* Every request ends, however refreshes, retries, logouts and lost answers
\* fall (authenticate retries once).
RequestsSettle ==
    \A c \in Call : call[c].step # "idle" ~> call[c].step = "idle"

===============================================================================
