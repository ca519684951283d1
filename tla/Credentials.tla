---------------------------- MODULE Credentials ----------------------------
(***************************************************************************)
(* API tokens, sessions, and the sign-ins that open sessions: Access over  *)
(* a credential store that several manager processes share, as the         *)
(* requests of browsers go through it.  A request is at the manager from   *)
(* when the browser sends it until its answer arrives; what it awaits in   *)
(* between (a statement, the identity provider) may take any time, and     *)
(* the process may die.                                                    *)
(*                                                                         *)
(* Secrets are numbered in the order they are made: a state, a session's   *)
(* secret and a token's are random and never made twice.  The identity     *)
(* provider is external: it names any person, or refuses.                  *)
(*                                                                         *)
(* Definitions marked as slips are there for the runs, as in Store.        *)
(***************************************************************************)
EXTENDS Naturals, FiniteSets

CONSTANTS
  Managers, Browsers,
  Requests,       \* places for requests: how many may be at the managers at once
  Providers,
  Allowed,        \* the people an allow entry lets in, of those who have accounts
  Accounts,       \* [provider, subject]
  TokenNames,
  LoginSeconds, SessionSeconds, SweepSeconds,
  TokenLives,     \* what create_token is asked for: seconds, or None for good
  MaxPendingLogins,
  MaxSecrets,     \* bound: secrets made
  MaxTime,        \* bound: the last second
  MaxMishaps,     \* bound: processes started again, and sweeps that failed
  None            \* no cookie, no expiry

ASSUME CredentialsAssumption ==
  /\ {LoginSeconds, SessionSeconds, MaxPendingLogins} \subseteq Nat \ {0}
  /\ TokenLives \subseteq (Nat \ {0}) \cup {None}
  /\ {SweepSeconds, MaxSecrets, MaxTime, MaxMishaps} \subseteq Nat
  /\ Accounts \subseteq [provider : Providers, subject : {x.subject : x \in Accounts}]
  /\ Allowed \subseteq Accounts
  /\ IsFiniteSet(Requests)
  /\ None \notin Nat

VARIABLES
  clock,
  tokens, sessions, logins,     \* the three tables
  sweptAt,                      \* by process: when it last set out to sweep
  request,                      \* by place: how far the request there is
  loginCookie, sessionCookie,   \* by browser
  made,                         \* secrets made so far
  mishaps,
  \* History, which no action depends on but Callback on links:
  links,    \* the sign-ins browsers were redirected to their provider with
  spent,    \* the states whose sign-in was taken
  opened,   \* the sessions ever opened, with the sign-in each was opened for
  failedSweeps  \* the sweeps that failed: whose, and the mark each was for

store == <<tokens, sessions, logins>>
cookies == <<loginCookie, sessionCookie>>
history == <<links, spent, opened>>
vars == <<clock, store, sweptAt, request, cookies, made, mishaps, history, failedSweeps>>

Secrets == 1..MaxSecrets
Lasting(seconds) == IF seconds = None THEN None ELSE clock + seconds

\* _alive
Alive(x) == x.expires = None \/ clock < x.expires

\* What a guard accepts: token_by_hash and session_by_hash.
Accepted(secret) == \E x \in tokens \cup sessions : x.secret = secret /\ Alive(x)

-----------------------------------------------------------------------------
Login == [state : Secrets, provider : Providers, expires : Nat]
Session == [secret : Secrets, who : Accounts, expires : Nat]
Token == [name : TokenNames, secret : Secrets, expires : Nat \cup {None}]
Link == [state : Secrets, provider : Providers, browser : Browsers, expires : Nat]
Opened == [secret : Secrets, state : Secrets, browser : Browsers, who : Accounts]
Cookie == Secrets \cup {None}

Idle == [at |-> "idle"]

\* An answer sets some of the cookies; one that redirects to the provider
\* hands the browser a link there.
Request ==
       {Idle}
  \cup [at : {"sweep", "count", "store"}, browser : Browsers, manager : Managers,
        provider : Providers, begun : Nat]
  \cup [at : {"take", "exchange"}, browser : Browsers, manager : Managers,
        provider : Providers, state : Secrets]
  \cup [at : {"end"}, browser : Browsers, manager : Managers, secret : Secrets]
  \cup [at : {"answer"}, browser : Browsers, manager : Managers, link : SUBSET Link,
        sets : [login : Cookie] \cup [session : Cookie]
               \cup [login : Cookie, session : Cookie]]

Init ==
  /\ clock = 0
  /\ tokens = {} /\ sessions = {} /\ logins = {}
  /\ sweptAt = [m \in Managers |-> None]
  /\ request = [r \in Requests |-> Idle]
  /\ loginCookie = [b \in Browsers |-> None]
  /\ sessionCookie = [b \in Browsers |-> None]
  /\ made = 0 /\ mishaps = 0
  /\ links = {} /\ spent = {} /\ opened = {} /\ failedSweeps = {}

MakeSecret == made < MaxSecrets /\ made' = made + 1
Mishap == mishaps < MaxMishaps /\ mishaps' = mishaps + 1

IsAt(r, stages) == request[r].at \in stages
Goes(r, to) == request' = [request EXCEPT ![r] = to]
Moves(r, stage) == Goes(r, [request[r] EXCEPT !.at = stage])

Answer(r, sets, link) ==
  Goes(r, [at |-> "answer", browser |-> request[r].browser,
           manager |-> request[r].manager, sets |-> sets, link |-> link])

\* _failed: back to the sign-in page, with the login cookie cleared.
FailedAtOnce(b, m) == [at |-> "answer", browser |-> b, manager |-> m,
                       sets |-> [login |-> None], link |-> {}]
Failed(r) == Answer(r, [login |-> None], {})

-----------------------------------------------------------------------------
(* Beginning a sign-in: GET /auth/login/{provider}.                         *)

\* Slip: an interval and a second.
NeedsSweepLater(m) ==
  \/ sweptAt[m] = None
  \/ clock - sweptAt[m] > SweepSeconds

NeedsSweep(m) ==
  \/ sweptAt[m] = None
  \/ clock - sweptAt[m] >= SweepSeconds

\* Discovery has answered, and begin_login goes on to its first await.  The
\* mark is made before the deletion.
BeginLogin(r, b, m, p) ==
  /\ IsAt(r, {"idle"})
  /\ sweptAt' = IF NeedsSweep(m) THEN [sweptAt EXCEPT ![m] = clock] ELSE sweptAt
  /\ Goes(r, [at |-> IF NeedsSweep(m) THEN "sweep" ELSE "count",
              browser |-> b, manager |-> m, provider |-> p, begun |-> clock])
  /\ UNCHANGED <<clock, store, cookies, made, mishaps, history, failedSweeps>>

\* No such provider, or discovery failed.
LoginFails(r, b, m) ==
  /\ IsAt(r, {"idle"})
  /\ Goes(r, FailedAtOnce(b, m))
  /\ UNCHANGED <<clock, store, sweptAt, cookies, made, mishaps, history, failedSweeps>>

\* Slip: what is about to expire goes too.
DeleteExpiredEarly(r) ==
  /\ IsAt(r, {"sweep"})
  /\ sessions' = {x \in sessions : Alive(x)}
  /\ logins' = {x \in logins : clock + SweepSeconds < x.expires}
  /\ Moves(r, "count")
  /\ UNCHANGED <<clock, tokens, sweptAt, cookies, made, mishaps, history, failedSweeps>>

\* Slip: what expires now stays, though it is not accepted any more.
DeleteExpiredLate(r) ==
  /\ IsAt(r, {"sweep"})
  /\ sessions' = {x \in sessions : clock <= x.expires}
  /\ logins' = {x \in logins : clock <= x.expires}
  /\ Moves(r, "count")
  /\ UNCHANGED <<clock, tokens, sweptAt, cookies, made, mishaps, history, failedSweeps>>

\* delete_expired: one transaction, with one time.
DeleteExpired(r) ==
  /\ IsAt(r, {"sweep"})
  /\ sessions' = {x \in sessions : Alive(x)}
  /\ logins' = {x \in logins : Alive(x)}
  /\ Moves(r, "count")
  /\ UNCHANGED <<clock, tokens, sweptAt, cookies, made, mishaps, history, failedSweeps>>

\* The deletion raises: the sign-in fails with it and nothing is removed, but the
\* mark stays as it was set.
DeleteFails(r) ==
  /\ IsAt(r, {"sweep"})
  /\ Mishap
  /\ failedSweeps' = failedSweeps \cup {<<request[r].manager, request[r].begun>>}
  /\ Goes(r, Idle)
  /\ UNCHANGED <<clock, store, sweptAt, cookies, made, history>>

PendingLogins == {x \in logins : Alive(x)}

\* Slip: one more than the limit.
CountLoginsOffByOne(r) ==
  /\ IsAt(r, {"count"})
  /\ IF Cardinality(PendingLogins) <= MaxPendingLogins
     THEN Moves(r, "store")
     ELSE Failed(r)
  /\ UNCHANGED <<clock, store, sweptAt, cookies, made, mishaps, history, failedSweeps>>

\* The statement of add_login: its count sees what is committed when it starts,
\* and its row is seen when it ends.  Under the lock of MemoryCredentialStore
\* nothing comes in between.
CountLogins(r) ==
  /\ IsAt(r, {"count"})
  /\ IF Cardinality(PendingLogins) < MaxPendingLogins
     THEN Moves(r, "store")
     ELSE Failed(r)
  /\ UNCHANGED <<clock, store, sweptAt, cookies, made, mishaps, history, failedSweeps>>

StoreLogin(r) ==
  /\ IsAt(r, {"store"})
  /\ MakeSecret
  /\ LET login == [state |-> made', provider |-> request[r].provider,
                   expires |-> Lasting(LoginSeconds)]
     IN  /\ logins' = logins \cup {login}
         /\ Answer(r, [login |-> made'],
              {[state |-> made', provider |-> login.provider,
                browser |-> request[r].browser, expires |-> login.expires]})
  /\ UNCHANGED <<clock, tokens, sessions, sweptAt, cookies, mishaps, history, failedSweeps>>

-----------------------------------------------------------------------------
(* Finishing it: GET /auth/callback/{provider}, which any browser may be    *)
(* sent to, any number of times, with the state of any sign-in begun.       *)

\* Slip: that the browser has a sign-in under way is enough.
IsOwnAny(b, state) == loginCookie[b] # None

IsOwn(b, state) == loginCookie[b] = state

Callback(r, b, m, p, link) ==
  /\ IsAt(r, {"idle"})
  /\ LET asked == [at |-> "take", browser |-> b, manager |-> m, provider |-> p,
                   state |-> link.state]
     IN  Goes(r, IF IsOwn(b, link.state) THEN asked ELSE FailedAtOnce(b, m))
  /\ UNCHANGED <<clock, store, sweptAt, cookies, made, mishaps, history, failedSweeps>>

LoginsOf(r) == {x \in logins : x.state = request[r].state}

\* Slip: read and not removed.
TakeLoginKeeps(r) ==
  /\ IsAt(r, {"take"})
  /\ spent' = spent \cup {x.state : x \in LoginsOf(r)}
  /\ IF \E x \in LoginsOf(r) : Alive(x) /\ x.provider = request[r].provider
     THEN Moves(r, "exchange")
     ELSE Failed(r)
  /\ UNCHANGED <<clock, store, sweptAt, cookies, made, mishaps, links, opened,
                 failedSweeps>>

\* take_login: the row goes whatever comes of it.
TakeLogin(r) ==
  /\ IsAt(r, {"take"})
  /\ logins' = logins \ LoginsOf(r)
  /\ spent' = spent \cup {x.state : x \in LoginsOf(r)}
  /\ IF \E x \in LoginsOf(r) : Alive(x) /\ x.provider = request[r].provider
     THEN Moves(r, "exchange")
     ELSE Failed(r)
  /\ UNCHANGED <<clock, tokens, sessions, sweptAt, cookies, made, mishaps, links, opened,
                 failedSweeps>>

\* The provider sent an error instead of a code, or no identity for it.
ProviderRefuses(r) ==
  /\ IsAt(r, {"exchange"})
  /\ Failed(r)
  /\ UNCHANGED <<clock, store, sweptAt, cookies, made, mishaps, history, failedSweeps>>

MayEnter(who) == who \in Allowed

\* The provider names a person, and open_session decides.
OpenSession(r, who) ==
  /\ IsAt(r, {"exchange"})
  /\ who.provider = request[r].provider
  /\ MayEnter(who)
  /\ MakeSecret
  /\ sessions' = sessions \cup
       {[secret |-> made', who |-> who, expires |-> Lasting(SessionSeconds)]}
  /\ opened' = opened \cup
       {[secret |-> made', state |-> request[r].state,
         browser |-> request[r].browser, who |-> who]}
  /\ Answer(r, [login |-> None, session |-> made'], {})
  /\ UNCHANGED <<clock, tokens, logins, sweptAt, cookies, mishaps, links, spent,
                 failedSweeps>>

NotAllowed(r, who) ==
  /\ IsAt(r, {"exchange"})
  /\ who.provider = request[r].provider
  /\ ~MayEnter(who)
  /\ Failed(r)
  /\ UNCHANGED <<clock, store, sweptAt, cookies, made, mishaps, history, failedSweeps>>

-----------------------------------------------------------------------------
(* Signing out, and what an operator does from the command line.            *)

\* POST /auth/logout: end_session, if the browser sent a session.
Logout(r, b, m) ==
  /\ IsAt(r, {"idle"})
  /\ Goes(r, IF sessionCookie[b] # None
             THEN [at |-> "end", browser |-> b, manager |-> m,
                   secret |-> sessionCookie[b]]
             ELSE [at |-> "answer", browser |-> b, manager |-> m,
                   sets |-> [session |-> None], link |-> {}])
  /\ UNCHANGED <<clock, store, sweptAt, cookies, made, mishaps, history, failedSweeps>>

EndSession(r) ==
  /\ IsAt(r, {"end"})
  /\ sessions' = {x \in sessions : x.secret # request[r].secret}
  /\ Answer(r, [session |-> None], {})
  /\ UNCHANGED <<clock, tokens, logins, sweptAt, cookies, made, mishaps, history,
                 failedSweeps>>

EndSessions ==
  /\ sessions # {}
  /\ sessions' = {}
  /\ UNCHANGED <<clock, tokens, logins, sweptAt, request, cookies, made, mishaps, history,
                 failedSweeps>>

NameTaken(name) == \E x \in tokens : x.name = name

\* Slip: a name that was used is used again, with the secret it had.
CreateTokenOver(name, seconds) ==
  /\ MakeSecret
  /\ tokens' =
       IF NameTaken(name)
       THEN {IF x.name = name THEN [x EXCEPT !.expires = Lasting(seconds)] ELSE x :
               x \in tokens}
       ELSE tokens \cup {[name |-> name, secret |-> made', expires |-> Lasting(seconds)]}
  /\ UNCHANGED <<clock, sessions, logins, sweptAt, request, cookies, mishaps, history,
                 failedSweeps>>

\* create_token.
CreateToken(name, seconds) ==
  /\ ~NameTaken(name)
  /\ MakeSecret
  /\ tokens' = tokens \cup
       {[name |-> name, secret |-> made', expires |-> Lasting(seconds)]}
  /\ UNCHANGED <<clock, sessions, logins, sweptAt, request, cookies, mishaps, history,
                 failedSweeps>>

RevokeToken(name) ==
  /\ NameTaken(name)
  /\ tokens' = {x \in tokens : x.name # name}
  /\ UNCHANGED <<clock, sessions, logins, sweptAt, request, cookies, made, mishaps, history,
                 failedSweeps>>

-----------------------------------------------------------------------------
(* Answers, and what goes wrong.                                            *)

Cleared(cookie, sets, name) == IF name \in DOMAIN sets THEN sets[name] ELSE cookie

Arrives(r) ==
  /\ IsAt(r, {"answer"})
  /\ LET b == request[r].browser
         sets == request[r].sets
     IN  /\ loginCookie' = [loginCookie EXCEPT ![b] = Cleared(@, sets, "login")]
         /\ sessionCookie' = [sessionCookie EXCEPT ![b] = Cleared(@, sets, "session")]
  /\ links' = links \cup request[r].link
  /\ Goes(r, Idle)
  /\ UNCHANGED <<clock, store, sweptAt, made, mishaps, spent, opened, failedSweeps>>

\* A manager process is started again, and what it was doing is lost.  Any other
\* request that fails on its own, or whose browser goes away, is one that never goes on.
Restart(m) ==
  /\ Mishap
  /\ sweptAt' = [sweptAt EXCEPT ![m] = None]
  /\ failedSweeps' = {x \in failedSweeps : x[1] # m}
  /\ request' = [r \in Requests |->
       IF ~IsAt(r, {"idle"}) /\ request[r].manager = m THEN Idle ELSE request[r]]
  /\ UNCHANGED <<clock, store, cookies, made, history>>

\* A second is longer than a statement takes.
Tick ==
  /\ clock < MaxTime
  /\ \A r \in Requests : ~IsAt(r, {"store"})
  /\ clock' = clock + 1
  /\ UNCHANGED <<store, sweptAt, request, cookies, made, mishaps, history, failedSweeps>>

Next ==
  \/ \E r \in Requests :
       \/ \E b \in Browsers, m \in Managers :
            \/ \E p \in Providers : BeginLogin(r, b, m, p)
            \/ \E p \in Providers, link \in links : Callback(r, b, m, p, link)
            \/ LoginFails(r, b, m)
            \/ Logout(r, b, m)
       \/ DeleteExpired(r) \/ DeleteFails(r) \/ CountLogins(r) \/ StoreLogin(r)
       \/ TakeLogin(r) \/ ProviderRefuses(r)
       \/ \E who \in Accounts : OpenSession(r, who) \/ NotAllowed(r, who)
       \/ EndSession(r) \/ Arrives(r)
  \/ EndSessions
  \/ \E name \in TokenNames :
       \/ \E seconds \in TokenLives : CreateToken(name, seconds)
       \/ RevokeToken(name)
  \/ \E m \in Managers : Restart(m)
  \/ Tick

Spec == Init /\ [][Next]_vars

-----------------------------------------------------------------------------
(* Properties.                                                              *)

TypeOK ==
  /\ clock \in 0..MaxTime
  /\ tokens \subseteq Token
  /\ sessions \subseteq Session
  /\ logins \subseteq Login
  /\ sweptAt \in [Managers -> Nat \cup {None}]
  /\ request \in [Requests -> Request]
  /\ loginCookie \in [Browsers -> Cookie]
  /\ sessionCookie \in [Browsers -> Cookie]
  /\ made \in 0..MaxSecrets
  /\ mishaps \in 0..MaxMishaps
  /\ links \subseteq Link
  /\ spent \subseteq Secrets
  /\ opened \subseteq Opened
  /\ failedSweeps \subseteq Managers \X Nat

\* A sign-in opens one session at most, however often and wherever its callback
\* is opened: of two callbacks at once, one takes it (take_login).
OneSessionPerSignIn == \A x, y \in opened : x.state = y.state => x = y

\* A session is opened in the browser that began the sign-in, with the provider
\* it began with, and for a person who is let in (callback, open_session).
SessionForSignIn ==
  \A x \in opened :
    /\ x.who \in Allowed
    /\ \E l \in links : /\ l.state = x.state
                        /\ l.browser = x.browser
                        /\ l.provider = x.who.provider

\* A sign-in that was not taken waits for its callback for as long as it was
\* promised: neither the sweep nor other sign-ins remove it.
NoSignInLost ==
  \A l \in links : l.state \notin spent /\ clock < l.expires =>
    \E x \in logins : x.state = l.state

\* The limit of sign-ins in progress is passed by no more than the number that
\* were being stored at once, less the one that may be (_INSERT_LOGIN).
PendingBounded ==
  Cardinality(PendingLogins) + Cardinality({r \in Requests : IsAt(r, {"store"})})
    <= MaxPendingLogins + Cardinality(Requests) - 1

\* A sign-in goes past rows that had expired when its process last marked a sweep
\* only while that very sweep is under way or if it failed, and only within an
\* interval of the mark, although the mark is made before the rows are deleted:
\* a sweep that fails costs the sign-ins of one interval (begin_login).
SweptMeansSwept ==
  \A r \in Requests : IsAt(r, {"count", "store"}) =>
    LET m == request[r].manager
        mark == sweptAt[m]
    IN  /\ mark # None
        /\ request[r].begun <= mark \/ request[r].begun - mark < SweepSeconds
        /\ \/ \A x \in sessions \cup logins : x.expires > mark
           \/ <<m, mark>> \in failedSweeps
           \/ \E q \in Requests : /\ IsAt(q, {"sweep"})
                                  /\ request[q].manager = m /\ request[q].begun = mark

\* A secret that was made and is not accepted, since it expired, was ended or
\* revoked, is never accepted again, whoever uses its name next (guard).
RefusedStaysRefused ==
  [][\A s \in 1..made : ~Accepted(s) => ~Accepted(s)']_vars

=============================================================================
