------------------------- MODULE CredentialsProofs -------------------------
(* Proofs about sign-ins, for any number of processes, browsers, requests.   *)
EXTENDS Credentials, FiniteSetTheorems, TLAPS

USE DEF Secrets, Cookie

\* What is to last a while expires at a second, or never.
LEMMA LastingType ==
  ASSUME clock \in Nat
  PROVE  /\ Lasting(LoginSeconds) \in Nat
         /\ Lasting(SessionSeconds) \in Nat
         /\ \A seconds \in TokenLives : Lasting(seconds) \in Nat \cup {None}
BY CredentialsAssumption DEF Lasting

\* What a request is at each stage.
LEMMA RequestShapes ==
  ASSUME NEW q \in Request
  PROVE  /\ q.at \in {"sweep", "count", "store"} =>
              q \in [at : {"sweep", "count", "store"}, browser : Browsers,
                     manager : Managers, provider : Providers, begun : Nat]
         /\ q.at \in {"take", "exchange"} =>
              q \in [at : {"take", "exchange"}, browser : Browsers, manager : Managers,
                     provider : Providers, state : Secrets]
         /\ q.at = "end" =>
              q \in [at : {"end"}, browser : Browsers, manager : Managers, secret : Secrets]
         /\ q.at = "answer" =>
              q \in [at : {"answer"}, browser : Browsers, manager : Managers,
                     link : SUBSET Link,
                     sets : [login : Cookie] \cup [session : Cookie]
                            \cup [login : Cookie, session : Cookie]]
BY DEF Request, Idle

\* A request goes on to a request.
LEMMA GoesType ==
  ASSUME TypeOK, NEW r \in Requests, NEW to \in Request, Goes(r, to)
  PROVE  request' \in [Requests -> Request]
BY DEF TypeOK, Goes

\* An answer is a request's last stage.
LEMMA AnswerType ==
  ASSUME TypeOK, NEW r \in Requests, request[r].browser \in Browsers,
         request[r].manager \in Managers, NEW link \in SUBSET Link,
         NEW sets \in [login : Cookie] \cup [session : Cookie]
                      \cup [login : Cookie, session : Cookie],
         Answer(r, sets, link)
  PROVE  request' \in [Requests -> Request]
BY DEF TypeOK, Answer, Goes, Request

\* The refusal of a request that never waited.
LEMMA FailedAtOnceType ==
  ASSUME NEW b \in Browsers, NEW m \in Managers
  PROVE  FailedAtOnce(b, m) \in Request
BY DEF FailedAtOnce, Request

\* The collections, the requests and the cookies keep their types.
LEMMA TypeOKInit == Init => TypeOK
BY CredentialsAssumption DEF Init, TypeOK, Request, Idle

LEMMA TypeOKBegin ==
  ASSUME TypeOK, NEW r \in Requests, NEW b \in Browsers, NEW m \in Managers,
         \/ \E p \in Providers : BeginLogin(r, b, m, p)
         \/ \E p \in Providers, link \in links : Callback(r, b, m, p, link)
         \/ LoginFails(r, b, m)
         \/ Logout(r, b, m)
  PROVE  TypeOK'
<1>1. CASE \E p \in Providers : BeginLogin(r, b, m, p)
  <2>1. PICK p \in Providers : BeginLogin(r, b, m, p)
    BY <1>1
  <2> DEFINE to == [at |-> IF NeedsSweep(m) THEN "sweep" ELSE "count",
                    browser |-> b, manager |-> m, provider |-> p, begun |-> clock]
  <2>2. clock \in Nat
    BY CredentialsAssumption DEF TypeOK
  <2>3. to \in Request
    BY <2>2 DEF Request
  <2>4. Goes(r, to)
    BY <2>1 DEF BeginLogin
  <2> HIDE DEF to
  <2>5. request' \in [Requests -> Request]
    BY <2>3, <2>4, GoesType
  <2>6. sweptAt' \in [Managers -> Nat \cup {None}]
    BY <2>1, <2>2 DEF BeginLogin, TypeOK
  <2> QED
    BY <2>1, <2>5, <2>6 DEF BeginLogin, TypeOK, store, cookies, history
<1>2. CASE \E p \in Providers, link \in links : Callback(r, b, m, p, link)
  <2>1. PICK p \in Providers, link \in links : Callback(r, b, m, p, link)
    BY <1>2
  <2>2. [at |-> "take", browser |-> b, manager |-> m, provider |-> p,
         state |-> link.state] \in Request
    BY DEF Request, TypeOK, Link
  <2>3. request' \in [Requests -> Request]
    BY <2>1, <2>2, FailedAtOnceType, GoesType DEF Callback
  <2> QED
    BY <2>1, <2>3 DEF Callback, TypeOK, store, cookies, history
<1>3. CASE LoginFails(r, b, m)
  BY <1>3, FailedAtOnceType, GoesType DEF LoginFails, TypeOK, store, cookies, history
<1>4. CASE Logout(r, b, m)
  <2>1. CASE sessionCookie[b] # None
    <3>1. [at |-> "end", browser |-> b, manager |-> m,
           secret |-> sessionCookie[b]] \in Request
      BY <2>1 DEF Request, TypeOK
    <3> QED
      BY <1>4, <2>1, <3>1, GoesType DEF Logout, TypeOK, store, cookies, history
  <2>2. CASE sessionCookie[b] = None
    <3>1. [at |-> "answer", browser |-> b, manager |-> m,
           sets |-> [session |-> None], link |-> {}] \in Request
      BY DEF Request
    <3> QED
      BY <1>4, <2>2, <3>1, GoesType DEF Logout, TypeOK, store, cookies, history
  <2> QED
    BY <2>1, <2>2
<1> QED
  BY <1>1, <1>2, <1>3, <1>4

\* The refusal of a request under way.
LEMMA FailedType ==
  ASSUME TypeOK, NEW r \in Requests, ~IsAt(r, {"idle"}), Failed(r)
  PROVE  request' \in [Requests -> Request]
<1>1. request[r] \in Request
  BY DEF TypeOK
<1>2. request[r].browser \in Browsers /\ request[r].manager \in Managers
  BY <1>1 DEF Request, Idle, IsAt
<1> QED
  BY <1>2, AnswerType DEF Failed

LEMMA TypeOKSweepAndStore ==
  ASSUME TypeOK, NEW r \in Requests,
         DeleteExpired(r) \/ DeleteFails(r) \/ CountLogins(r) \/ StoreLogin(r)
  PROVE  TypeOK'
<1>1. request[r] \in [at : {"sweep", "count", "store"}, browser : Browsers,
                      manager : Managers, provider : Providers, begun : Nat]
  BY RequestShapes DEF DeleteExpired, DeleteFails, CountLogins, StoreLogin, IsAt, TypeOK
<1>2. CASE DeleteExpired(r)
  <2>1. [request[r] EXCEPT !.at = "count"] \in Request
    BY <1>1 DEF Request
  <2>2. request' \in [Requests -> Request]
    BY <1>2, <2>1, GoesType DEF DeleteExpired, Moves
  <2> QED
    BY <1>2, <2>2 DEF DeleteExpired, TypeOK, cookies, history
<1>3. CASE CountLogins(r)
  <2>1. [request[r] EXCEPT !.at = "store"] \in Request
    BY <1>1 DEF Request
  <2>2. request' \in [Requests -> Request]
    BY <1>3, <2>1, GoesType, FailedType DEF CountLogins, Moves, IsAt
  <2> QED
    BY <1>3, <2>2 DEF CountLogins, TypeOK, store, cookies, history
<1>4. CASE StoreLogin(r)
  <2> DEFINE login == [state |-> made', provider |-> request[r].provider,
                       expires |-> Lasting(LoginSeconds)]
             link == [state |-> made', provider |-> login.provider,
                      browser |-> request[r].browser, expires |-> login.expires]
  <2>1. made' \in 1 .. MaxSecrets
    BY <1>4, CredentialsAssumption DEF StoreLogin, MakeSecret, TypeOK
  <2>2. clock \in Nat
    BY CredentialsAssumption DEF TypeOK
  <2>3. login \in Login /\ link \in Link
    BY <1>1, <2>1, <2>2, LastingType DEF Login, Link
  <2>4. Answer(r, [login |-> made'], {link}) /\ logins' = logins \cup {login}
    BY <1>4 DEF StoreLogin
  <2>5. request' \in [Requests -> Request]
    <3>1. [login |-> made'] \in [login : Cookie]
      BY <2>1
    <3> HIDE DEF link
    <3>2. {link} \in SUBSET Link
      BY <2>3
    <3> QED
      BY <1>1, <2>4, <3>1, <3>2, AnswerType
  <2> HIDE DEF login
  <2> QED
    BY <1>4, <2>1, <2>3, <2>4, <2>5 DEF StoreLogin, MakeSecret, TypeOK, cookies, history
<1>5. CASE DeleteFails(r)
  <2>1. request' \in [Requests -> Request]
    <3>1. Idle \in Request
      BY DEF Request
    <3> QED
      BY <1>5, <3>1, GoesType DEF DeleteFails
  <2>2. failedSweeps' \subseteq Managers \X Nat
    BY <1>1, <1>5 DEF DeleteFails, TypeOK
  <2>3. mishaps' \in 0 .. MaxMishaps
    BY <1>5, CredentialsAssumption DEF DeleteFails, Mishap, TypeOK
  <2> QED
    BY <1>5, <2>1, <2>2, <2>3 DEF DeleteFails, TypeOK, store, cookies, history
<1> QED
  BY <1>2, <1>3, <1>4, <1>5

LEMMA TypeOKTakeAndOpen ==
  ASSUME TypeOK, NEW r \in Requests,
         \/ TakeLogin(r)
         \/ ProviderRefuses(r)
         \/ \E who \in Accounts : OpenSession(r, who) \/ NotAllowed(r, who)
  PROVE  TypeOK'
<1>1. request[r] \in [at : {"take", "exchange"}, browser : Browsers, manager : Managers,
                      provider : Providers, state : Secrets]
  BY RequestShapes DEF TakeLogin, ProviderRefuses, OpenSession, NotAllowed, IsAt, TypeOK
<1>2. CASE TakeLogin(r)
  <2>1. [request[r] EXCEPT !.at = "exchange"] \in Request
    BY <1>1 DEF Request
  <2>2. request' \in [Requests -> Request]
    BY <1>2, <2>1, GoesType, FailedType DEF TakeLogin, Moves, IsAt
  <2>3. {x.state : x \in LoginsOf(r)} \subseteq Secrets
    BY DEF TypeOK, LoginsOf, Login
  <2> QED
    BY <1>2, <2>2, <2>3 DEF TakeLogin, TypeOK, cookies
<1>3. CASE ProviderRefuses(r)
  BY <1>3, FailedType DEF ProviderRefuses, IsAt, TypeOK, store, cookies, history
<1>4. ASSUME NEW who \in Accounts, OpenSession(r, who)
      PROVE  TypeOK'
  <2>1. made' \in 1 .. MaxSecrets
    BY <1>4, CredentialsAssumption DEF OpenSession, MakeSecret, TypeOK
  <2>2. clock \in Nat
    BY CredentialsAssumption DEF TypeOK
  <2>3. [secret |-> made', who |-> who, expires |-> Lasting(SessionSeconds)] \in Session
    BY <2>1, <2>2, LastingType DEF Session
  <2>4. [secret |-> made', state |-> request[r].state,
         browser |-> request[r].browser, who |-> who] \in Opened
    BY <1>1, <2>1 DEF Opened
  <2>5. request' \in [Requests -> Request]
    <3>1. [login |-> None, session |-> made'] \in [login : Cookie, session : Cookie]
      BY <2>1
    <3> QED
      BY <1>1, <1>4, <3>1, AnswerType DEF OpenSession
  <2> QED
    BY <1>4, <2>1, <2>3, <2>4, <2>5 DEF OpenSession, MakeSecret, TypeOK, cookies
<1>5. ASSUME NEW who \in Accounts, NotAllowed(r, who)
      PROVE  TypeOK'
  BY <1>5, FailedType DEF NotAllowed, IsAt, TypeOK, store, cookies, history
<1> QED
  BY <1>2, <1>3, <1>4, <1>5

LEMMA TypeOKEndAndTokens ==
  ASSUME TypeOK,
         \/ \E r \in Requests : EndSession(r)
         \/ EndSessions
         \/ \E name \in TokenNames : \/ \E seconds \in TokenLives : CreateToken(name, seconds)
                                     \/ RevokeToken(name)
  PROVE  TypeOK'
<1>1. ASSUME NEW r \in Requests, EndSession(r)
      PROVE  TypeOK'
  <2>1. request[r] \in [at : {"end"}, browser : Browsers, manager : Managers,
                        secret : Secrets]
    BY <1>1, RequestShapes DEF EndSession, IsAt, TypeOK
  <2>2. request' \in [Requests -> Request]
    <3>1. [session |-> None] \in [session : Cookie]
      OBVIOUS
    <3> QED
      BY <1>1, <2>1, <3>1, AnswerType DEF EndSession
  <2> QED
    BY <1>1, <2>2 DEF EndSession, TypeOK, cookies, history
<1>2. CASE EndSessions
  BY <1>2 DEF EndSessions, TypeOK, cookies, history
<1>3. ASSUME NEW name \in TokenNames, NEW seconds \in TokenLives, CreateToken(name, seconds)
      PROVE  TypeOK'
  <2>1. made' \in 1 .. MaxSecrets
    BY <1>3, CredentialsAssumption DEF CreateToken, MakeSecret, TypeOK
  <2>2. clock \in Nat
    BY CredentialsAssumption DEF TypeOK
  <2>3. [name |-> name, secret |-> made', expires |-> Lasting(seconds)] \in Token
    BY <2>1, <2>2, LastingType DEF Token
  <2> QED
    BY <1>3, <2>1, <2>3 DEF CreateToken, MakeSecret, TypeOK, cookies, history
<1>4. ASSUME NEW name \in TokenNames, RevokeToken(name)
      PROVE  TypeOK'
  BY <1>4 DEF RevokeToken, TypeOK, cookies, history
<1> QED
  BY <1>1, <1>2, <1>3, <1>4

LEMMA TypeOKArrives ==
  ASSUME TypeOK, NEW r \in Requests, Arrives(r)
  PROVE  TypeOK'
<1> DEFINE b == request[r].browser
           sets == request[r].sets
<1>1. request[r] \in [at : {"answer"}, browser : Browsers, manager : Managers,
                      link : SUBSET Link,
                      sets : [login : Cookie] \cup [session : Cookie]
                             \cup [login : Cookie, session : Cookie]]
  BY RequestShapes DEF Arrives, IsAt, TypeOK
<1>2. b \in Browsers
  BY <1>1
<1>3. /\ Cleared(loginCookie[b], sets, "login") \in Cookie
      /\ Cleared(sessionCookie[b], sets, "session") \in Cookie
  BY <1>1 DEF Cleared, TypeOK
<1>4. /\ loginCookie' \in [Browsers -> Cookie]
      /\ sessionCookie' \in [Browsers -> Cookie]
  BY <1>2, <1>3 DEF Arrives, TypeOK
<1>5. Idle \in Request
  BY DEF Request
<1>6. request' \in [Requests -> Request]
  BY <1>5, GoesType DEF Arrives
<1>7. links' \subseteq Link
  BY <1>1 DEF Arrives, TypeOK
<1> QED
  BY <1>4, <1>6, <1>7 DEF Arrives, TypeOK, store

LEMMA TypeOKStep == TypeOK /\ [Next]_vars => TypeOK'
<1> SUFFICES ASSUME TypeOK, [Next]_vars
             PROVE  TypeOK'
  OBVIOUS
<1>1. ASSUME NEW m \in Managers, Restart(m)
      PROVE  TypeOK'
  <2>1. Idle \in Request
    BY DEF Request
  <2>2. request' \in [Requests -> Request]
    BY <1>1, <2>1 DEF Restart, TypeOK
  <2>3. mishaps' \in 0 .. MaxMishaps
    BY <1>1, CredentialsAssumption DEF Restart, Mishap, TypeOK
  <2> QED
    BY <1>1, <2>2, <2>3 DEF Restart, TypeOK, store, cookies, history
<1>2. CASE Tick
  BY <1>2, CredentialsAssumption DEF Tick, TypeOK, store, cookies, history
<1>3. CASE UNCHANGED vars
  BY <1>3 DEF vars, TypeOK, store, cookies, history
<1> QED
  BY <1>1, <1>2, <1>3, TypeOKBegin, TypeOKSweepAndStore, TypeOKTakeAndOpen,
     TypeOKEndAndTokens, TypeOKArrives DEF Next

\* The tables, the requests and the cookies hold what the code puts there: an
\* answer sets cookies to secrets that were made, a row expires at a time.
THEOREM CredentialsTyping == Spec => []TypeOK
BY TypeOKInit, TypeOKStep, PTL DEF Spec

-----------------------------------------------------------------------------
(* One session for a sign-in.                                               *)

\* A sign-in that waits to be taken was not taken before.
LoginsAreNew == \A x \in logins : x.state \in 1 .. made /\ x.state \notin spent

\* What a request took is in its hands alone, and has opened no session yet.
TakenOnce ==
  \A r \in Requests : IsAt(r, {"exchange"}) =>
    /\ request[r].state \in spent
    /\ \A x \in opened : x.state # request[r].state
    /\ \A q \in Requests :
         IsAt(q, {"exchange"}) /\ request[q].state = request[r].state => q = r

OpenedWereTaken == \A x \in opened : x.state \in spent

SignInInv ==
  /\ spent \subseteq 1 .. made
  /\ LoginsAreNew
  /\ TakenOnce
  /\ OpenedWereTaken
  /\ OneSessionPerSignIn

\* Nothing is taken and nothing opened; no request gets as far as the provider.
LEMMA SignInInvKept ==
  ASSUME TypeOK, SignInInv, made' \in Nat, made <= made', logins' \subseteq logins,
         spent' = spent, opened' = opened,
         \A r \in Requests : IsAt(r, {"exchange"})' =>
            IsAt(r, {"exchange"}) /\ request'[r].state = request[r].state
  PROVE  SignInInv'
<1>1. made \in Nat
  BY CredentialsAssumption DEF TypeOK
<1>2. TakenOnce'
  BY DEF SignInInv, TakenOnce
<1> QED
  BY <1>1, <1>2 DEF SignInInv, LoginsAreNew, OpenedWereTaken, OneSessionPerSignIn

\* A new sign-in has a state no other has.
LEMMA SignInInvStore ==
  ASSUME TypeOK, SignInInv, NEW r \in Requests, StoreLogin(r)
  PROVE  SignInInv'
<1>1. made \in Nat /\ made' = made + 1
  BY CredentialsAssumption DEF TypeOK, StoreLogin, MakeSecret
<1>2. LoginsAreNew'
  BY <1>1 DEF StoreLogin, SignInInv, LoginsAreNew, history
<1>3. \A q \in Requests : IsAt(q, {"exchange"})' =>
        IsAt(q, {"exchange"}) /\ request'[q].state = request[q].state
  BY DEF StoreLogin, Answer, Goes, IsAt, TypeOK
<1>4. TakenOnce'
  BY <1>3 DEF StoreLogin, SignInInv, TakenOnce, history
<1> QED
  BY <1>1, <1>2, <1>4
  DEF StoreLogin, SignInInv, OpenedWereTaken, OneSessionPerSignIn, history

\* Of two callbacks of a sign-in, the one that comes first takes it.
LEMMA SignInInvTake ==
  ASSUME TypeOK, SignInInv, NEW r \in Requests, TakeLogin(r)
  PROVE  SignInInv'
<1>1. request[r] \in [at : {"take", "exchange"}, browser : Browsers, manager : Managers,
                      provider : Providers, state : Secrets]
  BY RequestShapes DEF TakeLogin, IsAt, TypeOK
<1>2. LoginsAreNew'
  BY DEF TakeLogin, LoginsOf, SignInInv, LoginsAreNew
<1>3. spent' = spent \cup {x.state : x \in LoginsOf(r)} /\ spent' \subseteq 1 .. made
  BY DEF TakeLogin, LoginsOf, SignInInv, LoginsAreNew
<1>4. \A q \in Requests : IsAt(q, {"exchange"})' =>
        \/ IsAt(q, {"exchange"}) /\ request'[q] = request[q] /\ q # r
        \/ /\ q = r /\ request'[r].state = request[r].state
           /\ \E x \in logins : x.state = request[r].state
  <2>1. CASE Moves(r, "exchange") /\ \E x \in LoginsOf(r) : TRUE
    BY <1>1, <2>1 DEF Moves, Goes, IsAt, TypeOK, LoginsOf
  <2>2. CASE Failed(r)
    BY <2>2 DEF Failed, Answer, Goes, IsAt, TypeOK
  <2> QED
    BY <2>1, <2>2 DEF TakeLogin
<1>5. TakenOnce'
  <2> SUFFICES ASSUME NEW q \in Requests, IsAt(q, {"exchange"})'
               PROVE  /\ request'[q].state \in spent'
                      /\ \A x \in opened : x.state # request'[q].state
                      /\ \A p \in Requests :
                           IsAt(p, {"exchange"})' /\ request'[p].state = request'[q].state
                             => p = q
    BY DEF TakenOnce, TakeLogin
  <2>1. request'[q].state \in spent'
    BY <1>3, <1>4 DEF SignInInv, TakenOnce, LoginsOf
  <2>2. \A x \in opened : x.state # request'[q].state
    BY <1>4 DEF SignInInv, TakenOnce, LoginsAreNew, OpenedWereTaken
  <2>3. ASSUME NEW p \in Requests, IsAt(p, {"exchange"})',
               request'[p].state = request'[q].state
        PROVE  p = q
    BY <1>4, <2>3 DEF SignInInv, TakenOnce, LoginsAreNew
  <2> QED
    BY <2>1, <2>2, <2>3
<1> QED
  BY <1>2, <1>3, <1>5 DEF TakeLogin, SignInInv, OpenedWereTaken, OneSessionPerSignIn

\* The session is the first of the sign-in, which this request alone took.
LEMMA SignInInvOpen ==
  ASSUME TypeOK, SignInInv, NEW r \in Requests, NEW who \in Accounts, OpenSession(r, who)
  PROVE  SignInInv'
<1> DEFINE new == [secret |-> made', state |-> request[r].state,
                   browser |-> request[r].browser, who |-> who]
<1>1. made \in Nat /\ made' = made + 1
  BY CredentialsAssumption DEF TypeOK, OpenSession, MakeSecret
<1>2. opened' = opened \cup {new} /\ new.state = request[r].state
  BY DEF OpenSession
<1>3. /\ request[r].state \in spent
      /\ \A x \in opened : x.state # request[r].state
  BY DEF OpenSession, SignInInv, TakenOnce
<1>4. \A q \in Requests : IsAt(q, {"exchange"})' =>
        IsAt(q, {"exchange"}) /\ request'[q] = request[q] /\ q # r
  BY DEF OpenSession, Answer, Goes, IsAt, TypeOK
<1> HIDE DEF new
<1>5. OneSessionPerSignIn' /\ OpenedWereTaken'
  BY <1>2, <1>3 DEF OpenSession, SignInInv, OneSessionPerSignIn, OpenedWereTaken
<1>6. TakenOnce'
  BY <1>2, <1>4 DEF OpenSession, SignInInv, TakenOnce
<1> QED
  BY <1>1, <1>5, <1>6 DEF OpenSession, SignInInv, LoginsAreNew

LEMMA SignInInvStep == TypeOK /\ SignInInv /\ [Next]_vars => SignInInv'
<1> SUFFICES ASSUME TypeOK, SignInInv, [Next]_vars
             PROVE  SignInInv'
  OBVIOUS
<1>1. made \in Nat
  BY CredentialsAssumption DEF TypeOK
<1> DEFINE Onward == \A q \in Requests : IsAt(q, {"exchange"})' =>
                       IsAt(q, {"exchange"}) /\ request'[q].state = request[q].state
           Kept == /\ made' \in Nat /\ made <= made' /\ logins' \subseteq logins
                   /\ spent' = spent /\ opened' = opened /\ Onward
<1>2. Kept => SignInInv'
  BY SignInInvKept
<1>3. ASSUME NEW r \in Requests, NEW b \in Browsers, NEW m \in Managers,
             \/ \E p \in Providers : BeginLogin(r, b, m, p)
             \/ \E p \in Providers, link \in links : Callback(r, b, m, p, link)
             \/ LoginFails(r, b, m)
             \/ Logout(r, b, m)
      PROVE  Kept
  <2>1. Onward
    BY <1>3 DEF BeginLogin, Callback, LoginFails, Logout, FailedAtOnce, Goes, IsAt, TypeOK
  <2>2. made' = made /\ logins' = logins /\ spent' = spent /\ opened' = opened
    BY <1>3 DEF BeginLogin, Callback, LoginFails, Logout, store, history
  <2> QED
    BY <1>1, <2>1, <2>2
<1>4. ASSUME NEW r \in Requests, DeleteExpired(r) \/ CountLogins(r)
      PROVE  Kept
  <2>1. request[r] \in [at : {"sweep", "count", "store"}, browser : Browsers,
                        manager : Managers, provider : Providers, begun : Nat]
    BY <1>4, RequestShapes DEF DeleteExpired, CountLogins, IsAt, TypeOK
  <2>2. Onward
    BY <1>4, <2>1 DEF DeleteExpired, CountLogins, Failed, Answer, Moves, Goes, IsAt, TypeOK
  <2> QED
    BY <1>1, <1>4, <2>2 DEF DeleteExpired, CountLogins, store, history
<1>5. ASSUME NEW r \in Requests,
             \/ ProviderRefuses(r) \/ \E who \in Accounts : NotAllowed(r, who)
             \/ EndSession(r) \/ Arrives(r) \/ DeleteFails(r)
      PROVE  Kept
  <2>1. Onward
    BY <1>5 DEF ProviderRefuses, NotAllowed, EndSession, Arrives, DeleteFails, Failed,
                Answer, Goes, IsAt, Idle, TypeOK
  <2> QED
    BY <1>1, <1>5, <2>1 DEF ProviderRefuses, NotAllowed, EndSession, Arrives, DeleteFails,
                            store, history
<1>6. CASE \/ EndSessions
           \/ \E name \in TokenNames : \/ \E seconds \in TokenLives :
                                            CreateToken(name, seconds)
                                       \/ RevokeToken(name)
           \/ Tick
           \/ UNCHANGED vars
  BY <1>1, <1>2, <1>6 DEF EndSessions, CreateToken, RevokeToken, Tick, MakeSecret, vars,
                          store, history, IsAt
<1>7. ASSUME NEW m \in Managers, Restart(m)
      PROVE  Kept
  BY <1>1, <1>7 DEF Restart, IsAt, Idle, TypeOK, store, history
<1> QED
  BY <1>2, <1>3, <1>4, <1>5, <1>6, <1>7, SignInInvStore, SignInInvTake, SignInInvOpen DEF Next

\* A sign-in opens one session at most, for any number of processes and of
\* callbacks at once.
THEOREM OneSession == Spec => []OneSessionPerSignIn
<1>1. Init => SignInInv
  BY DEF Init, SignInInv, LoginsAreNew, TakenOnce, OpenedWereTaken, OneSessionPerSignIn,
         IsAt, Idle
<1>2. SignInInv => OneSessionPerSignIn
  BY DEF SignInInv
<1> QED
  BY <1>1, <1>2, SignInInvStep, CredentialsTyping, PTL DEF Spec

-----------------------------------------------------------------------------
(* A session for the browser, the provider and the person of its sign-in.   *)

\* The browser's login cookie is that of a sign-in it was sent to its provider
\* with.
CookieIsOwn ==
  \A b \in Browsers : loginCookie[b] # None =>
    \E l \in links : l.state = loginCookie[b] /\ l.browser = b

\* The answer that sets it brings the redirect.
CookieComesWithLink ==
  \A r \in Requests :
    IsAt(r, {"answer"}) /\ "login" \in DOMAIN request[r].sets /\ request[r].sets.login # None
      => \E l \in request[r].link : /\ l.state = request[r].sets.login
                                    /\ l.browser = request[r].browser

\* A callback is for a sign-in of the browser; one that took it, for the provider
\* it was begun with.
CallbackIsOwn ==
  \A r \in Requests : IsAt(r, {"take", "exchange"}) =>
    \E l \in links : /\ l.state = request[r].state /\ l.browser = request[r].browser
                     /\ IsAt(r, {"exchange"}) => l.provider = request[r].provider

\* A redirect, on its way or arrived, and a stored sign-in of one state agree on
\* the provider.
AgreesWithLogins(l) ==
  l.state <= made /\ \A x \in logins : x.state = l.state => x.provider = l.provider

LinksAgree ==
  /\ \A l \in links : AgreesWithLogins(l)
  /\ \A r \in Requests : IsAt(r, {"answer"}) =>
       \A l \in request[r].link : AgreesWithLogins(l)

OwnInv ==
  /\ \A x \in logins : x.state <= made
  /\ CookieIsOwn
  /\ CookieComesWithLink
  /\ CallbackIsOwn
  /\ LinksAgree
  /\ SessionForSignIn

\* The stage of a request after it went on to something else.
LEMMA GoesTo ==
  ASSUME TypeOK, NEW r \in Requests, NEW to, Goes(r, to)
  PROVE  \A q \in Requests : request'[q] = IF q = r THEN to ELSE request[q]
BY DEF Goes, TypeOK

\* No sign-in is stored, no redirect arrives and no session is opened; a request
\* at most comes to an answer that sets no login cookie.
LEMMA OwnInvKept ==
  ASSUME TypeOK, OwnInv, made' \in Nat, made <= made', logins' \subseteq logins,
         links' = links, opened' = opened, loginCookie' = loginCookie,
         NEW R \in SUBSET Requests,
         \A q \in Requests \ R : request'[q] = request[q],
         \A q \in R :
           \/ request'[q].at \notin {"take", "exchange", "answer"}
           \/ /\ request'[q].at = "answer" /\ request'[q].link = {}
              /\ \/ "login" \notin DOMAIN request'[q].sets
                 \/ request'[q].sets.login = None
  PROVE  OwnInv'
<1>1. made \in Nat /\ \A x \in logins : x.state \in Nat
  BY CredentialsAssumption DEF TypeOK, Login
<1>2. \A x \in logins' : x.state <= made'
  BY <1>1 DEF OwnInv
<1>3. CookieIsOwn'
  BY DEF OwnInv, CookieIsOwn
<1>4. CookieComesWithLink'
  BY DEF OwnInv, CookieComesWithLink, IsAt
<1>5. CallbackIsOwn'
  BY DEF OwnInv, CallbackIsOwn, IsAt
<1>6. \A l \in Link : AgreesWithLogins(l) => AgreesWithLogins(l)'
  BY <1>1 DEF AgreesWithLogins, Link
<1>7. \A q \in Requests : IsAt(q, {"answer"}) => request[q].link \subseteq Link
  BY RequestShapes DEF IsAt, TypeOK
<1>8. LinksAgree'
  <2>1. \A l \in links' : AgreesWithLogins(l)'
    BY <1>6 DEF OwnInv, LinksAgree, TypeOK
  <2>2. ASSUME NEW q \in Requests, IsAt(q, {"answer"})', NEW l \in request'[q].link
        PROVE  AgreesWithLogins(l)'
    <3>1. request'[q] = request[q]
      BY <2>2 DEF IsAt
    <3> QED
      BY <1>6, <1>7, <2>2, <3>1 DEF OwnInv, LinksAgree, IsAt
  <2> QED
    BY <2>1, <2>2 DEF LinksAgree
<1>9. SessionForSignIn'
  BY DEF OwnInv, SessionForSignIn
<1> QED
  BY <1>2, <1>3, <1>4, <1>5, <1>8, <1>9 DEF OwnInv

\* One request answers without setting a login cookie.
LEMMA OwnInvAnswered ==
  ASSUME TypeOK, OwnInv, made' \in Nat, made <= made', logins' \subseteq logins,
         links' = links, opened' = opened, loginCookie' = loginCookie,
         NEW r \in Requests, NEW to,
         \A q \in Requests : request'[q] = IF q = r THEN to ELSE request[q],
         \/ to.at \notin {"take", "exchange", "answer"}
         \/ /\ to.at = "answer" /\ to.link = {}
            /\ \/ "login" \notin DOMAIN to.sets
               \/ to.sets.login = None
  PROVE  OwnInv'
<1> DEFINE R == {r}
<1>1. R \in SUBSET Requests /\ \A q \in Requests \ R : request'[q] = request[q]
  OBVIOUS
<1>2. \A q \in R :
           \/ request'[q].at \notin {"take", "exchange", "answer"}
           \/ /\ request'[q].at = "answer" /\ request'[q].link = {}
              /\ \/ "login" \notin DOMAIN request'[q].sets
                 \/ request'[q].sets.login = None
  OBVIOUS
<1> HIDE DEF R
<1> QED
  BY <1>1, <1>2, OwnInvKept

\* One request fails.
LEMMA OwnInvFailed ==
  ASSUME TypeOK, OwnInv, made' = made, logins' \subseteq logins,
         links' = links, opened' = opened, loginCookie' = loginCookie,
         NEW r \in Requests, Failed(r)
  PROVE  OwnInv'
<1> DEFINE failed == [at |-> "answer", browser |-> request[r].browser,
                      manager |-> request[r].manager, sets |-> [login |-> None],
                      link |-> {}]
<1>1. \A q \in Requests : request'[q] = IF q = r THEN failed ELSE request[q]
  BY GoesTo DEF Failed, Answer
<1>2. failed.at = "answer" /\ failed.link = {} /\ failed.sets.login = None
  OBVIOUS
<1> HIDE DEF failed
<1>3. made' \in Nat /\ made <= made'
  BY CredentialsAssumption DEF TypeOK
<1> QED
  BY <1>1, <1>2, <1>3, OwnInvAnswered

\* A callback is for the sign-in the browser's cookie is of, or fails.
LEMMA OwnInvCallback ==
  ASSUME TypeOK, OwnInv, NEW r \in Requests, NEW b \in Browsers, NEW m \in Managers,
         NEW p \in Providers, NEW link \in links, Callback(r, b, m, p, link)
  PROVE  OwnInv'
<1> DEFINE asked == [at |-> "take", browser |-> b, manager |-> m, provider |-> p,
                     state |-> link.state]
<1>1. made \in Nat /\ UNCHANGED <<made, logins, links, opened, loginCookie>>
  BY CredentialsAssumption DEF TypeOK, Callback, store, cookies, history
<1>2. CASE ~IsOwn(b, link.state)
  <2>1. Goes(r, FailedAtOnce(b, m))
    BY <1>2 DEF Callback
  <2>2. \A q \in Requests : request'[q] = IF q = r THEN FailedAtOnce(b, m) ELSE request[q]
    BY <2>1, GoesTo
  <2>3. /\ FailedAtOnce(b, m).at = "answer" /\ FailedAtOnce(b, m).link = {}
        /\ FailedAtOnce(b, m).sets.login = None
    BY DEF FailedAtOnce
  <2>4. made' \in Nat /\ made <= made' /\ logins' \subseteq logins
    BY <1>1
  <2> QED
    BY <1>1, <2>2, <2>3, <2>4, OwnInvAnswered
<1>3. CASE IsOwn(b, link.state)
  <2>1. Goes(r, asked)
    BY <1>3 DEF Callback
  <2>2. \A q \in Requests : request'[q] = IF q = r THEN asked ELSE request[q]
    BY <2>1, GoesTo
  <2>3. PICK l \in links : l.state = link.state /\ l.browser = b
    BY <1>3, CredentialsAssumption DEF OwnInv, CookieIsOwn, IsOwn, TypeOK, Link
  <2>4. CallbackIsOwn'
    BY <1>1, <2>2, <2>3 DEF OwnInv, CallbackIsOwn, IsAt
  <2>5. CookieComesWithLink' /\ LinksAgree'
    BY <1>1, <2>2 DEF OwnInv, CookieComesWithLink, LinksAgree, AgreesWithLogins, IsAt
  <2> QED
    BY <1>1, <2>4, <2>5 DEF OwnInv, CookieIsOwn, SessionForSignIn
<1> QED
  BY <1>2, <1>3

\* The new cookie and the new redirect go out in one answer.
LEMMA OwnInvStore ==
  ASSUME TypeOK, OwnInv, NEW r \in Requests, StoreLogin(r)
  PROVE  OwnInv'
<1> DEFINE login == [state |-> made', provider |-> request[r].provider,
                     expires |-> Lasting(LoginSeconds)]
           link == [state |-> made', provider |-> request[r].provider,
                    browser |-> request[r].browser, expires |-> Lasting(LoginSeconds)]
           answer == [at |-> "answer", browser |-> request[r].browser,
                      manager |-> request[r].manager, sets |-> [login |-> made'],
                      link |-> {link}]
<1>1. /\ made \in Nat /\ made' = made + 1 /\ logins' = logins \cup {login}
      /\ UNCHANGED <<links, opened, loginCookie>>
  BY CredentialsAssumption DEF TypeOK, StoreLogin, MakeSecret, cookies, history
<1>2. \A q \in Requests : request'[q] = IF q = r THEN answer ELSE request[q]
  BY GoesTo DEF StoreLogin, Answer
<1>3. /\ \A x \in logins : x.state \in Nat /\ x.state <= made
      /\ links \subseteq Link
      /\ \A q \in Requests : IsAt(q, {"answer"}) => request[q].link \subseteq Link
  BY RequestShapes DEF OwnInv, TypeOK, Login, IsAt
<1>4. \A l \in Link : AgreesWithLogins(l) => AgreesWithLogins(l)'
  BY <1>1 DEF AgreesWithLogins, Link
<1>5. /\ link.state <= made'
      /\ \A x \in logins' : x.state = link.state => x.provider = link.provider
  BY <1>1, <1>3
<1>6. /\ login.state = made'
      /\ link.state = made' /\ link.browser = answer.browser
      /\ answer.at = "answer" /\ answer.sets.login = made' /\ answer.link = {link}
  OBVIOUS
<1> HIDE DEF login, link, answer
<1>7. \A x \in logins' : x.state <= made'
  BY <1>1, <1>3, <1>6
<1>8. CookieComesWithLink'
  <2>1. ASSUME NEW q \in Requests, IsAt(q, {"answer"})',
               "login" \in DOMAIN request'[q].sets, request'[q].sets.login # None
        PROVE  \E l \in request'[q].link : /\ l.state = request'[q].sets.login
                                           /\ l.browser = request'[q].browser
    <3>1. CASE q = r
      BY <1>2, <1>6, <3>1
    <3>2. CASE q # r
      BY <1>2, <2>1, <3>2 DEF OwnInv, CookieComesWithLink, IsAt
    <3> QED
      BY <3>1, <3>2
  <2> QED
    BY <2>1 DEF CookieComesWithLink
<1>9. LinksAgree'
  <2>1. \A l \in links' : AgreesWithLogins(l)'
    BY <1>1, <1>3, <1>4 DEF OwnInv, LinksAgree
  <2>2. ASSUME NEW q \in Requests, IsAt(q, {"answer"})', NEW l \in request'[q].link
        PROVE  AgreesWithLogins(l)'
    <3>1. CASE q = r
      <4>1. l = link
        BY <1>2, <1>6, <2>2, <3>1
      <4> QED
        BY <1>5, <4>1 DEF AgreesWithLogins
    <3>2. CASE q # r
      <4>1. l \in request[q].link /\ IsAt(q, {"answer"})
        BY <1>2, <2>2, <3>2 DEF IsAt
      <4> QED
        BY <1>3, <1>4, <4>1 DEF OwnInv, LinksAgree
    <3> QED
      BY <3>1, <3>2
  <2> QED
    BY <2>1, <2>2 DEF LinksAgree
<1>10. CallbackIsOwn' /\ CookieIsOwn' /\ SessionForSignIn'
  BY <1>1, <1>2, <1>6 DEF OwnInv, CallbackIsOwn, CookieIsOwn, SessionForSignIn, IsAt
<1> QED
  BY <1>7, <1>8, <1>9, <1>10 DEF OwnInv

\* The sign-in taken is of the provider its redirect was to.
LEMMA OwnInvTake ==
  ASSUME TypeOK, OwnInv, NEW r \in Requests, TakeLogin(r)
  PROVE  OwnInv'
<1> DEFINE taken == [request[r] EXCEPT !.at = "exchange"]
<1>1. /\ made \in Nat /\ made' = made /\ logins' \subseteq logins
      /\ UNCHANGED <<links, opened, loginCookie>>
  BY CredentialsAssumption DEF TypeOK, TakeLogin, cookies
<1>2. CASE Failed(r)
  BY <1>1, <1>2, OwnInvFailed
<1>3. CASE Moves(r, "exchange")
           /\ \E x \in LoginsOf(r) : Alive(x) /\ x.provider = request[r].provider
  <2>1. request[r] \in [at : {"take", "exchange"}, browser : Browsers, manager : Managers,
                        provider : Providers, state : Secrets]
    BY RequestShapes DEF TakeLogin, IsAt, TypeOK
  <2>2. /\ taken.at = "exchange" /\ taken.state = request[r].state
        /\ taken.browser = request[r].browser /\ taken.provider = request[r].provider
    BY <2>1
  <2>3. \A q \in Requests : request'[q] = IF q = r THEN taken ELSE request[q]
    BY <1>3, GoesTo DEF Moves
  <2> HIDE DEF taken
  <2>4. PICK l \in links : l.state = request[r].state /\ l.browser = request[r].browser
    BY DEF OwnInv, CallbackIsOwn, TakeLogin, IsAt
  <2>5. l.provider = request[r].provider
    BY <1>3, <2>4 DEF OwnInv, LinksAgree, AgreesWithLogins, LoginsOf
  <2>6. CallbackIsOwn'
    BY <1>1, <2>2, <2>3, <2>4, <2>5 DEF OwnInv, CallbackIsOwn, IsAt
  <2>7. CookieComesWithLink' /\ LinksAgree'
    BY <1>1, <2>2, <2>3 DEF OwnInv, CookieComesWithLink, LinksAgree, AgreesWithLogins, IsAt
  <2> QED
    BY <1>1, <2>6, <2>7 DEF OwnInv, CookieIsOwn, SessionForSignIn
<1> QED
  BY <1>2, <1>3 DEF TakeLogin

\* The session is opened for the sign-in the callback was for.
LEMMA OwnInvOpen ==
  ASSUME TypeOK, OwnInv, NEW r \in Requests, NEW who \in Accounts, OpenSession(r, who)
  PROVE  OwnInv'
<1> DEFINE new == [secret |-> made', state |-> request[r].state,
                   browser |-> request[r].browser, who |-> who]
           answer == [at |-> "answer", browser |-> request[r].browser,
                      manager |-> request[r].manager,
                      sets |-> [login |-> None, session |-> made'], link |-> {}]
<1>1. /\ made \in Nat /\ made' = made + 1 /\ opened' = opened \cup {new}
      /\ UNCHANGED <<logins, links, loginCookie>>
  BY CredentialsAssumption DEF TypeOK, OpenSession, MakeSecret, cookies
<1>2. \A q \in Requests : request'[q] = IF q = r THEN answer ELSE request[q]
  BY GoesTo DEF OpenSession, Answer
<1>3. SessionForSignIn'
  BY <1>1 DEF OwnInv, SessionForSignIn, CallbackIsOwn, OpenSession, MayEnter, IsAt
<1>4. \A l \in Link : AgreesWithLogins(l) => AgreesWithLogins(l)'
  BY <1>1 DEF AgreesWithLogins, Link
<1>5. LinksAgree'
  <2>1. /\ links \subseteq Link
        /\ \A q \in Requests : IsAt(q, {"answer"}) => request[q].link \subseteq Link
    BY RequestShapes DEF TypeOK, IsAt
  <2> QED
    BY <1>1, <1>2, <1>4, <2>1 DEF OwnInv, LinksAgree, IsAt
<1>6. CookieComesWithLink' /\ CallbackIsOwn' /\ CookieIsOwn'
  BY <1>1, <1>2 DEF OwnInv, CookieComesWithLink, CallbackIsOwn, CookieIsOwn, IsAt
<1>7. \A x \in logins' : x.state <= made'
  BY <1>1 DEF OwnInv, TypeOK, Login
<1> QED
  BY <1>3, <1>5, <1>6, <1>7 DEF OwnInv

\* Cookie and redirect reach the browser together.
LEMMA OwnInvArrives ==
  ASSUME TypeOK, OwnInv, NEW r \in Requests, Arrives(r)
  PROVE  OwnInv'
<1> DEFINE b == request[r].browser
           sets == request[r].sets
<1>1. /\ IsAt(r, {"answer"}) /\ links' = links \cup request[r].link
      /\ UNCHANGED <<made, logins, opened>>
  BY DEF Arrives, store
<1>2. \A q \in Requests : request'[q] = IF q = r THEN Idle ELSE request[q]
  BY GoesTo DEF Arrives
<1>3. \A c \in Browsers :
        loginCookie'[c] = IF c = b /\ "login" \in DOMAIN sets THEN sets.login
                          ELSE loginCookie[c]
  BY DEF Arrives, Cleared, TypeOK
<1>4. CookieIsOwn'
  <2>1. ASSUME NEW c \in Browsers, loginCookie'[c] # None
        PROVE  \E l \in links' : l.state = loginCookie'[c] /\ l.browser = c
    <3>1. CASE c = b /\ "login" \in DOMAIN sets
      BY <1>1, <1>3, <2>1, <3>1 DEF OwnInv, CookieComesWithLink
    <3>2. CASE ~(c = b /\ "login" \in DOMAIN sets)
      BY <1>1, <1>3, <2>1, <3>2 DEF OwnInv, CookieIsOwn
    <3> QED
      BY <3>1, <3>2
  <2> QED
    BY <2>1 DEF CookieIsOwn
<1>5. CookieComesWithLink'
  BY <1>2 DEF OwnInv, CookieComesWithLink, IsAt, Idle
<1>6. CallbackIsOwn'
  BY <1>1, <1>2 DEF OwnInv, CallbackIsOwn, IsAt, Idle
<1>7. LinksAgree'
  BY <1>1, <1>2 DEF OwnInv, LinksAgree, AgreesWithLogins, IsAt, Idle
<1>8. SessionForSignIn'
  BY <1>1 DEF OwnInv, SessionForSignIn
<1> QED
  BY <1>1, <1>4, <1>5, <1>6, <1>7, <1>8 DEF OwnInv

LEMMA OwnInvStep ==
  ASSUME TypeOK, OwnInv, [Next]_vars
  PROVE  OwnInv'
<1>1. made \in Nat
  BY CredentialsAssumption DEF TypeOK
<1>2. ASSUME NEW r \in Requests, NEW b \in Browsers, NEW m \in Managers,
             NEW p \in Providers, BeginLogin(r, b, m, p)
      PROVE  OwnInv'
  <2> DEFINE to == [at |-> IF NeedsSweep(m) THEN "sweep" ELSE "count",
                    browser |-> b, manager |-> m, provider |-> p, begun |-> clock]
  <2>1. \A q \in Requests : request'[q] = IF q = r THEN to ELSE request[q]
    BY <1>2, GoesTo DEF BeginLogin
  <2>2. to.at \notin {"take", "exchange", "answer"}
    OBVIOUS
  <2>3. UNCHANGED <<made, logins, links, opened, loginCookie>>
    BY <1>2 DEF BeginLogin, store, cookies, history
  <2> HIDE DEF to
  <2> QED
    BY <1>1, <2>1, <2>2, <2>3, OwnInvAnswered
<1>3. ASSUME NEW r \in Requests, NEW b \in Browsers, NEW m \in Managers,
             LoginFails(r, b, m) \/ Logout(r, b, m)
      PROVE  OwnInv'
  <2> DEFINE ends == [at |-> "end", browser |-> b, manager |-> m,
                      secret |-> sessionCookie[b]]
             clears == [at |-> "answer", browser |-> b, manager |-> m,
                        sets |-> [session |-> None], link |-> {}]
             to == IF LoginFails(r, b, m) THEN FailedAtOnce(b, m)
                   ELSE IF sessionCookie[b] # None THEN ends ELSE clears
  <2>1. \A q \in Requests : request'[q] = IF q = r THEN to ELSE request[q]
    BY <1>3, GoesTo DEF LoginFails, Logout
  <2>2. /\ FailedAtOnce(b, m).at = "answer" /\ FailedAtOnce(b, m).link = {}
        /\ FailedAtOnce(b, m).sets.login = None
        /\ ends.at = "end"
        /\ clears.at = "answer" /\ clears.link = {} /\ DOMAIN clears.sets = {"session"}
    BY DEF FailedAtOnce
  <2>3. UNCHANGED <<made, logins, links, opened, loginCookie>>
    BY <1>3 DEF LoginFails, Logout, store, cookies, history
  <2>4. \/ to.at \notin {"take", "exchange", "answer"}
        \/ /\ to.at = "answer" /\ to.link = {}
           /\ "login" \notin DOMAIN to.sets \/ to.sets.login = None
    <3> HIDE DEF ends, clears
    <3> QED
      BY <2>2
  <2> HIDE DEF to
  <2> QED
    BY <1>1, <2>1, <2>3, <2>4, OwnInvAnswered
<1>4. ASSUME NEW r \in Requests, DeleteExpired(r) \/ CountLogins(r)
      PROVE  OwnInv'
  <2>1. request[r].at \in {"sweep", "count"}
    BY <1>4 DEF DeleteExpired, CountLogins, IsAt
  <2>2. request[r] \in [at : {"sweep", "count", "store"}, browser : Browsers,
                        manager : Managers, provider : Providers, begun : Nat]
    BY <2>1, RequestShapes DEF TypeOK
  <2>3. UNCHANGED <<made, links, opened, loginCookie>> /\ logins' \subseteq logins
    BY <1>4 DEF DeleteExpired, CountLogins, store, cookies, history
  <2>4. CASE \E stage \in {"count", "store"} : Moves(r, stage)
    <3>1. PICK stage \in {"count", "store"} : Moves(r, stage)
      BY <2>4
    <3> DEFINE to == [request[r] EXCEPT !.at = stage]
    <3>2. \A q \in Requests : request'[q] = IF q = r THEN to ELSE request[q]
      BY <3>1, GoesTo DEF Moves
    <3>3. to.at = stage
      BY <2>2
    <3> HIDE DEF to
    <3>4. to.at \notin {"take", "exchange", "answer"}
      BY <3>3
    <3> QED
      BY <1>1, <2>3, <3>2, <3>4, OwnInvAnswered
  <2>5. CASE Failed(r)
    BY <1>1, <2>3, <2>5, OwnInvFailed
  <2> QED
    BY <1>4, <2>4, <2>5 DEF DeleteExpired, CountLogins
<1>5. ASSUME NEW r \in Requests,
             ProviderRefuses(r) \/ \E who \in Accounts : NotAllowed(r, who)
      PROVE  OwnInv'
  BY <1>1, <1>5, OwnInvFailed DEF ProviderRefuses, NotAllowed, store, cookies, history
<1>6. ASSUME NEW r \in Requests, EndSession(r)
      PROVE  OwnInv'
  <2> DEFINE to == [at |-> "answer", browser |-> request[r].browser,
                    manager |-> request[r].manager, sets |-> [session |-> None],
                    link |-> {}]
  <2>1. \A q \in Requests : request'[q] = IF q = r THEN to ELSE request[q]
    BY <1>6, GoesTo DEF EndSession, Answer
  <2>2. to.at = "answer" /\ to.link = {} /\ DOMAIN to.sets = {"session"}
    OBVIOUS
  <2>3. UNCHANGED <<made, logins, links, opened, loginCookie>>
    BY <1>6 DEF EndSession, cookies, history
  <2> HIDE DEF to
  <2> QED
    BY <1>1, <2>1, <2>2, <2>3, OwnInvAnswered
<1>7. CASE \/ EndSessions
           \/ \E name \in TokenNames : \/ \E seconds \in TokenLives :
                                            CreateToken(name, seconds)
                                       \/ RevokeToken(name)
           \/ Tick
           \/ UNCHANGED vars
  <2>1. UNCHANGED <<logins, request, links, opened, loginCookie>> /\ made' \in {made, made + 1}
    BY <1>7 DEF EndSessions, CreateToken, RevokeToken, Tick, MakeSecret, vars, store,
                cookies, history
  <2>2. made' \in Nat /\ made <= made'
    BY <1>1, <2>1
  <2> DEFINE R == {q \in Requests : request'[q] # request[q]}
  <2>3. R \in SUBSET Requests /\ R = {} /\ \A q \in Requests \ R : request'[q] = request[q]
    BY <2>1
  <2> HIDE DEF R
  <2> QED
    BY <2>1, <2>2, <2>3, OwnInvKept
<1>8. ASSUME NEW m \in Managers, Restart(m)
      PROVE  OwnInv'
  <2> DEFINE R == {r \in Requests : request'[r] # request[r]}
  <2>1. R \in SUBSET Requests /\ \A q \in Requests \ R : request'[q] = request[q]
    OBVIOUS
  <2>2. \A q \in R : request'[q] = Idle
    BY <1>8 DEF Restart, TypeOK
  <2>3. \A q \in R : request'[q].at = "idle"
    BY <2>2 DEF Idle
  <2>4. UNCHANGED <<made, logins, links, opened, loginCookie>>
    BY <1>8 DEF Restart, store, cookies, history
  <2> HIDE DEF R
  <2> QED
    BY <1>1, <2>1, <2>3, <2>4, OwnInvKept
<1>9. ASSUME NEW r \in Requests, DeleteFails(r)
      PROVE  OwnInv'
  <2> DEFINE R == {q \in Requests : request'[q] # request[q]}
  <2>1. R \in SUBSET Requests /\ \A q \in Requests \ R : request'[q] = request[q]
    OBVIOUS
  <2>2. \A q \in R : request'[q].at = "idle"
    BY <1>9, GoesTo DEF DeleteFails, Idle
  <2>3. UNCHANGED <<made, logins, links, opened, loginCookie>>
    BY <1>9 DEF DeleteFails, store, cookies, history
  <2> HIDE DEF R
  <2> QED
    BY <1>1, <2>1, <2>2, <2>3, OwnInvKept
<1> QED
  BY <1>2, <1>3, <1>4, <1>5, <1>6, <1>7, <1>8, <1>9,
     OwnInvCallback, OwnInvStore, OwnInvTake, OwnInvOpen, OwnInvArrives DEF Next

\* Who is signed in, in which browser and through which provider is what the
\* sign-in was begun for, whatever callbacks are opened in which browsers.
THEOREM SessionForItsSignIn == Spec => []SessionForSignIn
<1>1. Init => OwnInv
  BY DEF Init, OwnInv, CookieIsOwn, CookieComesWithLink, CallbackIsOwn, LinksAgree,
         SessionForSignIn, IsAt, Idle
<1>2. OwnInv => SessionForSignIn
  BY DEF OwnInv
<1> QED
  BY <1>1, <1>2, OwnInvStep, CredentialsTyping, PTL DEF Spec

-----------------------------------------------------------------------------
(* What a step does to the tables.                                          *)

\* Time goes on, and what is added is new and lasts for a while.
LEMMA RowsNext ==
  ASSUME TypeOK, [Next]_vars
  PROVE  /\ clock \in Nat /\ clock' \in Nat /\ clock <= clock'
         /\ \A x \in (tokens \cup sessions)' :
              x \in tokens \cup sessions \/ x.secret = made + 1
         /\ \A x \in (sessions \cup logins)' :
              x \in sessions \cup logins \/ x.expires > clock
<1>1. clock \in Nat
  BY CredentialsAssumption DEF TypeOK
<1>2. /\ \A x \in (tokens \cup sessions)' :
              x \in tokens \cup sessions \/ x.secret = made + 1
      /\ \A x \in (sessions \cup logins)' :
              x \in sessions \cup logins \/ x.expires > clock
  <2>1. ASSUME NEW r \in Requests, StoreLogin(r)
        PROVE  \A x \in logins' : x \in logins \/ x.expires > clock
    <3> DEFINE login == [state |-> made', provider |-> request[r].provider,
                         expires |-> Lasting(LoginSeconds)]
    <3>1. logins' = logins \cup {login}
      BY <2>1 DEF StoreLogin
    <3>2. login.expires > clock
      BY <1>1, CredentialsAssumption DEF Lasting
    <3> HIDE DEF login
    <3> QED
      BY <3>1, <3>2
  <2>2. ASSUME NEW r \in Requests, NEW who \in Accounts, OpenSession(r, who)
        PROVE  \A x \in sessions' :
                 x \in sessions \/ (x.secret = made + 1 /\ x.expires > clock)
    <3> DEFINE new == [secret |-> made', who |-> who, expires |-> Lasting(SessionSeconds)]
    <3>1. sessions' = sessions \cup {new} /\ made' = made + 1
      BY <2>2 DEF OpenSession, MakeSecret
    <3>2. new.secret = made' /\ new.expires > clock
      BY <1>1, CredentialsAssumption DEF Lasting
    <3> HIDE DEF new
    <3> QED
      BY <3>1, <3>2
  <2>3. ASSUME NEW name \in TokenNames, NEW seconds \in TokenLives, CreateToken(name, seconds)
        PROVE  \A x \in tokens' : x \in tokens \/ x.secret = made + 1
    BY <2>3 DEF CreateToken, MakeSecret
  <2>4. ASSUME NEW r \in Requests, StoreLogin(r)
        PROVE  UNCHANGED <<tokens, sessions>>
    BY <2>4 DEF StoreLogin
  <2>5. ASSUME NEW r \in Requests, NEW who \in Accounts, OpenSession(r, who)
        PROVE  UNCHANGED <<tokens, logins>>
    BY <2>5 DEF OpenSession
  <2>6. ASSUME NEW name \in TokenNames, NEW seconds \in TokenLives, CreateToken(name, seconds)
        PROVE  UNCHANGED <<sessions, logins>>
    BY <2>6 DEF CreateToken
  <2>7. CASE tokens' \subseteq tokens /\ sessions' \subseteq sessions /\ logins' \subseteq logins
    BY <2>7
  <2>8. ASSUME NEW r \in Requests,
               \/ DeleteExpired(r) \/ DeleteFails(r) \/ TakeLogin(r) \/ EndSession(r)
               \/ CountLogins(r) \/ ProviderRefuses(r) \/ Arrives(r)
               \/ \E who \in Accounts : NotAllowed(r, who)
        PROVE  tokens' \subseteq tokens /\ sessions' \subseteq sessions /\ logins' \subseteq logins
    BY <2>8 DEF DeleteExpired, DeleteFails, TakeLogin, EndSession, CountLogins,
                ProviderRefuses, Arrives, NotAllowed, store
  <2>9. CASE \/ EndSessions
             \/ \E name \in TokenNames : RevokeToken(name)
             \/ \E m \in Managers : Restart(m)
             \/ Tick \/ UNCHANGED vars
    BY <2>7, <2>9 DEF EndSessions, RevokeToken, Restart, Tick, vars, store
  <2>10. ASSUME NEW r \in Requests, NEW b \in Browsers, NEW m \in Managers,
                \/ \E p \in Providers : BeginLogin(r, b, m, p)
                \/ \E p \in Providers, link \in links : Callback(r, b, m, p, link)
                \/ LoginFails(r, b, m)
                \/ Logout(r, b, m)
         PROVE  UNCHANGED store
    BY <2>10 DEF BeginLogin, Callback, LoginFails, Logout
  <2> QED
    BY <2>1, <2>2, <2>3, <2>4, <2>5, <2>6, <2>7, <2>8, <2>9, <2>10 DEF Next, store
<1>3. clock' = clock \/ clock' = clock + 1
  <2>1. ASSUME NEW r \in Requests, NEW b \in Browsers, NEW m \in Managers,
               \/ \E p \in Providers : BeginLogin(r, b, m, p)
               \/ \E p \in Providers, link \in links : Callback(r, b, m, p, link)
               \/ LoginFails(r, b, m)
               \/ Logout(r, b, m)
        PROVE  clock' = clock
    BY <2>1 DEF BeginLogin, Callback, LoginFails, Logout
  <2>2. ASSUME NEW r \in Requests,
               \/ DeleteExpired(r) \/ DeleteFails(r) \/ TakeLogin(r) \/ EndSession(r)
               \/ StoreLogin(r)
               \/ CountLogins(r) \/ ProviderRefuses(r) \/ Arrives(r)
               \/ \E who \in Accounts : OpenSession(r, who) \/ NotAllowed(r, who)
        PROVE  clock' = clock
    BY <2>2 DEF DeleteExpired, DeleteFails, TakeLogin, EndSession, CountLogins,
                ProviderRefuses, Arrives, NotAllowed, OpenSession, StoreLogin
  <2>3. CASE \/ EndSessions
             \/ \E name \in TokenNames :
                  \/ \E seconds \in TokenLives : CreateToken(name, seconds)
                  \/ RevokeToken(name)
             \/ \E m \in Managers : Restart(m)
             \/ Tick \/ UNCHANGED vars
    BY <2>3 DEF EndSessions, RevokeToken, CreateToken, Restart, Tick, vars
  <2> QED
    BY <2>1, <2>2, <2>3 DEF Next
<1> QED
  BY <1>1, <1>2, <1>3

-----------------------------------------------------------------------------
(* Refused for good.                                                        *)

\* What a guard refuses, it refuses for good: a secret expires, or is ended or
\* revoked, once, and no row that comes later has it.
THEOREM RefusedForGood == Spec => RefusedStaysRefused
<1> DEFINE Refused == \A s \in 1 .. made : ~ Accepted(s) => ~ Accepted(s)'
<1>1. ASSUME TypeOK, [Next]_vars, NEW s \in 1 .. made, Accepted(s)'
      PROVE  Accepted(s)
  <2>1. PICK x \in (tokens \cup sessions)' : x.secret = s /\ Alive(x)'
    BY <1>1 DEF Accepted
  <2>2. made \in Nat
    BY <1>1, CredentialsAssumption DEF TypeOK
  <2>3. x \in tokens \cup sessions
    BY <1>1, <2>1, <2>2, RowsNext
  <2>4. x.expires \in Nat \cup {None}
    BY <1>1, <2>3 DEF TypeOK, Token, Session
  <2>5. Alive(x)
    BY <1>1, <2>1, <2>4, RowsNext DEF Alive
  <2> QED
    BY <2>1, <2>3, <2>5 DEF Accepted
<1>2. TypeOK /\ [Next]_vars => [Refused]_vars
  BY <1>1
<1> QED
  BY <1>2, CredentialsTyping, PTL DEF Spec, RefusedStaysRefused

-----------------------------------------------------------------------------
(* The sweep.                                                               *)

IsBeginning(r) == IsAt(r, {"sweep", "count", "store"})

\* The sweep that process m marked at a time is under way.
SweepUnderWay(m, mark) ==
  \E q \in Requests : /\ IsAt(q, {"sweep"})
                      /\ request[q].manager = m /\ request[q].begun = mark

SweepInv ==
  /\ \A m \in Managers : sweptAt[m] # None =>
       /\ sweptAt[m] <= clock
       /\ \/ \A x \in sessions \cup logins : x.expires > sweptAt[m]
          \/ <<m, sweptAt[m]>> \in failedSweeps
          \/ SweepUnderWay(m, sweptAt[m])
  /\ \A r \in Requests : IsBeginning(r) =>
       LET mark == sweptAt[request[r].manager]
       IN  /\ mark # None /\ request[r].begun <= clock
           /\ request[r].begun <= mark \/ request[r].begun - mark < SweepSeconds

\* What a step makes of the requests that begin a sign-in: one sets out with the
\* present time, any other was there before with the same process and time.
LEMMA BeginningNext ==
  ASSUME TypeOK, [Next]_vars, NEW r \in Requests, IsBeginning(r)'
  PROVE  \/ /\ IsBeginning(r) /\ (IsAt(r, {"sweep"})' => IsAt(r, {"sweep"}))
            /\ request'[r].manager = request[r].manager
            /\ request'[r].begun = request[r].begun
         \/ \E b \in Browsers, m \in Managers, p \in Providers :
              /\ BeginLogin(r, b, m, p)
              /\ request'[r].manager = m /\ request'[r].begun = clock
              /\ NeedsSweep(m) => IsAt(r, {"sweep"})'
<1> DEFINE Stays == /\ IsBeginning(r) /\ (IsAt(r, {"sweep"})' => IsAt(r, {"sweep"}))
                    /\ request'[r].manager = request[r].manager
                    /\ request'[r].begun = request[r].begun
           Begins == \E b \in Browsers, m \in Managers, p \in Providers :
              /\ BeginLogin(r, b, m, p)
              /\ request'[r].manager = m /\ request'[r].begun = clock
              /\ NeedsSweep(m) => IsAt(r, {"sweep"})'
<1>0. request'[r] = request[r] => Stays
  BY DEF IsBeginning, IsAt
<1>1. ASSUME NEW q \in Requests, NEW b \in Browsers, NEW m \in Managers, NEW p \in Providers,
             BeginLogin(q, b, m, p)
      PROVE  Stays \/ Begins
  <2> DEFINE to == [at |-> IF NeedsSweep(m) THEN "sweep" ELSE "count",
                    browser |-> b, manager |-> m, provider |-> p, begun |-> clock]
  <2>1. \A o \in Requests : request'[o] = IF o = q THEN to ELSE request[o]
    BY <1>1, GoesTo DEF BeginLogin
  <2>2. /\ to.manager = m /\ to.begun = clock
        /\ NeedsSweep(m) => to.at = "sweep"
    OBVIOUS
  <2> HIDE DEF to
  <2> QED
    BY <1>0, <1>1, <2>1, <2>2 DEF IsAt
<1>2. ASSUME NEW q \in Requests, NEW stage \in {"count", "store"},
             IsAt(q, {"sweep", "count"}), Moves(q, stage)
      PROVE  Stays
  <2> DEFINE to == [request[q] EXCEPT !.at = stage]
  <2>1. \A o \in Requests : request'[o] = IF o = q THEN to ELSE request[o]
    BY <1>2, GoesTo DEF Moves
  <2>2. /\ to.manager = request[q].manager /\ to.begun = request[q].begun
        /\ to.at = stage
    BY <1>2, RequestShapes DEF IsAt, TypeOK
  <2> HIDE DEF to
  <2> QED
    BY <1>0, <1>2, <2>1, <2>2 DEF IsBeginning, IsAt
<1>3. ASSUME NEW q \in Requests, NEW to, Goes(q, to), to.at \notin {"sweep", "count", "store"}
      PROVE  Stays
  BY <1>0, <1>3, GoesTo DEF IsBeginning, IsAt
<1>4. ASSUME NEW q \in Requests, NEW sets, NEW link, Answer(q, sets, link)
      PROVE  Stays
  <2> DEFINE to == [at |-> "answer", browser |-> request[q].browser,
                    manager |-> request[q].manager, sets |-> sets, link |-> link]
  <2>1. Goes(q, to) /\ to.at = "answer"
    BY <1>4 DEF Answer
  <2> HIDE DEF to
  <2> QED
    BY <1>3, <2>1
<1>5. ASSUME NEW q \in Requests, IsAt(q, {"take"}), Moves(q, "exchange")
      PROVE  Stays
  <2> DEFINE to == [request[q] EXCEPT !.at = "exchange"]
  <2>1. Goes(q, to) /\ to.at = "exchange"
    BY <1>5, RequestShapes DEF Moves, IsAt, TypeOK
  <2> HIDE DEF to
  <2> QED
    BY <1>3, <2>1
<1>6. ASSUME NEW q \in Requests, Goes(q, Idle)
      PROVE  Stays
  BY <1>3, <1>6 DEF Idle
<1>7. ASSUME NEW q \in Requests,
             \/ DeleteExpired(q) \/ DeleteFails(q) \/ CountLogins(q) \/ StoreLogin(q)
             \/ TakeLogin(q) \/ ProviderRefuses(q) \/ EndSession(q) \/ Arrives(q)
             \/ \E who \in Accounts : OpenSession(q, who) \/ NotAllowed(q, who)
      PROVE  Stays
  <2>1. IsAt(q, {"sweep"}) \/ IsAt(q, {"count"}) => IsAt(q, {"sweep", "count"})
    BY DEF IsAt
  <2> HIDE DEF Stays
  <2> QED
    BY <1>2, <1>4, <1>5, <1>6, <1>7, <2>1
    DEF DeleteExpired, DeleteFails, CountLogins, StoreLogin, TakeLogin, ProviderRefuses,
        EndSession, Arrives, OpenSession, NotAllowed, Failed
<1>8. ASSUME NEW q \in Requests, NEW b \in Browsers, NEW m \in Managers,
             \/ \E p \in Providers, link \in links : Callback(q, b, m, p, link)
             \/ LoginFails(q, b, m)
             \/ Logout(q, b, m)
      PROVE  Stays
  <2>1. FailedAtOnce(b, m).at = "answer"
    BY DEF FailedAtOnce
  <2>2. \A p, state : [at |-> "take", browser |-> b, manager |-> m, provider |-> p,
                        state |-> state].at = "take"
    OBVIOUS
  <2>3. \A t, sets : /\ [at |-> "end", browser |-> b, manager |-> m, secret |-> t].at = "end"
                     /\ [at |-> "answer", browser |-> b, manager |-> m,
                         sets |-> sets, link |-> {}].at = "answer"
    OBVIOUS
  <2> HIDE DEF Stays
  <2>4. CASE \E p \in Providers, link \in links : Callback(q, b, m, p, link)
    BY <1>3, <2>1, <2>2, <2>4 DEF Callback
  <2>5. CASE LoginFails(q, b, m)
    BY <1>3, <2>1, <2>5 DEF LoginFails
  <2>6. CASE Logout(q, b, m)
    BY <1>3, <2>3, <2>6 DEF Logout
  <2> QED
    BY <1>8, <2>4, <2>5, <2>6
<1>9. ASSUME \/ EndSessions
             \/ \E name \in TokenNames :
                  \/ \E seconds \in TokenLives : CreateToken(name, seconds)
                  \/ RevokeToken(name)
             \/ Tick \/ UNCHANGED vars
      PROVE  Stays
  BY <1>0, <1>9 DEF EndSessions, RevokeToken, CreateToken, Tick, vars
<1>10. ASSUME NEW m \in Managers, Restart(m)
       PROVE  Stays
  BY <1>0, <1>10 DEF Restart, TypeOK, IsBeginning, IsAt, Idle
<1> HIDE DEF Stays, Begins
<1>11. Stays \/ Begins
  BY <1>1, <1>7, <1>8, <1>9, <1>10 DEF Next
<1> QED
  BY <1>11 DEF Stays, Begins

\* A sweep goes on until it deletes, fails, or its process is started again.
LEMMA SweepNext ==
  ASSUME TypeOK, [Next]_vars, NEW r \in Requests, IsAt(r, {"sweep"})
  PROVE  \/ request'[r] = request[r]
         \/ DeleteExpired(r) \/ DeleteFails(r)
         \/ \E m \in Managers : Restart(m) /\ request[r].manager = m
<1>1. \A q \in Requests : \A to : q # r /\ Goes(q, to) => request'[r] = request[r]
  BY GoesTo
<1>2. \A q \in Requests : ~ IsAt(q, {"sweep"}) => q # r
  OBVIOUS
<1>3. ASSUME NEW q \in Requests, NEW b \in Browsers, NEW m \in Managers,
             \/ \E p \in Providers : BeginLogin(q, b, m, p)
             \/ \E p \in Providers, link \in links : Callback(q, b, m, p, link)
             \/ LoginFails(q, b, m)
             \/ Logout(q, b, m)
      PROVE  request'[r] = request[r]
  <2>1. q # r
    BY <1>3 DEF BeginLogin, Callback, LoginFails, Logout, IsAt
  <2> QED
    BY <1>1, <1>3, <2>1 DEF BeginLogin, Callback, LoginFails, Logout
<1>4. ASSUME NEW q \in Requests,
             \/ DeleteExpired(q) \/ DeleteFails(q) \/ CountLogins(q) \/ StoreLogin(q)
             \/ TakeLogin(q) \/ ProviderRefuses(q) \/ EndSession(q) \/ Arrives(q)
             \/ \E who \in Accounts : OpenSession(q, who) \/ NotAllowed(q, who)
      PROVE  request'[r] = request[r] \/ DeleteExpired(r) \/ DeleteFails(r)
  <2>1. CASE q = r
    BY <1>4, <2>1 DEF CountLogins, StoreLogin, TakeLogin, ProviderRefuses, EndSession,
                      Arrives, OpenSession, NotAllowed, IsAt
  <2>2. CASE q # r
    BY <1>1, <1>4, <2>2
    DEF DeleteExpired, DeleteFails, CountLogins, StoreLogin, TakeLogin, ProviderRefuses,
        EndSession, Arrives, OpenSession, NotAllowed, Failed, Answer, Moves
  <2> QED
    BY <2>1, <2>2
<1>5. CASE \/ EndSessions
           \/ \E name \in TokenNames :
                \/ \E seconds \in TokenLives : CreateToken(name, seconds)
                \/ RevokeToken(name)
           \/ Tick \/ UNCHANGED vars
  BY <1>5 DEF EndSessions, RevokeToken, CreateToken, Tick, vars
<1>6. ASSUME NEW m \in Managers, Restart(m)
      PROVE  request'[r] = request[r] \/ request[r].manager = m
  BY <1>6 DEF Restart, TypeOK
<1> QED
  BY <1>3, <1>4, <1>5, <1>6 DEF Next

\* What becomes of the marks and of the sweeps that failed.
LEMMA MarksNext ==
  ASSUME TypeOK, [Next]_vars, NEW m \in Managers, ~ Restart(m)
  PROVE  /\ \A mark : <<m, mark>> \in failedSweeps => <<m, mark>> \in failedSweeps'
         /\ \/ sweptAt'[m] = sweptAt[m]
            \/ \E r \in Requests, b \in Browsers, p \in Providers :
                 BeginLogin(r, b, m, p) /\ NeedsSweep(m) /\ sweptAt'[m] = clock
<1>1. ASSUME NEW r \in Requests, NEW b \in Browsers, NEW n \in Managers,
             NEW p \in Providers, BeginLogin(r, b, n, p)
      PROVE  /\ failedSweeps' = failedSweeps
             /\ \/ sweptAt'[m] = sweptAt[m]
                \/ n = m /\ NeedsSweep(m) /\ sweptAt'[m] = clock
  BY <1>1 DEF BeginLogin, TypeOK
<1>2. CASE \E r \in Requests : DeleteFails(r)
  BY <1>2 DEF DeleteFails
<1>3. CASE \E n \in Managers : Restart(n)
  <2>1. PICK n \in Managers : n # m /\ Restart(n)
    BY <1>3
  <2>2. \A mark : <<m, mark>>[1] = m
    OBVIOUS
  <2>3. sweptAt'[m] = sweptAt[m]
    BY <2>1 DEF Restart, TypeOK
  <2> QED
    BY <2>1, <2>2, <2>3 DEF Restart
<1>4. ASSUME NEW r \in Requests, NEW b \in Browsers, NEW n \in Managers,
             \/ \E p \in Providers, link \in links : Callback(r, b, n, p, link)
             \/ LoginFails(r, b, n)
             \/ Logout(r, b, n)
      PROVE  UNCHANGED <<sweptAt, failedSweeps>>
  BY <1>4 DEF Callback, LoginFails, Logout
<1>5. ASSUME NEW r \in Requests,
             \/ DeleteExpired(r) \/ TakeLogin(r) \/ EndSession(r) \/ StoreLogin(r)
             \/ CountLogins(r) \/ ProviderRefuses(r) \/ Arrives(r)
             \/ \E who \in Accounts : OpenSession(r, who) \/ NotAllowed(r, who)
      PROVE  UNCHANGED <<sweptAt, failedSweeps>>
  BY <1>5 DEF DeleteExpired, TakeLogin, EndSession, CountLogins, ProviderRefuses, Arrives,
              NotAllowed, OpenSession, StoreLogin
<1>6. CASE \/ EndSessions
           \/ \E name \in TokenNames :
                \/ \E seconds \in TokenLives : CreateToken(name, seconds)
                \/ RevokeToken(name)
           \/ Tick \/ UNCHANGED vars
  BY <1>6 DEF EndSessions, RevokeToken, CreateToken, Tick, vars
<1> QED
  BY <1>1, <1>2, <1>3, <1>4, <1>5, <1>6 DEF Next

\* A sweep that was set out for deletes, when it does, at a time after its mark;
\* what is added in the meantime expires later than that.
LEMMA SweepInvMarks ==
  ASSUME TypeOK, SweepInv, [Next]_vars, NEW m \in Managers,
         NEW mark, mark = sweptAt'[m], mark # None
  PROVE  /\ mark <= clock'
         /\ \/ \A x \in (sessions \cup logins)' : x.expires > mark
            \/ <<m, mark>> \in failedSweeps'
            \/ SweepUnderWay(m, mark)'
<1>0. ~ Restart(m)
  BY DEF Restart, TypeOK
<1>1. /\ clock \in Nat /\ clock' \in Nat /\ clock <= clock'
      /\ \A x \in (sessions \cup logins)' : x \in sessions \cup logins \/ x.expires > clock
  BY RowsNext
<1>2. sweptAt[m] \in Nat \cup {None} /\ None \notin Nat
  BY CredentialsAssumption DEF TypeOK
<1>3. /\ \A x \in sessions \cup logins : x.expires \in Nat
      /\ \A x \in (sessions \cup logins)' : x.expires \in Nat
  BY TypeOKStep DEF TypeOK, Session, Login
<1>4. ASSUME NEW r \in Requests, NEW b \in Browsers, NEW p \in Providers,
             BeginLogin(r, b, m, p), NeedsSweep(m), sweptAt'[m] = clock
      PROVE  SweepUnderWay(m, mark)'
  <2> DEFINE to == [at |-> IF NeedsSweep(m) THEN "sweep" ELSE "count",
                    browser |-> b, manager |-> m, provider |-> p, begun |-> clock]
  <2>1. request'[r] = to
    BY <1>4, GoesTo DEF BeginLogin
  <2>2. to.at = "sweep" /\ to.manager = m /\ to.begun = clock
    BY <1>4
  <2> HIDE DEF to
  <2> QED
    BY <1>4, <2>1, <2>2 DEF SweepUnderWay, IsAt
<1>5. CASE mark = sweptAt[m]
  <2>1. mark \in Nat /\ mark <= clock
    BY <1>2, <1>5 DEF SweepInv
  <2>2. CASE \A x \in sessions \cup logins : x.expires > mark
    BY <1>1, <1>3, <1>5, <2>1, <2>2
  <2>3. CASE <<m, mark>> \in failedSweeps
    BY <1>0, <1>1, <2>1, <2>3, MarksNext
  <2>4. CASE SweepUnderWay(m, mark)
    <3>1. PICK q \in Requests : /\ IsAt(q, {"sweep"})
                                /\ request[q].manager = m /\ request[q].begun = mark
      BY <2>4 DEF SweepUnderWay
    <3>2. CASE request'[q] = request[q]
      BY <1>1, <2>1, <3>1, <3>2 DEF SweepUnderWay, IsAt
    <3>3. CASE DeleteExpired(q)
      <4>1. \A x \in (sessions \cup logins)' : x \in sessions \cup logins /\ Alive(x)
        BY <3>3 DEF DeleteExpired
      <4>2. \A x \in (sessions \cup logins)' : clock < x.expires
        BY <1>2, <1>3, <4>1 DEF Alive
      <4> QED
        BY <1>1, <1>3, <2>1, <4>2
    <3>4. CASE DeleteFails(q)
      BY <1>1, <2>1, <3>1, <3>4 DEF DeleteFails
    <3> QED
      BY <1>0, <3>1, <3>2, <3>3, <3>4, SweepNext
  <2> QED
    BY <1>5, <2>2, <2>3, <2>4 DEF SweepInv
<1> QED
  BY <1>0, <1>1, <1>4, <1>5, MarksNext

\* A sign-in is begun within an interval of the mark, and marks only move on.
LEMMA SweepInvBegun ==
  ASSUME TypeOK, SweepInv, [Next]_vars, NEW r \in Requests, IsBeginning(r)',
         NEW m \in Managers, m = request'[r].manager
  PROVE  /\ sweptAt'[m] # None /\ request'[r].begun <= clock'
         /\ \/ request'[r].begun <= sweptAt'[m]
            \/ request'[r].begun - sweptAt'[m] < SweepSeconds
<1>1. clock \in Nat /\ clock' \in Nat /\ clock <= clock'
  BY RowsNext
<1>2. /\ sweptAt[m] \in Nat \cup {None} /\ sweptAt'[m] \in Nat \cup {None} /\ None \notin Nat
      /\ SweepSeconds \in Nat
  BY CredentialsAssumption, TypeOKStep DEF TypeOK
<1>3. CASE /\ IsBeginning(r)
           /\ request'[r].manager = request[r].manager
           /\ request'[r].begun = request[r].begun
  <2>1. request[r].begun \in Nat
    BY <1>3, RequestShapes DEF IsBeginning, IsAt, TypeOK
  <2>2. /\ sweptAt[m] # None /\ request[r].begun <= clock
        /\ request[r].begun <= sweptAt[m] \/ request[r].begun - sweptAt[m] < SweepSeconds
    BY <1>3 DEF SweepInv
  <2>3. ~ Restart(m)
    BY <1>3 DEF Restart, TypeOK, IsBeginning, IsAt, Idle
  <2>4. sweptAt'[m] = sweptAt[m] \/ sweptAt'[m] = clock
    BY <2>3, MarksNext
  <2> QED
    BY <1>1, <1>2, <1>3, <2>1, <2>2, <2>4
<1>4. ASSUME NEW b \in Browsers, NEW p \in Providers,
             BeginLogin(r, b, m, p), request'[r].begun = clock
      PROVE  /\ sweptAt'[m] # None /\ request'[r].begun <= clock'
             /\ \/ request'[r].begun <= sweptAt'[m]
                \/ request'[r].begun - sweptAt'[m] < SweepSeconds
  <2>1. CASE NeedsSweep(m)
    <3>1. sweptAt'[m] = clock
      BY <1>4, <2>1 DEF BeginLogin, TypeOK
    <3> QED
      BY <1>1, <1>2, <1>4, <3>1
  <2>2. CASE ~ NeedsSweep(m)
    <3>1. sweptAt'[m] = sweptAt[m]
      BY <1>4, <2>2 DEF BeginLogin
    <3>2. sweptAt[m] # None /\ ~ (clock - sweptAt[m] >= SweepSeconds)
      BY <2>2 DEF NeedsSweep
    <3> QED
      BY <1>1, <1>2, <1>4, <3>1, <3>2
  <2> QED
    BY <2>1, <2>2
<1> QED
  BY <1>3, <1>4, BeginningNext

LEMMA SweepInvStep == TypeOK /\ SweepInv /\ [Next]_vars => SweepInv'
<1> SUFFICES ASSUME TypeOK, SweepInv, [Next]_vars
             PROVE  SweepInv'
  OBVIOUS
<1>1. ASSUME NEW r \in Requests, IsBeginning(r)'
      PROVE  request'[r].manager \in Managers
  BY <1>1, TypeOKStep, RequestShapes DEF IsBeginning, IsAt, TypeOK
<1>2. ASSUME NEW m \in Managers, sweptAt'[m] # None
      PROVE  /\ sweptAt'[m] <= clock'
             /\ \/ \A x \in (sessions \cup logins)' : x.expires > sweptAt'[m]
                \/ <<m, sweptAt'[m]>> \in failedSweeps'
                \/ \E q \in Requests : /\ IsAt(q, {"sweep"})'
                                       /\ request'[q].manager = m
                                       /\ request'[q].begun = sweptAt'[m]
  <2>1. PICK mark : mark = sweptAt'[m]
    OBVIOUS
  <2> QED
    BY <1>2, <2>1, SweepInvMarks DEF SweepUnderWay
<1> QED
  BY <1>1, <1>2, SweepInvBegun DEF SweepInv, SweepUnderWay

\* A sign-in goes past rows its process marked as swept only within an interval
\* of a sweep that is under way or failed, for any number of processes, of
\* sign-ins in each of them, and of sweeps that fail.
THEOREM MarkedIsSwept == Spec => []SweptMeansSwept
<1>1. Init => SweepInv
  BY DEF Init, SweepInv, IsBeginning, IsAt, Idle
<1>2. TypeOK /\ SweepInv => SweptMeansSwept
  <2> SUFFICES ASSUME TypeOK, SweepInv, NEW r \in Requests, IsAt(r, {"count", "store"})
               PROVE  LET m == request[r].manager
                          mark == sweptAt[m]
                      IN  /\ mark # None
                          /\ request[r].begun <= mark \/ request[r].begun - mark < SweepSeconds
                          /\ \/ \A x \in sessions \cup logins : x.expires > mark
                             \/ <<m, mark>> \in failedSweeps
                             \/ SweepUnderWay(m, mark)
    BY DEF SweptMeansSwept, SweepUnderWay
  <2>1. IsBeginning(r) /\ request[r].manager \in Managers
    BY RequestShapes DEF IsBeginning, IsAt, TypeOK
  <2> QED
    BY <2>1 DEF SweepInv
<1> QED
  BY <1>1, <1>2, SweepInvStep, CredentialsTyping, PTL DEF Spec

-----------------------------------------------------------------------------
(* What was promised is kept.                                               *)

\* The sign-in a browser was, or is about to be, redirected with waits to be
\* taken, was taken, or is over.
SignInKept(l) ==
  \/ l.state \in spent
  \/ l.expires <= clock
  \/ \E x \in logins : x.state = l.state /\ x.expires = l.expires

LinksOf(r) == IF IsAt(r, {"answer"}) THEN request[r].link ELSE {}

KeptInv == \A l \in links \cup UNION {LinksOf(r) : r \in Requests} : SignInKept(l)

\* A sign-in goes when it is taken, or is over.
LEMMA LoginsNext ==
  ASSUME TypeOK, [Next]_vars
  PROVE  /\ spent \subseteq spent'
         /\ \A x \in logins : x \in logins' \/ x.state \in spent' \/ x.expires <= clock'
<1>1. (\A x \in logins : x.expires \in Nat) /\ clock \in Nat /\ None \notin Nat
  BY CredentialsAssumption DEF TypeOK, Login
<1>2. CASE \E r \in Requests : TakeLogin(r)
  BY <1>2 DEF TakeLogin, LoginsOf
<1>3. CASE \E r \in Requests : DeleteExpired(r)
  BY <1>1, <1>3 DEF DeleteExpired, Alive, history
<1>4. ASSUME NEW r \in Requests, NEW b \in Browsers, NEW m \in Managers,
             \/ \E p \in Providers : BeginLogin(r, b, m, p)
             \/ \E p \in Providers, link \in links : Callback(r, b, m, p, link)
             \/ LoginFails(r, b, m)
             \/ Logout(r, b, m)
      PROVE  logins' = logins /\ spent' = spent
  BY <1>4 DEF BeginLogin, Callback, LoginFails, Logout, store, history
<1>5. ASSUME NEW r \in Requests,
             \/ EndSession(r) \/ CountLogins(r) \/ ProviderRefuses(r) \/ Arrives(r)
             \/ DeleteFails(r)
             \/ \E who \in Accounts : OpenSession(r, who) \/ NotAllowed(r, who)
      PROVE  logins' = logins /\ spent' = spent
  BY <1>5 DEF EndSession, DeleteFails, CountLogins, ProviderRefuses, Arrives, OpenSession, NotAllowed,
              store, history
<1>6. CASE \E r \in Requests : StoreLogin(r)
  BY <1>6 DEF StoreLogin, history
<1>7. CASE \/ EndSessions
           \/ \E name \in TokenNames :
                \/ \E seconds \in TokenLives : CreateToken(name, seconds)
                \/ RevokeToken(name)
           \/ \E m \in Managers : Restart(m)
           \/ Tick \/ UNCHANGED vars
  BY <1>7 DEF EndSessions, RevokeToken, CreateToken, Restart, Tick, vars, store, history
<1> QED
  BY <1>2, <1>3, <1>4, <1>5, <1>6, <1>7 DEF Next

LEMMA KeptStays ==
  ASSUME TypeOK, [Next]_vars, NEW l \in Link, SignInKept(l)
  PROVE  SignInKept(l)'
<1>1. /\ clock \in Nat /\ clock' \in Nat /\ clock <= clock' /\ l.expires \in Nat
      /\ spent \subseteq spent'
  BY RowsNext, LoginsNext DEF Link
<1>2. CASE l.expires <= clock
  BY <1>1, <1>2 DEF SignInKept
<1>3. CASE \E x \in logins : x.state = l.state /\ x.expires = l.expires
  BY <1>3, LoginsNext DEF SignInKept
<1>4. CASE l.state \in spent
  BY <1>1, <1>4 DEF SignInKept
<1> QED
  BY <1>2, <1>3, <1>4 DEF SignInKept

\* A redirect goes out with the answer that comes of storing its sign-in.
LEMMA LinksNext ==
  ASSUME TypeOK, [Next]_vars, NEW q \in Requests,
         NEW l \in LinksOf(q)', l \notin LinksOf(q)
  PROVE  /\ StoreLogin(q)
         /\ \E x \in logins' : x.state = l.state /\ x.expires = l.expires
<1>1. IsAt(q, {"answer"})' /\ l \in request'[q].link /\ request'[q] # request[q]
  BY DEF LinksOf, IsAt
<1>2. ASSUME NEW r \in Requests, NEW b \in Browsers, NEW m \in Managers,
             \/ \E p \in Providers : BeginLogin(r, b, m, p)
             \/ \E p \in Providers, link \in links : Callback(r, b, m, p, link)
             \/ LoginFails(r, b, m)
             \/ Logout(r, b, m)
      PROVE  FALSE
  <2>1. \A stage, p, t : [at |-> stage, browser |-> b, manager |-> m, provider |-> p,
                            begun |-> t].at = stage
    OBVIOUS
  <2>2. \A p, state : [at |-> "take", browser |-> b, manager |-> m, provider |-> p,
                        state |-> state].at = "take"
    OBVIOUS
  <2>3. \A s : /\ [at |-> "end", browser |-> b, manager |-> m, secret |-> s].at = "end"
               /\ [at |-> "answer", browser |-> b, manager |-> m,
                   sets |-> s, link |-> {}].link = {}
    OBVIOUS
  <2>4. CASE \E p \in Providers : BeginLogin(r, b, m, p)
    BY <1>1, <2>1, <2>4, GoesTo DEF BeginLogin, IsAt
  <2>5. CASE \E p \in Providers, link \in links : Callback(r, b, m, p, link)
    BY <1>1, <2>2, <2>3, <2>5, GoesTo DEF Callback, FailedAtOnce, IsAt
  <2>6. CASE LoginFails(r, b, m)
    BY <1>1, <2>3, <2>6, GoesTo DEF LoginFails, FailedAtOnce
  <2>7. CASE Logout(r, b, m)
    BY <1>1, <2>3, <2>7, GoesTo DEF Logout, IsAt
  <2> QED
    BY <1>2, <2>4, <2>5, <2>6, <2>7
<1>3. ASSUME NEW r \in Requests,
             \/ DeleteExpired(r) \/ DeleteFails(r) \/ CountLogins(r) \/ TakeLogin(r)
             \/ ProviderRefuses(r) \/ EndSession(r) \/ Arrives(r)
             \/ \E who \in Accounts : OpenSession(r, who) \/ NotAllowed(r, who)
      PROVE  FALSE
  <2>1. \A sets, link : [at |-> "answer", browser |-> request[r].browser,
                         manager |-> request[r].manager, sets |-> sets, link |-> link].link
                        = link
    OBVIOUS
  <2>2. \A sets : ~ Answer(r, sets, {})
    BY <1>1, <2>1, GoesTo DEF Answer
  <2>3. ASSUME IsAt(r, {"sweep", "count", "take"}), NEW stage \in {"count", "store", "exchange"}
        PROVE  ~ Moves(r, stage)
    <3>1. [request[r] EXCEPT !.at = stage].at = stage
      BY <2>3, RequestShapes DEF IsAt, TypeOK
    <3> QED
      BY <1>1, <3>1, GoesTo DEF Moves, IsAt
  <2>4. ~ Goes(r, Idle)
    BY <1>1, GoesTo DEF Idle, IsAt
  <2> QED
    BY <1>3, <2>2, <2>3, <2>4
    DEF DeleteExpired, DeleteFails, CountLogins, TakeLogin, ProviderRefuses, EndSession,
        Arrives, OpenSession, NotAllowed, Failed, IsAt
<1>4. ASSUME NEW r \in Requests, StoreLogin(r)
      PROVE  /\ StoreLogin(q)
             /\ \E x \in logins' : x.state = l.state /\ x.expires = l.expires
  <2> DEFINE login == [state |-> made', provider |-> request[r].provider,
                       expires |-> Lasting(LoginSeconds)]
             link == [state |-> made', provider |-> request[r].provider,
                      browser |-> request[r].browser, expires |-> Lasting(LoginSeconds)]
             answer == [at |-> "answer", browser |-> request[r].browser,
                        manager |-> request[r].manager, sets |-> [login |-> made'],
                        link |-> {link}]
  <2>1. logins' = logins \cup {login}
    BY <1>4 DEF StoreLogin
  <2>2. \A p \in Requests : request'[p] = IF p = r THEN answer ELSE request[p]
    BY <1>4, GoesTo DEF StoreLogin, Answer
  <2>3. /\ answer.link = {link}
        /\ login.state = link.state /\ login.expires = link.expires
    OBVIOUS
  <2> HIDE DEF login, link, answer
  <2>4. q = r /\ l = link
    BY <1>1, <2>2, <2>3
  <2> QED
    BY <1>4, <2>1, <2>3, <2>4
<1>5. CASE \/ EndSessions
           \/ \E name \in TokenNames :
                \/ \E seconds \in TokenLives : CreateToken(name, seconds)
                \/ RevokeToken(name)
           \/ Tick \/ UNCHANGED vars
  BY <1>1, <1>5 DEF EndSessions, RevokeToken, CreateToken, Tick, vars
<1>6. ASSUME NEW m \in Managers, Restart(m)
      PROVE  FALSE
  BY <1>1, <1>6 DEF Restart, TypeOK, IsAt, Idle
<1> QED
  BY <1>2, <1>3, <1>4, <1>5, <1>6 DEF Next

LEMMA KeptInvStep == TypeOK /\ KeptInv /\ [Next]_vars => KeptInv'
<1> SUFFICES ASSUME TypeOK, KeptInv, [Next]_vars
             PROVE  KeptInv'
  OBVIOUS
<1>1. \A r \in Requests : LinksOf(r) \subseteq Link
  BY RequestShapes DEF LinksOf, IsAt, TypeOK
<1>2. links' \subseteq links \cup UNION {LinksOf(r) : r \in Requests}
  <2>1. ASSUME NEW r \in Requests, NEW b \in Browsers, NEW m \in Managers,
               \/ \E p \in Providers : BeginLogin(r, b, m, p)
               \/ \E p \in Providers, link \in links : Callback(r, b, m, p, link)
               \/ LoginFails(r, b, m)
               \/ Logout(r, b, m)
        PROVE  links' = links
    BY <2>1 DEF BeginLogin, Callback, LoginFails, Logout, history
  <2>2. ASSUME NEW r \in Requests,
               \/ DeleteExpired(r) \/ DeleteFails(r) \/ CountLogins(r) \/ StoreLogin(r)
               \/ TakeLogin(r)
               \/ ProviderRefuses(r) \/ EndSession(r)
               \/ \E who \in Accounts : OpenSession(r, who) \/ NotAllowed(r, who)
        PROVE  links' = links
    BY <2>2 DEF DeleteExpired, DeleteFails, CountLogins, StoreLogin, TakeLogin, ProviderRefuses,
                EndSession, OpenSession, NotAllowed, history
  <2>3. CASE \E r \in Requests : Arrives(r)
    BY <2>3 DEF Arrives, LinksOf
  <2>4. CASE \/ EndSessions
             \/ \E name \in TokenNames :
                  \/ \E seconds \in TokenLives : CreateToken(name, seconds)
                  \/ RevokeToken(name)
             \/ \E m \in Managers : Restart(m)
             \/ Tick \/ UNCHANGED vars
    BY <2>4 DEF EndSessions, RevokeToken, CreateToken, Restart, Tick, vars, history
  <2> QED
    BY <2>1, <2>2, <2>3, <2>4 DEF Next
<1>3. \A l \in links \cup UNION {LinksOf(r) : r \in Requests} : SignInKept(l)'
  BY <1>1, KeptStays DEF KeptInv, TypeOK
<1>4. ASSUME NEW r \in Requests, NEW l \in LinksOf(r)', l \notin LinksOf(r)
      PROVE  SignInKept(l)'
  BY <1>4, LinksNext DEF SignInKept
<1>5. ASSUME NEW r \in Requests, NEW l \in LinksOf(r)'
      PROVE  SignInKept(l)'
  BY <1>3, <1>4
<1> QED
  BY <1>2, <1>3, <1>5 DEF KeptInv

\* A sign-in waits for its callback as long as was promised, for any number of
\* processes that sweep and of sign-ins that come and go.
THEOREM SignInsAreKept == Spec => []NoSignInLost
<1>1. Init => KeptInv
  BY DEF Init, KeptInv, LinksOf, IsAt, Idle
<1>2. TypeOK /\ KeptInv => NoSignInLost
  BY CredentialsAssumption DEF KeptInv, SignInKept, NoSignInLost, TypeOK, Link
<1> QED
  BY <1>1, <1>2, KeptInvStep, CredentialsTyping, PTL DEF Spec

-----------------------------------------------------------------------------
(* The limit of sign-ins in progress.                                       *)

Storing == {r \in Requests : IsAt(r, {"store"})}

PendingInv == IsFiniteSet(logins) /\ PendingBounded

\* What is added to the sign-ins in progress is counted among those that are
\* being stored, and only below the limit does another begin to be.
LEMMA PendingNext ==
  ASSUME TypeOK, [Next]_vars
  PROVE  \/ /\ logins' \subseteq logins
            /\ PendingLogins' \subseteq PendingLogins /\ Storing' \subseteq Storing
         \/ /\ logins' = logins /\ PendingLogins' = PendingLogins
            /\ Cardinality(PendingLogins) < MaxPendingLogins
         \/ \E r \in Storing : \E login :
              /\ logins' = logins \cup {login}
              /\ PendingLogins' = PendingLogins \cup {login}
              /\ Storing' = Storing \ {r}
<1>1. /\ clock \in Nat /\ clock' \in Nat /\ clock <= clock' /\ None \notin Nat
      /\ \A x \in logins : x.expires \in Nat
  BY RowsNext, CredentialsAssumption DEF TypeOK, Login
<1>2. ASSUME logins' \subseteq logins
      PROVE  PendingLogins' \subseteq PendingLogins
  BY <1>1, <1>2 DEF PendingLogins, Alive
<1>3. ASSUME NEW r \in Requests, NEW b \in Browsers, NEW m \in Managers,
             \/ \E p \in Providers : BeginLogin(r, b, m, p)
             \/ \E p \in Providers, link \in links : Callback(r, b, m, p, link)
             \/ LoginFails(r, b, m)
             \/ Logout(r, b, m)
      PROVE  logins' = logins /\ Storing' \subseteq Storing
  BY <1>3 DEF BeginLogin, Callback, LoginFails, Logout, FailedAtOnce, Goes, IsAt, Storing,
              TypeOK, store
<1>4. ASSUME NEW r \in Requests,
             \/ DeleteExpired(r) \/ DeleteFails(r) \/ TakeLogin(r)
             \/ ProviderRefuses(r) \/ EndSession(r) \/ Arrives(r)
             \/ \E who \in Accounts : OpenSession(r, who) \/ NotAllowed(r, who)
      PROVE  logins' \subseteq logins /\ Storing' \subseteq Storing
  <2>1. logins' \subseteq logins
    BY <1>4 DEF DeleteExpired, DeleteFails, TakeLogin, ProviderRefuses, EndSession, Arrives,
                OpenSession, NotAllowed, store
  <2>2. ASSUME IsAt(r, {"sweep", "take"}), NEW stage \in {"count", "exchange"},
               Moves(r, stage)
        PROVE  Storing' \subseteq Storing
    <3>1. [request[r] EXCEPT !.at = stage].at = stage
      BY <2>2, RequestShapes DEF IsAt, TypeOK
    <3> QED
      BY <2>2, <3>1, GoesTo DEF Moves, Storing, IsAt
  <2>3. ASSUME NEW sets, Answer(r, sets, {})
        PROVE  Storing' \subseteq Storing
    BY <2>3 DEF Answer, Goes, Storing, IsAt, TypeOK
  <2>4. Goes(r, Idle) => Storing' \subseteq Storing
    BY DEF Goes, Storing, IsAt, TypeOK, Idle
  <2> QED
    BY <1>4, <2>1, <2>2, <2>3, <2>4
    DEF DeleteExpired, DeleteFails, TakeLogin, ProviderRefuses, EndSession, Arrives,
        OpenSession, NotAllowed, Failed, IsAt
<1>5. ASSUME NEW r \in Requests, CountLogins(r)
      PROVE  \/ logins' = logins /\ Storing' \subseteq Storing
             \/ /\ logins' = logins /\ PendingLogins' = PendingLogins
                /\ Cardinality(PendingLogins) < MaxPendingLogins
  <2>1. logins' = logins /\ clock' = clock
    BY <1>5 DEF CountLogins, store
  <2>2. Failed(r) => Storing' \subseteq Storing
    BY DEF Failed, Answer, Goes, Storing, IsAt, TypeOK
  <2>3. PendingLogins' = PendingLogins
    BY <2>1 DEF PendingLogins, Alive
  <2> QED
    BY <1>5, <2>1, <2>2, <2>3 DEF CountLogins
<1>6. ASSUME NEW r \in Requests, StoreLogin(r)
      PROVE  \E login : /\ logins' = logins \cup {login}
                        /\ PendingLogins' = PendingLogins \cup {login}
                        /\ r \in Storing /\ Storing' = Storing \ {r}
  <2> DEFINE login == [state |-> made', provider |-> request[r].provider,
                       expires |-> Lasting(LoginSeconds)]
  <2>1. logins' = logins \cup {login} /\ clock' = clock
    BY <1>6 DEF StoreLogin
  <2>2. login.expires > clock
    BY <1>1, CredentialsAssumption DEF Lasting
  <2>3. r \in Storing /\ Storing' = Storing \ {r}
    BY <1>6 DEF StoreLogin, Answer, Goes, Storing, IsAt, TypeOK
  <2> HIDE DEF login
  <2>4. PendingLogins' = PendingLogins \cup {login}
    BY <1>1, <2>1, <2>2 DEF PendingLogins, Alive
  <2> QED
    BY <2>1, <2>3, <2>4
<1>7. CASE \/ EndSessions
           \/ \E name \in TokenNames :
                \/ \E seconds \in TokenLives : CreateToken(name, seconds)
                \/ RevokeToken(name)
           \/ Tick \/ UNCHANGED vars
  <2>1. logins' = logins /\ request' = request
    BY <1>7 DEF EndSessions, RevokeToken, CreateToken, Tick, vars, store
  <2> QED
    BY <1>2, <2>1 DEF Storing, IsAt
<1>8. ASSUME NEW m \in Managers, Restart(m)
      PROVE  logins' = logins /\ Storing' \subseteq Storing
  BY <1>8 DEF Restart, Storing, IsAt, Idle, TypeOK, store
<1> QED
  BY <1>2, <1>3, <1>4, <1>5, <1>6, <1>7, <1>8 DEF Next

LEMMA PendingInvStep == TypeOK /\ PendingInv /\ [Next]_vars => PendingInv'
<1> SUFFICES ASSUME TypeOK, PendingInv, [Next]_vars
             PROVE  PendingInv'
  OBVIOUS
<1> DEFINE N == Cardinality(Requests)
           P == Cardinality(PendingLogins)
           S == Cardinality(Storing)
<1>1. /\ IsFiniteSet(logins) /\ P + S <= MaxPendingLogins + N - 1
      /\ MaxPendingLogins \in Nat
  BY CredentialsAssumption DEF PendingInv, PendingBounded, Storing
<1>2. /\ PendingLogins \subseteq logins /\ PendingLogins' \subseteq logins'
      /\ Storing \subseteq Requests /\ Storing' \subseteq Requests
      /\ IsFiniteSet(Requests)
  BY CredentialsAssumption DEF PendingLogins, Storing
<1>3. /\ IsFiniteSet(PendingLogins) /\ IsFiniteSet(Storing) /\ IsFiniteSet(Storing')
      /\ P \in Nat /\ S \in Nat /\ N \in Nat /\ S' \in Nat /\ S' <= N
  BY <1>1, <1>2, FS_Subset, FS_CardinalityType
<1>4. IsFiniteSet(logins') /\ P' + S' <= MaxPendingLogins + N - 1
  <2>1. CASE /\ logins' \subseteq logins
             /\ PendingLogins' \subseteq PendingLogins /\ Storing' \subseteq Storing
    <3>1. IsFiniteSet(logins') /\ IsFiniteSet(PendingLogins') /\ P' <= P /\ S' <= S
      BY <1>1, <1>3, <2>1, FS_Subset
    <3>2. P' \in Nat
      BY <3>1, FS_CardinalityType
    <3> QED
      BY <1>1, <1>3, <3>1, <3>2
  <2>2. CASE /\ logins' = logins /\ PendingLogins' = PendingLogins
             /\ P < MaxPendingLogins
    BY <1>1, <1>3, <2>2
  <2>3. ASSUME NEW r \in Storing, NEW login,
               logins' = logins \cup {login},
               PendingLogins' = PendingLogins \cup {login},
               Storing' = Storing \ {r}
        PROVE  IsFiniteSet(logins') /\ P' + S' <= MaxPendingLogins + N - 1
    <3>1. IsFiniteSet(logins') /\ (P' = P \/ P' = P + 1)
      BY <1>1, <1>3, <2>3, FS_AddElement
    <3>2. S' = S - 1
      BY <1>3, <2>3, FS_RemoveElement
    <3> QED
      BY <1>1, <1>3, <3>1, <3>2
  <2> QED
    BY <2>1, <2>2, <2>3, PendingNext
<1> QED
  BY <1>4 DEF PendingInv, PendingBounded, Storing

\* However many sign-ins are begun at once, and in however many processes, no
\* more are in progress than the limit and those that were being stored with the
\* last below it.
THEOREM PendingIsBounded == Spec => []PendingBounded
<1>1. Init => PendingInv
  <2> SUFFICES ASSUME Init PROVE PendingInv
    OBVIOUS
  <2>1. logins = {} /\ PendingLogins = {} /\ Storing = {}
    BY DEF Init, PendingLogins, Storing, IsAt, Idle
  <2>2. Cardinality(Requests) \in Nat /\ MaxPendingLogins \in Nat \ {0}
    BY CredentialsAssumption, FS_CardinalityType
  <2>3. /\ IsFiniteSet(logins)
        /\ Cardinality(PendingLogins) = 0 /\ Cardinality(Storing) = 0
    BY <2>1, FS_EmptySet
  <2>4. PendingBounded <=> Cardinality(PendingLogins) + Cardinality(Storing)
                             <= MaxPendingLogins + Cardinality(Requests) - 1
    BY DEF PendingBounded, Storing
  <2> QED
    BY <2>2, <2>3, <2>4 DEF PendingInv
<1>2. PendingInv => PendingBounded
  BY DEF PendingInv
<1> QED
  BY <1>1, <1>2, PendingInvStep, CredentialsTyping, PTL DEF Spec
=============================================================================
