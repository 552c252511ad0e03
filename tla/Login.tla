-------------------------------- MODULE Login --------------------------------
(***************************************************************************)
(* Signing in with GitHub behind the rate limiter: /auth/login issues a    *)
(* single-use state, GitHub sends the browser back to /auth/callback with  *)
(* that state and a code, and the callback opens a server session whose    *)
(* signed id goes to the browser that sent it as a cookie.  A callback may *)
(* be sent twice (a reload), and by another browser than the one that      *)
(* began the sign-in: no cookie ties the state to that one.  Tabs of one   *)
(* browser share a cookie jar, states and sessions expire in Redis, and    *)
(* every call to Redis, GitHub or Postgres may fail.                       *)
(***************************************************************************)
EXTENDS RateLimiter

CONSTANTS
  Tabs,      \* each signs in once: the state issued for a tab is named after it
  Accounts,  \* GitHub accounts
  Browsers,  \* which may share an address
  BrowserOf, \* the browser a request comes from
  NoGrant, Denied, NoCookie, NoUser

Kinds == {"login", "callback", "reload"}

ASSUME LoginOK ==
  /\ Requests \subseteq Tabs \X Kinds
  /\ BrowserOf \in [Requests -> Browsers]
  /\ \A t \in Tabs : <<t, "login">> \in Requests /\ <<t, "callback">> \in Requests

\* What an account gives the App, and whether GitHub still takes its code.
Grants == [account : Accounts, code : BOOLEAN]

ASSUME NoGrantOK == NoGrant \notin Grants \cup {Denied}

TabOf(r) == r[1]
KindOf(r) == r[2]
Callbacks == {r \in Requests : KindOf(r) # "login"}

VARIABLES
  states,    \* Redis: the states issued and not consumed
  grant,     \* GitHub: what the user of a tab answered, and its code if unused
  users,     \* table users
  sessions,  \* Redis: session -> user id; a session is named after its callback
  jar,       \* the session cookie of each browser
  leaving,   \* the browsers whose logout is not answered yet
  flow       \* per request: where its handler is and what it holds

login == <<states, grant, users, sessions, jar, leaving, flow>>
vars == <<limiter, login>>

Steps == {"start", "exchange", "identity", "upsert", "open", "respond", "done"}

Outcomes == {"none", "redirect", "dashboard", "401", "502", "500", "lost"}

\* A row's id, and the token it keeps, are named after the callback they are from.
Users == [id : Callbacks, account : Accounts, token : Callbacks]

TypeOK ==
  /\ LimiterTypeOK
  /\ states \subseteq Tabs
  /\ grant \in [Tabs -> {NoGrant, Denied} \cup Grants]
  /\ users \subseteq Users
  /\ DOMAIN sessions \subseteq Callbacks
  /\ \A r \in DOMAIN sessions : sessions[r] \in Callbacks
  /\ jar \in [Browsers -> Callbacks \cup {NoCookie}]
  /\ leaving \subseteq Browsers
  /\ flow \in [Requests -> [at : Steps, user : Callbacks \cup {NoUser},
                          outcome : Outcomes, sent : BOOLEAN]]

Init ==
  /\ LimiterInit
  /\ states = {}
  /\ grant = [t \in Tabs |-> NoGrant]
  /\ users = {}
  /\ sessions = [r \in {} |-> NoUser]
  /\ jar = [b \in Browsers |-> NoCookie]
  /\ leaving = {}
  /\ flow = [r \in Requests |->
               [at |-> "start", user |-> NoUser, outcome |-> "none", sent |-> FALSE]]

Goto(r, step) == flow' = [flow EXCEPT ![r].at = step]

Answer(r, outcome) ==
  flow' = [flow EXCEPT ![r] = [@ EXCEPT !.at = "done", !.user = NoUser, !.outcome = outcome]]

LetThrough(r) == hit[r].at \in {"passed", "failedOpen"}

At(r, step) == LetThrough(r) /\ flow[r].at = step

\* One of the calls of this step fails, within the bound on faults.
Fails ==
  /\ faults < MaxFaults
  /\ faults' = faults + 1
  /\ UNCHANGED <<counter, hit>>

Works == UNCHANGED limiter
----------------------------------------------------------------------------

\* The browser sends a callback when GitHub has answered it, and reloads it later.
MaySend(r) ==
  CASE KindOf(r) = "login"    -> TRUE
    [] KindOf(r) = "callback" -> grant[TabOf(r)] # NoGrant
    [] KindOf(r) = "reload"   -> hit[<<TabOf(r), "callback">>].at # "new"

Limiter(r) ==
  /\ hit[r].at = "new" => MaySend(r)
  /\ RateLimit(r)
  /\ UNCHANGED login

\* GET /auth/login: RedisStateStore.issue, then the redirect to GitHub.
IssueState(r) ==
  /\ KindOf(r) = "login" /\ At(r, "start")
  /\ \/ Works /\ states' = states \cup {TabOf(r)} /\ Answer(r, "redirect")
     \/ Fails /\ states' \in {states, states \cup {TabOf(r)}} /\ Answer(r, "500")
  /\ UNCHANGED <<grant, users, sessions, jar, leaving>>

\* GitHub: the user of the tab approves the sign-in with an account, or denies it.
Decide(t) ==
  /\ flow[<<t, "login">>].outcome = "redirect" /\ grant[t] = NoGrant
  /\ \E g \in {Denied} \cup [account : Accounts, code : {TRUE}] :
       grant' = [grant EXCEPT ![t] = g]
  /\ UNCHANGED <<limiter, states, users, sessions, jar, leaving, flow>>

\* A bug: GET without DEL.
MutConsumed(t) == states

\* GETDEL: the callback that finds the state removes it in the same call.
Consumed(t) == states \ {t}

\* GET /auth/callback up to the single-use state.  sent: the code goes to GitHub.
\* A callback without a code is refused, and its state is gone all the same.
ConsumeState(r) ==
  LET t == TabOf(r) IN
  /\ r \in Callbacks /\ At(r, "start")
  /\ \/ /\ Works
        /\ grant[t] = Denied /\ Answer(r, "401") /\ UNCHANGED states
     \/ /\ Works
        /\ grant[t] # Denied /\ t \notin states /\ Answer(r, "401") /\ UNCHANGED states
     \/ /\ Works
        /\ grant[t] # Denied /\ t \in states /\ states' = Consumed(t)
        /\ \/ flow' = [flow EXCEPT ![r].at = "exchange", ![r].sent = TRUE]
           \/ Answer(r, "401")
     \/ /\ Fails
        /\ grant[t] # Denied /\ states' \in {states, Consumed(t)} /\ Answer(r, "500")
  /\ UNCHANGED <<grant, users, sessions, jar, leaving>>

\* exchange_code: GitHub takes a code once, and may fail before or after.
ExchangeCode(r) ==
  LET t == TabOf(r)
      Spent == [grant EXCEPT ![t].code = FALSE] IN
  /\ At(r, "exchange")
  /\ \/ Works /\ grant[t].code /\ grant' = Spent /\ Goto(r, "identity")
     \/ Works /\ ~grant[t].code /\ UNCHANGED grant /\ Answer(r, "502")
     \/ Fails /\ grant' \in {grant, Spent} /\ Answer(r, "502")
  /\ UNCHANGED <<states, users, sessions, jar, leaving>>

FetchIdentity(r) ==
  /\ At(r, "identity")
  /\ \/ Works /\ Goto(r, "upsert")
     \/ Fails /\ Answer(r, "502")
  /\ UNCHANGED <<states, grant, users, sessions, jar, leaving>>

\* A bug: the conflict is looked for without the account.
MutRowsOf(a) == users

RowsOf(a) == {u \in users : u.account = a}

\* INSERT ... ON CONFLICT (github_user_id) DO UPDATE: the account keeps its id
\* and takes the token of this sign-in.
UserId(a, r) == IF RowsOf(a) = {} THEN r ELSE (CHOOSE u \in RowsOf(a) : TRUE).id

Upserted(a, r) ==
  (users \ RowsOf(a)) \cup {[id |-> UserId(a, r), account |-> a, token |-> r]}

UpsertUser(r) ==
  LET a == grant[TabOf(r)].account IN
  /\ At(r, "upsert")
  /\ \/ /\ Works /\ users' = Upserted(a, r)
        /\ flow' = [flow EXCEPT ![r].at = "open", ![r].user = UserId(a, r)]
     \/ Fails /\ users' \in {users, Upserted(a, r)} /\ Answer(r, "500")
  /\ UNCHANGED <<states, grant, sessions, jar, leaving>>

\* RedisSessionStore.create stores the user's id under a new session id.
WithSession(r) ==
  [s \in DOMAIN sessions \cup {r} |-> IF s = r THEN flow[r].user ELSE sessions[s]]

Without(s) == [x \in DOMAIN sessions \ {s} |-> sessions[x]]

OpenSession(r) ==
  /\ At(r, "open")
  /\ \/ /\ Works /\ sessions' = WithSession(r)
        /\ flow' = [flow EXCEPT ![r].at = "respond", ![r].user = NoUser]
     \/ Fails /\ sessions' \in {sessions, WithSession(r)} /\ Answer(r, "500")
  /\ UNCHANGED <<states, grant, users, jar, leaving>>

\* The redirect to the dashboard sets the cookie of the browser that asked.
SetCookie(r) ==
  /\ At(r, "respond")
  /\ Works /\ Answer(r, "dashboard")
  /\ jar' = [jar EXCEPT ![BrowserOf[r]] = r]
  /\ UNCHANGED <<states, grant, users, sessions, leaving>>

\* POST /auth/logout destroys the session of the cookie it was sent with; its
\* answer clears whatever cookie the browser has by then.
Logout(b) ==
  /\ jar[b] # NoCookie /\ b \notin leaving
  /\ \/ Works /\ sessions' = Without(jar[b]) /\ leaving' = leaving \cup {b}
     \/ Fails /\ sessions' \in {sessions, Without(jar[b])} /\ UNCHANGED leaving
  /\ UNCHANGED <<states, grant, users, jar, flow>>

ClearCookie(b) ==
  /\ b \in leaving
  /\ leaving' = leaving \ {b}
  /\ jar' = [jar EXCEPT ![b] = NoCookie]
  /\ UNCHANGED <<limiter, states, grant, users, sessions, flow>>

\* Redis drops a state that waits too long, and a session.
ExpireState(t) ==
  /\ t \in states /\ states' = states \ {t}
  /\ Fails
  /\ UNCHANGED <<grant, users, sessions, jar, leaving, flow>>

ExpireSession(r) ==
  /\ r \in DOMAIN sessions /\ sessions' = Without(r)
  /\ Fails
  /\ UNCHANGED <<states, grant, users, jar, leaving, flow>>

\* The API process dies: the requests it serves get no answer.
Serving == {r \in Requests : /\ hit[r].at \notin {"new", "limited", "lost"}
                             /\ flow[r].at # "done"}

ApiCrash ==
  /\ Serving # {} \/ leaving # {}
  /\ LoseHits({r \in Serving : hit[r].at \in {"ttl", "expire"}})
  /\ flow' = [r \in Requests |->
                IF r \in Serving THEN [flow[r] EXCEPT !.at = "done", !.user = NoUser, !.outcome = "lost"]
                                 ELSE flow[r]]
  /\ leaving' = {}
  /\ UNCHANGED <<states, grant, users, sessions, jar>>

Callback(r) ==
  \/ ConsumeState(r) \/ ExchangeCode(r) \/ FetchIdentity(r)
  \/ UpsertUser(r) \/ OpenSession(r) \/ SetCookie(r)

Next ==
  \/ Tick /\ UNCHANGED login
  \/ \E r \in Requests : Limiter(r) \/ IssueState(r) \/ Callback(r)
  \/ \E t \in Tabs : Decide(t) \/ ExpireState(t)
  \/ \E b \in Browsers : Logout(b) \/ ClearCookie(b)
  \/ \E r \in Callbacks : ExpireSession(r)
  \/ ApiCrash

Spec == Init /\ [][Next]_vars
----------------------------------------------------------------------------

(***************************************************************************)
(* At most one callback per issued state gets as far as GitHub, however    *)
(* callbacks and their failures overlap.  (consume: "dos callbacks         *)
(* concurrentes con el mismo state no pueden ambos verlo presente")        *)
(***************************************************************************)
StateConsumedOnce ==
  \A r1, r2 \in Callbacks :
    flow[r1].sent /\ flow[r2].sent /\ TabOf(r1) = TabOf(r2) => r1 = r2

\* require_user: the row a cookie value stands for.
RequireUser(r) == {u \in users : r \in DOMAIN sessions /\ u.id = sessions[r]}

(***************************************************************************)
(* A session stands for exactly one user, the one of the account that      *)
(* approved the sign-in that opened it, and the token kept for that user   *)
(* was granted by the same account: concurrent first sign-ins of an        *)
(* account share its row and those of two accounts never do.               *)
(***************************************************************************)
SessionsOfTheirAccount ==
  \A r \in DOMAIN sessions :
    \E u \in users :
      /\ RequireUser(r) = {u}
      /\ u.account = grant[TabOf(r)].account
      /\ u.account = grant[TabOf(u.token)].account
=============================================================================
