------------------------------- MODULE Sessions -------------------------------
(***************************************************************************)
(* Who may write from the dashboard: the login and logout routes with      *)
(* their limit on wrong passphrases, the cookies of each browser, the gate *)
(* of the middleware, the proxy that hands the session on to the API, the  *)
(* API's own check of it, and the message the educator sees at the end.    *)
(* The dashboard and the API are configured apart and may be started anew  *)
(* with another configuration while requests are under way.                *)
(***************************************************************************)
EXTENDS Integers, Sequences, FiniteSets

CONSTANTS
  Browsers,
  AddressOf,     \* the client address the dashboard sees of a browser
  Deployments,   \* the configurations: [gate, dash, api, keys, secure]
  Ttl,           \* DASHBOARD_SESSION_TTL_HOURS
  LoginWindow,   \* WINDOW_MS
  MaxFailures,
  MaxClock, MaxAttempts, MaxCalls, MaxDeploys   \* bounds

\* There is room for a wrong passphrase, and "all" is no address.
ASSUME SessionsAssumption ==
  /\ \A b \in Browsers : AddressOf[b] # "all"
  /\ Deployments \subseteq [gate : BOOLEAN, dash : STRING, api : STRING, keys : BOOLEAN, secure : BOOLEAN]
  /\ {Ttl, LoginWindow, MaxAttempts} \subseteq Nat /\ {MaxFailures, MaxClock} \subseteq Nat \ {0}

VARIABLES
  clock,
  deployment,  \* what is running, with the number of restarts
  jars,        \* the cookies of each browser by name
  visits,      \* history: the last login or logout of each browser
  logins,      \* history: the logins
  limiter,     \* the failures by address, in the dashboard's memory
  attempts,    \* history: the passphrases tried, with what was remembered then, and the restarts that forget it
  calls        \* the writes sent from the browsers

accessVars == <<clock, deployment, jars, visits, logins, limiter, attempts, calls>>

Secrets == {"a", "b"}
NoCookie == [exp |-> 0, secret |-> "none"]
CookieNames == {"host", "plain"}
Addresses == {AddressOf[b] : b \in Browsers}
NoFailures == [count |-> 0, start |-> 0]

AccessInit ==
  /\ clock = 1 /\ deployment \in [conf : Deployments, restarts : {0}]
  /\ jars = [b \in Browsers |-> [n \in CookieNames |-> NoCookie]]
  /\ visits = [b \in Browsers |-> "never"]
  /\ logins = {} /\ attempts = <<>> /\ calls = <<>>
  /\ limiter = [a \in Addresses |-> NoFailures]

conf == deployment.conf

\* A secret of less than 32 characters counts as none.
ConfigSound(secret) == secret \in Secrets

--------------------------------------------------------------------------------
\* The cookie is named __Host-dp_session where cookies are secure; a browser takes a
\* cookie of that name only with the attribute Secure.
CookieName == IF conf.secure THEN "host" ELSE "plain"
SetCookie(jar, name, cookie) ==
  IF name = "host" /\ ~conf.secure THEN jar ELSE [jar EXCEPT ![name] = cookie]

\* readSessionCookieValue: the older name is still read where cookies are secure.
Presented(jar) ==
  IF conf.secure /\ jar["host"] # NoCookie THEN jar["host"] ELSE jar["plain"]

Signed(secret) == [exp |-> clock + Ttl, secret |-> secret]
\* verifySessionAsync.
Verified(secret, cookie) == cookie.secret = secret /\ cookie.exp > clock

\* POST /login with the right passphrase: blocked or not, the failures are forgotten.
Login(b) ==
  /\ conf.gate /\ ConfigSound(conf.dash) /\ Len(attempts) < MaxAttempts
  /\ LET cookie == Signed(conf.dash) IN
       /\ jars' = [jars EXCEPT ![b] = SetCookie(@, CookieName, cookie)]
       /\ logins' = logins \cup {[browser |-> b, at |-> clock, cookie |-> cookie]}
  /\ visits' = [visits EXCEPT ![b] = "in"]
  /\ limiter' = [limiter EXCEPT ![AddressOf[b]] = NoFailures]
  /\ attempts' = Append(attempts, [address |-> AddressOf[b], at |-> clock, answer |-> "in", retry |-> 0,
                                      entry |-> NoFailures])
  /\ UNCHANGED <<clock, deployment, calls>>

\* recordFailure: the window starts with its first failure, and is over when more than
\* its length has passed.
FailedEntry(entry) ==
  IF entry.count = 0 \/ clock - entry.start > LoginWindow
  THEN [count |-> 1, start |-> clock]
  ELSE [entry EXCEPT !.count = @ + 1]

Blocked(entry) == entry.count > MaxFailures

\* POST /login with a wrong passphrase; the limit is looked at only then.
WrongPassphrase(b) ==
  /\ conf.gate /\ ConfigSound(conf.dash) /\ Len(attempts) < MaxAttempts
  /\ LET a == AddressOf[b]
         entry == FailedEntry(limiter[a])
         left == entry.start + LoginWindow - clock IN
       /\ limiter' = [limiter EXCEPT ![a] = entry]
       /\ attempts' = Append(attempts,
            [address |-> a, at |-> clock, answer |-> IF Blocked(entry) THEN "blocked" ELSE "wrong",
             retry |-> IF ~Blocked(entry) THEN 0 ELSE IF left < 1 THEN 1 ELSE left, entry |-> entry])
  /\ UNCHANGED <<clock, deployment, jars, visits, logins, calls>>

\* /logout clears both names, with the attributes of the configuration.
Logout(b) ==
  /\ visits[b] = "in"
  /\ jars' = [jars EXCEPT ![b] = SetCookie(SetCookie(@, "host", NoCookie), "plain", NoCookie)]
  /\ visits' = [visits EXCEPT ![b] = IF conf.secure THEN "out" ELSE "out_plain"]
  /\ UNCHANGED <<clock, deployment, logins, limiter, attempts, calls>>

--------------------------------------------------------------------------------
\* apiFetch: the browser sends the cookies it has.
SendCall(b) ==
  /\ Len(calls) < MaxCalls
  /\ calls' = Append(calls,
       [browser |-> b, jar |-> jars[b], since |-> visits[b], stage |-> "sent", shown |-> "none",
        passed |-> "none", dash |-> "none", passedAt |-> 0, cookie |-> NoCookie,
        result |-> "none", session |-> NoCookie, api |-> "none", at |-> 0])
  /\ UNCHANGED <<clock, deployment, jars, visits, logins, limiter, attempts>>

\* The code in the body of an answer, none in one without a JSON object.
Code(result) ==
  CASE result = "session" -> "session_required"
    [] result = "configuration" -> "invalid_server_configuration"
    [] result = "access" -> "api_key_invalid"
    [] result = "timeout" -> "dashboard_upstream_unavailable"
    [] OTHER -> "none"

\* What an educator is shown for a code when a review was to be saved.
Messages ==
  [c \in {"session_required", "invalid_server_configuration", "api_key_invalid", "dashboard_upstream_unavailable"} |->
     CASE c = "session_required" -> "sign_in"
       [] c = "invalid_server_configuration" -> "configuration"
       [] c = "api_key_invalid" -> "no_access"
       [] c = "dashboard_upstream_unavailable" -> "unreachable"]

\* getUserFacingError.
Shown(result) ==
  IF result = "stored" THEN "saved"
  ELSE IF Code(result) \in DOMAIN Messages THEN Messages[Code(result)] ELSE "generic"

\* The middleware: a request without a session is redirected to the login page, which
\* apiFetch takes for the answer and cannot read; an unsound configuration answers 500
\* without a code.  The proxy reads the cookie as the middleware did.
Gate(i) ==
  /\ calls[i].stage = "sent"
  /\ LET cookie == Presented(calls[i].jar) IN
       calls' = [calls EXCEPT ![i] =
         IF ~conf.gate \/ (ConfigSound(conf.dash) /\ Verified(conf.dash, cookie))
         THEN [@ EXCEPT !.stage = "through", !.passed = IF conf.gate THEN "checked" ELSE "open",
                        !.dash = conf.dash, !.passedAt = clock, !.cookie = cookie]
         ELSE [@ EXCEPT !.stage = "answered", !.shown = Shown("text"), !.dash = conf.dash, !.passedAt = clock,
                        !.cookie = cookie]]
  /\ UNCHANGED <<clock, deployment, jars, visits, logins, limiter, attempts>>

\* The Cookie header of the proxy: fb_session with the value of the dashboard's session.
Forwarded(call) == call.cookie

\* Mutant: the API checks the signature alone.
SessionResultSigned(cookie) ==
  CASE ~ConfigSound(conf.api) -> "configuration"
    [] ConfigSound(conf.api) /\ (cookie = NoCookie \/ cookie.secret # conf.api) -> "session"
    [] OTHER -> "stored"

\* verifySession of the API.
ApiVerified(cookie) == cookie.secret = conf.api /\ cookie.exp > clock

\* feedbackSessionPreHandler.
SessionResult(cookie) ==
  CASE ~ConfigSound(conf.api) -> "configuration"
    [] ConfigSound(conf.api) /\ (cookie = NoCookie \/ ~ApiVerified(cookie)) -> "session"
    [] OTHER -> "stored"

\* The first half of the signature, which the secret and the expiry determine.
SessionId(cookie) == cookie

\* The API: the key, the session, and then the write under the session id.  The proxy may have given up before.
Handle(i) ==
  /\ calls[i].result = "none" /\ (calls[i].stage = "through" \/ calls[i].shown = "unreachable")
  /\ LET cookie == Forwarded(calls[i])
         result == IF conf.keys THEN SessionResult(cookie) ELSE "access" IN
       calls' = [calls EXCEPT ![i] =
         [@ EXCEPT !.result = result, !.api = conf.api, !.at = clock,
                   !.session = IF result = "stored" THEN SessionId(cookie) ELSE NoCookie]]
  /\ UNCHANGED <<clock, deployment, jars, visits, logins, limiter, attempts>>

Answer(i) ==
  /\ calls[i].stage = "through" /\ calls[i].result # "none"
  /\ calls' = [calls EXCEPT ![i] = [@ EXCEPT !.stage = "answered", !.shown = Shown(calls[i].result)]]
  /\ UNCHANGED <<clock, deployment, jars, visits, logins, limiter, attempts>>

\* The proxy waits ten seconds for the API and answers 502.
GiveUp(i) ==
  /\ calls[i].stage = "through"
  /\ calls' = [calls EXCEPT ![i] = [@ EXCEPT !.stage = "answered", !.shown = Shown("timeout")]]
  /\ UNCHANGED <<clock, deployment, jars, visits, logins, limiter, attempts>>

--------------------------------------------------------------------------------
TickClock ==
  /\ clock < MaxClock /\ clock' = clock + 1
  /\ UNCHANGED <<deployment, jars, visits, logins, limiter, attempts, calls>>

\* Another configuration: the dashboard is started anew and forgets the failures.
Redeploy(d) ==
  /\ d # conf /\ deployment.restarts < MaxDeploys
  /\ deployment' = [conf |-> d, restarts |-> deployment.restarts + 1]
  /\ limiter' = [a \in Addresses |-> NoFailures]
  /\ attempts' = Append(attempts, [address |-> "all", at |-> clock, answer |-> "restart", retry |-> 0,
                                      entry |-> NoFailures])
  /\ UNCHANGED <<clock, jars, visits, logins, calls>>

AccessNext ==
  \/ \E b \in Browsers : Login(b) \/ WrongPassphrase(b) \/ Logout(b) \/ SendCall(b)
  \/ \E i \in DOMAIN calls : Gate(i) \/ Handle(i) \/ Answer(i) \/ GiveUp(i)
  \/ TickClock
  \/ \E d \in Deployments : Redeploy(d)

AccessSpec == AccessInit /\ [][AccessNext]_accessVars

--------------------------------------------------------------------------------
\* Every cookie expires within Ttl from now, as the session of every record does.
AccessTypeOK ==
  LET Cookies == {NoCookie} \cup [exp : 1..(clock + Ttl), secret : Secrets] IN
  /\ clock \in 1..MaxClock /\ conf \in Deployments
  /\ \A b \in Browsers : \A n \in CookieNames : jars[b][n] \in Cookies
  /\ \A a \in Addresses : limiter[a].start \in 0..clock /\ limiter[a].count \in 0..MaxAttempts
  /\ \A i \in DOMAIN calls : LET c == calls[i] IN
       /\ c.stage \in {"sent", "through", "answered"} /\ (c.shown # "none" <=> c.stage = "answered")
       /\ c.session \in Cookies /\ (c.result = "stored" <=> c.session # NoCookie)

\* A write is stored under a session that its browser had from a login, that was not
\* over when the API looked, and that two browsers share only when they logged in at
\* the same time: the session id is all that tells two educators apart.
RecordIsOfLogin ==
  \A i \in DOMAIN calls : calls[i].result = "stored" =>
    /\ calls[i].at < calls[i].session.exp /\ calls[i].session.secret = calls[i].api
    /\ \E l \in logins : l.browser = calls[i].browser /\ l.cookie = calls[i].session
    /\ \A l, k \in logins : l.cookie = calls[i].session /\ k.cookie = calls[i].session => l.at = k.at

\* Behind the gate an educator is asked to sign in only when the two secrets differ or
\* the session ended between the gate and the API; a session that ended before fails
\* without that advice.  A write that meets one sound configuration in time is stored
\* unless the proxy gives up, and what is shown as saved is stored.
AnswerHasCause ==
  \A i \in DOMAIN calls : LET c == calls[i] IN
    /\ c.shown = "sign_in" /\ c.passed = "checked" =>
         c.dash # c.api \/ (c.passedAt < c.cookie.exp /\ c.cookie.exp <= c.at)
    /\ c.shown = "generic" => ~ConfigSound(c.dash) \/ c.cookie.secret # c.dash \/ c.cookie.exp <= c.passedAt
    /\ c.passed = "checked" /\ c.shown \notin {"none", "saved", "unreachable"} =>
         c.shown = "no_access" \/ c.dash # c.api \/ c.cookie.exp <= c.at
    /\ c.shown = "saved" => c.result = "stored"

\* After a logout no request passes the gate until the browser logs in again; where the
\* dashboard was configured without secure cookies at the logout, a cookie of an
\* earlier secure configuration stays.
PassedAfterLogin ==
  \A i \in DOMAIN calls : calls[i].passed = "checked" => calls[i].since \in {"in", "out_plain"}

\* However the windows fall, fewer than twice MaxFailures wrong passphrases of one
\* address are answered as such within a window's length, without a login or a restart
\* between them.
LimiterBounds ==
  \A i, j \in DOMAIN attempts :
    LET between == {k \in i..j : attempts[k].address \in {attempts[i].address, "all"}} IN
    i <= j /\ attempts[j].at - attempts[i].at <= LoginWindow
      /\ (\A k \in between : attempts[k].answer \in {"wrong", "blocked"})
    => Cardinality({k \in between : attempts[k].answer = "wrong"}) < 2 * MaxFailures

\* Who waits longer than Retry-After says is let try again, when no one else of the
\* address tries in between.
RetryAfterHolds ==
  \A i, j \in DOMAIN attempts :
    i < j /\ attempts[i].answer = "blocked" /\ attempts[j].address = attempts[i].address
      /\ attempts[j].at > attempts[i].at + attempts[i].retry
      /\ (\A k \in (i + 1)..(j - 1) : attempts[k].address # attempts[i].address)
    => attempts[j].answer # "blocked"

\* What is written from the dashboard is of somebody who had logged in and was not yet out, who
\* fails is told why, and guessing is slowed down, over restarts with other configurations.
AccessIsOfLogin ==
  /\ AccessTypeOK /\ RecordIsOfLogin /\ AnswerHasCause /\ PassedAfterLogin /\ LimiterBounds
  /\ RetryAfterHolds
===============================================================================
