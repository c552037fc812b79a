-------------------------------- MODULE Site --------------------------------
(***************************************************************************)
(* The site as a browser sees it: the pages and redirects of web/server.go *)
(* behind auth/middleware.go, the session cookie that the tabs of one      *)
(* browser share, and the player's script (static/player.js), which keeps  *)
(* asking for the stream and for events after the page has been served.    *)
(*                                                                         *)
(* A request, with the cookie it carries and what its handler does, is one *)
(* step, and its answer arrives in another: the session may end, the       *)
(* database fail, or another tab log in or out in between.  Sessions is    *)
(* the module about what happens inside Authenticate; here it accepts a    *)
(* cached token, or a live one if the database answers.                    *)
(***************************************************************************)
EXTENDS Integers

CONSTANTS Tab,        \* tabs of one browser
          MaxTokens   \* bound on the sessions opened

ASSUME MaxTokensAssumption == MaxTokens \in Nat

NoToken == 0
Keep    == -1 \* an answer without Set-Cookie
Token   == 1..MaxTokens

Form == {"/login", "/register"}
Get  == {"/", "/player"} \cup Form
Post == {"POST /login", "POST /register", "POST /logout"}

NoNav == [is |-> "none", to |-> "", sets |-> Keep, ends |-> NoToken]

VARIABLES
    rows,      \* the sessions table: tokens that have not expired
    cache,     \* auth.SessionCache: tokens accepted without the database
    dbUp,      \* whether the database answers
    issued,    \* how many sessions have been opened
    jar,       \* the browser's session cookie
    nav,       \* each tab's navigation: none, about to be sent, or answered
    page,      \* the page each tab shows
    hls,       \* player.js: the playback
    sse,       \* player.js: the EventSource
    loggedOut  \* history: the tokens whose logout has been answered

auth == <<rows, cache, issued>>
server == <<auth, dbUp>>
script == <<hls, sse>>
browser == <<jar, nav, page, script, loggedOut>>
vars == <<server, browser>>

Init == /\ rows = {}
        /\ cache = {}
        /\ dbUp = TRUE
        /\ issued = 0
        /\ jar = NoToken
        /\ nav = [t \in Tab |-> NoNav]
        /\ page = [t \in Tab |-> "blank"]
        /\ hls = [t \in Tab |-> "off"]
        /\ sse = [t \in Tab |-> "off"]
        /\ loggedOut = {}

-----------------------------------------------------------------------------
(* What the handlers have in common *)

\* Authenticate returns no error: any error, the database's included, is "no".
Accepts(c) == c \in cache \/ (dbUp /\ c \in rows)

\* Mutant: the pages look at the cookie, the player at the session.
isLoggedInMutantCookie(c) == c # NoToken

isLoggedIn(c) == Accepts(c)

\* Authenticate leaves what it accepts in the cache.
Authenticate(c) == /\ cache' = IF Accepts(c) THEN cache \cup {c} ELSE cache
                   /\ UNCHANGED <<rows, issued>>

\* The browser goes to an address.
GoTo(to) == [NoNav EXCEPT !.is = "go", !.to = to]

\* http.Redirect, render, and the cookie an answer may set.
Redirect(to)    == [NoNav EXCEPT !.is = "redirect", !.to = to]
Render(p)       == [NoNav EXCEPT !.is = "page", !.to = p]
SetCookie(a, c) == [a EXCEPT !.sets = c]

Answer(t, a) == /\ nav' = [nav EXCEPT ![t] = a]
                /\ UNCHANGED <<dbUp, jar, page, script, loggedOut>>

Requests(t, to) == nav[t] = GoTo(to)

-----------------------------------------------------------------------------
(* web/server.go *)

root(t) ==
    /\ Requests(t, "/")
    /\ Authenticate(jar)
    /\ Answer(t, Redirect(IF isLoggedIn(jar) THEN "/player" ELSE "/login"))

showForm(t, f) ==
    /\ Requests(t, f)
    /\ Authenticate(jar)
    /\ Answer(t, IF isLoggedIn(jar) THEN Redirect("/player") ELSE Render(f))

loginForm(t)    == showForm(t, "/login")
registerForm(t) == showForm(t, "/register")

\* A form opens a session and sets its cookie, or is shown again with an error:
\* credentials, validation, database.
submit(t, f) ==
    \/ /\ dbUp
       /\ issued < MaxTokens
       /\ issued' = issued + 1
       /\ rows' = rows \cup {issued'}
       /\ cache' = cache \cup {issued'}
       /\ Answer(t, SetCookie(Redirect("/player"), issued'))
    \/ Answer(t, Render(f)) /\ UNCHANGED auth

loginSubmit(t)    == Requests(t, "POST /login") /\ submit(t, "/login")
registerSubmit(t) == Requests(t, "POST /register") /\ submit(t, "/register")

\* RequireSession(RedirectToLogin, player).
player(t) ==
    /\ Requests(t, "/player")
    /\ Authenticate(jar)
    /\ Answer(t, IF Accepts(jar) THEN Render("/player") ELSE Redirect("/login"))

\* Mutant: an error of the database is shown, and the cookie stays.
clearedMutantOnSuccess == IF dbUp THEN NoToken ELSE Keep

cleared == NoToken

\* The database's error is logged; the browser is logged out all the same.
logout(t) ==
    /\ Requests(t, "POST /logout")
    /\ cache' = cache \ {jar}
    /\ rows' = IF dbUp THEN rows \ {jar} ELSE rows
    /\ UNCHANGED issued
    /\ Answer(t, [SetCookie(Redirect("/login"), cleared) EXCEPT !.ends = jar])

Handle(t) == \/ root(t) \/ loginForm(t) \/ registerForm(t) \/ player(t)
             \/ loginSubmit(t) \/ registerSubmit(t) \/ logout(t)

-----------------------------------------------------------------------------
(* The browser *)

\* A page replaces the one shown and its script; a redirect is followed.
Arrive(t) ==
    /\ nav[t].is \in {"page", "redirect"}
    /\ jar' = IF nav[t].sets = Keep THEN jar ELSE nav[t].sets
    /\ loggedOut' = (loggedOut \cup {nav[t].ends}) \ {NoToken}
    /\ \/ /\ nav[t].is = "redirect"
          /\ nav' = [nav EXCEPT ![t] = GoTo(nav[t].to)]
          /\ UNCHANGED <<page, script>>
       \/ /\ nav[t].is = "page"
          /\ nav' = [nav EXCEPT ![t] = NoNav]
          /\ page' = [page EXCEPT ![t] = nav[t].to]
          /\ IF nav[t].to = "/player"
             THEN /\ \E h \in {"loading", "native"} : hls' = [hls EXCEPT ![t] = h]
                  /\ sse' = [sse EXCEPT ![t] = "connecting"]
             ELSE /\ hls' = [hls EXCEPT ![t] = "off"]
                  /\ sse' = [sse EXCEPT ![t] = "off"]
    /\ UNCHANGED server

Go(t, to) == /\ nav' = [nav EXCEPT ![t] = GoTo(to)]
             /\ UNCHANGED <<jar, page, loggedOut>>

\* The user types an address or follows a link.
Visit(t, to) == /\ nav[t] = NoNav
                /\ Go(t, to)
                /\ UNCHANGED <<server, script>>

\* The user submits the form of the page.
Submit(t) == /\ nav[t] = NoNav
             /\ \/ page[t] = "/login" /\ Go(t, "POST /login")
                \/ page[t] = "/register" /\ Go(t, "POST /register")
                \/ page[t] = "/player" /\ Go(t, "POST /logout")
             /\ UNCHANGED <<server, script>>

-----------------------------------------------------------------------------
(* static/player.js, against RequireSession(Unauthorized, ...) *)

\* Mutant: every error is retried.
unauthorizedMutantRetries(t) == /\ hls' = [hls EXCEPT ![t] = "backoff"]
                                /\ UNCHANGED <<jar, nav, page, loggedOut>>

\* window.location.href = '/login' takes the place of a navigation in progress.
unauthorized(t) == /\ hls' = [hls EXCEPT ![t] = "stopped"]
                   /\ Go(t, "/login")

\* HLS.js asks for the playlist or for a segment.
Load(t) ==
    /\ hls[t] = "loading"
    /\ Authenticate(jar)
    /\ IF Accepts(jar) THEN UNCHANGED <<jar, nav, page, hls, loggedOut>>
                       ELSE unauthorized(t)
    /\ UNCHANGED <<dbUp, sse>>

\* hls.startLoad after the backoff.
StartLoad(t) ==
    /\ hls[t] = "backoff"
    /\ hls' = [hls EXCEPT ![t] = "loading"]
    /\ UNCHANGED <<server, jar, nav, page, sse, loggedOut>>

\* An EventSource retries a lost connection by itself, but not after a 401.
Connect(t) ==
    /\ sse[t] = "connecting"
    /\ Authenticate(jar)
    /\ IF Accepts(jar)
       THEN /\ sse' = [sse EXCEPT ![t] = "open"]
            /\ UNCHANGED <<jar, nav, page, loggedOut>>
       ELSE /\ sse' = [sse EXCEPT ![t] = "closed"]
            /\ Go(t, "/login")
    /\ UNCHANGED <<dbUp, hls>>

\* The connection is lost; an open one is not checked against the session.
Disconnect(t) ==
    /\ sse[t] = "open"
    /\ sse' = [sse EXCEPT ![t] = "connecting"]
    /\ UNCHANGED <<server, jar, nav, page, hls, loggedOut>>

-----------------------------------------------------------------------------
(* The environment *)

\* A session ends at its expiry, for the table and for the cache.
Expire == \E c \in rows : /\ rows' = rows \ {c}
                          /\ cache' = cache \ {c}
                          /\ UNCHANGED <<issued, dbUp, browser>>

\* A cached decision reaches its TTL, or is swept.
Forget == \E c \in cache : /\ cache' = cache \ {c}
                           /\ UNCHANGED <<rows, issued, dbUp, browser>>

\* The cookie's Max-Age, the session's TTL, ends after the session.
CookieExpires == /\ jar \notin rows
                 /\ jar' = NoToken
                 /\ UNCHANGED <<server, nav, page, script, loggedOut>>

DatabaseFailsOrHeals == /\ dbUp' = ~dbUp
                        /\ UNCHANGED <<auth, browser>>

\* Connections break: navigations end in an error, the player sees a network
\* error (hls.js) or reconnects (EventSource).
Restart ==
    /\ cache' = {}
    /\ nav' = [t \in Tab |-> NoNav]
    /\ page' = [t \in Tab |-> IF nav[t] = NoNav THEN page[t] ELSE "blank"]
    /\ hls' = [t \in Tab |-> IF nav[t] # NoNav THEN "off"
                             ELSE IF hls[t] = "loading" THEN "backoff" ELSE hls[t]]
    /\ sse' = [t \in Tab |-> IF nav[t] # NoNav THEN "off"
                             ELSE IF sse[t] = "open" THEN "connecting" ELSE sse[t]]
    /\ UNCHANGED <<rows, issued, dbUp, jar, loggedOut>>

Next == \/ \E t \in Tab : \/ Handle(t) \/ Arrive(t) \/ Submit(t)
                          \/ \E to \in Get : Visit(t, to)
                          \/ Load(t) \/ StartLoad(t) \/ Connect(t) \/ Disconnect(t)
        \/ Expire \/ Forget \/ CookieExpires \/ DatabaseFailsOrHeals \/ Restart

\* Requests are answered, answers arrive, and the script's timers fire.
Fairness == \A t \in Tab : /\ WF_vars(Handle(t) \/ Arrive(t))
                           /\ WF_vars(Load(t) \/ StartLoad(t))

Spec == Init /\ [][Next]_vars

FairSpec == Spec /\ Fairness

-----------------------------------------------------------------------------
(* Properties *)

Live == rows \cup cache

TypeOK ==
    /\ rows \subseteq Token /\ cache \subseteq Token
    /\ dbUp \in BOOLEAN /\ issued \in 0..MaxTokens
    /\ jar \in Token \cup {NoToken}
    /\ nav \in [Tab -> [is : {"none", "go", "page", "redirect"},
                        to : Get \cup Post \cup {""},
                        sets : Token \cup {NoToken, Keep},
                        ends : Token \cup {NoToken}]]
    /\ page \in [Tab -> {"blank", "/player"} \cup Form]
    /\ hls \in [Tab -> {"off", "loading", "backoff", "stopped", "native"}]
    /\ sse \in [Tab -> {"off", "connecting", "open", "closed"}]
    /\ loggedOut \subseteq Token

\* Once the browser has been told that it is logged out it never shows that
\* session's cookie again, even if the database failed to delete the session
\* and answers to other tabs come late.
LoggedOutStaysOut == jar \notin loggedOut

\* The pages send a visitor to the player and the player sends it to the login:
\* they agree, so that a navigation ends at a page, unless the database fails
\* and comes back for ever.
NavigationsEnd ==
    (<>[]dbUp \/ <>[]~dbUp) => \A t \in Tab : (nav[t] # NoNav) ~> (nav[t] = NoNav)

\* When the session ends (expired, or closed in another tab) a player that
\* plays through HLS.js does not stay, whatever requests, outages and restarts
\* come in between.
EndedSessionLeavesPlayer ==
    <>[][~Restart]_vars =>
        \A t \in Tab : (page[t] = "/player" /\ jar \notin Live)
                          ~> (page[t] # "/player" \/ jar \in Live \/ hls[t] = "native")

=============================================================================
