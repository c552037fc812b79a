----------------------------- MODULE SiteProofs -----------------------------
(***************************************************************************)
(* Safety of Site for every number of tabs and sessions.                   *)
(***************************************************************************)
EXTENDS Site, TLAPS

-----------------------------------------------------------------------------
(* The inductive invariant *)

Navigation == [is : {"none", "go", "page", "redirect"},
               to : Get \cup Post \cup {""},
               sets : Token \cup {NoToken, Keep},
               ends : Token \cup {NoToken}]

\* No session is known before it is opened.
Opened == /\ jar <= issued
          /\ \A c \in loggedOut : c <= issued
          /\ \A t \in Tab : nav[t].sets <= issued /\ nav[t].ends <= issued

\* A cookie on its way to the browser is not there yet, and is on its way once:
\* nobody can have logged out of its session.
Fresh(t) ==
    nav[t].sets \in Token =>
        /\ nav[t].sets # jar
        /\ nav[t].sets \notin loggedOut
        /\ \A u \in Tab : /\ u # t => nav[u].sets # nav[t].sets
                          /\ nav[u].ends # nav[t].sets

\* The answer to a logout takes the cookie away.
Clears(t) == nav[t].ends # NoToken => nav[t].sets = NoToken

\* What is shown is a page.
Showable(a) == a.is = "page" => a.to \in Form \cup {"/player"}

Safe == /\ Opened
        /\ \A t \in Tab : Fresh(t) /\ Clears(t) /\ Showable(nav[t])
        /\ LoggedOutStaysOut

IInv == TypeOK /\ Safe

-----------------------------------------------------------------------------
(* Lemmas *)

LEMMA Numbers ==
    /\ Keep \notin Token /\ NoToken \notin Token /\ Keep # NoToken
    /\ Token \subseteq Nat
    /\ \A n \in Nat : Keep <= n /\ NoToken <= n
BY MaxTokensAssumption DEF Keep, NoToken, Token

\* What TypeOK says of the navigations and of the number of sessions.
LEMMA TypesOfNav ==
    ASSUME TypeOK
    PROVE  nav \in [Tab -> Navigation] /\ issued \in Nat
<1>1. nav \in [Tab -> Navigation]
    BY DEF TypeOK, Navigation
<1>2. issued \in 0..MaxTokens
    BY DEF TypeOK
<1> QED
    BY <1>1, <1>2, MaxTokensAssumption

\* An answer with no cookie, or a request, carries nothing.
LEMMA GoToCarriesNothing ==
    ASSUME NEW to \in Get \cup Post
    PROVE  /\ GoTo(to) \in Navigation /\ GoTo(to).sets = Keep /\ GoTo(to).ends = NoToken
           /\ Showable(GoTo(to))
BY DEF GoTo, NoNav, Navigation, Showable

LEMMA NoNavCarriesNothing ==
    NoNav \in Navigation /\ NoNav.sets = Keep /\ NoNav.ends = NoToken /\ Showable(NoNav)
BY DEF NoNav, Navigation, Showable

LEMMA AnswersCarry ==
    ASSUME NEW p \in Form \cup {"/player"}
    PROVE  /\ Render(p) \in Navigation
           /\ Render(p).sets = Keep /\ Render(p).ends = NoToken /\ Showable(Render(p))
           /\ Redirect(p) \in Navigation
           /\ Redirect(p).sets = Keep /\ Redirect(p).ends = NoToken /\ Showable(Redirect(p))
BY DEF Render, Redirect, NoNav, Navigation, Get, Form, Showable

\* Whatever is put in place of a tab's navigation without a cookie changes
\* nothing that matters.
LEMMA NothingCarried ==
    ASSUME IInv, NEW t \in Tab, NEW a \in Navigation, a.sets = Keep, a.ends = NoToken, Showable(a),
           nav' = [nav EXCEPT ![t] = a],
           UNCHANGED <<jar, loggedOut, issued>>
    PROVE  Safe' /\ nav' \in [Tab -> Navigation]
<1>1. nav \in [Tab -> Navigation] /\ issued \in Nat
    BY TypesOfNav DEF IInv
<1>2. nav' \in [Tab -> Navigation] /\ nav'[t] = a /\ \A u \in Tab : u # t => nav'[u] = nav[u]
    BY <1>1
<1>3. Keep \notin Token /\ NoToken \notin Token /\ Keep <= issued /\ NoToken <= issued
    BY <1>1, Numbers
<1>4. Opened'
    BY <1>2, <1>3 DEF IInv, Safe, Opened
<1>5. ASSUME NEW u \in Tab PROVE Fresh(u)'
    <2>1. CASE u = t
        BY <1>2, <1>3, <2>1 DEF Fresh
    <2>2. CASE u # t
        <3>1. Fresh(u) /\ nav'[u] = nav[u]
            BY <1>2, <2>2 DEF IInv, Safe
        <3>2. SUFFICES ASSUME nav[u].sets \in Token, NEW v \in Tab
                       PROVE  /\ v # u => nav'[v].sets # nav[u].sets
                              /\ nav'[v].ends # nav[u].sets
            BY <3>1 DEF Fresh
        <3> QED
            BY <1>2, <1>3, <3>1, <3>2 DEF Fresh
    <2> QED
        BY <2>1, <2>2
<1>6. \A u \in Tab : Clears(u)' /\ Showable(nav'[u])
    BY <1>2 DEF IInv, Safe, Clears
<1> QED
    BY <1>2, <1>4, <1>5, <1>6 DEF IInv, Safe, LoggedOutStaysOut

Playback == {"off", "loading", "backoff", "stopped", "native"}
Stream   == {"off", "connecting", "open", "closed"}

LEMMA AnswerKeeps ==
    ASSUME IInv, NEW t \in Tab, NEW a \in Navigation, a.sets = Keep, a.ends = NoToken, Showable(a),
           Answer(t, a), rows' \subseteq Token, cache' \subseteq Token, issued' = issued
    PROVE  IInv'
<1>1. Safe' /\ nav' \in [Tab -> Navigation]
    BY NothingCarried DEF Answer
<1>2. TypeOK'
    BY <1>1 DEF IInv, TypeOK, Answer, script, Navigation
<1> QED
    BY <1>1, <1>2 DEF IInv

LEMMA GoKeeps ==
    ASSUME IInv, NEW t \in Tab, NEW to \in Get \cup Post, Go(t, to),
           rows' \subseteq Token, cache' \subseteq Token, UNCHANGED <<issued, dbUp>>,
           hls' \in [Tab -> Playback], sse' \in [Tab -> Stream]
    PROVE  IInv'
<1>1. GoTo(to) \in Navigation /\ GoTo(to).sets = Keep /\ GoTo(to).ends = NoToken /\ Showable(GoTo(to))
    BY GoToCarriesNothing
<1>2. Safe' /\ nav' \in [Tab -> Navigation]
    BY <1>1, NothingCarried DEF Go
<1>3. TypeOK'
    BY <1>2 DEF IInv, TypeOK, Go, Navigation, Playback, Stream
<1> QED
    BY <1>2, <1>3 DEF IInv

\* A step that leaves the navigations, and all that is known of cookies, alone.
LEMMA CookiesUntouched ==
    ASSUME IInv, UNCHANGED <<nav, jar, loggedOut, issued, page>>,
           rows' \subseteq Token, cache' \subseteq Token, dbUp' \in BOOLEAN,
           hls' \in [Tab -> Playback], sse' \in [Tab -> Stream]
    PROVE  IInv'
<1>1. Safe'
    BY DEF IInv, Safe, Opened, Fresh, Clears, LoggedOutStaysOut
<1>2. TypeOK'
    BY DEF IInv, TypeOK, Playback, Stream
<1> QED
    BY <1>1, <1>2 DEF IInv

\* What Authenticate accepts is a session.
LEMMA AuthenticateTyped ==
    ASSUME TypeOK, Authenticate(jar)
    PROVE  rows' \subseteq Token /\ cache' \subseteq Token /\ issued' = issued
BY DEF TypeOK, Authenticate, Accepts

-----------------------------------------------------------------------------
(* The handlers *)

LEMMA PagesKeep ==
    ASSUME IInv, NEW t \in Tab, root(t) \/ loginForm(t) \/ registerForm(t) \/ player(t)
    PROVE  IInv'
<1>1. PICK p \in Form \cup {"/player"} :
          Authenticate(jar) /\ (Answer(t, Redirect(p)) \/ Answer(t, Render(p)))
    BY DEF root, loginForm, registerForm, showForm, player, Form
<1>2. rows' \subseteq Token /\ cache' \subseteq Token /\ issued' = issued
    BY <1>1, AuthenticateTyped DEF IInv
<1> QED
    BY <1>1, <1>2, AnswersCarry, AnswerKeeps

\* A session that is opened has a number nobody has heard of.
LEMMA OpensKeeps ==
    ASSUME IInv, NEW t \in Tab, issued < MaxTokens, issued' = issued + 1,
           rows' = rows \cup {issued'}, cache' = cache \cup {issued'},
           Answer(t, SetCookie(Redirect("/player"), issued'))
    PROVE  IInv'
<1> DEFINE a == SetCookie(Redirect("/player"), issued')
<1>1. nav \in [Tab -> Navigation] /\ issued \in Nat /\ issued' \in Token /\ issued' \in 0..MaxTokens
    BY TypesOfNav, MaxTokensAssumption DEF IInv, Token
<1>2. a \in Navigation /\ a.sets = issued' /\ a.ends = NoToken /\ Showable(a)
    BY <1>1 DEF SetCookie, Redirect, NoNav, Navigation, Get, Showable
<1>3. nav' = [nav EXCEPT ![t] = a] /\ UNCHANGED <<dbUp, jar, page, script, loggedOut>>
    BY DEF Answer
<1> HIDE DEF a
<1>4. nav' \in [Tab -> Navigation] /\ nav'[t] = a /\ \A u \in Tab : u # t => nav'[u] = nav[u]
    BY <1>1, <1>2, <1>3
<1>5. TypeOK'
    BY <1>1, <1>3, <1>4 DEF IInv, TypeOK, script, Navigation
<1>6. /\ jar \in Token \cup {NoToken} /\ loggedOut \subseteq Token
      /\ \A u \in Tab : /\ nav[u].sets \in Token \cup {NoToken, Keep}
                        /\ nav[u].ends \in Token \cup {NoToken}
    BY <1>1 DEF IInv, TypeOK, Navigation
<1>7. \A n \in Token \cup {NoToken, Keep} : n <= issued => n <= issued' /\ n # issued'
    BY <1>1, Numbers DEF NoToken, Keep
<1>8. /\ jar <= issued /\ \A c \in loggedOut : c <= issued
      /\ \A u \in Tab : nav[u].sets <= issued /\ nav[u].ends <= issued
    BY DEF IInv, Safe, Opened
<1>9. /\ jar # issued' /\ issued' \notin loggedOut
      /\ \A u \in Tab : nav[u].sets # issued' /\ nav[u].ends # issued'
    BY <1>6, <1>7, <1>8
<1>10. Opened'
    <2>1. jar' <= issued' /\ \A c \in loggedOut' : c <= issued'
        BY <1>3, <1>6, <1>7, <1>8
    <2>2. a.sets <= issued' /\ a.ends <= issued'
        BY <1>1, <1>2, Numbers
    <2>3. \A u \in Tab : nav[u].sets <= issued' /\ nav[u].ends <= issued'
        BY <1>6, <1>7, <1>8
    <2> QED
        BY <1>4, <2>1, <2>2, <2>3 DEF Opened
<1>11. ASSUME NEW u \in Tab PROVE Fresh(u)'
    <2>1. CASE u = t
        BY <1>1, <1>2, <1>3, <1>4, <1>9, <2>1, Numbers DEF Fresh
    <2>2. CASE u # t
        <3>1. Fresh(u) /\ nav'[u] = nav[u]
            BY <1>4, <2>2 DEF IInv, Safe
        <3>2. SUFFICES ASSUME nav[u].sets \in Token, NEW v \in Tab
                       PROVE  /\ v # u => nav'[v].sets # nav[u].sets
                              /\ nav'[v].ends # nav[u].sets
            BY <1>3, <3>1 DEF Fresh
        <3> QED
            BY <1>2, <1>4, <1>9, <3>1, <3>2, Numbers DEF Fresh
    <2> QED
        BY <2>1, <2>2
<1>12. \A u \in Tab : Clears(u)' /\ Showable(nav'[u])
    BY <1>2, <1>4 DEF IInv, Safe, Clears
<1> QED
    BY <1>3, <1>5, <1>10, <1>11, <1>12 DEF IInv, Safe, LoggedOutStaysOut

LEMMA FormsKeep ==
    ASSUME IInv, NEW t \in Tab, loginSubmit(t) \/ registerSubmit(t)
    PROVE  IInv'
<1>1. PICK f \in Form : submit(t, f)
    BY DEF loginSubmit, registerSubmit, Form
<1>2. CASE Answer(t, Render(f)) /\ UNCHANGED auth
    <2>1. rows' \subseteq Token /\ cache' \subseteq Token /\ issued' = issued
        BY <1>2 DEF auth, IInv, TypeOK
    <2> QED
        BY <1>2, <2>1, AnswersCarry, AnswerKeeps
<1> QED
    BY <1>1, <1>2, OpensKeeps DEF submit

\* The answer to a logout names the session that ends, and nobody carries its
\* cookie: it is in the jar.
LEMMA LogoutKeeps ==
    ASSUME IInv, NEW t \in Tab, logout(t)
    PROVE  IInv'
<1> DEFINE a == [SetCookie(Redirect("/login"), cleared) EXCEPT !.ends = jar]
<1>1. nav \in [Tab -> Navigation] /\ issued \in Nat /\ jar \in Token \cup {NoToken}
    BY TypesOfNav DEF IInv, TypeOK
<1>2. a \in Navigation /\ a.sets = NoToken /\ a.ends = jar /\ Showable(a)
    BY <1>1 DEF SetCookie, Redirect, NoNav, Navigation, Get, Form, cleared, Showable
<1>3. /\ nav' = [nav EXCEPT ![t] = a]
      /\ UNCHANGED <<dbUp, jar, page, script, loggedOut, issued>>
      /\ rows' \subseteq rows /\ cache' \subseteq cache
    BY DEF Answer, logout
<1> HIDE DEF a
<1>4. nav' \in [Tab -> Navigation] /\ nav'[t] = a /\ \A u \in Tab : u # t => nav'[u] = nav[u]
    BY <1>1, <1>2, <1>3
<1>5. TypeOK'
    BY <1>3, <1>4 DEF IInv, TypeOK, script, Navigation
<1>6. Opened'
    BY <1>1, <1>2, <1>3, <1>4, Numbers DEF IInv, Safe, Opened
<1>7. ASSUME NEW u \in Tab PROVE Fresh(u)'
    <2>1. CASE u = t
        BY <1>2, <1>4, <2>1, Numbers DEF Fresh
    <2>2. CASE u # t
        <3>1. Fresh(u) /\ nav'[u] = nav[u]
            BY <1>4, <2>2 DEF IInv, Safe
        <3>2. SUFFICES ASSUME nav[u].sets \in Token, NEW v \in Tab
                       PROVE  /\ v # u => nav'[v].sets # nav[u].sets
                              /\ nav'[v].ends # nav[u].sets
            BY <1>3, <3>1 DEF Fresh
        <3> QED
            BY <1>2, <1>4, <3>1, <3>2, Numbers DEF Fresh
    <2> QED
        BY <2>1, <2>2
<1>8. \A u \in Tab : Clears(u)' /\ Showable(nav'[u])
    BY <1>2, <1>4 DEF IInv, Safe, Clears
<1> QED
    BY <1>3, <1>5, <1>6, <1>7, <1>8 DEF IInv, Safe, LoggedOutStaysOut

-----------------------------------------------------------------------------
(* The browser, the script and the environment *)

\* A cookie that arrives is in the jar and no longer on its way; a logout that
\* arrives is known, and nobody carries its cookie.
LEMMA ArriveKeeps ==
    ASSUME IInv, NEW t \in Tab, Arrive(t)
    PROVE  IInv'
<1>1. nav \in [Tab -> Navigation] /\ issued \in Nat
    BY TypesOfNav DEF IInv
<1>2. PICK b \in {NoNav, GoTo(nav[t].to)} : nav' = [nav EXCEPT ![t] = b]
    BY DEF Arrive
<1>3. b \in Navigation /\ b.sets = Keep /\ b.ends = NoToken /\ Showable(b)
    BY <1>1, NoNavCarriesNothing DEF GoTo, NoNav, Navigation, Showable
<1>4. nav' \in [Tab -> Navigation] /\ nav'[t] = b /\ \A u \in Tab : u # t => nav'[u] = nav[u]
    BY <1>1, <1>2, <1>3
<1>5. /\ jar' = IF nav[t].sets = Keep THEN jar ELSE nav[t].sets
      /\ loggedOut' = (loggedOut \cup {nav[t].ends}) \ {NoToken}
      /\ UNCHANGED <<rows, cache, issued, dbUp>>
    BY DEF Arrive, server, auth
<1>6. /\ nav[t].sets \in Token \cup {NoToken, Keep} /\ nav[t].ends \in Token \cup {NoToken}
      /\ jar \in Token \cup {NoToken} /\ loggedOut \subseteq Token
    BY <1>1 DEF Navigation, IInv, TypeOK
<1>7. Fresh(t) /\ Clears(t) /\ Opened /\ LoggedOutStaysOut
    BY DEF IInv, Safe
<1>8. TypeOK'
    <2>1. /\ page' \in [Tab -> {"blank", "/player"} \cup Form]
          /\ hls' \in [Tab -> Playback] /\ sse' \in [Tab -> Stream]
        <3>1. /\ page \in [Tab -> {"blank", "/player"} \cup Form]
              /\ hls \in [Tab -> Playback] /\ sse \in [Tab -> Stream]
            BY DEF IInv, TypeOK, Playback, Stream
        <3>2. CASE nav[t].is = "redirect"
            BY <3>1, <3>2 DEF Arrive, script
        <3>3. CASE nav[t].is = "page"
            <4>1. nav[t].to \in {"blank", "/player"} \cup Form
                BY <3>3 DEF IInv, Safe, Showable
            <4> QED
                BY <3>1, <3>3, <4>1 DEF Arrive, Playback, Stream
        <3> QED
            BY <3>2, <3>3 DEF Arrive
    <2>2. jar' \in Token \cup {NoToken} /\ loggedOut' \subseteq Token
        BY <1>5, <1>6
    <2> QED
        BY <1>4, <1>5, <2>1, <2>2 DEF IInv, TypeOK, Navigation, Playback, Stream
<1>9. Opened'
    <2>1. jar' <= issued' /\ \A c \in loggedOut' : c <= issued'
        BY <1>5, <1>7 DEF Opened
    <2>2. \A u \in Tab : nav'[u].sets <= issued' /\ nav'[u].ends <= issued'
        BY <1>1, <1>3, <1>4, <1>5, <1>7, Numbers DEF Opened
    <2> QED
        BY <2>1, <2>2 DEF Opened
<1>10. ASSUME NEW u \in Tab PROVE Fresh(u)'
    <2>1. CASE u = t
        BY <1>3, <1>4, <2>1, Numbers DEF Fresh
    <2>2. CASE u # t
        <3>1. Fresh(u) /\ nav'[u] = nav[u]
            BY <1>4, <2>2 DEF IInv, Safe
        <3>2. SUFFICES ASSUME nav[u].sets \in Token
                       PROVE  /\ nav[u].sets # jar'
                              /\ nav[u].sets \notin loggedOut'
                              /\ \A v \in Tab : /\ v # u => nav'[v].sets # nav[u].sets
                                                /\ nav'[v].ends # nav[u].sets
            BY <3>1 DEF Fresh
        <3>3. nav[u].sets # jar /\ nav[u].sets \notin loggedOut
              /\ nav[t].sets # nav[u].sets /\ nav[t].ends # nav[u].sets
            BY <2>2, <3>1, <3>2 DEF Fresh
        <3>4. nav[u].sets # jar' /\ nav[u].sets \notin loggedOut'
            BY <1>5, <3>3
        <3>5. ASSUME NEW v \in Tab
              PROVE  (v # u => nav'[v].sets # nav[u].sets) /\ nav'[v].ends # nav[u].sets
            BY <1>3, <1>4, <3>1, <3>2, Numbers DEF Fresh
        <3> QED
            BY <3>4, <3>5
    <2> QED
        BY <2>1, <2>2
<1>11. \A u \in Tab : Clears(u)' /\ Showable(nav'[u])
    BY <1>3, <1>4 DEF IInv, Safe, Clears
<1>12. LoggedOutStaysOut'
    <2>1. CASE nav[t].sets = Keep
        \* Nothing was logged out by an answer that leaves the cookie.
        BY <1>5, <1>7, <2>1, Numbers DEF Clears, LoggedOutStaysOut
    <2>2. CASE nav[t].sets = NoToken
        BY <1>5, <1>6, <2>2, Numbers DEF LoggedOutStaysOut
    <2>3. CASE nav[t].sets \in Token
        BY <1>5, <1>7, <2>3, Numbers DEF Fresh, LoggedOutStaysOut
    <2> QED
        BY <1>6, <2>1, <2>2, <2>3
<1> QED
    BY <1>8, <1>9, <1>10, <1>11, <1>12 DEF IInv, Safe

LEMMA UserKeeps ==
    ASSUME IInv, NEW t \in Tab, Submit(t) \/ \E to \in Get : Visit(t, to)
    PROVE  IInv'
<1>1. PICK to \in Get \cup Post : Go(t, to)
    BY DEF Submit, Visit, Post
<1>2. UNCHANGED <<rows, cache, issued, dbUp, hls, sse>>
    BY DEF Submit, Visit, server, auth, script
<1> QED
    BY <1>1, <1>2, GoKeeps DEF IInv, TypeOK, Playback, Stream

LEMMA ScriptKeeps ==
    ASSUME IInv, NEW t \in Tab, Load(t) \/ StartLoad(t) \/ Connect(t) \/ Disconnect(t)
    PROVE  IInv'
<1>1. /\ hls \in [Tab -> Playback] /\ sse \in [Tab -> Stream]
      /\ rows \subseteq Token /\ cache \subseteq Token /\ dbUp \in BOOLEAN
    BY DEF IInv, TypeOK, Playback, Stream
<1>2. ASSUME Authenticate(jar)
      PROVE  rows' \subseteq Token /\ cache' \subseteq Token /\ issued' = issued
    BY <1>2, AuthenticateTyped DEF IInv
<1>3. CASE Load(t)
    <2>1. UNCHANGED <<dbUp, sse>> /\ rows' \subseteq Token /\ cache' \subseteq Token /\ issued' = issued
        BY <1>2, <1>3 DEF Load
    <2>2. CASE Accepts(jar)
        BY <1>1, <1>3, <2>1, <2>2, CookiesUntouched DEF Load
    <2>3. CASE ~Accepts(jar)
        <3>1. hls' \in [Tab -> Playback] /\ Go(t, "/login")
            BY <1>1, <1>3, <2>3 DEF Load, unauthorized, Playback
        <3> QED
            BY <1>1, <2>1, <3>1, GoKeeps DEF Get, Form
    <2> QED
        BY <2>2, <2>3
<1>4. CASE StartLoad(t)
    <2>1. UNCHANGED <<rows, cache, issued, dbUp, jar, nav, page, sse, loggedOut>>
        BY <1>4 DEF StartLoad, server, auth
    <2>2. hls' \in [Tab -> Playback]
        BY <1>1, <1>4 DEF StartLoad, Playback
    <2> QED
        BY <1>1, <2>1, <2>2, CookiesUntouched
<1>5. CASE Connect(t)
    <2>1. UNCHANGED <<dbUp, hls>> /\ rows' \subseteq Token /\ cache' \subseteq Token /\ issued' = issued
        BY <1>2, <1>5 DEF Connect
    <2>2. sse' \in [Tab -> Stream]
        BY <1>1, <1>5 DEF Connect, Stream
    <2>3. CASE Accepts(jar)
        BY <1>1, <1>5, <2>1, <2>2, <2>3, CookiesUntouched DEF Connect
    <2>4. CASE ~Accepts(jar)
        <3>1. Go(t, "/login")
            BY <1>5, <2>4 DEF Connect
        <3> QED
            BY <1>1, <2>1, <2>2, <3>1, GoKeeps DEF Get, Form
    <2> QED
        BY <2>3, <2>4
<1>6. CASE Disconnect(t)
    <2>1. UNCHANGED <<rows, cache, issued, dbUp, jar, nav, page, hls, loggedOut>>
        BY <1>6 DEF Disconnect, server, auth
    <2>2. sse' \in [Tab -> Stream]
        BY <1>1, <1>6 DEF Disconnect, Stream
    <2> QED
        BY <1>1, <2>1, <2>2, CookiesUntouched
<1> QED
    BY <1>3, <1>4, <1>5, <1>6

\* A restart loses every answer on its way, and with it the cookie it carries.
LEMMA RestartKeeps ==
    ASSUME IInv, Restart
    PROVE  IInv'
<1>1. nav' \in [Tab -> Navigation] /\ \A t \in Tab : nav'[t] = NoNav
    BY NoNavCarriesNothing DEF Restart
<1>2. issued \in Nat
    BY TypesOfNav DEF IInv
<1>3. Safe'
    BY <1>1, <1>2, NoNavCarriesNothing, Numbers
    DEF Restart, IInv, Safe, Opened, Fresh, Clears, LoggedOutStaysOut
<1>4. TypeOK'
    BY <1>1 DEF Restart, IInv, TypeOK, Navigation
<1> QED
    BY <1>3, <1>4 DEF IInv

LEMMA EnvironmentKeeps ==
    ASSUME IInv, Expire \/ Forget \/ CookieExpires \/ DatabaseFailsOrHeals \/ Restart
    PROVE  IInv'
<1>1. CASE Expire \/ Forget \/ DatabaseFailsOrHeals
    <2>1. /\ UNCHANGED <<nav, jar, loggedOut, issued, page, hls, sse>>
          /\ rows' \subseteq rows /\ cache' \subseteq cache /\ dbUp' \in BOOLEAN
        BY <1>1 DEF Expire, Forget, DatabaseFailsOrHeals, browser, script, auth, IInv, TypeOK
    <2> QED
        BY <2>1, CookiesUntouched DEF IInv, TypeOK, Playback, Stream
<1>2. CASE CookieExpires
    <2>1. jar' = NoToken /\ UNCHANGED <<rows, cache, issued, dbUp, nav, page, hls, sse, loggedOut>>
        BY <1>2 DEF CookieExpires, server, auth, script
    <2>2. TypeOK'
        BY <2>1 DEF IInv, TypeOK
    <2>3. issued \in Nat /\ loggedOut \subseteq Token
        BY TypesOfNav DEF IInv, TypeOK
    <2>4. Safe'
        BY <2>1, <2>3, Numbers DEF IInv, Safe, Opened, Fresh, Clears, LoggedOutStaysOut
    <2> QED
        BY <2>2, <2>4 DEF IInv
<1> QED
    BY <1>1, <1>2, RestartKeeps

-----------------------------------------------------------------------------
(* The theorems *)

LEMMA InitIInv == Init => IInv
<1> SUFFICES ASSUME Init PROVE IInv
    OBVIOUS
<1>1. \A t \in Tab : nav[t] = NoNav
    BY DEF Init
<1>2. nav \in [Tab -> Navigation]
    BY NoNavCarriesNothing DEF Init
<1>3. issued \in 0..MaxTokens
    BY MaxTokensAssumption DEF Init
<1>4. TypeOK
    BY <1>2, <1>3 DEF Init, TypeOK, Navigation
<1>5. Safe
    BY <1>1, NoNavCarriesNothing, Numbers
    DEF Init, Safe, Opened, Fresh, Clears, LoggedOutStaysOut
<1> QED
    BY <1>4, <1>5 DEF IInv

LEMMA NextIInv == IInv /\ [Next]_vars => IInv'
<1> SUFFICES ASSUME IInv, [Next]_vars PROVE IInv'
    OBVIOUS
<1>1. CASE UNCHANGED vars
    BY <1>1, CookiesUntouched
    DEF vars, server, auth, browser, script, IInv, TypeOK, Playback, Stream
<1>2. ASSUME NEW t \in Tab, Handle(t) PROVE IInv'
    BY <1>2, PagesKeep, FormsKeep, LogoutKeeps DEF Handle
<1>3. ASSUME NEW t \in Tab, Arrive(t) \/ Submit(t) \/ \E to \in Get : Visit(t, to) PROVE IInv'
    BY <1>3, ArriveKeeps, UserKeeps
<1>4. ASSUME NEW t \in Tab, Load(t) \/ StartLoad(t) \/ Connect(t) \/ Disconnect(t) PROVE IInv'
    BY <1>4, ScriptKeeps
<1>5. CASE Expire \/ Forget \/ CookieExpires \/ DatabaseFailsOrHeals \/ Restart
    BY <1>5, EnvironmentKeeps
<1> QED
    BY <1>1, <1>2, <1>3, <1>4, <1>5 DEF Next

\* The invariant of the site: what is on its way to a browser is not there yet,
\* and an answer that ends a session takes its cookie away.
THEOREM SiteInvariant == Spec => []IInv
BY InitIInv, NextIInv, PTL DEF Spec

\* Every variable keeps its type, for any number of tabs and sessions.
THEOREM TypeCorrect == Spec => []TypeOK
BY SiteInvariant, PTL DEF IInv

\* For any number of tabs and sessions: a session whose logout the browser has
\* been told of is never in its jar again (web/server.go: logout; ClearSessionCookie).
THEOREM LogoutStands == Spec => []LoggedOutStaysOut
<1>1. IInv => LoggedOutStaysOut
    BY DEF IInv, Safe
<1> QED
    BY <1>1, SiteInvariant, PTL
=============================================================================
