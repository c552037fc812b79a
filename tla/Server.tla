------------------------------- MODULE Server -------------------------------
(***************************************************************************)
(* cmd/server/main.go: the life of the process.  run starts the parts of   *)
(* the server as goroutines, waits for a signal or for the first of them   *)
(* to fail, and shuts the HTTP server down with a grace period.            *)
(*                                                                         *)
(* The parts are here only as far as they start, stop and use each other:  *)
(* the worker and its first window, the hub, the janitor, the HTTP server  *)
(* with its connections, and the database pool, whose Close waits for the  *)
(* statements in progress.  Time is the grace period only, and it may end  *)
(* at any point of the shutdown, whatever the other parts have done.       *)
(***************************************************************************)
EXTENDS Integers, Sequences

CONSTANT Connection \* HTTP connections

VARIABLES
    main,       \* where run is
    code,       \* the exit status, -1 while the process runs
    signalled,  \* ctx is done
    errCh,      \* errCh
    subscribed, \* the hub's subscription to the worker
    events,     \* its channel: the first window was sent
    worker,     \* streamSvc.Run
    published,  \* the worker has published a window
    hub,        \* hub.Run
    janitor,    \* authSvc.RunJanitor
    http,       \* srv
    conn,       \* what each connection's handler is doing
    expired     \* Shutdown's context ended first

goroutines == <<worker, published, hub, janitor, http, conn>>
vars == <<main, code, signalled, errCh, subscribed, events, goroutines, expired>>

Init == /\ main = "boot"
        /\ code = -1
        /\ signalled = FALSE
        /\ errCh = <<>>
        /\ subscribed = FALSE
        /\ events = FALSE
        /\ worker = "none"
        /\ published = FALSE
        /\ hub = "none"
        /\ janitor = "none"
        /\ http = "none"
        /\ conn = [c \in Connection |-> "none"]
        /\ expired = FALSE

Alive == main # "exited"

Send(e) == errCh' = Append(errCh, e)

-----------------------------------------------------------------------------
(* run *)

\* Configuration, database, migrations, manifest: an error ends the process.
Boot ==
    /\ main = "boot"
    /\ \/ main' = "subscribe" /\ UNCHANGED code
       \/ main' = "exited" /\ code' = 1
    /\ UNCHANGED <<signalled, errCh, subscribed, events, goroutines, expired>>

\* Mutant: the hub subscribes after the goroutines have started.
SubscribeMutantLate ==
    \/ /\ main = "subscribe"
       /\ main' = "go"
       /\ UNCHANGED <<code, signalled, errCh, subscribed, events, goroutines, expired>>
    \/ /\ main = "select" /\ ~subscribed
       /\ subscribed' = TRUE
       /\ UNCHANGED <<main, code, signalled, errCh, events, goroutines, expired>>

Subscribe ==
    /\ main = "subscribe"
    /\ main' = "go"
    /\ subscribed' = TRUE
    /\ UNCHANGED <<code, signalled, errCh, events, goroutines, expired>>

Go ==
    /\ main = "go"
    /\ main' = "select"
    /\ hub' = "running"
    /\ worker' = "running"
    /\ janitor' = "idle"
    /\ http' = "starting"
    /\ UNCHANGED <<code, signalled, errCh, subscribed, events, published, conn, expired>>

\* The select: a signal, ...
OnSignal ==
    /\ main = "select"
    /\ signalled
    /\ main' = "shutdown"
    /\ UNCHANGED <<code, signalled, errCh, subscribed, events, goroutines, expired>>

Failures == {"tick", "listen"}

\* Mutant: every error is taken for the end of an orderly shutdown.
OnErrorMutantClean ==
    /\ main = "select"
    /\ errCh # <<>>
    /\ errCh' = Tail(errCh)
    /\ main' = "shutdown"
    /\ UNCHANGED <<code, signalled, subscribed, events, goroutines, expired>>

\* ... or an error, which is returned unless it is the echo of a signal.
OnError ==
    /\ main = "select"
    /\ errCh # <<>>
    /\ errCh' = Tail(errCh)
    /\ IF Head(errCh) \in Failures
       THEN main' = "unsubscribe" /\ code' = 1
       ELSE main' = "shutdown" /\ UNCHANGED code
    /\ UNCHANGED <<signalled, subscribed, events, goroutines, expired>>

\* Shutdown closes the listener, then waits for the connections to end.
CloseListener ==
    /\ main = "shutdown"
    /\ http # "closed"
    /\ http' = "closed"
    /\ IF http = "failed" THEN UNCHANGED errCh ELSE Send("closed")
    /\ UNCHANGED <<main, code, signalled, subscribed, events, worker, published,
                   hub, janitor, conn, expired>>

ShutdownEnds ==
    /\ main = "shutdown"
    /\ http = "closed"
    /\ \A c \in Connection : conn[c] = "none"
    /\ main' = "unsubscribe"
    /\ code' = 0
    /\ UNCHANGED <<signalled, errCh, subscribed, events, goroutines, expired>>

\* Mutant: Shutdown is given a context without a deadline.
ShutdownExpiresMutantNever == FALSE /\ UNCHANGED vars

\* The ten seconds of Shutdown's context end, whatever it is waiting for.
ShutdownExpires ==
    /\ main = "shutdown"
    /\ http = "closed"
    /\ expired' = TRUE
    /\ main' = "unsubscribe"
    /\ code' = 0
    /\ UNCHANGED <<signalled, errCh, subscribed, events, goroutines>>

\* The deferred calls: unsubscribe, ...
Unsubscribe ==
    /\ main = "unsubscribe"
    /\ main' = "close"
    /\ subscribed' = FALSE
    /\ UNCHANGED <<code, signalled, errCh, events, goroutines, expired>>

\* ... and pool.Close, which waits for the statements in progress.
Close ==
    /\ main = "close"
    /\ janitor # "query"
    /\ \A c \in Connection : conn[c] # "query"
    /\ main' = "exited"
    /\ UNCHANGED <<code, signalled, errCh, subscribed, events, goroutines, expired>>

-----------------------------------------------------------------------------
(* The goroutines *)

\* Publishing the first window sends it to the hub, if the hub is subscribed.
WorkerPublishes ==
    /\ Alive /\ worker = "running"
    /\ ~published
    /\ published' = TRUE
    /\ events' = subscribed
    /\ UNCHANGED <<main, code, signalled, errCh, subscribed, worker, hub, janitor,
                   http, conn, expired>>

\* Mutant: the error of Run is not sent.
WorkerEndsMutantSilent ==
    /\ Alive /\ worker = "running"
    /\ \/ ~published
       \/ signalled /\ published
    /\ worker' = "ended"
    /\ UNCHANGED <<main, code, signalled, errCh, subscribed, events, published, hub,
                   janitor, http, conn, expired>>

\* The first tick fails, or the context is done after a tick.
WorkerEnds ==
    /\ Alive /\ worker = "running"
    /\ \/ ~published /\ Send("tick")
       \/ signalled /\ published /\ Send("canceled")
    /\ worker' = "ended"
    /\ UNCHANGED <<main, code, signalled, subscribed, events, published, hub,
                   janitor, http, conn, expired>>

\* Mutant: the hub ends without closing its channels.
HubClosesMutantLeaves ==
    /\ Alive /\ hub = "running"
    /\ signalled
    /\ hub' = "none"
    /\ UNCHANGED <<main, code, signalled, errCh, subscribed, events, worker,
                   published, janitor, http, conn, expired>>

HubCloses ==
    /\ Alive /\ hub = "running"
    /\ signalled
    /\ hub' = "closed"
    /\ UNCHANGED <<main, code, signalled, errCh, subscribed, events, worker,
                   published, janitor, http, conn, expired>>

\* A closed pool answers at once, with an error.
JanitorQueries ==
    /\ Alive /\ janitor = "idle" /\ ~signalled
    /\ main # "close"
    /\ janitor' = "query"
    /\ UNCHANGED <<main, code, signalled, errCh, subscribed, events, worker,
                   published, hub, http, conn, expired>>

JanitorGoesOn ==
    /\ Alive
    /\ \/ janitor = "query" /\ janitor' = "idle"
       \/ janitor = "idle" /\ signalled /\ janitor' = "ended"
    /\ UNCHANGED <<main, code, signalled, errCh, subscribed, events, worker,
                   published, hub, http, conn, expired>>

\* ListenAndServe: the port may be taken; after Shutdown it returns at once.
Listen ==
    /\ Alive /\ http = "starting"
    /\ \/ http' = "listening" /\ UNCHANGED errCh
       \/ http' = "failed" /\ Send("listen")
    /\ UNCHANGED <<main, code, signalled, subscribed, events, worker, published,
                   hub, janitor, conn, expired>>

-----------------------------------------------------------------------------
(* Connections *)

SetConn(c, from, to) ==
    /\ Alive /\ conn[c] = from
    /\ conn' = [conn EXCEPT ![c] = to]
    /\ UNCHANGED <<main, code, signalled, errCh, subscribed, events, worker,
                   published, hub, janitor, http, expired>>

\* A request: a statement for its session or its form, or the cache suffices.
Accept(c) == /\ http = "listening"
             /\ \/ main # "close" /\ SetConn(c, "none", "query")
                \/ \E to \in {"sse", "download"} : SetConn(c, "none", to)

DatabaseAnswers(c) ==
    \E to \in {"none", "sse", "download"} : SetConn(c, "query", to)

\* A client that does not read blocks the write of an event, ...
ClientStalls(c) == SetConn(c, "sse", "stuck")

\* ... until it reads, or the write's deadline (30 s) ends the handler.
ClientReads(c) == SetConn(c, "stuck", "sse")

WriteEnds(c) == \E from \in {"stuck", "download"} : SetConn(c, from, "none")

\* The hub has closed the channel, also of those who connect after that.
ChannelClosed(c) == hub = "closed" /\ SetConn(c, "sse", "none")

\* The client goes; the request's context ends with it.
ClientLeaves(c) == \E from \in {"query", "sse", "stuck", "download"} :
                      SetConn(c, from, "none")

Signal ==
    /\ Alive /\ ~signalled
    /\ signalled' = TRUE
    /\ UNCHANGED <<main, code, errCh, subscribed, events, goroutines, expired>>

Exited == main = "exited" /\ UNCHANGED vars

-----------------------------------------------------------------------------
Run == \/ Boot \/ Subscribe \/ Go \/ OnSignal \/ OnError
       \/ CloseListener \/ ShutdownEnds \/ Unsubscribe \/ Close

Handler(c) == \/ DatabaseAnswers(c) \/ WriteEnds(c) \/ ChannelClosed(c)

Next == \/ Run \/ ShutdownExpires
        \/ WorkerPublishes \/ WorkerEnds \/ HubCloses
        \/ JanitorQueries \/ JanitorGoesOn \/ Listen
        \/ \E c \in Connection : \/ Accept(c) \/ Handler(c) \/ ClientStalls(c)
                                 \/ ClientReads(c) \/ ClientLeaves(c)
        \/ Signal \/ Exited

\* The process runs and the database answers.  A closed channel holds finitely
\* many events, so its client cannot stall for ever between two of them.  That
\* the grace period ends is a premise of the properties that need it.
Fairness == /\ WF_vars(Run) /\ WF_vars(WorkerPublishes \/ WorkerEnds)
            /\ WF_vars(HubCloses) /\ WF_vars(JanitorGoesOn)
            /\ \A c \in Connection : /\ WF_vars(DatabaseAnswers(c))
                                     /\ SF_vars(ChannelClosed(c))

Spec == Init /\ [][Next]_vars

FairSpec == Spec /\ Fairness

-----------------------------------------------------------------------------
(* Properties *)

TypeOK ==
    /\ main \in {"boot", "subscribe", "go", "select", "shutdown",
                "unsubscribe", "close", "exited"}
    /\ code \in {-1, 0, 1}
    /\ signalled \in BOOLEAN
    /\ errCh \in Seq({"tick", "listen", "canceled", "closed"})
    /\ Len(errCh) <= 2
    /\ subscribed \in BOOLEAN
    /\ events \in BOOLEAN
    /\ worker \in {"none", "running", "ended"}
    /\ published \in BOOLEAN
    /\ hub \in {"none", "running", "closed"}
    /\ janitor \in {"none", "idle", "query", "ended"}
    /\ http \in {"none", "starting", "listening", "failed", "closed"}
    /\ conn \in [Connection -> {"none", "query", "sse", "stuck", "download"}]
    /\ expired \in BOOLEAN

\* The hub gets the first window by contract and not by the timing of the first
\* tick (main.go:123): it is there as long as the hub is subscribed.
FirstWindowReachesHub == published /\ main \notin {"close", "exited"} => events

\* The process reports success only when it was asked to stop: a failure that
\* coincides with nothing else is never hidden from the orchestrator.
SuccessOnlyOnSignal == code = 0 => signalled

\* A process that did not force the shutdown left no request half answered.
OrderlyExitCutsNobody ==
    main = "exited" /\ code = 0 /\ ~expired => \A c \in Connection : conn[c] = "none"

\* The ten seconds end, unless Shutdown does before (main.go:146).
GraceEnds == WF_vars(ShutdownExpires)

\* Clients that read what they are sent do not make a shutdown wait for its
\* grace: the hub ends their connections (README.md:113), those that arrive
\* while it does included, so the process ends although the timer never fires.
ReadersDoNotNeedTheGrace ==
    (\A c \in Connection : []<>(conn[c] \notin {"stuck", "download"}))
        => (signalled ~> ~Alive)

\* A signal ends the process, whatever clients do with their connections and
\* also when it arrives while the server is starting (main.go:140).
SignalEnds == GraceEnds => (signalled ~> ~Alive)

\* A server whose stream cannot start does not stay up (main.go:143).
FailureEnds == GraceEnds => (worker = "ended" ~> ~Alive)

-----------------------------------------------------------------------------
(* What the documentation says and the code does not do *)

\* README.md:113: on SIGTERM the hub closes its SSE connections, so that
\* Shutdown ends in milliseconds instead of using up its grace.  When the grace
\* ends, no SSE connection would have outlived the hub.
NoSSEUsesUpTheGrace ==
    [][expired' /\ ~expired /\ hub = "closed"
           => \A c \in Connection : conn[c] # "stuck"]_vars

=============================================================================
