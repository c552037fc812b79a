-------------------------------- MODULE Hub --------------------------------
(***************************************************************************)
(* internal/web/hub.go: the hub that forwards the stream's windows to the  *)
(* SSE connections and counts viewers, with the goroutine of each          *)
(* connection (ServeHTTP), the debounce timer, the shutdown, and what the  *)
(* player (static/player.js) makes of the windows it is sent.              *)
(*                                                                         *)
(* A connection is named by its browser tab, which may connect again after *)
(* the connection ends (EventSource retries).  Everything done under h.mu  *)
(* is one step.  A window is represented by its media sequence.  The       *)
(* process may die at any moment: the next one begins its stream again at  *)
(* sequence 0, while the tabs keep what they remember.                     *)
(***************************************************************************)
EXTENDS Integers, Sequences, FiniteSets

CONSTANTS Tab,           \* browser tabs with a player
          ClientBuffer,  \* clientBuffer: capacity of a connection's channel
          MaxSequence    \* bound on the windows the stream publishes

ASSUME ClientBufferAssumption == ClientBuffer \in Nat \ {0}
ASSUME MaxSequenceAssumption == MaxSequence \in Nat

NoWindow == -1

WindowEvent(k) == [event |-> "window", sequence |-> k]
ViewersEvent   == [event |-> "viewers", sequence |-> NoWindow]
Event == [event : {"window"}, sequence : Nat]
         \cup [event : {"viewers"}, sequence : {NoWindow}]

VARIABLES
    published,       \* the last window the stream worker broadcast
    events,          \* the hub's subscription (buffer 1)
    cancelled,       \* ctx.Done() is closed
    clients,         \* h.clients
    last,            \* h.last
    closed,          \* h.closed; Run has returned
    viewersPending,  \* h.viewersPending: a timer is running
    announced,       \* the count carried by the last event to everyone
    pc,              \* where each connection's ServeHTTP is
    chan,            \* each connection's channel
    chanClosed,      \* whether that channel is closed
    initial,         \* the initial event each ServeHTTP has yet to write
    seen,            \* the last window this process sent each tab
    lastSequence     \* player.js: the last window each tab was sent

stream == <<published, events, cancelled>>
hub == <<clients, last, closed, viewersPending, announced>>
shown == <<seen, lastSequence>>
conns == <<pc, chan, chanClosed, initial, shown>>
vars == <<stream, hub, conns>>

ForAll(v) == [c \in Tab |-> v]

Init == /\ published = NoWindow
        /\ events = <<>>
        /\ cancelled = FALSE
        /\ clients = {}
        /\ last = NoWindow
        /\ closed = FALSE
        /\ viewersPending = FALSE
        /\ announced = 0
        /\ pc = ForAll("idle")
        /\ chan = ForAll(<<>>)
        /\ chanClosed = ForAll(FALSE)
        /\ initial = ForAll(NoWindow)
        /\ seen = ForAll(NoWindow)
        /\ lastSequence = ForAll(NoWindow)

-----------------------------------------------------------------------------
(* The hub *)

\* broadcastLocked: an event is dropped where the buffer is full.
Broadcast(e) ==
    /\ chan' = [c \in Tab |->
                   IF c \in clients /\ Len(chan[c]) < ClientBuffer
                   THEN Append(chan[c], e) ELSE chan[c]]
    /\ announced' = Cardinality(clients)

\* Mutant: the window kept for those who connect is the first one.
ForwardWindowMutantFirst ==
    /\ ~closed
    /\ events # <<>>
    /\ last' = IF last = NoWindow THEN Head(events) ELSE last
    /\ events' = Tail(events)
    /\ Broadcast(WindowEvent(Head(events)))
    /\ UNCHANGED <<published, cancelled, clients, closed, viewersPending,
                   pc, chanClosed, initial, shown>>

ForwardWindow ==
    /\ ~closed
    /\ events # <<>>
    /\ last' = Head(events)
    /\ events' = Tail(events)
    /\ Broadcast(WindowEvent(Head(events)))
    /\ UNCHANGED <<published, cancelled, clients, closed, viewersPending,
                   pc, chanClosed, initial, shown>>

\* Mutant: the closed channels stay registered.
CloseChannelsMutantKeeps ==
    /\ chanClosed' = [c \in Tab |-> c \in clients \/ chanClosed[c]]
    /\ UNCHANGED clients

CloseChannels ==
    /\ chanClosed' = [c \in Tab |-> c \in clients \/ chanClosed[c]]
    /\ clients' = {}

CloseHub ==
    /\ ~closed
    /\ cancelled
    /\ closed' = TRUE
    /\ CloseChannels
    /\ UNCHANGED <<stream, last, viewersPending, announced, pc, chan, initial, shown>>

Run == ForwardWindow \/ CloseHub

\* Mutant: only the first viewer's arrival is announced.
ScheduleViewersMutantFirst == viewersPending' = (viewersPending \/ clients = {})

\* scheduleViewersLocked: one timer serves every change that precedes it.
ScheduleViewers == viewersPending' = (viewersPending \/ ~closed)

ViewersTimer ==
    /\ viewersPending
    /\ viewersPending' = FALSE
    /\ IF closed THEN UNCHANGED <<chan, announced>> ELSE Broadcast(ViewersEvent)
    /\ UNCHANGED <<stream, clients, last, closed,
                   pc, chanClosed, initial, shown>>

-----------------------------------------------------------------------------
(* ServeHTTP *)

\* Mutant: add does not look at h.closed.
AcceptsMutantAlways == TRUE

Accepts == ~closed

\* add: after the shutdown the new connection gets a closed channel.
Connect(c) ==
    /\ pc[c] = "idle"
    /\ pc' = [pc EXCEPT ![c] = "initial"]
    /\ clients' = IF Accepts THEN clients \cup {c} ELSE clients
    /\ chanClosed' = [chanClosed EXCEPT ![c] = ~Accepts]
    /\ initial' = [initial EXCEPT ![c] = IF Accepts THEN last ELSE NoWindow]
    /\ ScheduleViewers
    /\ UNCHANGED <<stream, last, closed, announced, chan, shown>>

\* The player on a window event: a sequence lower than the last one is taken
\* for a restart of the server and reloads the source.
Show(c, k) == /\ seen' = [seen EXCEPT ![c] = k]
              /\ lastSequence' = [lastSequence EXCEPT ![c] = k]

\* Mutant: the initial event is written by another goroutine, whenever it runs.
WriteInitialMutantLate(c) ==
    /\ pc[c] \in {"initial", "loop"}
    /\ pc' = [pc EXCEPT ![c] = "loop"]
    /\ IF initial[c] # NoWindow THEN Show(c, initial[c]) ELSE UNCHANGED shown
    /\ UNCHANGED <<stream, hub, chan, chanClosed, initial>>

\* The outcome of the initial write is not looked at.
WriteInitial(c) ==
    /\ pc[c] = "initial"
    /\ pc' = [pc EXCEPT ![c] = "loop"]
    /\ initial' = [initial EXCEPT ![c] = NoWindow]
    /\ \/ initial[c] # NoWindow /\ Show(c, initial[c])
       \/ UNCHANGED shown
    /\ UNCHANGED <<stream, hub, chan, chanClosed>>

WriteEvent(c) ==
    /\ pc[c] = "loop"
    /\ chan[c] # <<>>
    /\ chan' = [chan EXCEPT ![c] = Tail(chan[c])]
    /\ \/ /\ Head(chan[c]).event = "window"
          /\ Show(c, Head(chan[c]).sequence)
          /\ UNCHANGED pc
       \/ /\ Head(chan[c]).event = "viewers"
          /\ UNCHANGED <<shown, pc>>
       \/ /\ pc' = [pc EXCEPT ![c] = "leaving"]  \* the write fails
          /\ UNCHANGED shown
    /\ UNCHANGED <<stream, hub, chanClosed, initial>>

\* The hub closed the channel and what it held has been written.
ChannelClosed(c) ==
    /\ pc[c] = "loop"
    /\ chan[c] = <<>>
    /\ chanClosed[c]
    /\ pc' = [pc EXCEPT ![c] = "leaving"]
    /\ UNCHANGED <<stream, hub, chan, chanClosed, initial, shown>>

\* The request's context ends, or a keepalive cannot be written.
Disconnect(c) ==
    /\ pc[c] = "loop"
    /\ pc' = [pc EXCEPT ![c] = "leaving"]
    /\ UNCHANGED <<stream, hub, chan, chanClosed, initial, shown>>

\* Mutant: only a connection whose channel was drained is taken off the map.
OthersMutantLeaks(c) == IF chan[c] = <<>> THEN clients \ {c} ELSE clients

Others(c) == clients \ {c}

\* remove, deferred; the channel becomes garbage.
Remove(c) ==
    /\ pc[c] = "leaving"
    /\ pc' = [pc EXCEPT ![c] = "idle"]
    /\ clients' = Others(c)
    /\ chan' = [chan EXCEPT ![c] = <<>>]
    /\ chanClosed' = [chanClosed EXCEPT ![c] = FALSE]
    /\ ScheduleViewers
    /\ UNCHANGED <<stream, last, closed, announced, initial, shown>>

\* What ServeHTTP does without waiting for the network or the hub.
Serve(c) == WriteInitial(c) \/ WriteEvent(c) \/ ChannelClosed(c) \/ Remove(c)

-----------------------------------------------------------------------------
(* The environment *)

\* The worker's broadcast: sequences grow, a full buffer drops the new window.
Publish(k) ==
    /\ k > published
    /\ published' = k
    /\ events' = IF events = <<>> THEN <<k>> ELSE events
    /\ UNCHANGED <<cancelled, hub, conns>>

Cancel == /\ ~cancelled
          /\ cancelled' = TRUE
          /\ UNCHANGED <<published, events, hub, conns>>

\* The process dies and another one starts; a tab stays open, and so does what
\* its script remembers.
Restart == /\ published' = NoWindow
           /\ events' = <<>>
           /\ cancelled' = FALSE
           /\ clients' = {}
           /\ last' = NoWindow
           /\ closed' = FALSE
           /\ viewersPending' = FALSE
           /\ announced' = 0
           /\ pc' = ForAll("idle")
           /\ chan' = ForAll(<<>>)
           /\ chanClosed' = ForAll(FALSE)
           /\ initial' = ForAll(NoWindow)
           /\ seen' = ForAll(NoWindow)
           /\ UNCHANGED lastSequence

Next == \/ Run \/ ViewersTimer
        \/ \E c \in Tab : Connect(c) \/ Serve(c) \/ Disconnect(c)
        \/ \E k \in 0..MaxSequence : Publish(k)
        \/ Cancel
        \/ Restart

\* Goroutines run; every write ends because it carries a deadline
\* (writeTimeout).  Browsers, the stream and the timer owe nothing.
Fairness == /\ WF_vars(Run)
            /\ \A c \in Tab : WF_vars(Serve(c))

Spec == Init /\ [][Next]_vars

FairSpec == Spec /\ Fairness

-----------------------------------------------------------------------------
(* Properties *)

TypeOK ==
    /\ published \in Nat \cup {NoWindow}
    /\ events \in Seq(Nat) /\ Len(events) <= 1
    /\ cancelled \in BOOLEAN
    /\ clients \in SUBSET Tab
    /\ last \in Nat \cup {NoWindow}
    /\ closed \in BOOLEAN
    /\ viewersPending \in BOOLEAN
    /\ announced \in Nat
    /\ pc \in [Tab -> {"idle", "initial", "loop", "leaving"}]
    /\ chan \in [Tab -> Seq(Event)]
    /\ \A c \in Tab : Len(chan[c]) <= ClientBuffer
    /\ chanClosed \in [Tab -> BOOLEAN]
    /\ initial \in [Tab -> Nat \cup {NoWindow}]
    /\ seen \in [Tab -> Nat \cup {NoWindow}]
    /\ lastSequence \in [Tab -> Nat \cup {NoWindow}]

\* A send on a closed channel, or closing one twice, would panic: what the hub
\* broadcasts to and closes is never a channel it has already closed, whatever
\* the order of shutdown, connections, disconnections and timers.
NoSendOnClosed == \A c \in clients : ~chanClosed[c]

\* Until the shutdown "viewers" counts exactly the SSE connections being
\* served: none is lost, and none outlives its handler in the map.
ViewersAreConnections ==
    ~closed => clients = {c \in Tab : pc[c] # "idle"}

\* The coalescing timer forgets no change: whenever the number of viewers is
\* not the one announced last, an announcement is on its way.
CountChangesAnnounced ==
    announced # Cardinality(clients) => viewersPending \/ closed

\* The windows a tab is sent go back only with the first one of another
\* process, across dropped events and reconnections: when the player takes a
\* lower sequence for a restart of the server and reloads, there was one.
ReloadsOnlyAfterRestart ==
    [][\A c \in Tab : lastSequence'[c] < lastSequence[c] => seen[c] = NoWindow]_vars

\* What the players may rely on.  Between the stream and a tab there are two
\* buffers that drop windows, an initial event and reconnections.
Feed == INSTANCE WindowFeed WITH
    Viewer <- Tab,
    newest <- last,
    shown <- seen,
    remembered <- lastSequence
ImplementsWindowFeed == Feed!Spec

\* Shutting down ends every connection, those that arrive during the shutdown
\* included, so that http.Server.Shutdown has nothing to wait for.
ShutdownEndsConnections ==
    \A c \in Tab : cancelled ~> (pc[c] = "idle" /\ (closed \/ ~cancelled))

=============================================================================
