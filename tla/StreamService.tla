--------------------------- MODULE StreamService ---------------------------
(***************************************************************************)
(* internal/stream/service.go, cache.go and handler.go: the worker that    *)
(* publishes the live playlist, the subscribers it notifies and the HTTP   *)
(* clients that read what it publishes.                                    *)
(*                                                                         *)
(* A Window is determined by its media sequence (WindowAt computes the     *)
(* rest from it), so windows, snapshots and events are represented by that *)
(* number, -1 standing for nil.  The epoch is the instant 0.               *)
(***************************************************************************)
EXTENDS Timeline, Integers

CONSTANTS Client,      \* HTTP players
          Subscriber,  \* callers of Subscribe
          MaxTime      \* bound on the clock

ASSUME MaxTimeAssumption == MaxTime \in Nat

NoWindow == -1

VARIABLES
    now,        \* s.clock.Now() - epoch
    pc,         \* where Run is
    w,          \* the window of the current tick
    built,      \* the set built for w and not yet stored
    set,        \* s.set: the files in memory ({} for nil)
    snapshot,   \* s.snapshot
    deadline,   \* when the timer of the current wait fires
    cancelled,  \* ctx.Done() is closed
    readable,   \* the loader can read every file from now on
    subs,       \* s.subs
    chan,       \* each subscriber's channel (buffer 1)
    seen,       \* the last window each subscriber received
    held        \* the playlist each client fetched last

worker == <<pc, w, built, set, snapshot, deadline>>
callers == <<subs, chan, seen, held>>
env == <<now, cancelled, readable>>
vars == <<worker, callers, env>>

Names(k) == {entries(k)[j].Name : j \in 1..WindowSize}

Init == /\ now = 0
        /\ pc = "window"
        /\ w = NoWindow
        /\ built = {}
        /\ set = {}
        /\ snapshot = NoWindow
        /\ deadline = 0
        /\ cancelled = FALSE
        /\ readable = FALSE
        /\ subs = {}
        /\ chan = [s \in Subscriber |-> <<>>]
        /\ seen = [s \in Subscriber |-> NoWindow]
        /\ held = [c \in Client |-> NoWindow]

-----------------------------------------------------------------------------
(* Run and publish: the worker *)

ComputeWindow ==
    /\ pc = "window"
    /\ pc' = "build"
    /\ w' = WindowAt(0, now).MediaSequence
    /\ UNCHANGED <<built, set, snapshot, deadline, callers, env>>

\* Mutant: the previous set is extended in place, nothing is evicted.
BuildSetMutantKeeps ==
    /\ pc = "build"
    /\ pc' = "storeSet"
    /\ built' = set \cup required(w) \cup prefetch(w)
    /\ UNCHANGED <<w, set, snapshot, deadline, callers, env>>

\* buildSegmentSet reads from the loader only what the previous set lacks.  A
\* prefetch that cannot be read is left out.
BuildSet ==
    /\ pc = "build"
    /\ pc' = "storeSet"
    /\ \E skipped \in SUBSET prefetch(w) :
          /\ skipped \cap set = {}
          /\ readable => skipped = {}
          /\ built' = required(w) \cup (prefetch(w) \ skipped)
    /\ UNCHANGED <<w, set, snapshot, deadline, callers, env>>

\* Mutant: any failed tick ends the stream.
BuildFailsMutantGivesUp ==
    /\ pc = "build"
    /\ ~readable
    /\ required(w) \ set # {}
    /\ pc' = "failed"
    /\ UNCHANGED <<w, built, set, snapshot, deadline, callers, env>>

\* A required file cannot be read: nothing is published, and Run gives up only
\* if nothing ever was.
BuildFails ==
    /\ pc = "build"
    /\ ~readable
    /\ required(w) \ set # {}
    /\ pc' = IF snapshot = NoWindow THEN "failed" ELSE "arm"
    /\ UNCHANGED <<w, built, set, snapshot, deadline, callers, env>>

StoreSet ==
    /\ pc = "storeSet"
    /\ pc' = "storeSnapshot"
    /\ set' = built
    /\ built' = {}
    /\ UNCHANGED <<w, snapshot, deadline, callers, env>>

StoreSnapshot ==
    /\ pc = "storeSnapshot"
    /\ pc' = "broadcast"
    /\ snapshot' = w
    /\ UNCHANGED <<w, built, set, deadline, callers, env>>

\* Mutant: subscribers are told between the two stores.
BroadcastMutantEarly ==
    /\ pc = "storeSnapshot"
    /\ pc' = "arm"
    /\ chan' = [s \in Subscriber |->
                   IF s \in subs /\ chan[s] = <<>> THEN <<w>> ELSE chan[s]]
    /\ UNCHANGED <<w, built, set, snapshot, deadline, subs, seen, held, env>>

\* broadcast holds s.mu, so the round over the subscribers is one step; a full
\* channel drops the new window.
Broadcast ==
    /\ pc = "broadcast"
    /\ pc' = "arm"
    /\ chan' = [s \in Subscriber |->
                   IF s \in subs /\ chan[s] = <<>> THEN <<w>> ELSE chan[s]]
    /\ UNCHANGED <<w, built, set, snapshot, deadline, subs, seen, held, env>>

\* Mutant: the timer is armed for the start of the window instead of its end.
ArmTimerMutantEarly ==
    /\ pc = "arm"
    /\ pc' = "wait"
    /\ deadline' = IF publishAt(w) < now THEN now ELSE publishAt(w)
    /\ UNCHANGED <<w, built, set, snapshot, callers, env>>

\* The wait until NextTick, zero if the tick took longer than the segment.
ArmTimer ==
    /\ pc = "arm"
    /\ pc' = "wait"
    /\ deadline' = IF publishAt(w + 1) < now THEN now ELSE publishAt(w + 1)
    /\ UNCHANGED <<w, built, set, snapshot, callers, env>>

TimerFires ==
    /\ pc = "wait"
    /\ deadline <= now
    /\ pc' = "window"
    /\ UNCHANGED <<w, built, set, snapshot, deadline, callers, env>>

\* Mutant: the select does not watch ctx.Done().
StopOnCancelMutantIgnores ==
    /\ pc = "wait"
    /\ cancelled
    /\ deadline <= now
    /\ pc' = "window"
    /\ UNCHANGED <<w, built, set, snapshot, deadline, callers, env>>

StopOnCancel ==
    /\ pc = "wait"
    /\ cancelled
    /\ pc' = "stopped"
    /\ UNCHANGED <<w, built, set, snapshot, deadline, callers, env>>

Run == \/ ComputeWindow \/ BuildSet \/ BuildFails \/ StoreSet \/ StoreSnapshot
       \/ Broadcast \/ ArmTimer \/ TimerFires \/ StopOnCancel

-----------------------------------------------------------------------------
(* The callers *)

\* Each subscription has a channel of its own, empty at first.
Subscribe(s) ==
    /\ s \notin subs
    /\ subs' = subs \cup {s}
    /\ chan' = [chan EXCEPT ![s] = <<>>]
    /\ seen' = [seen EXCEPT ![s] = NoWindow]
    /\ UNCHANGED <<worker, env, held>>

\* The channel is not closed: a buffered window can still be received.
Unsubscribe(s) ==
    /\ s \in subs
    /\ subs' = subs \ {s}
    /\ UNCHANGED <<worker, env, chan, seen, held>>

Receive(s) ==
    /\ chan[s] # <<>>
    /\ seen' = [seen EXCEPT ![s] = Head(chan[s])]
    /\ chan' = [chan EXCEPT ![s] = Tail(chan[s])]
    /\ UNCHANGED <<worker, env, subs, held>>

\* servePlaylist: the current snapshot, or 503 while there is none.
FetchPlaylist(c) ==
    /\ snapshot # NoWindow
    /\ held' = [held EXCEPT ![c] = snapshot]
    /\ UNCHANGED <<worker, env, subs, chan, seen>>

\* serveSegment / Segment: whether a request for the file would be served.
Segment(name) == name \in set

\* Ready, as the health check sees it.
Ready == /\ snapshot # NoWindow
         /\ now - publishAt(snapshot + 1) <= 2 * target * Second

-----------------------------------------------------------------------------
(* The environment *)

ClockAdvances == /\ now < MaxTime
                 /\ now' = now + 1
                 /\ UNCHANGED <<worker, callers, cancelled, readable>>

Cancel == /\ ~cancelled
          /\ cancelled' = TRUE
          /\ UNCHANGED <<worker, callers, now, readable>>

\* The files can be read again (for good, so that recovery can be stated).
DiskHeals == /\ ~readable
             /\ readable' = TRUE
             /\ UNCHANGED <<worker, callers, now, cancelled>>

Next == \/ Run
        \/ \E s \in Subscriber : Subscribe(s) \/ Unsubscribe(s) \/ Receive(s)
        \/ \E c \in Client : FetchPlaylist(c)
        \/ ClockAdvances \/ Cancel \/ DiskHeals

\* The worker is a goroutine that is always runnable but in its select, and
\* time passes.  Nothing is assumed of subscribers, clients or the disk.
Fairness == WF_vars(Run) /\ WF_vars(ClockAdvances)

Spec == Init /\ [][Next]_vars

FairSpec == Spec /\ Fairness

-----------------------------------------------------------------------------
(* Properties *)

Times == 0..MaxTime

TypeOK ==
    /\ now \in Times
    /\ pc \in {"window", "build", "storeSet", "storeSnapshot", "broadcast",
               "arm", "wait", "stopped", "failed"}
    /\ w \in Nat \cup {NoWindow}
    /\ built \in SUBSET Name
    /\ set \in SUBSET Name
    /\ snapshot \in Nat \cup {NoWindow}
    /\ deadline \in Nat
    /\ cancelled \in BOOLEAN
    /\ readable \in BOOLEAN
    /\ subs \in SUBSET Subscriber
    /\ chan \in [Subscriber -> Seq(Nat)]
    /\ \A s \in Subscriber : Len(chan[s]) <= 1
    /\ seen \in [Subscriber -> Nat \cup {NoWindow}]
    /\ held \in [Client -> Nat \cup {NoWindow}]

\* The window the stored set was built for: ahead of the snapshot between the
\* two stores.
CachedFor == IF pc = "storeSnapshot" THEN w ELSE snapshot

\* The purpose of the grace segment: every file a client's playlist names is
\* served for as long as the service is no more than one tick ahead of that
\* playlist, also in the instant between the two stores of publish.
GraceServed ==
    \A c \in Client :
        held[c] # NoWindow /\ CachedFor <= held[c] + 1 =>
            \A name \in Names(held[c]) : Segment(name)

\* Memory does not grow with the stream: window, grace and prefetch.
CacheBounded == Cardinality(set) <= WindowSize + 2

\* Prefetch takes the disk out of the tick: when the previous tick was on time
\* and its prefetch was read, this one has nothing left to load.
PrefetchShieldsTick ==
    pc = "build" /\ snapshot # NoWindow /\ w = snapshot + 1
      /\ prefetch(snapshot) \subseteq set => required(w) \subseteq set

\* A subscriber is told of windows in order, and only once the playlist and the
\* files it will ask for are there.
SubscribersInOrder ==
    \A s \in Subscriber :
        chan[s] # <<>> => seen[s] < Head(chan[s]) /\ Head(chan[s]) <= snapshot

\* Run gives up only before anything was published; afterwards an unreadable
\* file costs ticks but never the stream.
OnlyFirstTickFails ==
    pc = "failed" => /\ snapshot = NoWindow
                     /\ set = {}
                     /\ \A s \in Subscriber : chan[s] = <<>>

\* The health check does not turn red for one late tick: not ready means that
\* at least two whole ticks after the published one were missed.
StallMeansTwoMissedTicks ==
    snapshot # NoWindow /\ ~Ready => now >= publishAt(snapshot + 3)

\* No tick repeats a window and no playlist is published before its time: the
\* worker waits out each window, whatever the ticks cost and however many are
\* missed or fail.
EveryTickAdvances ==
    [][/\ pc = "window" /\ pc' = "build" => w' > w
       /\ snapshot' # snapshot => /\ snapshot' > snapshot
                                  /\ publishAt(snapshot') <= now]_vars

\* What players and subscribers may rely on.
Abstract == INSTANCE LivePlaylist WITH
    Tagged <- {n \in Nat : entry(n).Discontinuity},
    Player <- Client,
    Listener <- Subscriber,
    mediaSeq <- snapshot,
    discSeq <- IF snapshot = NoWindow
               THEN 0 ELSE discontinuitySequence(snapshot),
    fetched <- held,
    told <- seen
ImplementsLivePlaylist == Abstract!Spec

\* After any run of failed ticks the stream catches up with the clock, within
\* the segment on air, once its files can be read.
Recovers ==
    (readable /\ snapshot # NoWindow /\ now + longest <= MaxTime)
      ~> (snapshot = mediaSequence(now) \/ cancelled)

\* Cancelling the context ends Run.
CancelStops == cancelled ~> pc \in {"stopped", "failed"}

-----------------------------------------------------------------------------
(* What the documentation says and the code does not do *)

\* README.md:77: the grace segment keeps the segment that just left the
\* playlist available "para clientes con la playlist anterior".  When a
\* publication replaces a playlist, the files of the replaced one would all
\* still be served.
PreviousPlaylistServed ==
    [][snapshot' # snapshot /\ snapshot # NoWindow =>
          Names(snapshot) \subseteq set']_vars

=============================================================================
