------------------------ MODULE StreamServiceProofs ------------------------
(***************************************************************************)
(* Safety of StreamService for every manifest, every set of clients and    *)
(* subscribers and every bound on the clock.                               *)
(***************************************************************************)
EXTENDS StreamService, TimelineProofs

-----------------------------------------------------------------------------
(* The inductive invariant *)

\* From the computation of a window to the end of its wait, there is one.
WindowComputed == pc # "window" => w \in Nat

\* Windows are computed from the clock, and only published ones are snapshots.
WindowBegun == /\ w # NoWindow => publishAt(w) <= now
               /\ snapshot <= w

\* The worker computes a new window only when the last one is over.
WindowOver == /\ pc = "wait" => publishAt(w + 1) <= deadline
              /\ pc = "window" /\ w # NoWindow => publishAt(w + 1) <= now

\* What is being built or published is newer than what is published.
WindowIsNew == pc \in {"build", "storeSet", "storeSnapshot"} => snapshot < w

BroadcastIsSnapshot == pc = "broadcast" => snapshot = w

FailedUnpublished == pc = "failed" => snapshot = NoWindow

\* A set holds what its window requires, and at most the prefetch besides.
BuiltFor(files, k) == /\ required(k) \subseteq files
                      /\ files \subseteq required(k) \cup prefetch(k)

SetIsBuilt == /\ pc = "storeSet" => BuiltFor(built, w)
              /\ CachedFor # NoWindow => BuiltFor(set, CachedFor)
              /\ CachedFor = NoWindow => set = {}

\* Clients and subscribers have seen nothing that was not published, and
\* nothing of a publication before its broadcast.
NothingAhead ==
    /\ \A c \in Client : held[c] <= snapshot
    /\ \A s \in Subscriber :
          /\ seen[s] <= snapshot
          /\ chan[s] # <<>> => seen[s] < Head(chan[s]) /\ Head(chan[s]) <= snapshot
          /\ pc = "broadcast" =>
                /\ seen[s] < snapshot
                /\ chan[s] # <<>> => Head(chan[s]) < snapshot

IInv == /\ TypeOK
        /\ WindowComputed
        /\ WindowBegun
        /\ WindowOver
        /\ WindowIsNew
        /\ BroadcastIsSnapshot
        /\ FailedUnpublished
        /\ SetIsBuilt
        /\ NothingAhead

-----------------------------------------------------------------------------
\* Before the first tick there is nothing.
LEMMA InitInvariant == Init => IInv
<1> SUFFICES ASSUME Init PROVE IInv
    OBVIOUS
<1>1. TypeOK
  <2>1. chan \in [Subscriber -> Seq(Nat)] /\ \A s \in Subscriber : Len(chan[s]) = 0
    BY DEF Init
  <2>2. seen \in [Subscriber -> Nat \cup {NoWindow}] /\ held \in [Client -> Nat \cup {NoWindow}]
    BY DEF Init
  <2>3. cancelled \in BOOLEAN /\ readable \in BOOLEAN
    BY DEF Init
  <2>4. now \in Times /\ deadline \in Nat
    BY MaxTimeAssumption DEF Init, Times
  <2>5. built \in SUBSET Name /\ set \in SUBSET Name /\ subs \in SUBSET Subscriber
    BY DEF Init
  <2>6. \A s \in Subscriber : Len(chan[s]) <= 1
    BY <2>1
  <2> QED
    BY <2>1, <2>2, <2>3, <2>4, <2>5, <2>6 DEF Init, TypeOK
<1>2. WindowComputed /\ WindowBegun /\ WindowOver /\ WindowIsNew
      /\ BroadcastIsSnapshot /\ FailedUnpublished
    BY DEF Init, WindowComputed, WindowBegun, WindowOver, WindowIsNew,
           BroadcastIsSnapshot, FailedUnpublished, NoWindow
<1>3. SetIsBuilt
    BY DEF Init, SetIsBuilt, CachedFor
<1>4. NothingAhead
    BY DEF Init, NothingAhead, NoWindow
<1> QED
    BY <1>1, <1>2, <1>3, <1>4 DEF IInv

\* The window a tick computes is the one on air.
LEMMA ComputedWindow ==
    ASSUME TypeOK, ComputeWindow
    PROVE  /\ w' = mediaSequence(now)
           /\ w' \in Nat
           /\ publishAt(w') <= now
           /\ \A k \in Nat : publishAt(k) <= now => k <= w'
<1>1. now \in Nat
    BY MaxTimeAssumption DEF TypeOK, Times
<1>2. (IF now < 0 THEN 0 ELSE now - 0) = now
    BY <1>1
<1>3. w' = mediaSequence(now)
    BY <1>2 DEF ComputeWindow, WindowAt
<1>4. mediaSequence(now) \in Nat /\ publishAt(mediaSequence(now)) <= now
    BY <1>1, MediaSequenceOnAir
<1> QED
    BY <1>1, <1>3, <1>4, MediaSequenceReaches

\* Every step preserves the types.
LEMMA TypeStep == IInv /\ [Next]_vars => TypeOK'
<1> SUFFICES ASSUME IInv, [Next]_vars PROVE TypeOK'
    OBVIOUS
<1> USE DEF vars, worker, callers, env
<1>1. TypeOK /\ WindowComputed
    BY DEF IInv
<1>2. CASE ComputeWindow
  <2>1. w' \in Nat
    BY <1>1, <1>2, ComputedWindow
  <2> QED
    BY <1>1, <1>2, <2>1 DEF TypeOK, ComputeWindow
<1>3. CASE BuildSet
  <2>1. w \in Nat
    BY <1>1, <1>3 DEF WindowComputed, BuildSet
  <2>2. built' \subseteq Name
    BY <1>3, <2>1, CacheNames DEF BuildSet
  <2> QED
    BY <1>1, <1>3, <2>2 DEF TypeOK, BuildSet
<1>4. CASE BuildFails \/ StoreSet \/ StoreSnapshot
    BY <1>1, <1>4 DEF TypeOK, BuildFails, StoreSet, StoreSnapshot
<1>5. CASE Broadcast
  <2>1. w \in Nat
    BY <1>1, <1>5 DEF WindowComputed, Broadcast
  <2>2. <<w>> \in Seq(Nat) /\ Len(<<w>>) = 1
    BY <2>1
  <2>3. /\ chan' \in [Subscriber -> Seq(Nat)]
        /\ \A s \in Subscriber : Len(chan'[s]) <= 1
    BY <1>1, <1>5, <2>2 DEF TypeOK, Broadcast
  <2> QED
    BY <1>1, <1>5, <2>3 DEF TypeOK, Broadcast
<1>6. CASE ArmTimer
  <2>1. publishAt(w + 1) \in Nat
    BY <1>1, <1>6, PublishAtType DEF WindowComputed, ArmTimer
  <2> QED
    BY <1>1, <1>6, <2>1 DEF TypeOK, Times, ArmTimer
<1>7. CASE TimerFires \/ StopOnCancel
    BY <1>1, <1>7 DEF TypeOK, TimerFires, StopOnCancel
<1>8. ASSUME NEW s \in Subscriber, Subscribe(s) \/ Unsubscribe(s) PROVE TypeOK'
  <2>1. CASE Subscribe(s)
    <3>1. <<>> \in Seq(Nat) /\ Len(<<>>) = 0
      OBVIOUS
    <3>2. /\ chan' \in [Subscriber -> Seq(Nat)]
          /\ \A q \in Subscriber : Len(chan'[q]) <= 1
          /\ seen' \in [Subscriber -> Nat \cup {NoWindow}]
      BY <1>1, <2>1, <3>1 DEF TypeOK, Subscribe
    <3> QED
      BY <1>1, <2>1, <3>2 DEF TypeOK, Subscribe
  <2>2. CASE Unsubscribe(s)
    BY <1>1, <2>2 DEF TypeOK, Unsubscribe
  <2> QED
    BY <1>8, <2>1, <2>2
<1>9. ASSUME NEW s \in Subscriber, Receive(s) PROVE TypeOK'
  <2>1. chan[s] \in Seq(Nat) /\ chan[s] # <<>> /\ Len(chan[s]) <= 1
    BY <1>1, <1>9 DEF TypeOK, Receive
  <2>2. Head(chan[s]) \in Nat /\ Tail(chan[s]) \in Seq(Nat) /\ Len(Tail(chan[s])) <= 1
    BY <2>1
  <2> QED
    BY <1>1, <1>9, <2>2 DEF TypeOK, Receive
<1>10. ASSUME NEW c \in Client, FetchPlaylist(c) PROVE TypeOK'
    BY <1>1, <1>10 DEF TypeOK, FetchPlaylist
<1>11. CASE ClockAdvances
  <2>1. now' \in Times
    BY <1>1, <1>11, MaxTimeAssumption DEF TypeOK, Times, ClockAdvances
  <2> QED
    BY <1>1, <1>11, <2>1 DEF TypeOK, ClockAdvances
<1>12. CASE Cancel \/ DiskHeals
    BY <1>1, <1>12 DEF TypeOK, Cancel, DiskHeals
<1>13. CASE UNCHANGED vars
    BY <1>1, <1>13 DEF TypeOK
<1> QED
    BY <1>2, <1>3, <1>4, <1>5, <1>6, <1>7, <1>8, <1>9, <1>10, <1>11, <1>12,
       <1>13
    DEF Next, Run

\* A tick's window is newer than the one of the tick before.
LEMMA WindowAdvances ==
    ASSUME TypeOK, WindowOver, ComputeWindow
    PROVE  w < w'
<1>1. w \in Nat \cup {-1} /\ w' \in Nat
    BY ComputedWindow DEF TypeOK, NoWindow
<1>2. CASE w = -1
    BY <1>1, <1>2
<1>3. CASE w # -1
  <2>1. w + 1 \in Nat /\ publishAt(w + 1) <= now
    BY <1>1, <1>3 DEF WindowOver, ComputeWindow, NoWindow
  <2>2. w + 1 <= w'
    BY <2>1, ComputedWindow
  <2> QED
    BY <1>1, <2>2
<1> QED
    BY <1>2, <1>3

\* Every step of the worker preserves what relates it to the clock.
LEMMA WorkerStep ==
    IInv /\ Run => (/\ WindowComputed /\ WindowBegun /\ WindowOver
                    /\ WindowIsNew /\ BroadcastIsSnapshot /\ FailedUnpublished)'
<1> SUFFICES ASSUME IInv, Run
             PROVE  (/\ WindowComputed /\ WindowBegun /\ WindowOver
                     /\ WindowIsNew /\ BroadcastIsSnapshot /\ FailedUnpublished)'
    OBVIOUS
<1> USE DEF worker, callers, env, NoWindow, WindowComputed, WindowBegun, WindowOver,
            WindowIsNew, BroadcastIsSnapshot, FailedUnpublished
<1>1. /\ TypeOK /\ WindowComputed /\ WindowBegun /\ WindowOver
      /\ WindowIsNew /\ BroadcastIsSnapshot /\ FailedUnpublished
    BY DEF IInv
<1>2. /\ now \in Nat /\ deadline \in Nat
      /\ w \in Nat \cup {-1} /\ snapshot \in Nat \cup {-1}
    BY <1>1, MaxTimeAssumption DEF TypeOK, Times
<1>3. CASE ComputeWindow
  <2>1. w' \in Nat /\ publishAt(w') <= now
    BY <1>1, <1>3, ComputedWindow
  <2>2. snapshot < w'
    BY <1>1, <1>2, <1>3, <2>1, WindowAdvances
  <2> QED
    BY <1>1, <1>2, <1>3, <2>1, <2>2 DEF ComputeWindow
<1>4. CASE BuildSet
    BY <1>1, <1>2, <1>4 DEF BuildSet
<1>5. CASE BuildFails
    BY <1>1, <1>2, <1>5 DEF BuildFails
<1>6. CASE StoreSet \/ StoreSnapshot
    BY <1>1, <1>2, <1>6 DEF StoreSet, StoreSnapshot
<1>7. CASE Broadcast
    BY <1>1, <1>2, <1>7 DEF Broadcast
<1>8. CASE ArmTimer
  <2>1. publishAt(w + 1) \in Nat
    BY <1>1, <1>8, PublishAtType DEF ArmTimer
  <2>2. publishAt(w + 1) <= deadline'
    BY <1>2, <1>8, <2>1 DEF ArmTimer
  <2> QED
    BY <1>1, <1>2, <1>8, <2>2 DEF ArmTimer
<1>9. CASE TimerFires
  <2>1. publishAt(w + 1) \in Nat
    BY <1>1, <1>9, PublishAtType DEF TimerFires
  <2> QED
    BY <1>1, <1>2, <1>9, <2>1 DEF TimerFires
<1>10. CASE StopOnCancel
    BY <1>1, <1>2, <1>10 DEF StopOnCancel
<1> QED
    BY <1>3, <1>4, <1>5, <1>6, <1>7, <1>8, <1>9, <1>10 DEF Run

\* Nothing but the worker moves what relates it to the clock, and time only
\* advances.
LEMMA EnvironmentStep ==
    IInv /\ [Next]_vars /\ ~Run =>
        (/\ WindowComputed /\ WindowBegun /\ WindowOver
         /\ WindowIsNew /\ BroadcastIsSnapshot /\ FailedUnpublished)'
<1> SUFFICES ASSUME IInv, [Next]_vars, ~Run
             PROVE  (/\ WindowComputed /\ WindowBegun /\ WindowOver
                     /\ WindowIsNew /\ BroadcastIsSnapshot /\ FailedUnpublished)'
    OBVIOUS
<1>1. /\ TypeOK /\ WindowComputed /\ WindowBegun /\ WindowOver
      /\ WindowIsNew /\ BroadcastIsSnapshot /\ FailedUnpublished
    BY DEF IInv
<1>2. UNCHANGED worker /\ (now' = now \/ now' = now + 1)
    BY DEF Next, Subscribe, Unsubscribe, Receive, FetchPlaylist, ClockAdvances,
           Cancel, DiskHeals, vars, worker, callers, env
<1>3. /\ now \in Nat
      /\ w # NoWindow => w \in Nat /\ publishAt(w) \in Nat /\ publishAt(w + 1) \in Nat
    BY <1>1, MaxTimeAssumption, PublishAtType DEF TypeOK, Times
<1>4. /\ w # NoWindow /\ publishAt(w) <= now => publishAt(w) <= now'
      /\ w # NoWindow /\ publishAt(w + 1) <= now => publishAt(w + 1) <= now'
    BY <1>2, <1>3
<1> QED
    BY <1>1, <1>2, <1>4
    DEF worker, WindowComputed, WindowBegun, WindowOver, WindowIsNew,
        BroadcastIsSnapshot, FailedUnpublished

\* Every step preserves what the stored and the built set hold.
LEMMA SetStep == IInv /\ [Next]_vars => SetIsBuilt'
<1> SUFFICES ASSUME IInv, [Next]_vars PROVE SetIsBuilt'
    OBVIOUS
<1> USE DEF worker, callers, env, SetIsBuilt, CachedFor
<1>1. /\ TypeOK /\ WindowComputed /\ WindowIsNew
      /\ BroadcastIsSnapshot /\ SetIsBuilt
    BY DEF IInv
<1>2. CASE ComputeWindow
    BY <1>1, <1>2 DEF ComputeWindow
<1>3. CASE BuildSet
  <2>1. BuiltFor(built', w)
    BY <1>3 DEF BuildSet, BuiltFor
  <2> QED
    BY <1>1, <1>3, <2>1 DEF BuildSet
<1>4. CASE BuildFails
    BY <1>1, <1>4 DEF BuildFails
<1>5. CASE StoreSet
  <2>1. w \in Nat /\ BuiltFor(built, w)
    BY <1>1, <1>5 DEF StoreSet, WindowComputed
  <2> QED
    BY <1>5, <2>1 DEF StoreSet, NoWindow
<1>6. CASE StoreSnapshot \/ Broadcast \/ ArmTimer \/ TimerFires \/ StopOnCancel
    BY <1>1, <1>6 DEF StoreSnapshot, Broadcast, ArmTimer, TimerFires, StopOnCancel
<1>7. CASE UNCHANGED worker
    BY <1>1, <1>7
<1> QED
    BY <1>2, <1>3, <1>4, <1>5, <1>6, <1>7
    DEF Next, Run, Subscribe, Unsubscribe, Receive, FetchPlaylist, ClockAdvances,
        Cancel, DiskHeals, vars

\* Every step preserves that nobody has seen more than what was published.
LEMMA NothingAheadStep == IInv /\ [Next]_vars => NothingAhead'
<1> SUFFICES ASSUME IInv, [Next]_vars PROVE NothingAhead'
    OBVIOUS
<1> USE DEF worker, callers, env, NothingAhead, NoWindow
<1>1. /\ TypeOK /\ WindowBegun /\ WindowComputed /\ WindowIsNew
      /\ BroadcastIsSnapshot /\ NothingAhead
    BY DEF IInv
<1>2. /\ w \in Nat \cup {-1} /\ snapshot \in Nat \cup {-1}
      /\ \A c \in Client : held[c] \in Nat \cup {-1}
      /\ \A s \in Subscriber : /\ seen[s] \in Nat \cup {-1}
                               /\ chan[s] \in Seq(Nat) /\ Len(chan[s]) <= 1
                               /\ chan[s] # <<>> => Head(chan[s]) \in Nat
    BY <1>1 DEF TypeOK
<1>3. CASE ComputeWindow \/ BuildSet \/ BuildFails \/ StoreSet \/ ArmTimer
              \/ TimerFires \/ StopOnCancel
    BY <1>1, <1>3 DEF ComputeWindow, BuildSet, BuildFails, StoreSet, ArmTimer,
                      TimerFires, StopOnCancel
<1>4. CASE StoreSnapshot
  <2>1. /\ snapshot < w /\ snapshot' = w
        /\ UNCHANGED <<held, seen, chan>>
    BY <1>1, <1>4 DEF StoreSnapshot, WindowIsNew
  <2>2. \A c \in Client : held'[c] <= snapshot'
    BY <1>1, <1>2, <2>1
  <2>3. ASSUME NEW s \in Subscriber
        PROVE  /\ seen'[s] < snapshot'
               /\ chan'[s] # <<>> => /\ seen'[s] < Head(chan'[s])
                                     /\ Head(chan'[s]) < snapshot'
    BY <1>1, <1>2, <2>1
  <2>4. \A s \in Subscriber :
           /\ seen'[s] <= snapshot'
           /\ chan'[s] # <<>> => seen'[s] < Head(chan'[s]) /\ Head(chan'[s]) <= snapshot'
    BY <1>2, <2>1, <2>3
  <2> QED
    BY <2>2, <2>3, <2>4
<1>5. CASE Broadcast
  <2>1. /\ pc = "broadcast" /\ pc' = "arm" /\ snapshot = w
        /\ UNCHANGED <<held, seen, snapshot>>
    BY <1>1, <1>5 DEF Broadcast, BroadcastIsSnapshot
  <2>2. ASSUME NEW s \in Subscriber
        PROVE  chan'[s] # <<>> => seen[s] < Head(chan'[s]) /\ Head(chan'[s]) <= snapshot
    <3>1. chan'[s] = <<w>> \/ chan'[s] = chan[s]
      BY <1>1, <1>5 DEF Broadcast, TypeOK
    <3>2. seen[s] < snapshot
      BY <1>1, <2>1
    <3>3. Head(<<w>>) = w
      OBVIOUS
    <3> QED
      BY <1>1, <1>2, <2>1, <3>1, <3>2, <3>3
  <2> QED
    BY <1>1, <2>1, <2>2
<1>6. ASSUME NEW q \in Subscriber, Subscribe(q) PROVE NothingAhead'
  <2>1. UNCHANGED <<pc, snapshot, held>>
    BY <1>6 DEF Subscribe
  <2>2. chan'[q] = <<>> /\ seen'[q] = -1
    BY <1>1, <1>6 DEF Subscribe, TypeOK
  <2>3. \A s \in Subscriber \ {q} : chan'[s] = chan[s] /\ seen'[s] = seen[s]
    BY <1>1, <1>6 DEF Subscribe, TypeOK
  <2>4. pc = "broadcast" => -1 < snapshot
    BY <1>1, <1>2 DEF BroadcastIsSnapshot, WindowComputed
  <2> QED
    BY <1>1, <1>2, <2>1, <2>2, <2>3, <2>4
<1>7. ASSUME NEW q \in Subscriber, Unsubscribe(q) PROVE NothingAhead'
    BY <1>1, <1>7 DEF Unsubscribe
<1>8. ASSUME NEW q \in Subscriber, Receive(q) PROVE NothingAhead'
  <2>1. UNCHANGED <<pc, snapshot, held>> /\ chan[q] # <<>>
    BY <1>8 DEF Receive
  <2>2. chan'[q] = <<>> /\ seen'[q] = Head(chan[q])
    <3>1. chan'[q] = Tail(chan[q]) /\ seen'[q] = Head(chan[q])
      BY <1>1, <1>8 DEF Receive, TypeOK
    <3>2. Tail(chan[q]) = <<>>
      BY <1>2, <2>1
    <3> QED
      BY <3>1, <3>2
  <2>3. \A s \in Subscriber \ {q} : chan'[s] = chan[s] /\ seen'[s] = seen[s]
    BY <1>1, <1>8 DEF Receive, TypeOK
  <2> QED
    BY <1>1, <1>2, <2>1, <2>2, <2>3
<1>9. ASSUME NEW d \in Client, FetchPlaylist(d) PROVE NothingAhead'
  <2>1. UNCHANGED <<pc, snapshot, chan, seen>>
    BY <1>9 DEF FetchPlaylist
  <2>2. \A c \in Client : held'[c] = snapshot \/ held'[c] = held[c]
    BY <1>1, <1>9 DEF FetchPlaylist, TypeOK
  <2> QED
    BY <1>1, <1>2, <2>1, <2>2
<1>10. CASE UNCHANGED <<worker, callers>>
    BY <1>1, <1>10
<1> QED
    BY <1>3, <1>4, <1>5, <1>6, <1>7, <1>8, <1>9, <1>10
    DEF Next, Run, ClockAdvances, Cancel, DiskHeals, vars

-----------------------------------------------------------------------------
(* The theorems *)

\* The invariant holds of every reachable state.
THEOREM Invariant == Spec => []IInv
<1>1. Init => IInv
    BY InitInvariant
<1>2. IInv /\ [Next]_vars => IInv'
    BY TypeStep, WorkerStep, EnvironmentStep, SetStep, NothingAheadStep DEF IInv
<1> QED
    BY <1>1, <1>2, PTL DEF Spec

\* Every variable keeps its type, and a subscription holds at most one window.
THEOREM TypeCorrect == Spec => []TypeOK
<1>1. IInv => TypeOK
    BY DEF IInv
<1> QED
    BY <1>1, Invariant, PTL

\* The files a playlist names.
LEMMA NamesOf ==
    ASSUME NEW k \in Nat
    PROVE  Names(k) = {segment(k).name, segment(k + 1).name, segment(k + 2).name}
<1>1. \A j \in 1..3 : entries(k)[j].Name = segment(k + j - 1).name
    BY DEF entries, entry, WindowSize
<1>2. Names(k) = {segment(k + j - 1).name : j \in 1..3}
    BY <1>1 DEF Names, WindowSize
<1>3. /\ k + 1 - 1 = k /\ k + 2 - 1 = k + 1 /\ k + 3 - 1 = k + 2
      /\ 1..3 = {1, 2, 3}
    OBVIOUS
<1> HIDE DEF segment
<1> QED
    BY <1>2, <1>3

\* Every file a client's playlist names is served while the service is at most
\* one tick ahead of it.
THEOREM GraceIsServed == Spec => []GraceServed
<1>1. IInv => GraceServed
  <2> SUFFICES ASSUME IInv, NEW c \in Client, held[c] # NoWindow,
                      CachedFor <= held[c] + 1
               PROVE  Names(held[c]) \subseteq set
    BY DEF GraceServed, Segment
  <2> DEFINE h == held[c]
  <2>1. h \in Nat /\ h <= snapshot /\ snapshot \in Nat \cup {-1}
    BY DEF IInv, TypeOK, NothingAhead, NoWindow
  <2>2. CachedFor \in Nat /\ snapshot <= CachedFor
    BY <2>1 DEF CachedFor, IInv, WindowIsNew, WindowComputed, TypeOK, NoWindow
  <2>3. required(CachedFor) \subseteq set
    BY <2>2 DEF IInv, SetIsBuilt, BuiltFor, NoWindow
  <2> HIDE DEF h
  <2>4. CachedFor = h \/ CachedFor = h + 1
    BY <2>1, <2>2 DEF h
  <2>5. CASE CachedFor = h
    BY <2>1, <2>3, <2>5, CacheNames, NamesOf DEF h
  <2>6. CASE CachedFor = h + 1
    <3>1. /\ {segment(h + 1).name, segment((h + 1) + 1).name} \subseteq required(h + 1)
          /\ segment((h + 1) - 1).name \in required(h + 1)
      BY <2>1, CacheNames
    <3>2. (h + 1) + 1 = h + 2 /\ (h + 1) - 1 = h
      BY <2>1
    <3>3. Names(h) \subseteq required(h + 1)
      BY <2>1, <3>1, <3>2, NamesOf
    <3> QED
      BY <2>3, <2>6, <3>3 DEF h
  <2> QED
    BY <2>4, <2>5, <2>6
<1> QED
    BY <1>1, Invariant, PTL

\* Never more than five files in memory.
THEOREM CacheIsBounded == Spec => []CacheBounded
<1>1. IInv => CacheBounded
  <2> SUFFICES ASSUME IInv PROVE Cardinality(set) <= WindowSize + 2
    BY DEF CacheBounded
  <2>1. CASE CachedFor = NoWindow
    <3>1. Cardinality(set) = 0
      BY <2>1, FS_EmptySet DEF IInv, SetIsBuilt
    <3> QED
      BY <3>1 DEF WindowSize
  <2>2. CASE CachedFor # NoWindow
    <3>1. CachedFor \in Nat
      BY <2>2 DEF CachedFor, IInv, TypeOK, NoWindow
    <3>2. set \in SUBSET (required(CachedFor) \cup prefetch(CachedFor))
      BY <2>2 DEF IInv, SetIsBuilt, BuiltFor
    <3> QED
      BY <3>1, <3>2, CacheSize
  <2> QED
    BY <2>1, <2>2
<1> QED
    BY <1>1, Invariant, PTL

\* With the last tick on time and its prefetch read, the next one needs nothing
\* from the disk.
THEOREM PrefetchShields == Spec => []PrefetchShieldsTick
<1>1. IInv => PrefetchShieldsTick
  <2> SUFFICES ASSUME IInv, pc = "build", snapshot # NoWindow, w = snapshot + 1,
                      prefetch(snapshot) \subseteq set
               PROVE  required(w) \subseteq set
    BY DEF PrefetchShieldsTick
  <2>1. snapshot \in Nat
    BY DEF IInv, TypeOK
  <2>2. required(snapshot) \subseteq set
    BY DEF IInv, SetIsBuilt, BuiltFor, CachedFor
  <2>3. required(snapshot + 1) \subseteq required(snapshot) \cup prefetch(snapshot)
    BY <2>1, RequiredNext
  <2> QED
    BY <2>2, <2>3
<1> QED
    BY <1>1, Invariant, PTL

\* Subscribers receive windows in order, each after its publication.
THEOREM SubscribersAreInOrder == Spec => []SubscribersInOrder
<1>1. IInv => SubscribersInOrder
    BY DEF IInv, NothingAhead, SubscribersInOrder
<1> QED
    BY <1>1, Invariant, PTL

\* Run returns an error only if nothing was ever published.
THEOREM OnlyFirstFails == Spec => []OnlyFirstTickFails
<1>1. IInv => OnlyFirstTickFails
  <2> SUFFICES ASSUME IInv, pc = "failed"
               PROVE  /\ snapshot = NoWindow /\ set = {}
                      /\ \A s \in Subscriber : chan[s] = <<>>
    BY DEF OnlyFirstTickFails
  <2>1. snapshot = NoWindow /\ set = {}
    BY DEF IInv, FailedUnpublished, SetIsBuilt, CachedFor
  <2>2. ASSUME NEW s \in Subscriber, chan[s] # <<>> PROVE FALSE
    <3>1. Head(chan[s]) \in Nat
      BY <2>2 DEF IInv, TypeOK
    <3>2. Head(chan[s]) <= -1
      BY <2>1, <2>2 DEF IInv, NothingAhead, NoWindow
    <3> QED
      BY <3>1, <3>2
  <2> QED
    BY <2>1, <2>2
<1> QED
    BY <1>1, Invariant, PTL

\* Not ready means that two whole ticks were missed.
THEOREM StallMeansMissedTicks == Spec => []StallMeansTwoMissedTicks
<1>1. IInv => StallMeansTwoMissedTicks
  <2> SUFFICES ASSUME IInv, snapshot # NoWindow, ~Ready
               PROVE  now >= publishAt(snapshot + 3)
    BY DEF StallMeansTwoMissedTicks
  <2> DEFINE t1 == publishAt(snapshot + 1)
             t3 == publishAt(snapshot + 3)
  <2>1. snapshot \in Nat /\ now \in Nat
    BY MaxTimeAssumption DEF IInv, TypeOK, Times
  <2>2. t1 \in Nat /\ t3 \in Nat /\ t3 <= t1 + 2 * target * Second
    BY <2>1, TwoSegments
  <2>3. ~(now - t1 <= 2 * target * Second) /\ 2 * target * Second \in Nat
    BY TargetCovers, SecondAssumption DEF Ready
  <2> HIDE DEF t1, t3
  <2> QED
    BY <2>1, <2>2, <2>3 DEF t3
<1> QED
    BY <1>1, Invariant, PTL

\* Only ComputeWindow starts a tick.
LEMMA TickStarts ==
    Next /\ pc = "window" /\ pc' = "build" => ComputeWindow
    BY DEF Next, Run, BuildSet, BuildFails, StoreSet, StoreSnapshot, Broadcast,
           ArmTimer, TimerFires, StopOnCancel, Subscribe, Unsubscribe, Receive,
           FetchPlaylist, ClockAdvances, Cancel, DiskHeals, worker

\* Only StoreSnapshot publishes.
LEMMA Publication ==
    [Next]_vars /\ snapshot' # snapshot => StoreSnapshot
    BY DEF Next, Run, ComputeWindow, BuildSet, BuildFails, StoreSet, Broadcast,
           ArmTimer, TimerFires, StopOnCancel, Subscribe, Unsubscribe, Receive,
           FetchPlaylist, ClockAdvances, Cancel, DiskHeals, vars, worker

\* A tick's window is newer than the last, a publication is a newer playlist,
\* and its first segment has begun.
THEOREM EveryTickIsNew == Spec => EveryTickAdvances
<1> DEFINE Advances ==
        /\ pc = "window" /\ pc' = "build" => w' > w
        /\ snapshot' # snapshot => snapshot' > snapshot /\ publishAt(snapshot') <= now
<1>1. IInv /\ [Next]_vars => [Advances]_vars
  <2> SUFFICES ASSUME IInv, Next PROVE Advances
    OBVIOUS
  <2>1. ASSUME pc = "window", pc' = "build" PROVE w' > w
    <3>1. ComputeWindow /\ TypeOK /\ WindowOver
      BY <2>1, TickStarts DEF IInv
    <3>2. w \in Nat \cup {-1} /\ w' \in Nat
      BY <3>1, ComputedWindow DEF TypeOK, NoWindow
    <3> QED
      BY <3>1, <3>2, WindowAdvances
  <2>2. ASSUME snapshot' # snapshot
        PROVE  snapshot' > snapshot /\ publishAt(snapshot') <= now
    <3>1. StoreSnapshot
      BY <2>2, Publication
    <3>2. snapshot' = w /\ snapshot < w /\ w \in Nat /\ publishAt(w) <= now
      BY <3>1 DEF StoreSnapshot, IInv, WindowIsNew, WindowComputed, WindowBegun, NoWindow
    <3>3. snapshot \in Nat \cup {-1}
      BY DEF IInv, TypeOK, NoWindow
    <3> QED
      BY <3>2, <3>3
  <2> QED
    BY <2>1, <2>2
<1> QED
    BY <1>1, Invariant, PTL DEF EveryTickAdvances, Spec

\* A player's playlist never goes back: the media sequence of what a client
\* fetches (servePlaylist) is at least that of what it fetched before.
THEOREM PlaylistsNeverGoBack ==
    Spec => [][\A c \in Client : held'[c] >= held[c]]_vars
<1>1. IInv /\ [Next]_vars => [\A c \in Client : held'[c] >= held[c]]_vars
  <2> SUFFICES ASSUME IInv, Next, NEW c \in Client PROVE held'[c] >= held[c]
    OBVIOUS
  <2>1. /\ held \in [Client -> Nat \cup {-1}] /\ snapshot \in Nat \cup {-1}
        /\ held[c] <= snapshot
    BY DEF IInv, TypeOK, NothingAhead, NoWindow
  <2>2. CASE held' = held
    BY <2>1, <2>2
  <2>3. CASE \E d \in Client : FetchPlaylist(d)
    BY <2>1, <2>3 DEF FetchPlaylist
  <2> QED
    BY <2>2, <2>3 DEF Next, Run, ComputeWindow, BuildSet, BuildFails, StoreSet,
       StoreSnapshot, Broadcast, ArmTimer, TimerFires, StopOnCancel, Subscribe,
       Unsubscribe, Receive, ClockAdvances, Cancel, DiskHeals, callers
<1> QED
  BY <1>1, Invariant, PTL DEF Spec

-----------------------------------------------------------------------------
(* The service implements the live playlist *)

\* A publication is the first playlist or a slide.
LEMMA PublicationMaps ==
    ASSUME IInv, StoreSnapshot
    PROVE  Abstract!First \/ Abstract!Slide
<1> USE DEF NoWindow
<1>1. /\ snapshot' = w /\ snapshot < w /\ w \in Nat /\ snapshot \in Nat \cup {-1}
      /\ UNCHANGED <<held, seen>>
  BY DEF StoreSnapshot, callers, IInv, WindowIsNew, WindowComputed, TypeOK
<1>2. ASSUME NEW i, NEW j
      PROVE  Abstract!Cardinality({n \in Nat : entry(n).Discontinuity} \cap (i .. j))
                = Cardinality(Tags \cap (i .. j))
  BY DEF Abstract!Cardinality, Cardinality, Abstract!IsFiniteSet, IsFiniteSet, Tags
<1>3. (IF snapshot = -1 THEN 0 ELSE discontinuitySequence(snapshot))'
         = discontinuitySequence(w)
  BY <1>1
<1>4. CASE snapshot = -1
  <2> DEFINE Out == Tags \cap (0 .. w - 1)
  <2>1. discontinuitySequence(w) = discontinuitySequence(0) + Cardinality(Out)
    BY <1>1, DiscontinuityCountsTags
  <2>2. discontinuitySequence(0) = 0
    BY DEF discontinuitySequence
  <2>3. Cardinality(Out) \in Nat
    <3>1. IsFiniteSet(0 .. w - 1)
      BY <1>1, FS_Interval
    <3>2. IsFiniteSet(Out)
      BY <3>1, FS_Subset
    <3> QED
      BY <3>2, FS_CardinalityType
  <2>4. discontinuitySequence(w) = Cardinality(Out)
    BY <2>1, <2>2, <2>3
  <2> QED
    BY <1>1, <1>2, <1>3, <1>4, <2>4 DEF Abstract!First
<1>5. CASE snapshot # -1
  <2>1. discontinuitySequence(w) = discontinuitySequence(snapshot)
               + Cardinality(Tags \cap (snapshot .. w - 1))
    BY <1>1, <1>5, DiscontinuityCountsTags
  <2> QED
    BY <1>1, <1>2, <1>3, <1>5, <2>1 DEF Abstract!Slide
<1> QED
  BY <1>4, <1>5

\* A subscriber receives a window that it has not had and that was published.
LEMMA ReceiveMaps ==
    ASSUME IInv, NEW s \in Subscriber, Receive(s)
    PROVE  Abstract!Tell(s)
<1>1. /\ seen' = [seen EXCEPT ![s] = Head(chan[s])] /\ chan[s] # <<>>
      /\ UNCHANGED <<snapshot, held>>
  BY DEF Receive, worker
<1>2. /\ seen[s] < Head(chan[s]) /\ Head(chan[s]) <= snapshot
  BY <1>1 DEF IInv, NothingAhead
<1>3. Head(chan[s]) \in Nat /\ snapshot \in Nat \cup {-1} /\ seen[s] \in Nat \cup {-1}
  BY <1>1 DEF IInv, TypeOK, NoWindow
<1>4. Head(chan[s]) \in 0 .. snapshot /\ Head(chan[s]) > seen[s]
  BY <1>2, <1>3
<1> QED
  BY <1>1, <1>4 DEF Abstract!Tell

\* What the service publishes is a live playlist: initial states map to initial
\* states, every publication to the first one or to a slide, a client's fetch
\* to a fetch, what subscribers receive to what listeners are told, and every
\* other step to a stutter.
THEOREM Refinement == Spec => ImplementsLivePlaylist
<1> USE DEF NoWindow
<1>1. Init => Abstract!Init
  BY DEF Init, Abstract!Init
<1>2. IInv /\ [Next]_vars => [Abstract!Next]_(Abstract!vars)
  <2> SUFFICES ASSUME IInv, [Next]_vars PROVE [Abstract!Next]_(Abstract!vars)
    OBVIOUS
  <2>1. CASE StoreSnapshot
    BY <2>1, PublicationMaps DEF Abstract!Next
  <2>2. CASE \E s \in Subscriber : Receive(s)
    BY <2>2, ReceiveMaps DEF Abstract!Next
  <2>3. ASSUME NEW s \in Subscriber, Subscribe(s) PROVE Abstract!Listen(s)
    BY <2>3 DEF Subscribe, worker, Abstract!Listen
  <2>4. ASSUME NEW c \in Client, FetchPlaylist(c) PROVE Abstract!Fetch(c)
    BY <2>4 DEF FetchPlaylist, worker, Abstract!Fetch
  <2>5. CASE UNCHANGED <<snapshot, held, seen>>
    BY <2>5 DEF Abstract!vars
  <2> QED
    BY <2>1, <2>2, <2>3, <2>4, <2>5
    DEF Next, Run, ComputeWindow, BuildSet, BuildFails, StoreSet, Broadcast,
        ArmTimer, TimerFires, StopOnCancel, Unsubscribe, ClockAdvances, Cancel,
        DiskHeals, vars, worker, callers, Abstract!Next
<1> QED
  BY <1>1, <1>2, Invariant, PTL DEF Spec, ImplementsLivePlaylist, Abstract!Spec
=============================================================================
