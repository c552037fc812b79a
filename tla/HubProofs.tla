----------------------------- MODULE HubProofs -----------------------------
(***************************************************************************)
(* Safety of Hub for every set of tabs, every size of the connections'     *)
(* buffers and every bound on the stream.                                  *)
(***************************************************************************)
EXTENDS Hub, TLAPS, FiniteSetTheorems

-----------------------------------------------------------------------------
(* The inductive invariant *)

\* A registered connection is being served.
ClientsServed == /\ \A c \in clients : pc[c] # "idle"
                 /\ \A c \in Tab : pc[c] = "idle" => chan[c] = <<>>

\* Windows go from the stream to the hub in order.
StreamInOrder == /\ last <= published
                 /\ events # <<>> => last <= Head(events) /\ Head(events) <= published

\* What this process sent a tab, its initial window, what is in its channel and the
\* hub's last window come in this order.
TabInOrder(c) ==
    /\ seen[c] <= last
    /\ initial[c] <= last
    /\ initial[c] # NoWindow => seen[c] <= initial[c]
    /\ \A i \in 1..Len(chan[c]) :
          chan[c][i].event = "window" =>
             /\ seen[c] <= chan[c][i].sequence
             /\ initial[c] <= chan[c][i].sequence
             /\ chan[c][i].sequence <= last
    /\ \A i, j \in 1..Len(chan[c]) :
          i < j /\ chan[c][i].event = "window" /\ chan[c][j].event = "window"
             => chan[c][i].sequence <= chan[c][j].sequence

\* What the tab remembers is what this process sent it, if it sent anything.
Remembered == \A c \in Tab : seen[c] # NoWindow => lastSequence[c] = seen[c]

\* The initial window is pending only before the first write.
OnlyInitially == \A c \in Tab : pc[c] # "initial" => initial[c] = NoWindow

IInv == /\ TypeOK
        /\ IsFiniteSet(clients)
        /\ NoSendOnClosed
        /\ ViewersAreConnections
        /\ CountChangesAnnounced
        /\ ClientsServed
        /\ OnlyInitially
        /\ StreamInOrder
        /\ Remembered
        /\ \A c \in Tab : TabInOrder(c)

-----------------------------------------------------------------------------
(* The two ways a channel changes *)

\* A broadcast keeps the types of the channels, and adds to each at most the
\* event, at the end.
LEMMA BroadcastChannels ==
    ASSUME TypeOK, IsFiniteSet(clients), NEW e \in Event, Broadcast(e)
    PROVE  /\ chan' \in [Tab -> Seq(Event)]
           /\ \A c \in Tab : Len(chan'[c]) <= ClientBuffer
           /\ announced' = Cardinality(clients) /\ announced' \in Nat
           /\ \A c \in Tab : \/ chan'[c] = chan[c]
                             \/ c \in clients /\ chan'[c] = Append(chan[c], e)
<1>1. ASSUME NEW c \in Tab
      PROVE  /\ chan'[c] \in Seq(Event) /\ Len(chan'[c]) <= ClientBuffer
             /\ \/ chan'[c] = chan[c]
                \/ c \in clients /\ chan'[c] = Append(chan[c], e)
  <2>1. chan[c] \in Seq(Event) /\ Len(chan[c]) <= ClientBuffer
    BY DEF TypeOK
  <2>2. chan'[c] = IF c \in clients /\ Len(chan[c]) < ClientBuffer
                   THEN Append(chan[c], e) ELSE chan[c]
    BY DEF Broadcast
  <2>3. /\ Append(chan[c], e) \in Seq(Event)
        /\ Len(Append(chan[c], e)) = Len(chan[c]) + 1
    BY <2>1
  <2>4. Len(chan[c]) \in Nat
    BY <2>1
  <2> QED
    BY <2>1, <2>2, <2>3, <2>4, ClientBufferAssumption
<1>2. chan' = [c \in Tab |-> chan'[c]]
    BY DEF Broadcast
<1>3. announced' = Cardinality(clients) /\ Cardinality(clients) \in Nat
    BY FS_CardinalityType DEF Broadcast
<1> QED
    BY <1>1, <1>2, <1>3

\* The events the hub sends are events.
LEMMA Events == /\ ViewersEvent \in Event
                /\ \A k \in Nat : WindowEvent(k) \in Event
    BY DEF ViewersEvent, WindowEvent, Event, NoWindow

-----------------------------------------------------------------------------
(* Types *)

\* Every step preserves the types.
LEMMA TypeStep == IInv /\ [Next]_vars => TypeOK'
<1> SUFFICES ASSUME IInv, [Next]_vars PROVE TypeOK'
    OBVIOUS
<1> USE DEF vars, stream, hub, conns, shown
<1>1. TypeOK /\ IsFiniteSet(clients)
    BY DEF IInv
<1>2. CASE ForwardWindow
  <2>1. Head(events) \in Nat /\ Tail(events) \in Seq(Nat) /\ Len(Tail(events)) <= 1
    BY <1>1, <1>2 DEF TypeOK, ForwardWindow
  <2>2. WindowEvent(Head(events)) \in Event /\ Broadcast(WindowEvent(Head(events)))
    BY <1>2, <2>1, Events DEF ForwardWindow
  <2>3. /\ chan' \in [Tab -> Seq(Event)] /\ announced' \in Nat
        /\ \A c \in Tab : Len(chan'[c]) <= ClientBuffer
    BY <1>1, <2>2, BroadcastChannels
  <2> QED
    BY <1>1, <1>2, <2>1, <2>3 DEF TypeOK, ForwardWindow
<1>3. CASE CloseHub
  <2>1. chanClosed' \in [Tab -> BOOLEAN]
    BY <1>1, <1>3 DEF TypeOK, CloseHub, CloseChannels
  <2>2. closed' \in BOOLEAN /\ clients' \in SUBSET Tab
    BY <1>3 DEF CloseHub, CloseChannels
  <2> QED
    BY <1>1, <1>3, <2>1, <2>2 DEF TypeOK, CloseHub, CloseChannels
<1>4. CASE ViewersTimer
  <2>1. /\ chan' \in [Tab -> Seq(Event)] /\ announced' \in Nat
        /\ \A c \in Tab : Len(chan'[c]) <= ClientBuffer
    <3>1. CASE closed
      BY <1>1, <1>4, <3>1 DEF TypeOK, ViewersTimer
    <3>2. CASE ~closed
      <4>1. Broadcast(ViewersEvent)
        BY <1>4, <3>2 DEF ViewersTimer
      <4> QED
        BY <1>1, <4>1, Events, BroadcastChannels
    <3> QED
      BY <3>1, <3>2
  <2>2. viewersPending' \in BOOLEAN
    BY <1>4 DEF ViewersTimer
  <2> QED
    BY <1>1, <1>4, <2>1, <2>2 DEF TypeOK, ViewersTimer
<1>5. ASSUME NEW c \in Tab, Connect(c) PROVE TypeOK'
  <2>1. /\ pc' \in [Tab -> {"idle", "initial", "loop", "leaving"}]
        /\ clients' \in SUBSET Tab
        /\ initial' \in [Tab -> Nat \cup {NoWindow}]
    BY <1>1, <1>5 DEF TypeOK, Connect, Accepts
  <2>2. chanClosed' \in [Tab -> BOOLEAN]
    BY <1>1, <1>5 DEF TypeOK, Connect, Accepts
  <2>3. viewersPending' \in BOOLEAN
    BY <1>1, <1>5 DEF TypeOK, Connect, Accepts, ScheduleViewers
  <2> QED
    BY <1>1, <1>5, <2>1, <2>2, <2>3 DEF TypeOK, Connect, Accepts
<1>6. ASSUME NEW c \in Tab, WriteInitial(c) PROVE TypeOK'
    BY <1>1, <1>6 DEF TypeOK, WriteInitial, Show
<1>7. ASSUME NEW c \in Tab, WriteEvent(c) PROVE TypeOK'
  <2>1. chan[c] \in Seq(Event) /\ chan[c] # <<>> /\ Len(chan[c]) <= ClientBuffer
    BY <1>1, <1>7 DEF TypeOK, WriteEvent
  <2>2. /\ Tail(chan[c]) \in Seq(Event) /\ Len(Tail(chan[c])) <= ClientBuffer
        /\ Head(chan[c]) \in Event
    BY <2>1, ClientBufferAssumption
  <2>3. Head(chan[c]).sequence \in Nat \cup {NoWindow}
    BY <2>2 DEF Event
  <2> QED
    BY <1>1, <1>7, <2>2, <2>3 DEF TypeOK, WriteEvent, Show
<1>8. ASSUME NEW c \in Tab, ChannelClosed(c) \/ Disconnect(c) PROVE TypeOK'
    BY <1>1, <1>8 DEF TypeOK, ChannelClosed, Disconnect
<1>9. ASSUME NEW c \in Tab, Remove(c) PROVE TypeOK'
  <2>1. /\ pc' \in [Tab -> {"idle", "initial", "loop", "leaving"}]
        /\ clients' \in SUBSET Tab
        /\ chan' \in [Tab -> Seq(Event)]
        /\ \A q \in Tab : Len(chan'[q]) <= ClientBuffer
    <3>1. <<>> \in Seq(Event) /\ Len(<<>>) = 0
      OBVIOUS
    <3> QED
      BY <1>1, <1>9, <3>1, ClientBufferAssumption DEF TypeOK, Remove, Others
  <2>2. chanClosed' \in [Tab -> BOOLEAN]
    BY <1>1, <1>9 DEF TypeOK, Remove, Others
  <2>3. viewersPending' \in BOOLEAN
    BY <1>1, <1>9 DEF TypeOK, Remove, Others, ScheduleViewers
  <2> QED
    BY <1>1, <1>9, <2>1, <2>2, <2>3 DEF TypeOK, Remove, Others
<1>10. ASSUME NEW k \in 0..MaxSequence, Publish(k) PROVE TypeOK'
  <2>1. k \in Nat /\ <<k>> \in Seq(Nat) /\ Len(<<k>>) = 1
    OBVIOUS
  <2> QED
    BY <1>1, <1>10, <2>1 DEF TypeOK, Publish
<1>11. CASE Cancel
    BY <1>1, <1>11 DEF TypeOK, Cancel
<1>12. CASE Restart
  <2>1. /\ chan' \in [Tab -> Seq(Event)] /\ \A c \in Tab : Len(chan'[c]) = 0
        /\ pc' \in [Tab -> {"idle", "initial", "loop", "leaving"}]
        /\ initial' \in [Tab -> Nat \cup {NoWindow}]
        /\ seen' \in [Tab -> Nat \cup {NoWindow}]
        /\ events' \in Seq(Nat) /\ Len(events') = 0
    BY <1>12 DEF Restart, ForAll
  <2>2. /\ chanClosed' \in [Tab -> BOOLEAN] /\ cancelled' \in BOOLEAN
        /\ closed' \in BOOLEAN /\ viewersPending' \in BOOLEAN
    BY <1>12 DEF Restart, ForAll
  <2>3. /\ published' = NoWindow /\ last' = NoWindow /\ announced' = 0
        /\ clients' = {} /\ UNCHANGED lastSequence
    BY <1>12 DEF Restart
  <2> QED
    BY <1>1, <2>1, <2>2, <2>3, ClientBufferAssumption DEF TypeOK
<1>13. CASE UNCHANGED vars
    BY <1>1, <1>13 DEF TypeOK
<1> QED
    BY <1>2, <1>3, <1>4, <1>5, <1>6, <1>7, <1>8, <1>9, <1>10, <1>11, <1>12, <1>13
    DEF Next, Run, Serve

-----------------------------------------------------------------------------
(* Who is registered *)

\* Every step preserves what relates the map to the connections.
LEMMA ClientsStep ==
    IInv /\ [Next]_vars =>
        (/\ IsFiniteSet(clients) /\ NoSendOnClosed /\ ViewersAreConnections
         /\ CountChangesAnnounced /\ ClientsServed)'
<1> SUFFICES ASSUME IInv, [Next]_vars
             PROVE  (/\ IsFiniteSet(clients) /\ NoSendOnClosed
                     /\ ViewersAreConnections /\ CountChangesAnnounced
                     /\ ClientsServed)'
    OBVIOUS
<1> USE DEF NoSendOnClosed, ViewersAreConnections, CountChangesAnnounced,
            ClientsServed, stream, hub, conns, shown
<1>1. /\ TypeOK /\ IsFiniteSet(clients) /\ NoSendOnClosed
      /\ ViewersAreConnections /\ CountChangesAnnounced /\ ClientsServed
    BY DEF IInv
<1>2. /\ clients \subseteq Tab
      /\ pc \in [Tab -> {"idle", "initial", "loop", "leaving"}]
      /\ chan \in [Tab -> Seq(Event)]
      /\ chanClosed \in [Tab -> BOOLEAN]
      /\ closed \in BOOLEAN /\ viewersPending \in BOOLEAN
    BY <1>1 DEF TypeOK
<1>3. ASSUME NEW e \in Event, Broadcast(e)
      PROVE  /\ announced' = Cardinality(clients)
             /\ \A c \in Tab : c \notin clients => chan'[c] = chan[c]
    BY <1>1, <1>3, BroadcastChannels
<1>4. CASE ForwardWindow
  <2>1. Head(events) \in Nat
    BY <1>1, <1>4 DEF TypeOK, ForwardWindow
  <2>2. WindowEvent(Head(events)) \in Event /\ Broadcast(WindowEvent(Head(events)))
    BY <1>4, <2>1, Events DEF ForwardWindow
  <2>3. /\ UNCHANGED <<clients, closed, viewersPending, pc, chanClosed>>
        /\ announced' = Cardinality(clients)
        /\ \A c \in Tab : c \notin clients => chan'[c] = chan[c]
    BY <1>3, <1>4, <2>2 DEF ForwardWindow
  <2> QED
    BY <1>1, <2>3
<1>5. CASE CloseHub
  <2>1. clients' = {} /\ closed' = TRUE /\ UNCHANGED <<pc, chan>>
    BY <1>5 DEF CloseHub, CloseChannels
  <2>2. IsFiniteSet(clients')
    BY <2>1, FS_EmptySet
  <2> QED
    BY <1>1, <2>1, <2>2
<1>6. CASE ViewersTimer
  <2>1. UNCHANGED <<clients, closed, pc, chanClosed>>
    BY <1>6 DEF ViewersTimer
  <2>2. CASE closed
    BY <1>1, <1>6, <2>1, <2>2 DEF ViewersTimer
  <2>3. CASE ~closed
    <3>1. Broadcast(ViewersEvent) /\ ViewersEvent \in Event
      BY <1>6, <2>3, Events DEF ViewersTimer
    <3>2. /\ announced' = Cardinality(clients)
          /\ \A c \in Tab : c \notin clients => chan'[c] = chan[c]
      BY <1>3, <3>1
    <3> QED
      BY <1>1, <2>1, <3>2
  <2> QED
    BY <2>2, <2>3
<1>7. ASSUME NEW c \in Tab, Connect(c)
      PROVE  (/\ IsFiniteSet(clients) /\ NoSendOnClosed /\ ViewersAreConnections
              /\ CountChangesAnnounced /\ ClientsServed)'
  <2>1. /\ pc[c] = "idle" /\ pc'[c] = "initial"
        /\ \A q \in Tab \ {c} : pc'[q] = pc[q] /\ chanClosed'[q] = chanClosed[q]
        /\ chanClosed'[c] = closed
        /\ clients' = IF closed THEN clients ELSE clients \cup {c}
        /\ UNCHANGED <<closed, announced, chan>>
    BY <1>2, <1>7 DEF Connect, Accepts
  <2>2. viewersPending' = (viewersPending \/ ~closed)
    BY <1>7 DEF Connect, Accepts, ScheduleViewers
  <2>3. c \notin clients
    BY <1>1, <2>1
  <2>4. IsFiniteSet(clients')
    BY <1>1, <2>1, FS_AddElement
  <2>5. NoSendOnClosed' /\ ClientsServed'
    BY <1>1, <1>2, <2>1, <2>3
  <2>6. ViewersAreConnections'
    BY <1>1, <1>2, <2>1
  <2>7. CountChangesAnnounced'
    BY <1>1, <2>1, <2>2
  <2> QED
    BY <2>4, <2>5, <2>6, <2>7
<1>8. ASSUME NEW c \in Tab,
             WriteInitial(c) \/ WriteEvent(c) \/ ChannelClosed(c) \/ Disconnect(c)
      PROVE  (/\ IsFiniteSet(clients) /\ NoSendOnClosed /\ ViewersAreConnections
              /\ CountChangesAnnounced /\ ClientsServed)'
  <2>1. /\ UNCHANGED <<clients, closed, viewersPending, announced, chanClosed>>
        /\ pc[c] # "idle" /\ pc'[c] # "idle"
        /\ \A q \in Tab \ {c} : pc'[q] = pc[q] /\ chan'[q] = chan[q]
    BY <1>2, <1>8 DEF WriteInitial, WriteEvent, ChannelClosed, Disconnect
  <2> QED
    BY <1>1, <1>2, <2>1
<1>9. ASSUME NEW c \in Tab, Remove(c)
      PROVE  (/\ IsFiniteSet(clients) /\ NoSendOnClosed /\ ViewersAreConnections
              /\ CountChangesAnnounced /\ ClientsServed)'
  <2>1. /\ pc'[c] = "idle" /\ chan'[c] = <<>>
        /\ \A q \in Tab \ {c} : /\ pc'[q] = pc[q] /\ chan'[q] = chan[q]
                                /\ chanClosed'[q] = chanClosed[q]
        /\ clients' = clients \ {c}
        /\ UNCHANGED <<closed, announced>>
    BY <1>2, <1>9 DEF Remove, Others
  <2>2. viewersPending' = (viewersPending \/ ~closed)
    BY <1>9 DEF Remove, Others, ScheduleViewers
  <2>3. IsFiniteSet(clients')
    BY <1>1, <2>1, FS_RemoveElement
  <2>4. NoSendOnClosed' /\ ClientsServed'
    BY <1>1, <1>2, <2>1
  <2>5. ViewersAreConnections'
    BY <1>1, <1>2, <2>1
  <2>6. CountChangesAnnounced'
    BY <2>1, <2>2
  <2> QED
    BY <2>3, <2>4, <2>5, <2>6
<1>10. CASE UNCHANGED <<clients, closed, viewersPending, announced, pc, chan, chanClosed>>
    BY <1>1, <1>10
<1>11. CASE Restart
  <2>1. /\ clients' = {} /\ announced' = 0
        /\ \A c \in Tab : pc'[c] = "idle" /\ chan'[c] = <<>>
    BY <1>11 DEF Restart, ForAll
  <2>2. IsFiniteSet({}) /\ Cardinality({}) = 0
    BY FS_EmptySet
  <2> QED
    BY <2>1, <2>2
<1> QED
    BY <1>4, <1>5, <1>6, <1>7, <1>8, <1>9, <1>10, <1>11
    DEF Next, Run, Serve, Publish, Cancel, vars

-----------------------------------------------------------------------------
(* The order of windows *)

\* Every step preserves the order from the stream to the hub.
LEMMA StreamStep == IInv /\ [Next]_vars => StreamInOrder'
<1> SUFFICES ASSUME IInv, [Next]_vars PROVE StreamInOrder'
    OBVIOUS
<1> USE DEF StreamInOrder, stream, hub, conns
<1>1. /\ StreamInOrder
      /\ events \in Seq(Nat) /\ Len(events) <= 1
      /\ last \in Nat \cup {-1} /\ published \in Nat \cup {-1}
    BY DEF IInv, TypeOK, NoWindow
<1>2. CASE ForwardWindow
  <2>1. /\ events # <<>> /\ last' = Head(events) /\ events' = Tail(events)
        /\ UNCHANGED published
    BY <1>2 DEF ForwardWindow
  <2>2. Tail(events) = <<>>
    BY <1>1, <2>1
  <2> QED
    BY <1>1, <2>1, <2>2
<1>3. ASSUME NEW k \in 0..MaxSequence, Publish(k) PROVE StreamInOrder'
  <2>1. /\ k > published /\ published' = k /\ UNCHANGED last
        /\ events' = IF events = <<>> THEN <<k>> ELSE events
    BY <1>3 DEF Publish
  <2>2. Head(<<k>>) = k
    OBVIOUS
  <2>3. events # <<>> => Head(events) \in Nat
    BY <1>1
  <2> QED
    BY <1>1, <2>1, <2>2, <2>3
<1>4. CASE UNCHANGED <<last, events, published>>
    BY <1>1, <1>4
<1>5. CASE Restart
    BY <1>5 DEF Restart, NoWindow
<1> QED
    BY <1>2, <1>3, <1>4, <1>5
    DEF Next, Run, CloseHub, ViewersTimer, Connect, Accepts, Serve, WriteInitial, WriteEvent,
        ChannelClosed, Remove, Disconnect, Cancel, vars

\* Appending to a channel a window no older than the hub's last, which it
\* becomes, or an event that is no window, keeps the tab's order.
LEMMA AppendInOrder ==
    ASSUME TypeOK, NEW c \in Tab, TabInOrder(c), NEW e \in Event,
           NEW newLast \in Nat \cup {NoWindow}, last <= newLast,
           e.event = "window" => e.sequence = newLast,
           last' = newLast,
           chan'[c] = chan[c] \/ chan'[c] = Append(chan[c], e),
           initial'[c] = initial[c], seen'[c] = seen[c]
    PROVE  TabInOrder(c)'
<1> DEFINE s == chan[c]
           t == chan'[c]
<1>1. /\ s \in Seq(Event) /\ last \in Nat \cup {-1} /\ newLast \in Nat \cup {-1}
      /\ initial[c] \in Nat \cup {-1} /\ seen[c] \in Nat \cup {-1}
    BY DEF TypeOK, NoWindow
<1>2. \A x \in Event : x.sequence \in Nat \cup {-1}
    BY DEF Event, NoWindow
<1>3. \A i \in 1..Len(s) : s[i] \in Event /\ s[i].sequence \in Nat \cup {-1}
    BY <1>1, <1>2
<1>4. /\ seen'[c] <= newLast /\ initial'[c] <= newLast
      /\ initial'[c] # NoWindow => seen'[c] <= initial'[c]
    BY <1>1 DEF TabInOrder
<1>5. CASE t = s
    BY <1>1, <1>3, <1>4, <1>5 DEF TabInOrder
<1>6. CASE t = Append(s, e)
  <2>1. /\ Len(t) = Len(s) + 1 /\ Len(s) \in Nat
        /\ t[Len(s) + 1] = e
        /\ \A i \in 1..Len(s) : t[i] = s[i]
    BY <1>1, <1>6
  <2> HIDE DEF s, t
  <2>2. ASSUME NEW i \in 1..Len(t), t[i].event = "window"
        PROVE  /\ seen[c] <= t[i].sequence
               /\ initial[c] <= t[i].sequence
               /\ t[i].sequence <= newLast
    <3>1. CASE i = Len(s) + 1
      BY <1>1, <1>4, <2>1, <2>2, <3>1
    <3>2. CASE i # Len(s) + 1
      <4>1. i \in 1..Len(s) /\ t[i] = s[i]
        BY <2>1, <3>2
      <4>2. /\ seen[c] <= s[i].sequence
            /\ initial[c] <= s[i].sequence
            /\ s[i].sequence <= last
        BY <2>2, <4>1 DEF TabInOrder, s
      <4> QED
        BY <1>1, <1>3, <4>1, <4>2
    <3> QED
      BY <3>1, <3>2
  <2>3. ASSUME NEW i \in 1..Len(t), NEW j \in 1..Len(t), i < j,
               t[i].event = "window", t[j].event = "window"
        PROVE  t[i].sequence <= t[j].sequence
    <3>1. i \in 1..Len(s) /\ t[i] = s[i]
      BY <2>1, <2>3
    <3>2. CASE j = Len(s) + 1
      <4>1. t[i].sequence <= newLast
        BY <2>2, <2>3
      <4> QED
        BY <2>1, <2>3, <3>2, <4>1
    <3>3. CASE j # Len(s) + 1
      <4>1. j \in 1..Len(s) /\ t[j] = s[j]
        BY <2>1, <3>3
      <4> QED
        BY <2>3, <3>1, <4>1 DEF TabInOrder, s
    <3> QED
      BY <3>2, <3>3
  <2> QED
    BY <1>4, <2>2, <2>3 DEF TabInOrder, t
<1> QED
    BY <1>5, <1>6

\* Every step preserves the order at every tab.
LEMMA TabStep == IInv /\ [Next]_vars => (\A c \in Tab : TabInOrder(c))'
<1> SUFFICES ASSUME IInv, [Next]_vars, NEW c \in Tab PROVE TabInOrder(c)'
    OBVIOUS
<1> USE DEF stream, hub, conns, shown
<1>1. TypeOK /\ TabInOrder(c) /\ IsFiniteSet(clients)
    BY DEF IInv
<1>2. /\ chan[c] \in Seq(Event) /\ last \in Nat \cup {-1}
      /\ initial[c] \in Nat \cup {-1} /\ seen[c] \in Nat \cup {-1}
      /\ \A i \in 1..Len(chan[c]) : chan[c][i].sequence \in Nat \cup {-1}
  <2>1. /\ chan[c] \in Seq(Event) /\ last \in Nat \cup {-1}
        /\ initial[c] \in Nat \cup {-1} /\ seen[c] \in Nat \cup {-1}
    BY <1>1 DEF TypeOK, NoWindow
  <2>2. \A i \in 1..Len(chan[c]) : chan[c][i] \in Event
    BY <2>1
  <2>3. \A e \in Event : e.sequence \in Nat \cup {-1}
    BY DEF Event, NoWindow
  <2> QED
    BY <2>1, <2>2, <2>3
<1>3. CASE ForwardWindow
  <2> DEFINE k == Head(events)
  <2>1. k \in Nat
    BY <1>1, <1>3 DEF TypeOK, ForwardWindow
  <2>2. /\ last' = k /\ Broadcast(WindowEvent(k))
        /\ UNCHANGED <<initial, seen>>
    BY <1>3 DEF ForwardWindow
  <2>3. last <= k
    BY <1>3 DEF ForwardWindow, IInv, StreamInOrder
  <2>4. WindowEvent(k) \in Event /\ WindowEvent(k).sequence = k
    BY <2>1, Events DEF WindowEvent
  <2> HIDE DEF k
  <2>5. chan'[c] = chan[c] \/ chan'[c] = Append(chan[c], WindowEvent(k))
    BY <1>1, <2>2, <2>4, BroadcastChannels
  <2> QED
    BY <1>1, <2>1, <2>2, <2>3, <2>4, <2>5, AppendInOrder
<1>4. CASE ViewersTimer
  <2>1. UNCHANGED <<last, initial, seen>>
    BY <1>4 DEF ViewersTimer
  <2>2. ViewersEvent \in Event /\ ViewersEvent.event # "window"
    BY Events DEF ViewersEvent
  <2>3. chan'[c] = chan[c] \/ chan'[c] = Append(chan[c], ViewersEvent)
    <3>1. CASE closed
      BY <1>4, <3>1 DEF ViewersTimer
    <3>2. CASE ~closed
      BY <1>1, <1>4, <2>2, <3>2, BroadcastChannels DEF ViewersTimer
    <3> QED
      BY <3>1, <3>2
  <2>4. last \in Nat \cup {NoWindow} /\ last <= last
    BY <1>2 DEF NoWindow
  <2> QED
    BY <1>1, <2>1, <2>2, <2>3, <2>4, AppendInOrder
<1>5. CASE UNCHANGED <<last, initial, seen, chan>>
    BY <1>1, <1>5 DEF TabInOrder
<1>6. ASSUME NEW d \in Tab, Connect(d) PROVE TabInOrder(c)'
  <2>1. CASE c # d
    <3>1. UNCHANGED <<last, chan, seen>> /\ initial'[c] = initial[c]
      BY <1>1, <1>6, <2>1 DEF Connect, Accepts, TypeOK
    <3> QED
      BY <1>1, <3>1 DEF TabInOrder
  <2>2. CASE c = d
    <3>1. /\ UNCHANGED <<last, chan, seen>>
          /\ initial'[c] = -1 \/ initial'[c] = last
          /\ pc[c] = "idle"
      BY <1>1, <1>6, <2>2 DEF Connect, Accepts, TypeOK, NoWindow
    <3>2. chan'[c] = <<>> /\ Len(<<>>) = 0
      BY <3>1 DEF IInv, ClientsServed
    <3>3. seen'[c] <= last' /\ initial'[c] <= last'
      BY <1>1, <1>2, <3>1 DEF TabInOrder
    <3>4. initial'[c] # -1 => seen'[c] <= initial'[c]
      BY <1>1, <3>1 DEF TabInOrder
    <3>5. 1..Len(chan'[c]) = {}
      BY <3>2
    <3> QED
      BY <3>3, <3>4, <3>5 DEF TabInOrder, NoWindow
  <2> QED
    BY <2>1, <2>2
<1>7. ASSUME NEW d \in Tab, WriteInitial(d) PROVE TabInOrder(c)'
  <2>1. CASE c # d
    <3>1. UNCHANGED <<last, chan>> /\ initial'[c] = initial[c]
          /\ seen'[c] = seen[c]
      BY <1>1, <1>7, <2>1 DEF WriteInitial, Show, TypeOK
    <3> QED
      BY <1>1, <3>1 DEF TabInOrder
  <2>2. CASE c = d
    <3>1. /\ UNCHANGED <<last, chan>> /\ initial'[c] = -1
          /\ \/ initial[c] # NoWindow /\ seen'[c] = initial[c]
             \/ seen'[c] = seen[c]
      BY <1>1, <1>7, <2>2 DEF WriteInitial, Show, TypeOK, NoWindow
    <3> QED
      BY <1>1, <1>2, <3>1 DEF TabInOrder, NoWindow
  <2> QED
    BY <2>1, <2>2
<1>8. ASSUME NEW d \in Tab, WriteEvent(d) PROVE TabInOrder(c)'
  <2>1. CASE c # d
    <3>1. UNCHANGED <<last, initial>> /\ chan'[c] = chan[c]
          /\ seen'[c] = seen[c]
      BY <1>1, <1>8, <2>1 DEF WriteEvent, Show, TypeOK
    <3> QED
      BY <1>1, <3>1 DEF TabInOrder
  <2>2. CASE c = d
    <3> DEFINE s == chan[c]
               t == chan'[c]
    <3>1. /\ UNCHANGED <<last, initial>> /\ s # <<>> /\ t = Tail(s)
          /\ \/ s[1].event = "window" /\ seen'[c] = s[1].sequence
             \/ seen'[c] = seen[c]
      BY <1>1, <1>8, <2>2 DEF WriteEvent, Show, TypeOK
    <3>2. /\ Len(s) \in Nat \ {0} /\ Len(t) = Len(s) - 1
          /\ \A i \in 1..Len(t) : i + 1 \in 1..Len(s) /\ t[i] = s[i + 1]
      BY <1>2, <3>1
    <3>3. initial[c] = -1
      BY <1>8, <2>2 DEF WriteEvent, IInv, OnlyInitially, NoWindow
    <3>4. 1 \in 1..Len(s)
      BY <3>2
    <3> HIDE DEF t
    <3>5. seen'[c] \in Nat \cup {-1} /\ seen'[c] <= last
      BY <1>1, <1>2, <3>1, <3>4 DEF TabInOrder
    <3>6. ASSUME NEW i \in 1..Len(t), t[i].event = "window"
          PROVE  seen'[c] <= t[i].sequence /\ t[i].sequence <= last
                 /\ initial[c] <= t[i].sequence
      <4>1. i + 1 \in 1..Len(s) /\ t[i] = s[i + 1] /\ 1 < i + 1
        BY <3>2
      <4> QED
        BY <1>1, <3>1, <3>4, <3>6, <4>1 DEF TabInOrder
    <3>7. ASSUME NEW i \in 1..Len(t), NEW j \in 1..Len(t), i < j,
                 t[i].event = "window", t[j].event = "window"
          PROVE  t[i].sequence <= t[j].sequence
      <4>1. /\ i + 1 \in 1..Len(s) /\ t[i] = s[i + 1]
            /\ j + 1 \in 1..Len(s) /\ t[j] = s[j + 1]
            /\ i + 1 < j + 1
        BY <3>2, <3>7
      <4> QED
        BY <1>1, <3>7, <4>1 DEF TabInOrder
    <3>8. initial'[c] = -1 /\ last' = last
      BY <3>1, <3>3
    <3> QED
      BY <1>2, <3>3, <3>5, <3>6, <3>7, <3>8 DEF TabInOrder, NoWindow, t
  <2> QED
    BY <2>1, <2>2
<1>9. ASSUME NEW d \in Tab, Remove(d) PROVE TabInOrder(c)'
  <2>1. /\ UNCHANGED <<last, initial, seen>>
        /\ chan'[c] = <<>> \/ chan'[c] = chan[c]
    BY <1>1, <1>9 DEF Remove, Others, TypeOK
  <2> QED
    BY <1>1, <2>1 DEF TabInOrder
<1>10. CASE Restart
  <2>1. /\ last' = -1 /\ seen'[c] = -1 /\ initial'[c] = -1
        /\ chan'[c] = <<>>
    BY <1>10 DEF Restart, ForAll, NoWindow
  <2>2. 1..Len(chan'[c]) = {}
    BY <2>1
  <2> QED
    BY <2>1, <2>2 DEF TabInOrder, NoWindow
<1> QED
    BY <1>3, <1>4, <1>5, <1>6, <1>7, <1>8, <1>9, <1>10
    DEF Next, Run, CloseHub, Serve, ChannelClosed, Disconnect, Publish, Cancel, vars

\* Every step preserves that an initial window waits only to be written first.
LEMMA InitialStep == IInv /\ [Next]_vars => OnlyInitially'
<1> SUFFICES ASSUME IInv, [Next]_vars, NEW c \in Tab, pc'[c] # "initial"
             PROVE  initial'[c] = NoWindow
    BY DEF OnlyInitially
<1> USE DEF stream, hub, conns, shown
<1>1. TypeOK /\ OnlyInitially
    BY DEF IInv
<1>2. CASE UNCHANGED <<pc, initial>>
    BY <1>1, <1>2 DEF OnlyInitially
<1>3. ASSUME NEW d \in Tab, Connect(d) \/ WriteInitial(d) PROVE initial'[c] = NoWindow
  <2>1. CASE c # d
    <3>1. pc'[c] = pc[c] /\ initial'[c] = initial[c]
      BY <1>1, <1>3, <2>1 DEF Connect, Accepts, WriteInitial, TypeOK
    <3> QED
      BY <1>1, <3>1 DEF OnlyInitially
  <2>2. CASE c = d
    BY <1>1, <1>3, <2>2 DEF Connect, Accepts, WriteInitial, TypeOK
  <2> QED
    BY <2>1, <2>2
<1>4. ASSUME NEW d \in Tab, WriteEvent(d) \/ ChannelClosed(d) \/ Remove(d) \/ Disconnect(d)
      PROVE  initial'[c] = NoWindow
  <2>1. /\ UNCHANGED initial
        /\ pc'[c] = pc[c] \/ pc[c] \in {"loop", "leaving"}
    BY <1>1, <1>4 DEF WriteEvent, ChannelClosed, Remove, Others, Disconnect, TypeOK
  <2> QED
    BY <1>1, <2>1 DEF OnlyInitially
<1>5. CASE Restart
    BY <1>5 DEF Restart, ForAll
<1> QED
    BY <1>2, <1>3, <1>4, <1>5
    DEF Next, Run, ForwardWindow, CloseHub, ViewersTimer, Serve, Publish, Cancel, vars

\* Every step preserves that a tab remembers what this process sent it.
LEMMA RememberedStep == IInv /\ [Next]_vars => Remembered'
<1> SUFFICES ASSUME IInv, [Next]_vars, NEW c \in Tab, seen'[c] # NoWindow
             PROVE  lastSequence'[c] = seen'[c]
    BY DEF Remembered
<1> USE DEF stream, hub, conns, shown
<1>1. TypeOK /\ Remembered
    BY DEF IInv
<1>2. CASE UNCHANGED shown
    BY <1>1, <1>2 DEF Remembered
<1>3. ASSUME NEW d \in Tab, NEW k \in Nat \cup {NoWindow}, Show(d, k)
      PROVE  lastSequence'[c] = seen'[c]
    BY <1>1, <1>3 DEF Show, TypeOK, Remembered
<1>4. ASSUME NEW d \in Tab, WriteInitial(d) PROVE lastSequence'[c] = seen'[c]
  <2>1. initial[d] \in Nat \cup {NoWindow}
    BY <1>1 DEF TypeOK
  <2> QED
    BY <1>2, <1>3, <1>4, <2>1 DEF WriteInitial
<1>5. ASSUME NEW d \in Tab, WriteEvent(d) PROVE lastSequence'[c] = seen'[c]
  <2>1. chan[d] # <<>> => Head(chan[d]) \in Event
    BY <1>1 DEF TypeOK
  <2>2. \A e \in Event : e.sequence \in Nat \cup {NoWindow}
    BY DEF Event
  <2> QED
    BY <1>2, <1>3, <1>5, <2>1, <2>2 DEF WriteEvent
<1>6. CASE Restart
    BY <1>6 DEF Restart, ForAll
<1> QED
    BY <1>2, <1>4, <1>5, <1>6
    DEF Next, Run, ForwardWindow, CloseHub, ViewersTimer, Connect, Serve,
        ChannelClosed, Remove, Disconnect, Publish, Cancel, vars

-----------------------------------------------------------------------------
(* The theorems *)

\* The invariant holds of every reachable state.
THEOREM Invariant == Spec => []IInv
<1>1. Init => IInv
  <2> SUFFICES ASSUME Init PROVE IInv
    OBVIOUS
  <2> USE DEF Init, ForAll, NoWindow
  <2>1. chan \in [Tab -> Seq(Event)] /\ \A c \in Tab : chan[c] = <<>> /\ Len(chan[c]) = 0
    OBVIOUS
  <2>2. Cardinality(clients) = 0 /\ IsFiniteSet(clients)
    BY FS_EmptySet
  <2>3. TypeOK
    <3>1. /\ cancelled \in BOOLEAN /\ closed \in BOOLEAN /\ viewersPending \in BOOLEAN
          /\ chanClosed \in [Tab -> BOOLEAN]
      OBVIOUS
    <3>2. \A c \in Tab : Len(chan[c]) <= ClientBuffer
      BY <2>1, ClientBufferAssumption
    <3> QED
      BY <2>1, <3>1, <3>2 DEF TypeOK
  <2>4. NoSendOnClosed /\ ViewersAreConnections /\ CountChangesAnnounced
    BY <2>2 DEF NoSendOnClosed, ViewersAreConnections, CountChangesAnnounced
  <2>5. ClientsServed /\ OnlyInitially /\ StreamInOrder /\ Remembered
    BY <2>1 DEF ClientsServed, OnlyInitially, StreamInOrder, Remembered
  <2>6. ASSUME NEW c \in Tab PROVE TabInOrder(c)
    BY <2>1 DEF TabInOrder
  <2> QED
    BY <2>2, <2>3, <2>4, <2>5, <2>6 DEF IInv
<1>2. IInv /\ [Next]_vars => IInv'
    BY TypeStep, ClientsStep, InitialStep, StreamStep, TabStep, RememberedStep DEF IInv
<1> QED
    BY <1>1, <1>2, PTL DEF Spec

\* Every variable keeps its type, and no buffer exceeds its capacity.
THEOREM TypeCorrect == Spec => []TypeOK
<1>1. IInv => TypeOK
    BY DEF IInv
<1> QED
    BY <1>1, Invariant, PTL

\* The hub never sends on, nor closes, a channel it has closed.
THEOREM NeverSendsOnClosed == Spec => []NoSendOnClosed
<1>1. IInv => NoSendOnClosed
    BY DEF IInv
<1> QED
    BY <1>1, Invariant, PTL

\* Until the shutdown viewers are exactly the connections being served.
THEOREM ViewersExact == Spec => []ViewersAreConnections
<1>1. IInv => ViewersAreConnections
    BY DEF IInv
<1> QED
    BY <1>1, Invariant, PTL

\* The debounce timer forgets no change of the number of viewers.
THEOREM ChangesAnnounced == Spec => []CountChangesAnnounced
<1>1. IInv => CountChangesAnnounced
    BY DEF IInv
<1> QED
    BY <1>1, Invariant, PTL

-----------------------------------------------------------------------------
(* The hub implements the feed of windows *)

\* What the mapping of a step looks at.
LEMMA FeedTypes ==
    ASSUME IInv
    PROVE  /\ last \in Nat \cup {-1}
           /\ seen \in [Tab -> Nat \cup {-1}]
           /\ lastSequence \in [Tab -> Nat \cup {-1}]
           /\ initial \in [Tab -> Nat \cup {-1}]
           /\ \A c \in Tab : seen[c] <= last
BY DEF IInv, TypeOK, TabInOrder, NoWindow

\* A window forwarded to the connections is the newest, if it is new at all.
LEMMA ForwardWindowMaps ==
    ASSUME IInv, ForwardWindow
    PROVE  Feed!Forward \/ UNCHANGED Feed!vars
<1>1. /\ last' = Head(events) /\ events # <<>> /\ UNCHANGED <<seen, lastSequence>>
  BY DEF ForwardWindow, shown
<1>2. Head(events) \in Nat /\ last <= Head(events)
  BY <1>1 DEF IInv, TypeOK, StreamInOrder
<1>3. last \in Nat \cup {-1}
  BY FeedTypes
<1>4. CASE last = Head(events)
  BY <1>1, <1>4 DEF Feed!vars
<1>5. CASE last # Head(events)
  BY <1>1, <1>2, <1>3, <1>5 DEF Feed!Forward
<1> QED
  BY <1>4, <1>5

\* The initial event, if it is written, shows a window of the feed: the hub may
\* have forwarded others since, but shown none of them to this connection.
LEMMA WriteInitialMaps ==
    ASSUME IInv, NEW c \in Tab, WriteInitial(c)
    PROVE  Feed!Show(c) \/ UNCHANGED Feed!vars
<1>1. CASE UNCHANGED shown
  BY <1>1 DEF WriteInitial, hub, shown, Feed!vars
<1>2. CASE ~UNCHANGED shown
  <2>1. initial[c] # NoWindow /\ Show(c, initial[c]) /\ UNCHANGED last
    BY <1>2 DEF WriteInitial, hub
  <2>2. seen[c] <= initial[c] /\ initial[c] <= last
    BY <2>1 DEF IInv, TabInOrder
  <2>3. initial[c] \in 0 .. last /\ initial[c] >= seen[c]
    BY <2>1, <2>2, FeedTypes DEF NoWindow
  <2> QED
    BY <2>1, <2>3 DEF Show, Feed!Show
<1> QED
  BY <1>1, <1>2

\* What comes out of a connection's buffer is no older than what went before.
LEMMA WriteEventMaps ==
    ASSUME IInv, NEW c \in Tab, WriteEvent(c)
    PROVE  Feed!Show(c) \/ UNCHANGED Feed!vars
<1> DEFINE e == Head(chan[c])
<1>1. CASE UNCHANGED shown
  BY <1>1 DEF WriteEvent, hub, shown, Feed!vars
<1>2. CASE ~UNCHANGED shown
  <2>1. e.event = "window" /\ Show(c, e.sequence) /\ UNCHANGED last
    BY <1>2 DEF WriteEvent, hub
  <2>2. e = chan[c][1] /\ 1 \in 1 .. Len(chan[c]) /\ e \in Event
    BY DEF WriteEvent, IInv, TypeOK
  <2>3. seen[c] <= e.sequence /\ e.sequence <= last
    BY <2>1, <2>2 DEF IInv, TabInOrder
  <2>4. e.sequence \in Nat
    BY <2>1, <2>2 DEF Event
  <2> HIDE DEF e
  <2>5. e.sequence \in 0 .. last /\ e.sequence >= seen[c]
    BY <2>3, <2>4, FeedTypes
  <2> QED
    BY <2>1, <2>5 DEF Show, Feed!Show
<1> QED
  BY <1>1, <1>2

\* The hub is a feed of windows: forwarding maps to a newer window, what
\* ServeHTTP writes to what a viewer is shown, a death of the process to a new
\* feed, and connections, timers, announcements and the shutdown to a stutter.
THEOREM Refinement == Spec => ImplementsWindowFeed
<1>1. Init => Feed!Init
  BY DEF Init, Feed!Init, ForAll, NoWindow
<1>2. IInv /\ [Next]_vars => [Feed!Next]_(Feed!vars)
  <2> SUFFICES ASSUME IInv, [Next]_vars PROVE [Feed!Next]_(Feed!vars)
    OBVIOUS
  <2>1. CASE ForwardWindow
    BY <2>1, ForwardWindowMaps DEF Feed!Next
  <2>2. ASSUME NEW c \in Tab, WriteInitial(c) \/ WriteEvent(c)
        PROVE  [Feed!Next]_(Feed!vars)
    BY <2>2, WriteInitialMaps, WriteEventMaps DEF Feed!Next
  <2>3. CASE Restart
    BY <2>3 DEF Restart, ForAll, NoWindow, Feed!Restart, Feed!Next
  <2>4. CASE UNCHANGED <<last, shown>>
    BY <2>4 DEF shown, Feed!vars
  <2> QED
    BY <2>1, <2>2, <2>3, <2>4
    DEF Next, Run, CloseHub, ViewersTimer, Connect, Serve, ChannelClosed, Remove,
        Disconnect, Publish, Cancel, vars, hub, conns
<1> QED
  BY <1>1, <1>2, Invariant, PTL DEF Spec, ImplementsWindowFeed, Feed!Spec

\* In every feed, what a viewer remembers is what this feed showed it, if it
\* showed it anything.
FeedInv == /\ last \in Nat \cup {-1}
           /\ seen \in [Tab -> Nat \cup {-1}]
           /\ lastSequence \in [Tab -> Nat \cup {-1}]
           /\ Remembered

\* A viewer of any feed goes back only after a restart.
THEOREM FeedsGoBackOnlyAfterRestart == Feed!Spec => Feed!BackOnlyAfterRestart
<1> USE DEF NoWindow
<1>1. Feed!Init => FeedInv
  BY DEF Feed!Init, FeedInv, Remembered
<1>2. FeedInv /\ [Feed!Next]_(Feed!vars) => FeedInv'
  <2> SUFFICES ASSUME FeedInv, [Feed!Next]_(Feed!vars) PROVE FeedInv'
    OBVIOUS
  <2>1. CASE Feed!Forward \/ Feed!Restart \/ UNCHANGED Feed!vars
    BY <2>1 DEF Feed!Forward, Feed!Restart, Feed!vars, FeedInv, Remembered
  <2>2. ASSUME NEW c \in Tab, Feed!Show(c) PROVE FeedInv'
    <3>1. PICK k \in 0 .. last : /\ seen' = [seen EXCEPT ![c] = k]
                                 /\ lastSequence' = [lastSequence EXCEPT ![c] = k]
                                 /\ last' = last
      BY <2>2 DEF Feed!Show
    <3> QED
      BY <3>1 DEF FeedInv, Remembered
  <2> QED
    BY <2>1, <2>2 DEF Feed!Next
<1>3. FeedInv /\ [Feed!Next]_(Feed!vars) => [Feed!NoneBack]_(Feed!vars)
  <2> SUFFICES ASSUME FeedInv, Feed!Next, NEW c \in Tab, seen[c] # -1
               PROVE  ~(lastSequence'[c] < lastSequence[c])
    BY DEF Feed!NoneBack
  <2>1. lastSequence[c] = seen[c] /\ lastSequence[c] \in Nat \cup {-1}
    BY DEF FeedInv, Remembered
  <2>2. CASE Feed!Forward \/ Feed!Restart
    BY <2>1, <2>2 DEF Feed!Forward, Feed!Restart
  <2>3. ASSUME NEW d \in Tab, Feed!Show(d)
        PROVE  ~(lastSequence'[c] < lastSequence[c])
    <3>1. PICK k \in 0 .. last : /\ k >= seen[d]
                                 /\ lastSequence' = [lastSequence EXCEPT ![d] = k]
      BY <2>3 DEF Feed!Show
    <3> QED
      BY <2>1, <3>1 DEF FeedInv
  <2> QED
    BY <2>2, <2>3 DEF Feed!Next
<1> QED
  BY <1>1, <1>2, <1>3, PTL DEF Feed!Spec, Feed!BackOnlyAfterRestart

\* No tab is sent a window older than one the same process sent it before: the
\* hub is a feed, and no feed does that.
THEOREM WindowsInOrder == Spec => ReloadsOnlyAfterRestart
<1> DEFINE InOrder == \A c \in Tab : lastSequence'[c] < lastSequence[c] => seen[c] = NoWindow
<1>1. TypeOK /\ [Feed!NoneBack]_(Feed!vars) => [InOrder]_vars
  <2> SUFFICES ASSUME TypeOK, [Feed!NoneBack]_(Feed!vars) PROVE InOrder
    OBVIOUS
  <2>1. CASE Feed!NoneBack
    BY <2>1 DEF Feed!NoneBack, NoWindow
  <2>2. CASE UNCHANGED Feed!vars
    <3>1. \A c \in Tab : lastSequence[c] \in Nat \cup {-1} /\ lastSequence' = lastSequence
      BY <2>2 DEF Feed!vars, TypeOK, NoWindow
    <3> QED
      BY <3>1
  <2> QED
    BY <2>1, <2>2
<1>2. [][InOrder]_vars => ReloadsOnlyAfterRestart
  BY PTL DEF ReloadsOnlyAfterRestart
<1> HIDE DEF InOrder
<1> QED
  BY <1>1, <1>2, Refinement, FeedsGoBackOnlyAfterRestart, TypeCorrect, PTL
  DEF ImplementsWindowFeed, Feed!BackOnlyAfterRestart
=============================================================================
