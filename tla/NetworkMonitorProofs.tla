------------------------ MODULE NetworkMonitorProofs ------------------------
(***************************************************************************)
(* Theorems about NetworkMonitor for every set of URLs and every number of *)
(* starts and responses.                                                   *)
(***************************************************************************)
EXTENDS NetworkMonitor, TLAPS

Calls == [pc : {"called", "wanted", "matched", "appended"}, event : NetworkEvent]

\* The response a callback is at work on is younger than those recorded and
\* older than the next one.
OrderInv ==
  /\ TypeOK
  /\ \A k \in DOMAIN events : events[k].id < received
  /\ callback # Quiet => callback.event.id < received
  /\ callback # Quiet /\ callback.pc # "appended" =>
       \A k \in DOMAIN events : events[k].id < callback.event.id

\* A response is of the start in which it arrived, and of none while the list is
\* still to be cleared; a callback that is done with the list has its event
\* there, unless the list was cleared since.  A download that has been heard of
\* is in the list.
HeardInv ==
  /\ pc \in {"active", "unset", "armed", "waited"} => starts > 0
  /\ callback # Quiet =>
       /\ callback.event.start <= starts
       /\ pc \in {"active", "unset"} => callback.event.start < starts
       /\ callback.pc = "appended" /\ callback.event.start = starts /\ Started =>
            callback.event \in Range(events)
  /\ Started => heard \subseteq {e.id : e \in Downloads(events)}

\* Before the first registration there are no callbacks; in the first start the
\* list is never cleared again, so that what sets the event stays in the list.
FirstInv ==
  /\ ~registered => callback = Quiet /\ ~download_event
  /\ starts = 0 => pc = "idle"
  /\ pc \in {"idle", "active", "unset"} /\ starts <= 1 => ~registered
  /\ starts <= 1 =>
       /\ callback # Quiet /\ callback.pc = "appended" => callback.event \in Range(events)
       /\ download_event => Downloads(events) # {}
       /\ pc = "waited" /\ signalled => download_event
  /\ SignalMeansDownload

-----------------------------------------------------------------------------
(* Types and the order of arrival.                                           *)

\* A callback is at work on a response, or there is none.
LEMMA CallbackType ==
  ASSUME TypeOK, callback # Quiet
  PROVE  callback \in Calls /\ callback.event \in NetworkEvent /\ callback.event.id \in Nat
         /\ callback.event.start \in Nat
<1>1. callback \in Calls
  BY DEF TypeOK, Calls
<1> QED
  BY <1>1 DEF Calls, NetworkEvent

\* The list is of events.
LEMMA EventType ==
  ASSUME TypeOK, NEW k \in DOMAIN events
  PROVE  events[k] \in NetworkEvent /\ events[k].id \in Nat
<1>1. events \in Seq(NetworkEvent)
  BY DEF TypeOK
<1>2. events[k] \in NetworkEvent
  BY <1>1
<1> QED
  BY <1>2 DEF NetworkEvent

\* There is nothing yet.
LEMMA OrderInit == Init => OrderInv
<1> SUFFICES ASSUME Init PROVE OrderInv
  OBVIOUS
<1>1. << >> \in Seq(NetworkEvent) /\ DOMAIN << >> = {}
  OBVIOUS
<1>2. /\ events = << >> /\ callback = Quiet /\ answer \in SUBSET NetworkEvent /\ heard \in SUBSET Nat
      /\ starts = 0 /\ received = 0 /\ pc = "idle" /\ url_pattern \in Patterns
  BY DEF Init, Patterns
<1>3. monitoring \in BOOLEAN /\ registered \in BOOLEAN /\ download_event \in BOOLEAN /\ signalled \in BOOLEAN
  BY Zenon DEF Init
<1> QED
  BY <1>1, <1>2, <1>3, BoundsAssumption DEF OrderInv, TypeOK

\* What appending an event leaves.
LEMMA AppendedEvent ==
  ASSUME OrderInv, AppendEvent
  PROVE  /\ Len(events) \in Nat /\ Len(events') = Len(events) + 1
         /\ events' \in Seq(NetworkEvent)
         /\ DOMAIN events = 1 .. Len(events) /\ DOMAIN events' = 1 .. Len(events) + 1
         /\ \A k \in 1 .. Len(events) : events'[k] = events[k]
         /\ events'[Len(events) + 1] = callback.event
<1>1. callback # Quiet
  BY DEF AppendEvent, Quiet
<1>2. callback.event \in NetworkEvent /\ events \in Seq(NetworkEvent)
  BY <1>1, CallbackType DEF OrderInv, TypeOK
<1>3. events' = Append(events, callback.event)
  BY DEF AppendEvent
<1> DEFINE e == callback.event
<1> HIDE DEF e
<1>4. e \in NetworkEvent /\ events' = Append(events, e)
  BY <1>2, <1>3 DEF e
<1>5. /\ Len(events) \in Nat /\ Len(events') = Len(events) + 1
      /\ events' \in Seq(NetworkEvent)
      /\ DOMAIN events = 1 .. Len(events) /\ DOMAIN events' = 1 .. Len(events) + 1
      /\ \A k \in 1 .. Len(events) : events'[k] = events[k]
      /\ events'[Len(events) + 1] = e
  BY <1>2, <1>4
<1> QED
  BY <1>5 DEF e

\* The order is that of arrival, whichever thread moves.
LEMMA OrderNext == OrderInv /\ [Next]_vars => OrderInv'
<1> SUFFICES ASSUME OrderInv, [Next]_vars PROVE OrderInv'
  OBVIOUS
<1> USE DEF window, result, thread, source
<1>0. TypeOK /\ MaxStarts \in Nat /\ MaxResponses \in Nat /\ starts \in Nat /\ received \in Nat
  BY BoundsAssumption DEF OrderInv, TypeOK
<1>1. CASE Activate
  BY <1>0, <1>1 DEF Activate, OrderInv, TypeOK
<1>2. CASE ClearEvent
  BY <1>0, <1>2 DEF ClearEvent, OrderInv, TypeOK
<1>3. CASE ClearEvents
  <2>1. << >> \in Seq(NetworkEvent) /\ DOMAIN << >> = {}
    OBVIOUS
  <2> QED
    BY <1>0, <1>3, <2>1 DEF ClearEvents, OrderInv, TypeOK
<1>4. CASE Wait
  BY <1>0, <1>4 DEF Wait, OrderInv, TypeOK
<1>5. CASE ReadDownloads
  <2>1. answer' \in SUBSET NetworkEvent
    <3>1. Range(events) \in SUBSET NetworkEvent
      BY <1>0 DEF TypeOK, Range
    <3> QED
      BY <1>5, <3>1 DEF ReadDownloads, Downloads
  <2> QED
    BY <1>0, <1>5, <2>1 DEF ReadDownloads, OrderInv, TypeOK
<1>6. CASE Stop
  BY <1>0, <1>6 DEF Stop, OrderInv, TypeOK
<1>7. CASE Receive
  <2>1. PICK url \in Urls, download \in BOOLEAN :
          callback' = [pc |-> "called",
                       event |-> [id |-> received, url |-> url, triggered_download |-> download,
                                  start |-> IF Started THEN starts ELSE 0]]
    BY <1>7 DEF Receive
  <2>2. callback' \in Calls /\ callback'.event.id = received /\ callback' # Quiet
    BY <1>0, <2>1 DEF Calls, NetworkEvent, Quiet
  <2>3. /\ received' = received + 1 /\ received' \in 0 .. MaxResponses
        /\ UNCHANGED <<thread, monitoring, download_event, events, heard>>
    BY <1>0, <1>7 DEF Receive, TypeOK
  <2>4. TypeOK'
    BY <1>0, <2>2, <2>3 DEF TypeOK, Calls
  <2>5. \A k \in DOMAIN events' : events'[k].id < received' /\ events'[k].id < callback'.event.id
    <3>1. \A k \in DOMAIN events : events[k].id < received /\ events[k].id \in Nat
      BY <1>0, EventType DEF OrderInv
    <3> QED
      BY <1>0, <2>2, <2>3, <3>1
  <2> QED
    BY <1>0, <2>2, <2>3, <2>4, <2>5 DEF OrderInv
<1>8. CASE CheckMonitoring \/ CheckPattern
  <2>1. /\ UNCHANGED <<thread, monitoring, download_event, events, received, heard>>
        /\ callback # Quiet /\ callback.pc # "appended"
        /\ callback' \in {Quiet, [callback EXCEPT !.pc = "wanted"], [callback EXCEPT !.pc = "matched"]}
    BY <1>8 DEF CheckMonitoring, CheckPattern, Return, Quiet
  <2>2. callback \in Calls
    BY <1>0, <2>1, CallbackType
  <2>3. \/ callback' = Quiet
        \/ callback' \in Calls /\ callback'.event = callback.event
    BY <2>1, <2>2 DEF Calls
  <2>4. TypeOK'
    BY <1>0, <2>1, <2>3 DEF TypeOK, Calls
  <2> QED
    BY <2>1, <2>3, <2>4 DEF OrderInv
<1>9. CASE AppendEvent
  <2> DEFINE n == Len(events)
             e == callback.event
  <2>1. /\ UNCHANGED <<thread, monitoring, download_event, received, heard>>
        /\ callback # Quiet /\ callback.pc # "appended"
        /\ callback' = [callback EXCEPT !.pc = "appended"]
    BY <1>9 DEF AppendEvent, Quiet
  <2>2. callback \in Calls /\ e \in NetworkEvent /\ e.id \in Nat
    BY <1>0, <2>1, CallbackType
  <2>3. callback' \in Calls /\ callback'.event = e /\ callback'.pc = "appended"
    BY <2>1, <2>2 DEF Calls
  <2>4. /\ n \in Nat /\ events' \in Seq(NetworkEvent)
        /\ DOMAIN events = 1 .. n /\ DOMAIN events' = 1 .. n + 1
        /\ \A k \in 1 .. n : events'[k] = events[k]
        /\ events'[n + 1] = e
    BY <1>9, AppendedEvent
  <2>5. /\ \A k \in 1 .. n : events[k].id < received /\ events[k].id < e.id
        /\ \A j, k \in 1 .. n : j < k => events[j].id < events[k].id
        /\ e.id < received
    BY <2>1, <2>4 DEF OrderInv, TypeOK
  <2> HIDE DEF n, e
  <2>6. \A k \in DOMAIN events' : events'[k].id < received'
    <3> SUFFICES ASSUME NEW k \in 1 .. n + 1 PROVE events'[k].id < received'
      BY <2>4
    <3>1. k \in 1 .. n \/ k = n + 1
      BY <2>4
    <3> QED
      BY <2>1, <2>4, <2>5, <3>1
  <2>7. \A j, k \in DOMAIN events' : j < k => events'[j].id < events'[k].id
    <3> SUFFICES ASSUME NEW j \in 1 .. n + 1, NEW k \in 1 .. n + 1, j < k
                 PROVE  events'[j].id < events'[k].id
      BY <2>4
    <3>1. j \in 1 .. n /\ (k \in 1 .. n \/ k = n + 1)
      BY <2>4
    <3> QED
      BY <2>4, <2>5, <3>1
  <2>8. TypeOK'
    BY <1>0, <2>1, <2>3, <2>4, <2>7 DEF TypeOK, Calls
  <2> QED
    BY <2>1, <2>3, <2>5, <2>6, <2>8 DEF OrderInv
<1>10. CASE Signal
  <2>1. /\ UNCHANGED <<thread, monitoring, events, received>>
        /\ callback # Quiet /\ callback' = Quiet
        /\ download_event' = (download_event \/ callback.event.triggered_download)
        /\ heard' \in {heard, heard \cup {callback.event.id}}
    BY <1>10 DEF Signal, Hear, Return, Quiet
  <2>2. heard' \in SUBSET Nat
    BY <1>0, <2>1, CallbackType DEF TypeOK
  <2>3. download_event' \in BOOLEAN
    BY <2>1, Zenon
  <2>4. TypeOK'
    BY <1>0, <2>1, <2>2, <2>3 DEF TypeOK
  <2> QED
    BY <2>1, <2>4 DEF OrderInv
<1>11. CASE UNCHANGED vars
  BY <1>11 DEF vars, OrderInv, TypeOK
<1> QED
  BY <1>1, <1>2, <1>3, <1>4, <1>5, <1>6, <1>7, <1>8, <1>9, <1>10, <1>11
  DEF Next, Start, OnResponse

\* The types of NetworkMonitor; the events of the list are in the order in which
\* their responses arrived, and each is there once.
THEOREM TypeCorrect == Spec => []TypeOK
<1>1. OrderInv => TypeOK
  BY DEF OrderInv
<1> QED
  BY <1>1, OrderInit, OrderNext, PTL DEF Spec

-----------------------------------------------------------------------------
(* Downloads that have been heard of.                                        *)

\* Appending keeps what is in the list.
LEMMA AppendedRange ==
  ASSUME OrderInv, AppendEvent
  PROVE  /\ Range(events) \subseteq Range(events')
         /\ callback.event \in Range(events')
         /\ Downloads(events) \subseteq Downloads(events')
<1>1. /\ Len(events) \in Nat
      /\ DOMAIN events = 1 .. Len(events) /\ DOMAIN events' = 1 .. Len(events) + 1
      /\ \A k \in 1 .. Len(events) : events'[k] = events[k]
      /\ events'[Len(events) + 1] = callback.event
  BY AppendedEvent
<1>2. Range(events) \subseteq Range(events')
  BY <1>1 DEF Range
<1>3. callback.event \in Range(events')
  BY <1>1 DEF Range
<1> QED
  BY <1>2, <1>3 DEF Downloads

\* What has been heard of stays in the list until the list is cleared.
LEMMA HeardNext == OrderInv /\ HeardInv /\ [Next]_vars => HeardInv'
<1> SUFFICES ASSUME OrderInv, HeardInv, [Next]_vars PROVE HeardInv'
  OBVIOUS
<1> USE DEF window, result, thread, source
<1>0. TypeOK /\ starts \in Nat
  BY DEF OrderInv, TypeOK
<1>1. CASE Activate
  <2>1. starts' = starts + 1 /\ pc' = "active" /\ UNCHANGED <<callback, events>>
    BY <1>1 DEF Activate
  <2>2. callback # Quiet => callback.event.start <= starts /\ callback.event.start \in Nat
    BY <1>0, CallbackType DEF HeardInv
  <2> QED
    BY <1>0, <2>1, <2>2 DEF HeardInv, Started
<1>2. CASE ClearEvent
  BY <1>2 DEF ClearEvent, HeardInv, Started
<1>3. CASE ClearEvents
  <2>1. /\ pc = "unset" /\ pc' = "armed" /\ heard' = {} /\ UNCHANGED <<callback, starts>>
    BY <1>3 DEF ClearEvents
  <2>2. callback # Quiet => callback.event.start < starts /\ callback.event.start \in Nat
    BY <1>0, <2>1, CallbackType DEF HeardInv
  <2> QED
    BY <1>0, <2>1, <2>2 DEF HeardInv
<1>4. CASE Wait
  BY <1>4 DEF Wait, HeardInv, Started
<1>5. CASE ReadDownloads \/ Stop
  BY <1>5 DEF ReadDownloads, Stop, HeardInv, Started
<1>6. CASE Receive
  <2>1. PICK url \in Urls, download \in BOOLEAN :
          callback' = [pc |-> "called",
                       event |-> [id |-> received, url |-> url, triggered_download |-> download,
                                  start |-> IF Started THEN starts ELSE 0]]
    BY <1>6 DEF Receive
  <2>2. /\ callback'.pc = "called" /\ callback'.event.start = IF Started THEN starts ELSE 0
        /\ UNCHANGED <<thread, events, heard>>
    BY <1>6, <2>1 DEF Receive
  <2> QED
    BY <1>0, <2>2 DEF HeardInv, Started
<1>7. CASE CheckMonitoring \/ CheckPattern
  <2>1. /\ UNCHANGED <<thread, events, heard>> /\ callback # Quiet
        /\ callback' \in {Quiet, [callback EXCEPT !.pc = "wanted"], [callback EXCEPT !.pc = "matched"]}
    BY <1>7 DEF CheckMonitoring, CheckPattern, Return, Quiet
  <2>2. callback \in Calls
    BY <1>0, <2>1, CallbackType
  <2>3. \/ callback' = Quiet
        \/ callback'.event = callback.event /\ callback'.pc # "appended"
    BY <2>1, <2>2 DEF Calls
  <2> QED
    BY <2>1, <2>3 DEF HeardInv, Started
<1>8. CASE AppendEvent
  <2>1. /\ UNCHANGED <<thread, heard>> /\ callback # Quiet
        /\ callback' = [callback EXCEPT !.pc = "appended"]
    BY <1>8 DEF AppendEvent, Quiet
  <2>2. callback \in Calls
    BY <1>0, <2>1, CallbackType
  <2>3. callback'.event = callback.event
    BY <2>1, <2>2 DEF Calls
  <2>4. callback.event \in Range(events') /\ Downloads(events) \subseteq Downloads(events')
    BY <1>8, AppendedRange
  <2> QED
    BY <2>1, <2>3, <2>4 DEF HeardInv, Started
<1>9. CASE Signal
  <2> DEFINE e == callback.event
  <2>1. /\ UNCHANGED <<thread, events>> /\ callback' = Quiet /\ callback # Quiet
        /\ callback.pc = "appended"
        /\ heard' = IF e.triggered_download /\ e.start = starts /\ Started
                    THEN heard \cup {e.id} ELSE heard
    BY <1>9 DEF Signal, Hear, Return, Quiet
  <2> HIDE DEF e
  <2>2. ASSUME e.triggered_download, e.start = starts, Started PROVE e \in Downloads(events)
    BY <2>1, <2>2 DEF HeardInv, Downloads, e
  <2>3. Started => heard' \subseteq {d.id : d \in Downloads(events)}
    BY <2>1, <2>2 DEF HeardInv
  <2> QED
    BY <2>1, <2>3 DEF HeardInv, Started
<1>10. CASE UNCHANGED vars
  BY <1>10 DEF vars, HeardInv, Started
<1> QED
  BY <1>1, <1>2, <1>3, <1>4, <1>5, <1>6, <1>7, <1>8, <1>9, <1>10 DEF Next, Start, OnResponse

\* No download is missed, whatever the callbacks are doing when the monitor is
\* started, started again or stopped, and whether or not the wait times out.
THEOREM DownloadsKept == Spec => NothingMissed
<1>1. Init => HeardInv
  BY DEF Init, HeardInv, Started
<1>2. OrderInv /\ HeardInv /\ [Next]_vars =>
        [pc = "waited" /\ pc' = "answered" => heard \subseteq {e.id : e \in answer'}]_vars
  <2> SUFFICES ASSUME HeardInv, Next, pc = "waited", pc' = "answered"
               PROVE  heard \subseteq {e.id : e \in answer'}
    BY DEF vars
  <2> USE DEF window, result, thread, source
  <2>1. ReadDownloads
    BY DEF Next, Start, Activate, ClearEvent, ClearEvents, Wait, Stop, Receive, OnResponse,
       CheckMonitoring, CheckPattern, AppendEvent, Signal
  <2> QED
    BY <2>1 DEF ReadDownloads, HeardInv, Started
<1> QED
  BY <1>1, <1>2, OrderInit, OrderNext, HeardNext, PTL DEF Spec, NothingMissed

-----------------------------------------------------------------------------
(* The first start.                                                          *)

\* What the event says of the list holds until the monitor is started again.
LEMMA FirstNext == OrderInv /\ FirstInv /\ [Next]_vars => FirstInv'
<1> SUFFICES ASSUME OrderInv, FirstInv, [Next]_vars PROVE FirstInv'
  OBVIOUS
<1> USE DEF window, result, thread, source
<1>0. TypeOK /\ starts \in Nat
  BY DEF OrderInv, TypeOK
<1>1. CASE Activate
  <2>1. /\ starts' = starts + 1 /\ pc \in {"idle", "armed", "stopped"} /\ pc' = "active"
        /\ UNCHANGED <<callback, events, registered, download_event>>
    BY <1>1 DEF Activate
  <2>2. CASE starts = 0
    BY <2>1, <2>2 DEF FirstInv, SignalMeansDownload
  <2>3. CASE starts # 0
    BY <1>0, <2>1, <2>3 DEF FirstInv, SignalMeansDownload
  <2> QED
    BY <2>2, <2>3
<1>2. CASE ClearEvent
  BY <1>0, <1>2 DEF ClearEvent, FirstInv, SignalMeansDownload
<1>3. CASE ClearEvents
  <2>1. /\ pc = "unset" /\ pc' = "armed" /\ registered' = TRUE
        /\ UNCHANGED <<callback, starts, download_event>>
    BY <1>3 DEF ClearEvents
  <2>2. starts <= 1 => callback = Quiet /\ ~download_event
    BY <2>1 DEF FirstInv
  <2>3. starts # 0
    BY <2>1 DEF FirstInv
  <2> QED
    BY <1>0, <2>1, <2>2, <2>3 DEF FirstInv, SignalMeansDownload
<1>4. CASE Wait
  BY <1>0, <1>4 DEF Wait, FirstInv, SignalMeansDownload
<1>5. CASE ReadDownloads
  BY <1>0, <1>5 DEF ReadDownloads, FirstInv, SignalMeansDownload
<1>6. CASE Stop
  BY <1>0, <1>6 DEF Stop, FirstInv, SignalMeansDownload
<1>7. CASE Receive
  <2>1. /\ registered /\ callback'.pc = "called" /\ UNCHANGED <<thread, download_event, events>>
    BY <1>7 DEF Receive
  <2> QED
    BY <2>1 DEF FirstInv, SignalMeansDownload
<1>8. CASE CheckMonitoring \/ CheckPattern
  <2>1. /\ UNCHANGED <<thread, events, download_event>> /\ callback # Quiet
        /\ callback' \in {Quiet, [callback EXCEPT !.pc = "wanted"], [callback EXCEPT !.pc = "matched"]}
    BY <1>8 DEF CheckMonitoring, CheckPattern, Return, Quiet
  <2>2. callback \in Calls
    BY <1>0, <2>1, CallbackType
  <2>3. callback' = Quiet \/ callback'.pc # "appended"
    BY <2>1, <2>2 DEF Calls
  <2> QED
    BY <2>1, <2>3 DEF FirstInv, SignalMeansDownload
<1>9. CASE AppendEvent
  <2>1. /\ UNCHANGED <<thread, download_event>> /\ callback # Quiet
        /\ callback' = [callback EXCEPT !.pc = "appended"]
    BY <1>9 DEF AppendEvent, Quiet
  <2>2. callback \in Calls
    BY <1>0, <2>1, CallbackType
  <2>3. callback'.event = callback.event
    BY <2>1, <2>2 DEF Calls
  <2>4. callback.event \in Range(events') /\ Downloads(events) \subseteq Downloads(events')
    BY <1>9, AppendedRange
  <2> QED
    BY <2>1, <2>3, <2>4 DEF FirstInv, SignalMeansDownload
<1>10. CASE Signal
  <2>1. /\ UNCHANGED <<thread, events>> /\ callback' = Quiet /\ callback # Quiet
        /\ callback.pc = "appended"
        /\ download_event' = (download_event \/ callback.event.triggered_download)
    BY <1>10 DEF Signal, Hear, Return, Quiet
  <2>2. starts <= 1 /\ callback.event.triggered_download => callback.event \in Downloads(events)
    BY <2>1 DEF FirstInv, Downloads
  <2> QED
    BY <2>1, <2>2 DEF FirstInv, SignalMeansDownload
<1>11. CASE UNCHANGED vars
  BY <1>11 DEF vars, FirstInv, SignalMeansDownload
<1> QED
  BY <1>1, <1>2, <1>3, <1>4, <1>5, <1>6, <1>7, <1>8, <1>9, <1>10, <1>11
  DEF Next, Start, OnResponse

\* A wait that the event ended returns a download, in the first start.
THEOREM SignalsHonest == Spec => []SignalMeansDownload
<1>1. Init => FirstInv
  BY DEF Init, FirstInv, SignalMeansDownload
<1>2. FirstInv => SignalMeansDownload
  BY DEF FirstInv
<1> QED
  BY <1>1, <1>2, OrderInit, OrderNext, FirstNext, PTL DEF Spec

=============================================================================
