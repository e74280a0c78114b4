--------------------------- MODULE NetworkMonitor ---------------------------
(***************************************************************************)
(* The network monitor (app/services/network_monitor.py): the executor     *)
(* thread starts it before the step that triggers a download or response,  *)
(* waits and stops it; Chrome's websocket thread runs the callbacks.       *)
(*                                                                         *)
(* Each action is one operation on the state the two threads share: an     *)
(* attribute, the download event, or the list of events under the lock.    *)
(* _on_request and _pending_requests only supply a method name and are     *)
(* left out.  The thread that calls the callbacks belongs to the driver:   *)
(* it runs one at a time, from the first registration on; registering them *)
(* again can only repeat a response.                                       *)
(***************************************************************************)
EXTENDS Naturals, Sequences, Functions

CONSTANTS
  Urls,          \* the URLs responses come from
  AnyUrl,        \* no url_pattern: every URL matches
  MaxStarts,     \* bound: how often the monitor is started
  MaxResponses   \* bound: how many responses arrive

ASSUME UrlsAssumption   == AnyUrl \notin Urls
ASSUME BoundsAssumption == MaxStarts \in Nat /\ MaxResponses \in Nat

VARIABLES
  pc,              \* the executor thread
  monitoring,      \* _monitoring
  url_pattern,     \* _url_pattern
  download_event,  \* _download_event
  events,          \* _events
  registered,      \* the driver has the callbacks
  callback,        \* the websocket thread: where it is, and its response
  signalled,       \* the last wait ended by the event, not by the timeout
  answer,          \* the events the last wait returned
  starts,          \* starts so far
  received,        \* responses so far
  heard            \* history: downloads of this start whose callback is done

window == <<url_pattern, starts>>
result == <<signalled, answer>>
thread == <<pc, window, result, registered>>
source == <<callback, received, heard>>

vars == <<thread, monitoring, download_event, events, source>>

Patterns == Urls \cup {AnyUrl}

Matches(pattern, url) == pattern = AnyUrl \/ pattern = url

\* A NetworkEvent; id and start are history: they tell responses apart, and say
\* in which start a response arrived, 0 while there was none.
NetworkEvent == [id : Nat, url : Urls, triggered_download : BOOLEAN, start : Nat]

\* The monitor is started and has not been stopped.
Started == pc \in {"armed", "waited"}

\* What wait_for_download picks from the list.  The list is in the order of
\* arrival, which the ids tell: the set says all there is to say of it.
Downloads(seq) == {e \in Range(seq) : e.triggered_download}

Quiet == [pc |-> "idle"]

Init ==
  /\ pc = "idle" /\ starts = 0 /\ received = 0
  /\ monitoring = FALSE /\ url_pattern = AnyUrl /\ registered = FALSE
  /\ download_event = FALSE /\ events = << >>
  /\ callback = Quiet
  /\ signalled = FALSE /\ answer = {} /\ heard = {}

-----------------------------------------------------------------------------
(* start.  The loop starts the monitor again without stopping it when the     *)
(* trigger step is retried or jumped to.                                     *)

Activate ==
  /\ pc \in {"idle", "armed", "stopped"}
  /\ starts < MaxStarts
  /\ starts' = starts + 1
  /\ url_pattern' \in Patterns
  /\ monitoring' = TRUE
  /\ pc' = "active"
  /\ UNCHANGED <<result, registered, download_event, events, source>>

ClearEvent ==
  /\ pc = "active"
  /\ download_event' = FALSE
  /\ pc' = "unset"
  /\ UNCHANGED <<window, result, registered, monitoring, events, source>>

\* Nothing arrives before the first registration, and the later ones change
\* nothing: it belongs to the statement before.
ClearEvents ==
  /\ pc = "unset"
  /\ events' = << >>
  /\ registered' = TRUE
  /\ heard' = {}
  /\ pc' = "armed"
  /\ UNCHANGED <<window, result, monitoring, download_event, callback, received>>

-----------------------------------------------------------------------------
(* wait_for_download, then stop.                                             *)

Wait ==
  /\ pc = "armed" /\ monitoring
  /\ \/ download_event /\ signalled' = TRUE
     \/ ~download_event /\ signalled' = FALSE
  /\ pc' = "waited"
  /\ UNCHANGED <<window, answer, registered, monitoring, download_event, events, source>>

\* Variant: a timeout returns an empty list without another look.
ReadDownloads_OnlyWhenSignalled ==
  /\ pc = "waited"
  /\ answer' = IF signalled THEN Downloads(events) ELSE {}
  /\ pc' = "answered"
  /\ UNCHANGED <<window, signalled, registered, monitoring, download_event, events, source>>

ReadDownloads ==
  /\ pc = "waited"
  /\ answer' = Downloads(events)
  /\ pc' = "answered"
  /\ UNCHANGED <<window, signalled, registered, monitoring, download_event, events, source>>

\* After the wait, or at the end of the execution.
Stop ==
  /\ pc \in {"armed", "answered", "stopped"}
  /\ monitoring' = FALSE
  /\ pc' = "stopped"
  /\ UNCHANGED <<window, result, registered, download_event, events, source>>

-----------------------------------------------------------------------------
(* _on_response.                                                             *)

Receive ==
  /\ registered
  /\ callback = Quiet /\ received < MaxResponses
  /\ received' = received + 1
  /\ \E url \in Urls, download \in BOOLEAN :
       callback' = [pc |-> "called",
                    event |-> [id |-> received, url |-> url,
                               triggered_download |-> download,
                               start |-> IF Started THEN starts ELSE 0]]
  /\ UNCHANGED <<thread, monitoring, download_event, events, heard>>

Return == callback' = Quiet

CheckMonitoring ==
  /\ callback.pc = "called"
  /\ IF monitoring THEN callback' = [callback EXCEPT !.pc = "wanted"] ELSE Return
  /\ UNCHANGED <<thread, monitoring, download_event, events, received, heard>>

CheckPattern ==
  /\ callback.pc = "wanted"
  /\ IF Matches(url_pattern, callback.event.url)
     THEN callback' = [callback EXCEPT !.pc = "matched"] ELSE Return
  /\ UNCHANGED <<thread, monitoring, download_event, events, received, heard>>

\* Variant: one response, recorded twice.
AppendEvent_Twice ==
  /\ callback.pc = "matched"
  /\ events' = events \o <<callback.event, callback.event>>
  /\ callback' = [callback EXCEPT !.pc = "appended"]
  /\ UNCHANGED <<thread, monitoring, download_event, received, heard>>

AppendEvent ==
  /\ callback.pc = "matched"
  /\ events' = Append(events, callback.event)
  /\ callback' = [callback EXCEPT !.pc = "appended"]
  /\ UNCHANGED <<thread, monitoring, download_event, received, heard>>

\* The callback is done: heard remembers the downloads of this start.
Hear ==
  /\ heard' = IF callback.event.triggered_download /\ callback.event.start = starts /\ Started
              THEN heard \cup {callback.event.id} ELSE heard
  /\ Return

Signal ==
  /\ callback.pc = "appended"
  /\ download_event' = (download_event \/ callback.event.triggered_download)
  /\ Hear
  /\ UNCHANGED <<thread, monitoring, events, received>>

\* Variants: the download event is set first, then the list changed.
SignalFirst ==
  /\ callback.pc = "matched"
  /\ download_event' = (download_event \/ callback.event.triggered_download)
  /\ callback' = [callback EXCEPT !.pc = "appended"]
  /\ UNCHANGED <<thread, monitoring, events, received, heard>>

AppendLast ==
  /\ callback.pc = "appended"
  /\ events' = Append(events, callback.event)
  /\ Hear
  /\ UNCHANGED <<thread, monitoring, download_event, received>>

-----------------------------------------------------------------------------
Start == Activate \/ ClearEvent \/ ClearEvents

OnResponse_Swapped == CheckMonitoring \/ CheckPattern \/ SignalFirst \/ AppendLast

OnResponse == CheckMonitoring \/ CheckPattern \/ AppendEvent \/ Signal

Next == Start \/ Wait \/ ReadDownloads \/ Stop \/ Receive \/ OnResponse

Spec == Init /\ [][Next]_vars

-----------------------------------------------------------------------------
(* Properties.                                                               *)

\* Type invariant; events are in the order of arrival, a response recorded once.
TypeOK ==
  /\ pc \in {"idle", "active", "unset", "armed", "waited", "answered", "stopped"}
  /\ monitoring \in BOOLEAN /\ url_pattern \in Patterns /\ registered \in BOOLEAN
  /\ download_event \in BOOLEAN /\ signalled \in BOOLEAN
  /\ events \in Seq(NetworkEvent) /\ answer \in SUBSET NetworkEvent
  /\ callback = Quiet
       \/ callback \in [pc : {"called", "wanted", "matched", "appended"}, event : NetworkEvent]
  /\ starts \in 0 .. MaxStarts /\ received \in 0 .. MaxResponses
  /\ heard \in SUBSET Nat
  /\ \A j, k \in DOMAIN events : j < k => events[j].id < events[k].id

\* No download is missed: one whose response arrived after the monitor was
\* started, and whose callback is done by then, is in what wait_for_download
\* returns, the timeout notwithstanding and however often the monitor was
\* started before.
NothingMissed ==
  [][pc = "waited" /\ pc' = "answered" =>
       heard \subseteq {e.id : e \in answer'}]_vars

\* "Empty list on timeout", and only then: a wait that the download event ended
\* returns a download.  It holds for the first start; once the monitor is
\* started again, a callback that began before may set the event after start
\* has cleared the list.
SignalMeansDownload ==
  starts = 1 /\ pc = "answered" /\ signalled => answer # {}

=============================================================================
