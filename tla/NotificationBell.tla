-------------------------- MODULE NotificationBell --------------------------
(***************************************************************************)
(* The bell of the header: a WebSocket for live counts, and a poll of the  *)
(* same list once the socket is lost.                                      *)
(*                                                                         *)
(* inbox is a version of the person's notifications on the server: it      *)
(* grows by one with every new or read notification, and every answer      *)
(* carries the version the server read.  The bell shows two versions, one  *)
(* for the badge and one for the list, because some answers set only one.  *)
(* Requests are answered out of order and may be lost.                     *)
(*                                                                         *)
(* Changes bounds the versions, Window the requests under way at a time,   *)
(* Cap what the hub keeps for a slow socket, Renewals how often App gets a *)
(* new principal object (a profile was saved, a session ended or began).   *)
(***************************************************************************)
EXTENDS Integers, FiniteSets

CONSTANTS Changes, Window, Cap, Renewals

ASSUME BellAssumption == {Changes, Window, Cap, Renewals} \subseteq Nat

Versions == 0..Changes
Live     == {"connecting", "greeting", "open"}

VARIABLES
  inbox,     \* version of the notifications on the server
  upgrades,  \* the proxy in between lets a WebSocket through
  mounted,   \* App has a principal: the effect of the bell is running
  socket,    \* none, connecting, greeting (the server has subscribed it and
             \* read the count), open or lost: the socket of that effect
  hello,     \* version of the count in the greeting
  closing,   \* sockets an earlier effect closed, their onclose still to come
  timers,    \* intervals that call load
  frames,    \* versions of the frames in the hub's channel and on the wire
  asked,     \* load requests the server has not read yet
  loads,     \* answers to load on their way, by version
  badge,     \* version behind the unread count
  list,      \* version behind the items; Mixed is a list no inbox ever was
  reads,     \* answers to read requests on their way: all or one, and the
             \* version the server made by marking them
  renewals

bell == <<inbox, upgrades, mounted, socket, hello, closing, timers, frames,
          asked, loads, badge, list, reads, renewals>>

Mixed == -1

UnderWay == asked + Cardinality(loads)

\* Another request, when the window has room for it.
load == asked' = IF UnderWay < Window THEN asked + 1 ELSE asked

BellInit == /\ inbox = 0
            /\ upgrades \in BOOLEAN
            /\ mounted = FALSE
            /\ socket = "none" /\ hello = 0
            /\ closing = 0
            /\ timers = 0
            /\ frames = {}
            /\ asked = 0
            /\ loads = {}
            /\ badge = 0 /\ list = 0
            /\ reads = {}
            /\ renewals = 0

(***************************************************************************)
(* The effect on [me] and its cleanup.                                     *)
(***************************************************************************)
\* A new WebSocket object, and the first load.
Connect == /\ socket' = "connecting"
           /\ frames' = {}
           /\ load

\* stopped, the interval and the socket: what the cleanup takes back.
Cleanup == /\ timers' = 0
           /\ closing' = IF socket \in Live THEN closing + 1 ELSE closing

startPolling == IF timers = 0 THEN 1 ELSE timers

Renew ==
  /\ renewals < Renewals
  /\ renewals' = renewals + 1
  /\ mounted' \in BOOLEAN
  /\ Cleanup
  /\ IF mounted' THEN Connect /\ UNCHANGED <<badge, list>>
     ELSE /\ socket' = "none" /\ frames' = {} /\ UNCHANGED asked
          /\ badge' = 0 /\ list' = 0
  /\ UNCHANGED <<inbox, upgrades, hello, loads, reads>>

\* A plausible bug: the stopped flag is not looked at.
MutStoppedClose ==
  /\ closing > 0
  /\ closing' = closing - 1
  /\ timers' = startPolling
  /\ UNCHANGED <<inbox, upgrades, mounted, socket, hello, frames, asked,
                 loads, badge, list, reads, renewals>>

\* onclose and onerror of a socket whose effect is over: it was stopped.
StoppedClose ==
  /\ closing > 0
  /\ closing' = closing - 1
  /\ UNCHANGED <<inbox, upgrades, mounted, socket, hello, timers, frames, asked,
                 loads, badge, list, reads, renewals>>

\* A plausible bug: only a socket that had opened falls back to the poll.
MutSocketLost ==
  /\ socket \in Live
  /\ socket = "connecting" => ~upgrades
  /\ socket' = "lost"
  /\ frames' = {}
  /\ timers' = IF socket = "open" THEN startPolling ELSE timers
  /\ UNCHANGED <<inbox, upgrades, mounted, hello, closing, asked, loads,
                 badge, list, reads, renewals>>

\* onclose and onerror of the socket in use.
SocketLost ==
  /\ socket \in Live
  /\ socket = "connecting" => ~upgrades
  /\ socket' = "lost"
  /\ frames' = {}
  /\ timers' = startPolling
  /\ UNCHANGED <<inbox, upgrades, mounted, hello, closing, asked, loads,
                 badge, list, reads, renewals>>

\* The server subscribes first and then reads the count it greets with.
Upgraded ==
  /\ socket = "connecting" /\ upgrades
  /\ socket' = "greeting"
  /\ hello' = inbox
  /\ UNCHANGED <<inbox, upgrades, mounted, closing, timers, frames, asked,
                 loads, badge, list, reads, renewals>>

Greeted ==
  /\ socket = "greeting"
  /\ socket' = "open"
  /\ badge' = hello
  /\ UNCHANGED <<inbox, upgrades, mounted, hello, closing, timers, frames,
                 asked, loads, list, reads, renewals>>

\* "notification.created": the frame only says that there is something.
FrameArrives ==
  /\ socket = "open"
  /\ \E f \in frames : frames' = frames \ {f}
  /\ load
  /\ UNCHANGED <<inbox, upgrades, mounted, socket, hello, closing, timers, loads,
                 badge, list, reads, renewals>>

PollFires ==
  /\ timers > 0
  /\ UnderWay < Window
  /\ asked' = asked + 1
  /\ UNCHANGED <<inbox, upgrades, mounted, socket, hello, closing, timers, frames,
                 loads, badge, list, reads, renewals>>

open ==
  /\ mounted
  /\ load
  /\ UNCHANGED <<inbox, upgrades, mounted, socket, hello, closing, timers, frames,
                 loads, badge, list, reads, renewals>>

(***************************************************************************)
(* The server reads the list; the answer arrives later, or is lost.        *)
(***************************************************************************)
ListServed ==
  /\ asked > 0
  /\ asked' = asked - 1
  /\ loads' = loads \cup {inbox}
  /\ UNCHANGED <<inbox, upgrades, mounted, socket, hello, closing, timers, frames,
                 badge, list, reads, renewals>>

LoadAnswered(v) ==
  /\ v \in loads
  /\ loads' = loads \ {v}
  /\ badge' = v /\ list' = v
  /\ UNCHANGED <<inbox, upgrades, mounted, socket, hello, closing, timers, frames,
                 asked, reads, renewals>>

LoadLost(v) ==
  /\ v \in loads
  /\ loads' = loads \ {v}
  /\ UNCHANGED <<inbox, upgrades, mounted, socket, hello, closing, timers, frames,
                 asked, badge, list, reads, renewals>>

(***************************************************************************)
(* The inbox changes: the dispatcher adds, the person reads.               *)
(***************************************************************************)
\* publish never waits: a full channel drops the frame.
Publish(v) == IF socket \in {"greeting", "open"} /\ Cardinality(frames) < Cap
              THEN frames \cup {v} ELSE frames

Notify ==
  /\ inbox < Changes
  /\ inbox' = inbox + 1
  /\ frames' = Publish(inbox + 1)
  /\ UNCHANGED <<upgrades, mounted, socket, hello, closing, timers, asked,
                 loads, badge, list, reads, renewals>>

\* The person marks everything, or one notification on the way to its page.  The
\* click reads nothing that changes before the server has marked them.
Read(all) ==
  /\ mounted /\ inbox < Changes
  /\ inbox' = inbox + 1
  /\ reads' = reads \cup {[all |-> all, version |-> inbox + 1]}
  /\ UNCHANGED <<upgrades, mounted, socket, hello, closing, timers, frames, asked,
                 loads, badge, list, renewals>>

readAll  == Read(TRUE)
openItem == Read(FALSE)

\* The count is the answer's.  After readAll every item in the list, as it is by
\* now, is shown as read, the ones that came later included.
ReadAnswered(r) ==
  /\ r \in reads
  /\ reads' = reads \ {r}
  /\ badge' = r.version
  /\ list' = IF ~r.all THEN list
             ELSE IF list \in {r.version - 1, r.version} THEN r.version ELSE Mixed
  /\ UNCHANGED <<inbox, upgrades, mounted, socket, hello, closing, timers, frames,
                 asked, loads, renewals>>

ReadLost(r) ==
  /\ r \in reads
  /\ reads' = reads \ {r}
  /\ UNCHANGED <<inbox, upgrades, mounted, socket, hello, closing, timers, frames,
                 asked, loads, badge, list, renewals>>

BellMachine == \/ StoppedClose \/ Upgraded \/ Greeted \/ FrameArrives \/ ListServed
               \/ SocketLost \/ PollFires
               \/ \E v \in Versions : LoadAnswered(v) \/ LoadLost(v)
               \/ \E r \in reads : ReadAnswered(r) \/ ReadLost(r)

BellNext == BellMachine \/ Renew \/ open \/ Notify \/ readAll \/ openItem

\* The interval fires for as long as it lives, requests are read and their
\* answers arrive unless they are lost, and not every answer is lost.
BellFairness == /\ WF_bell(PollFires)
                /\ WF_bell(ListServed)
                /\ WF_bell(SocketLost /\ ~upgrades)
                /\ \A v \in Versions : WF_bell(LoadAnswered(v) \/ LoadLost(v))
                /\ \A v \in Versions : SF_bell(LoadAnswered(v))

Bell == BellInit /\ [][BellNext]_bell /\ BellFairness

-----------------------------------------------------------------------------
(* One interval at most, and none after the bell has gone: a socket closed *)
(* by the cleanup still calls its onclose, later than a new effect may     *)
(* have started, and must not start the poll again (the stopped flag).     *)
OnePoll == timers <= 1 /\ (timers = 1 => mounted /\ socket = "lost")

(* "an offline deployment behind a proxy that blocks upgrades still shows  *)
(* fresh notifications" (NotificationBell.tsx): once nothing changes the   *)
(* badge and the list come to show the inbox as it is, although answers    *)
(* to loads and to read requests overtake one another and some are lost.   *)
FallbackCatchesUp ==
  <>[](mounted /\ ~upgrades) => <>[](badge = inbox /\ list = inbox)
=============================================================================
