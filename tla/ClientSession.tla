--------------------------- MODULE ClientSession ----------------------------
(***************************************************************************)
(* The session tracker of the browser SDK under the captures of one page,  *)
(* its timer, its close and its kills.                                     *)
(*                                                                         *)
(* The code runs on one thread and is cut only at an await: an action is   *)
(* the code from one await to the next.  Storage outlives the page.  A     *)
(* write takes effect where it is issued, or fails, and the adapter tells  *)
(* nobody: setItem and removeItem come back as if all were well, getItem   *)
(* finds nothing.  What IndexedDB has not committed at a kill is the same  *)
(* as what was not yet issued.  An enqueue takes awaits of its own before  *)
(* its row is in storage.  ClientQueue models what happens to rows.        *)
(*                                                                         *)
(* Of the clocks only one fact matters here: whether the inactivity        *)
(* timeout has passed since lastActivityMono.  No storage call takes that  *)
(* long.                                                                   *)
(***************************************************************************)
EXTENDS Integers, FiniteSets

CONSTANTS
    Calls,              \* captures: track, economy, purchaseContext, a first identify
    NoSession,          \* no session, no record
    MaxSessions,        \* bound: sessions minted
    MaxPageKills,       \* bound: kills of the page
    MaxStorageFailures  \* bound: storage calls that fail

Closers == {"hide", "timer", "init"}
Tasks == Calls \cup Closers
Sessions == 1 .. MaxSessions

ASSUME TrackerAssumption ==
    /\ MaxSessions \in Nat /\ MaxPageKills \in Nat /\ MaxStorageFailures \in Nat
    /\ Calls \cap Closers = {} /\ NoSession \notin Sessions

VARIABLES
    open,     \* storage: session of the open-session record
    phase,    \* the page: down, starting or up
    sid,      \* memory: current session
    idle,     \* memory: the timeout has passed since lastActivityMono
    armed,    \* memory: the inactivity timer is set
    callPc,   \* memory: where each async call is
    ending,   \* memory: session whose terminal event a task enqueues
    ended,    \* history: terminal events enqueued, by session
    minted,   \* history: sessions minted
    fresh,    \* history: sessions minted whose record was never written
    rash,     \* history: those of them that ended as timed out
    wiped,    \* history: sessions whose record was removed or written over by
              \* a call that was not ending them
    cut,      \* history: sessions whose record outlived their terminal event, by a
              \* kill between the two or a removal that failed
    unwritten, \* history: sessions without a record since its write failed
    left,     \* history: sessions whose record a failed removal, or the failed
              \* read of a new page, left where it is
    lost,     \* history: sessions a kill left without a record or terminal event
    pageKills, storageFailures

tracker == <<sid, idle, armed>>
faults == <<pageKills, storageFailures>>
trackerHistory == <<ended, minted, fresh, rash, wiped, cut, unwritten, left, lost, faults>>
trackerVars == <<open, phase, tracker, callPc, ending, trackerHistory>>

TrackerInit ==
    /\ open = NoSession /\ phase = "down"
    /\ sid = NoSession /\ idle \in BOOLEAN /\ armed = FALSE
    /\ callPc = [t \in Tasks |-> "idle"] /\ ending = [t \in Tasks |-> NoSession]
    /\ ended = [s \in Sessions |-> 0]
    /\ minted = 0 /\ fresh = {} /\ rash = {} /\ wiped = {} /\ cut = {} /\ lost = {}
    /\ unwritten = {} /\ left = {} /\ pageKills = 0 /\ storageFailures = 0

-----------------------------------------------------------------------------
(* The end of a session *)

\* Mutated form of EndSession: the session leaves memory at the end, not first.
EndSessionKeepingId(t, reason) ==
    /\ ending' = [ending EXCEPT ![t] = sid]
    /\ sid' = sid
    /\ armed' = FALSE
    /\ rash' = IF reason = "timeout" THEN rash \cup (fresh \cap {sid}) ELSE rash
    /\ callPc' = [callPc EXCEPT ![t] = "emitting"]

\* endSession to its first await: the session leaves memory first, so that a
\* capture that comes in starts a new one.
EndSession(t, reason) ==
    /\ ending' = [ending EXCEPT ![t] = sid]
    /\ sid' = NoSession
    /\ armed' = FALSE
    /\ rash' = IF reason = "timeout" THEN rash \cup (fresh \cap {sid}) ELSE rash
    /\ callPc' = [callPc EXCEPT ![t] = "emitting"]

\* The terminal event is in storage, or gave way to a full one.
TerminalEnqueued(t) ==
    /\ callPc[t] = "emitting"
    /\ ended' = [ended EXCEPT ![ending[t]] = @ + 1]
    /\ callPc' = [callPc EXCEPT ![t] = "emitted"]
    /\ UNCHANGED <<open, phase, tracker, ending, minted, fresh, rash, wiped, cut,
                   unwritten, left, lost, faults>>

\* Mutated form of ClearOpen: the timer's close leaves the record.
ClearOpenOnlyOwn(t) ==
    /\ callPc[t] = "emitted"
    /\ open' = IF open = ending[t] /\ t # "timer" THEN NoSession ELSE open
    /\ wiped' = wiped
    /\ ending' = [ending EXCEPT ![t] = NoSession]
    /\ callPc' = [callPc EXCEPT ![t] = "cleared"]
    /\ UNCHANGED <<phase, tracker, ended, minted, fresh, rash, cut, unwritten, left, lost,
                   faults>>

\* clearOpen removes the record, whichever session it names by now.
ClearOpen(t) ==
    /\ callPc[t] = "emitted"
    /\ open' = NoSession
    /\ wiped' = wiped \cup ({open} \ {NoSession, ending[t]})
    /\ ending' = [ending EXCEPT ![t] = NoSession]
    /\ callPc' = [callPc EXCEPT ![t] = "cleared"]
    /\ UNCHANGED <<phase, tracker, ended, minted, fresh, rash, cut, unwritten, left, lost,
                   faults>>

\* Its removal fails: what is stored stays, and the caller goes on.
ClearFails(t) ==
    /\ callPc[t] = "emitted" /\ storageFailures < MaxStorageFailures
    /\ storageFailures' = storageFailures + 1
    /\ cut' = cut \cup ({open} \cap {ending[t]})
    /\ left' = left \cup ({open} \cap {ending[t]})
    /\ ending' = [ending EXCEPT ![t] = NoSession]
    /\ callPc' = [callPc EXCEPT ![t] = "cleared"]
    /\ UNCHANGED <<open, phase, tracker, ended, minted, fresh, rash, wiped, unwritten, lost,
                   pageKills>>

-----------------------------------------------------------------------------
(* A capture *)

\* bumpCounter is issued with the new session and awaited; nothing depends on
\* what it stores.
Mint(c) ==
    /\ minted < MaxSessions
    /\ minted' = minted + 1
    /\ sid' = minted + 1
    /\ fresh' = fresh \cup {minted + 1}
    /\ callPc' = [callPc EXCEPT ![c] = "minted"]
    /\ UNCHANGED <<open, idle, wiped, unwritten, storageFailures>>

\* Mutated form of WriteOpen: a record that exists is left alone.
WriteOpenOnce(c) ==
    /\ open' = IF open = NoSession THEN sid ELSE open
    /\ idle' = FALSE
    /\ fresh' = fresh \ {sid}
    /\ wiped' = wiped \ {NoSession, sid}
    /\ unwritten' = unwritten \ {sid}
    /\ callPc' = [callPc EXCEPT ![c] = "written"]
    /\ UNCHANGED <<sid, minted, storageFailures>>

\* The record takes the session of the moment, none included; activity is now.
WriteOpen(c) ==
    /\ open' = sid
    /\ idle' = FALSE
    /\ fresh' = fresh \ {sid}
    /\ wiped' = (wiped \cup {open}) \ {NoSession, sid}
    /\ unwritten' = unwritten \ {sid}
    /\ callPc' = [callPc EXCEPT ![c] = "written"]
    /\ UNCHANGED <<sid, minted, storageFailures>>

\* The write fails: what is stored stays, and the capture goes on.
WriteFails(c) ==
    /\ storageFailures < MaxStorageFailures
    /\ storageFailures' = storageFailures + 1
    /\ idle' = FALSE
    /\ unwritten' = unwritten \cup ({sid} \ {NoSession, open})
    /\ callPc' = [callPc EXCEPT ![c] = "written"]
    /\ UNCHANGED <<open, sid, minted, fresh, wiped>>

Record(c) == WriteOpen(c) \/ WriteFails(c)

StartOrContinue(c) == IF sid = NoSession THEN Mint(c) ELSE Record(c)

\* onCapture to its first await.
Capture(c) ==
    /\ phase = "up" /\ callPc[c] = "idle"
    /\ IF sid # NoSession /\ idle
         THEN /\ EndSession(c, "timeout")
              /\ UNCHANGED <<open, idle, minted, fresh, wiped, unwritten, storageFailures>>
         ELSE /\ StartOrContinue(c)
              /\ UNCHANGED <<armed, ending, rash>>
    /\ UNCHANGED <<phase, ended, cut, left, lost, pageKills>>

\* onCapture after the old session has ended, or after the counter is stored.
Resume(c) ==
    /\ \/ callPc[c] = "cleared" /\ StartOrContinue(c)
       \/ callPc[c] = "minted" /\ Record(c)
    /\ UNCHANGED <<phase, armed, ending, ended, rash, cut, left, lost, pageKills>>

\* Mutated form of BuildEnvelope: the timer is not set.
BuildEnvelopeUnarmed(c) ==
    /\ callPc[c] = "written"
    /\ armed' = armed
    /\ callPc' = [callPc EXCEPT ![c] = "enqueue"]
    /\ UNCHANGED <<open, phase, sid, idle, ending, ended, minted, fresh, rash, wiped, cut,
                   unwritten, left, lost, faults>>

\* The timer is set and the envelope built.
BuildEnvelope(c) ==
    /\ callPc[c] = "written"
    /\ armed' = TRUE
    /\ callPc' = [callPc EXCEPT ![c] = "enqueue"]
    /\ UNCHANGED <<open, phase, sid, idle, ending, ended, minted, fresh, rash, wiped, cut,
                   unwritten, left, lost, faults>>

Captured(c) ==
    /\ callPc[c] = "enqueue"
    /\ callPc' = [callPc EXCEPT ![c] = "done"]
    /\ UNCHANGED <<open, phase, tracker, ending, trackerHistory>>

-----------------------------------------------------------------------------
(* Timer, close, init and kill *)

\* onTimerFire; a timer that fires early only sets itself again.
TimerFire ==
    /\ phase = "up" /\ armed /\ idle /\ callPc["timer"] = "idle"
    /\ IF sid = NoSession
         THEN armed' = FALSE /\ UNCHANGED <<sid, callPc, ending, rash>>
         ELSE EndSession("timer", "timeout")
    /\ UNCHANGED <<open, phase, idle, ended, minted, fresh, wiped, cut, unwritten, left,
                   lost, faults>>

\* The page is hidden or the game calls appClose; without a session only the
\* transport has work to do.
Hide ==
    /\ phase = "up" /\ callPc["hide"] = "idle" /\ sid # NoSession
    /\ EndSession("hide", "app_close")
    /\ UNCHANGED <<open, phase, idle, ended, minted, fresh, wiped, cut, unwritten, left,
                   lost, faults>>

CloserDone(t) ==
    /\ callPc[t] = "cleared"
    /\ callPc' = [callPc EXCEPT ![t] = "idle"]
    /\ phase' = "up"
    /\ UNCHANGED <<open, tracker, ending, trackerHistory>>

Running == {t \in Tasks : callPc[t] \notin {"idle", "done"}}

\* The timeout passes; every storage call is shorter than that.
Idle ==
    /\ Running = {} /\ phase = "up" /\ ~idle
    /\ idle' = TRUE
    /\ UNCHANGED <<open, phase, sid, armed, callPc, ending, trackerHistory>>

\* init: a surviving record is closed before any capture, unless its read fails.
\* The monotonic clock may be past the timeout when nothing was captured yet.
PageStart ==
    /\ phase = "down"
    /\ idle' \in BOOLEAN
    /\ \/ /\ open = NoSession /\ phase' = "up"
          /\ UNCHANGED <<callPc, ending, left, storageFailures>>
       \/ /\ open # NoSession /\ phase' = "starting"
          /\ ending' = [ending EXCEPT !["init"] = open]
          /\ callPc' = [callPc EXCEPT !["init"] = "emitting"]
          /\ UNCHANGED <<left, storageFailures>>
       \/ /\ open # NoSession /\ phase' = "up" /\ storageFailures < MaxStorageFailures
          /\ storageFailures' = storageFailures + 1
          /\ left' = left \cup {open}
          /\ UNCHANGED <<callPc, ending>>
    /\ UNCHANGED <<open, sid, armed, ended, minted, fresh, rash, wiped, cut, unwritten, lost,
                   pageKills>>

Live == {sid} \cup {ending[t] : t \in Tasks}

\* The page goes and takes its memory with it; what it had begun to capture is gone.
PageKill ==
    /\ phase # "down" /\ pageKills < MaxPageKills
    /\ pageKills' = pageKills + 1
    /\ phase' = "down"
    /\ cut' = cut \cup {s \in Sessions : open = s /\ ended[s] > 0}
    /\ lost' = lost \cup {s \in Live \ {NoSession} : open # s /\ ended[s] = 0}
    /\ sid' = NoSession /\ armed' = FALSE
    /\ callPc' = [t \in Tasks |-> IF t \in Calls /\ callPc[t] # "idle" THEN "done" ELSE "idle"]
    /\ ending' = [t \in Tasks |-> NoSession]
    /\ UNCHANGED <<open, idle, ended, minted, fresh, rash, wiped, unwritten, left,
                   storageFailures>>

CallStep(c) == Resume(c) \/ BuildEnvelope(c) \/ Captured(c)
CloseStep(t) == TerminalEnqueued(t) \/ ClearOpen(t) \/ ClearFails(t)

TrackerNext ==
    \/ \E c \in Calls : Capture(c) \/ CallStep(c)
    \/ \E t \in Tasks : CloseStep(t)
    \/ \E t \in Closers : CloserDone(t)
    \/ TimerFire \/ Hide \/ Idle \/ PageStart \/ PageKill

\* Awaits come back, time passes and timers fire.  Nobody has to capture, to close
\* the page, to kill it or to open it again.
TrackerFairness ==
    /\ \A c \in Calls : WF_trackerVars(CallStep(c))
    /\ \A t \in Tasks : WF_trackerVars(CloseStep(t))
    /\ \A t \in Closers : WF_trackerVars(CloserDone(t))
    /\ WF_trackerVars(TimerFire) /\ WF_trackerVars(Idle)

TrackerSpec == TrackerInit /\ [][TrackerNext]_trackerVars /\ TrackerFairness

-----------------------------------------------------------------------------
(* Properties *)

\* Every variable keeps its type.
TrackerTypeOK ==
    /\ open \in Sessions \cup {NoSession}
    /\ phase \in {"down", "starting", "up"}
    /\ sid \in Sessions \cup {NoSession}
    /\ idle \in BOOLEAN /\ armed \in BOOLEAN
    /\ callPc \in [Tasks -> {"idle", "emitting", "emitted", "cleared", "minted", "written",
                         "enqueue", "done"}]
    /\ ending \in [Tasks -> Sessions \cup {NoSession}]
    /\ ended \in [Sessions -> Nat] /\ minted \in 0 .. MaxSessions
    /\ fresh \subseteq Sessions /\ rash \subseteq Sessions /\ wiped \subseteq Sessions
    /\ cut \subseteq Sessions /\ lost \subseteq Sessions
    /\ unwritten \subseteq Sessions /\ left \subseteq Sessions
    /\ pageKills \in Nat /\ storageFailures \in Nat

\* session.ts wants exactly one terminal event.  A second one takes a record that
\* outlived the first: a kill between the two, or a removal that failed.
EndsOnce == \A s \in Sessions : ended[s] > 1 => s \in cut

\* When no call is under way the record tells a later init what it has to close,
\* the current session and nothing else.  Only another call that took the record
\* away and a failed write leave the session without one, and only a failed
\* removal and a failed read leave the record of another.
RecordCoversSession ==
    phase = "up" /\ Running = {} =>
        /\ open # NoSession => open = sid \/ open \in left
        /\ sid # NoSession => open = sid \/ sid \in wiped \cup unwritten

\* Reconcile makes up for kills: one leaves a session without a terminal event and
\* without a record only if no record of it was ever written, because the kill came
\* first or every write failed, or another call took the record away.
LostOnlyByOverlap == lost \subseteq wiped \cup fresh

\* session.ts: every capture restarts the countdown, so that a session times out
\* only after a capture of it was recorded.
TimesOutAfterActivity == rash = {}

\* A session ends with a terminal event as long as the page lives.
SessionsEnd == \A s \in Sessions : (sid = s) ~> (ended[s] > 0 \/ phase = "down")
=============================================================================
