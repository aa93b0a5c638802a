------------------------- MODULE RecorderServer -------------------------
(***************************************************************************)
(* The loopback server of the flight recorder, demo/server.py on top of    *)
(* the standard library's ThreadingHTTPServer: one thread accepts, one     *)
(* thread per request reads the head, answers and gives its slot back, one *)
(* timer per request cuts the connection of a client that does not send    *)
(* its head in time, and the owner shuts everything down.                  *)
(*                                                                         *)
(* A request is one connection (the server speaks HTTP/1.0).  Time is      *)
(* abstracted: a running timer may fire at any moment.                     *)
(***************************************************************************)
EXTENDS Naturals, FiniteSets

CONSTANTS
  Requests,       \* the connections that clients may open
  Handlers,       \* _MAX_CONCURRENT_HANDLERS
  Files,          \* names of files that requests may ask for
  ThreadFaults    \* how often starting a thread may fail

ASSUME ServerAssumption ==
  /\ IsFiniteSet(Requests)
  /\ Handlers \in Nat \ {0}
  /\ ThreadFaults \in Nat

VARIABLES
  files,      \* what the two roots of the server hold
  owner,      \* what the owner of the server is doing
  doomed,     \* active requests that the owner has still to cut
  loop,       \* the accepting thread: "off", "serving" or "ended"
  stop,       \* shutdown of the loop was requested
  slots,      \* value of the bounded semaphore
  active,     \* _active_requests
  timers,     \* requests with an entry in _read_timers
  stage,      \* how far a request has come
  socket,     \* state of its socket: "none", "open", "cut" or "closed"
  timer,      \* state of its timer thread
  cancelled,  \* requests whose timer was cancelled
  client,     \* what the client at the other end has done
  served,     \* <<request, file>>: what was sent with status 200 and is not closed
  unstarted,  \* the thread appended last to the list of threads never started
  faults      \* thread starts that failed so far

ownerVars  == <<files, owner, doomed>>
loopVars   == <<loop, stop, unstarted, faults>>
tableVars  == <<slots, active, timers>>
timerVars  == <<timer, cancelled>>
serverVars == <<ownerVars, loopVars, tableVars, stage, socket, timerVars, client, served>>

Stages == {"away", "queued", "refused", "admitted", "armed", "orphan", "stranded", "reading",
           "rejecting", "dismissed", "joining", "replying", "replied", "finishing", "settling", "leaving", "releasing", "gone"}

ServerInit ==
  /\ files = {} /\ owner = "idle" /\ doomed = {}
  /\ loop = "off" /\ stop = FALSE /\ unstarted = FALSE /\ faults = 0
  /\ slots = Handlers /\ active = {} /\ timers = {}
  /\ stage = [r \in Requests |-> "away"]
  /\ socket = [r \in Requests |-> "none"]
  /\ timer = [r \in Requests |-> "none"]
  /\ cancelled = {}
  /\ client = [r \in Requests |-> "silent"]
  /\ served = {}

To(r, s) == stage' = [stage EXCEPT ![r] = s]
Close(r) == socket' = [socket EXCEPT ![r] = "closed"]

\* shutdown(SHUT_RDWR) of a socket; on a closed one it raises and is ignored.
Cut(r) == socket' = [socket EXCEPT ![r] = IF @ = "open" THEN "cut" ELSE @]

----------------------------------------------------------------------------
\* Clients: they connect, send a head, read what they get, or hang up.

Connect(r) ==
  /\ owner \in {"serving", "stopping", "cutting"} /\ stage[r] = "away"
  /\ To(r, "queued")
  /\ socket' = [socket EXCEPT ![r] = "open"]
  /\ UNCHANGED <<ownerVars, loopVars, tableVars, timerVars, client, served>>

ClientActs(r) ==
  /\ socket[r] \in {"open", "cut"}
  /\ \/ client[r] = "silent" /\ client' = [client EXCEPT ![r] = "sent"]
     \/ client[r] = "sent" /\ client' = [client EXCEPT ![r] = "draining"]
     \/ client[r] # "gone" /\ client' = [client EXCEPT ![r] = "gone"]
  /\ UNCHANGED <<ownerVars, loopVars, tableVars, stage, socket, timerVars, served>>

----------------------------------------------------------------------------
\* The accepting thread.

\* serve_recorder: the root (and the static root) hold the given files.
ServeRecorder(root) ==
  /\ owner = "idle"
  /\ files' = root
  /\ owner' = "serving" /\ loop' = "serving"
  /\ UNCHANGED <<doomed, stop, unstarted, faults, tableVars, stage, socket, timerVars, client, served>>

HandingOver == \E r \in Requests : stage[r] \in {"admitted", "armed"}
Accepting == loop = "serving" /\ ~stop /\ ~HandingOver

\* A plausible fault: the slot of a refused request is given back as well.
RefuseAndRelease(r) ==
  /\ Accepting /\ stage[r] = "queued" /\ slots = 0
  /\ To(r, "refused") /\ Close(r)
  /\ slots' = slots + 1
  /\ UNCHANGED <<ownerVars, loopVars, active, timers, timerVars, client, served>>

Refuse(r) ==
  /\ Accepting /\ stage[r] = "queued" /\ slots = 0
  /\ To(r, "refused") /\ Close(r)
  /\ UNCHANGED <<ownerVars, loopVars, tableVars, timerVars, client, served>>

\* A plausible fault: the slot is taken whether or not there is one.
AdmitAlways(r) ==
  /\ Accepting /\ stage[r] = "queued"
  /\ slots' = slots - 1
  /\ active' = active \cup {r}
  /\ timers' = timers \cup {r}
  /\ timer' = [timer EXCEPT ![r] = "set"]
  /\ To(r, "admitted")
  /\ UNCHANGED <<ownerVars, loopVars, socket, cancelled, client, served>>

\* verify_request: the slot is taken, then request and timer are tracked.
Admit(r) ==
  /\ Accepting /\ stage[r] = "queued" /\ slots > 0
  /\ slots' = slots - 1
  /\ active' = active \cup {r}
  /\ timers' = timers \cup {r}
  /\ timer' = [timer EXCEPT ![r] = "set"]
  /\ To(r, "admitted")
  /\ UNCHANGED <<ownerVars, loopVars, socket, cancelled, client, served>>

\* A plausible fault: the timer is tracked but never started.
StartNoTimer(r) ==
  /\ stage[r] = "admitted"
  /\ To(r, "armed")
  /\ UNCHANGED <<ownerVars, loopVars, tableVars, socket, timerVars, client, served>>

StartTimer(r) ==
  /\ stage[r] = "admitted"
  /\ timer' = [timer EXCEPT ![r] = "running"]
  /\ To(r, "armed")
  /\ UNCHANGED <<ownerVars, loopVars, tableVars, socket, cancelled, client, served>>

\* The exception leaves verify_request, which nothing guards: the loop ends.
StartTimerFails(r) ==
  /\ stage[r] = "admitted" /\ faults < ThreadFaults
  /\ faults' = faults + 1
  /\ loop' = "ended"
  /\ To(r, "stranded")
  /\ UNCHANGED <<ownerVars, stop, unstarted, tableVars, socket, timerVars, client, served>>

StartHandler(r) ==
  /\ stage[r] = "armed"
  /\ To(r, "reading")
  /\ unstarted' = FALSE
  /\ UNCHANGED <<ownerVars, loop, stop, faults, tableVars, socket, timerVars, client, served>>

\* process_request raises: the socket is closed, nothing else is given back.
StartHandlerFails(r) ==
  /\ stage[r] = "armed" /\ faults < ThreadFaults
  /\ faults' = faults + 1
  /\ unstarted' = TRUE
  /\ To(r, "orphan") /\ Close(r)
  /\ UNCHANGED <<ownerVars, loop, stop, tableVars, timerVars, client, served>>

LoopEnds ==
  /\ loop = "serving" /\ stop /\ ~HandingOver
  /\ loop' = "ended"
  /\ UNCHANGED <<ownerVars, stop, unstarted, faults, tableVars, stage, socket, timerVars, client, served>>

----------------------------------------------------------------------------
\* The thread of a request.

\* A plausible fault: the timer is cancelled but not waited for.
HeadReadWithoutJoin(r) ==
  /\ stage[r] = "reading"
  /\ client[r] # "silent" \/ socket[r] = "cut"
  /\ timers' = timers \ {r}
  /\ cancelled' = cancelled \cup {r}
  /\ To(r, "replying")
  /\ UNCHANGED <<ownerVars, loopVars, slots, active, socket, timer, client, served>>

\* The head, or the end of the stream in the middle of one: complete_read.
HeadRead(r) ==
  /\ stage[r] = "reading"
  /\ client[r] # "silent" \/ socket[r] = "cut"
  /\ timers' = timers \ {r}
  /\ cancelled' = cancelled \cup {r}
  /\ To(r, "joining")
  /\ UNCHANGED <<ownerVars, loopVars, slots, active, socket, timer, client, served>>

\* The stream ends before a request line: the read is not completed here.
NothingRead(r) ==
  /\ stage[r] = "reading"
  /\ client[r] = "gone" \/ socket[r] = "cut"
  /\ To(r, "replied")
  /\ UNCHANGED <<ownerVars, loopVars, tableVars, socket, timerVars, client, served>>

\* A head that is too long or malformed is answered with an error at once.
RejectHead(r) ==
  /\ stage[r] = "reading" /\ client[r] # "silent"
  /\ To(r, "rejecting")
  /\ UNCHANGED <<ownerVars, loopVars, tableVars, socket, timerVars, client, served>>

\* The error was written, or the request line was blank: then complete_read.
HeadRejected(r) ==
  /\ \/ stage[r] = "rejecting" /\ client[r] = "draining" /\ socket[r] = "open"
     \/ stage[r] = "reading" /\ client[r] # "silent"
  /\ timers' = timers \ {r}
  /\ cancelled' = cancelled \cup {r}
  /\ To(r, "dismissed")
  /\ UNCHANGED <<ownerVars, loopVars, slots, active, socket, timer, client, served>>

\* After a request line that is too long, or when the writing breaks off, it is
\* left to _finish_request.
RejectionEnds(r) ==
  /\ stage[r] = "rejecting"
  /\ client[r] \in {"draining", "gone"} \/ socket[r] = "cut"
  /\ To(r, "replied")
  /\ UNCHANGED <<ownerVars, loopVars, tableVars, socket, timerVars, client, served>>

Dismissed(r) ==
  /\ stage[r] = "dismissed" /\ timer[r] = "dead"
  /\ To(r, "replied")
  /\ UNCHANGED <<ownerVars, loopVars, tableVars, socket, timerVars, client, served>>

TimerJoined(r) ==
  /\ stage[r] = "joining" /\ timer[r] = "dead"
  /\ To(r, "replying")
  /\ UNCHANGED <<ownerVars, loopVars, tableVars, socket, timerVars, client, served>>

\* What a head may ask for, and in which order it is refused.
Heads == [headers : {"bounded", "excessive"},
          host    : {"ours", "foreign"},
          origin  : {"none", "ours", "foreign"},
          method  : {"GET", "HEAD", "POST"},
          path    : Files \cup {"unsafe"}]

Status(h) ==
  IF h.headers = "excessive" THEN 431
  ELSE IF h.host # "ours" THEN 421
  ELSE IF h.origin = "foreign" THEN 403
  ELSE IF h.method = "POST" THEN 405
  ELSE IF h.path \in files THEN 200 ELSE 404

\* A file or an error is written; a slow client blocks the thread.
Reply(r) ==
  /\ stage[r] = "replying" /\ client[r] = "draining" /\ socket[r] = "open"
  /\ \E h \in Heads :
       served' = IF Status(h) = 200 /\ h.method = "GET" THEN served \cup {<<r, h.path>>} ELSE served
  /\ To(r, "replied")
  /\ UNCHANGED <<ownerVars, loopVars, tableVars, socket, timerVars, client>>

\* handle swallows the ConnectionError.
ReplyBreaks(r) ==
  /\ stage[r] = "replying" /\ (client[r] = "gone" \/ socket[r] = "cut")
  /\ To(r, "replied")
  /\ UNCHANGED <<ownerVars, loopVars, tableVars, socket, timerVars, client, served>>

ShutdownRequest(r) ==
  /\ stage[r] = "replied"
  /\ To(r, "finishing") /\ Close(r)
  /\ served' = {p \in served : p[1] # r}
  /\ UNCHANGED <<ownerVars, loopVars, tableVars, timerVars, client>>

\* _finish_request completes the read once more, for the paths that did not.
CompleteRead(r) ==
  /\ stage[r] = "finishing"
  /\ To(r, IF r \in timers THEN "settling" ELSE "leaving")
  /\ timers' = timers \ {r}
  /\ cancelled' = IF r \in timers THEN cancelled \cup {r} ELSE cancelled
  /\ UNCHANGED <<ownerVars, loopVars, slots, active, socket, timer, client, served>>

TimerSettled(r) ==
  /\ stage[r] = "settling" /\ timer[r] = "dead"
  /\ To(r, "leaving")
  /\ UNCHANGED <<ownerVars, loopVars, tableVars, socket, timerVars, client, served>>

Untrack(r) ==
  /\ stage[r] = "leaving"
  /\ active' = active \ {r}
  /\ To(r, "releasing")
  /\ UNCHANGED <<ownerVars, loopVars, slots, timers, socket, timerVars, client, served>>

Release(r) ==
  /\ stage[r] = "releasing"
  /\ slots' = slots + 1
  /\ To(r, "gone")
  /\ UNCHANGED <<ownerVars, loopVars, active, timers, socket, timerVars, client, served>>

----------------------------------------------------------------------------
\* The timer of a request: it checks the cancellation once, then acts.

TimerFires(r) ==
  /\ timer[r] = "running" /\ r \notin cancelled
  /\ timer' = [timer EXCEPT ![r] = "firing"]
  /\ UNCHANGED <<ownerVars, loopVars, tableVars, stage, socket, cancelled, client, served>>

ReadExpires(r) ==
  /\ timer[r] = "firing"
  /\ timer' = [timer EXCEPT ![r] = "dead"]
  /\ Cut(r)
  /\ UNCHANGED <<ownerVars, loopVars, tableVars, stage, cancelled, client, served>>

TimerEnds(r) ==
  /\ timer[r] = "running" /\ r \in cancelled
  /\ timer' = [timer EXCEPT ![r] = "dead"]
  /\ UNCHANGED <<ownerVars, loopVars, tableVars, stage, socket, cancelled, client, served>>

----------------------------------------------------------------------------
\* The owner: RecorderServer.wait and RecorderServer.shutdown.

\* shutdown: begun when the wait is over, or when it was never reached.
StopLoop ==
  /\ owner = "serving"
  /\ owner' = "stopping" /\ stop' = TRUE
  /\ UNCHANGED <<files, doomed, loop, unstarted, faults, tableVars, stage, socket, timerVars, client, served>>

\* A plausible fault: shutdown leaves the active requests to their clients.
CloseNothing ==
  /\ owner = "stopping" /\ loop = "ended"
  /\ owner' = "closing"
  /\ UNCHANGED <<files, doomed, loopVars, tableVars, stage, socket, timerVars, client, served>>

CloseActiveRequests ==
  /\ owner = "stopping" /\ loop = "ended"
  /\ owner' = "cutting" /\ doomed' = active
  /\ UNCHANGED <<files, loopVars, tableVars, stage, socket, timerVars, client, served>>

CutRequest(r) ==
  /\ owner = "cutting" /\ r \in doomed
  /\ doomed' = doomed \ {r}
  /\ Cut(r)
  /\ UNCHANGED <<files, owner, loopVars, tableVars, stage, timerVars, client, served>>

\* The listening socket is closed, and with it the connections in its queue.
CloseListener ==
  /\ owner = "cutting" /\ doomed = {}
  /\ owner' = "closing"
  /\ stage' = [r \in Requests |-> IF stage[r] = "queued" THEN "refused" ELSE stage[r]]
  /\ socket' = [r \in Requests |-> IF stage[r] = "queued" THEN "closed" ELSE socket[r]]
  /\ UNCHANGED <<files, doomed, loopVars, tableVars, timerVars, client, served>>

HandlerStages == {"reading", "rejecting", "dismissed", "joining", "replying", "replied", "finishing",
                  "settling", "leaving", "releasing"}
LiveHandlers == {r \in Requests : stage[r] \in HandlerStages}

\* A plausible fault: the handler threads are daemons nobody joins.
JoinNothing ==
  /\ owner = "closing"
  /\ owner' = IF unstarted THEN "raised" ELSE "down"
  /\ UNCHANGED <<files, doomed, loopVars, tableVars, stage, socket, timerVars, client, served>>

\* Joining a thread that never started raises; it is the last one of the list.
JoinHandlers ==
  /\ owner = "closing" /\ LiveHandlers = {}
  /\ owner' = IF unstarted THEN "raised" ELSE "down"
  /\ UNCHANGED <<files, doomed, loopVars, tableVars, stage, socket, timerVars, client, served>>

ClientStep(r) == Connect(r) \/ ClientActs(r)

LoopStep(r) ==
  \/ Refuse(r) \/ Admit(r)
  \/ StartTimer(r) \/ StartTimerFails(r)
  \/ StartHandler(r) \/ StartHandlerFails(r)

HandlerStep(r) ==
  \/ NothingRead(r) \/ RejectHead(r) \/ HeadRejected(r) \/ RejectionEnds(r) \/ Dismissed(r)
  \/ HeadRead(r) \/ TimerJoined(r)
  \/ Reply(r) \/ ReplyBreaks(r)
  \/ ShutdownRequest(r) \/ CompleteRead(r) \/ TimerSettled(r)
  \/ Untrack(r) \/ Release(r)

TimerStep(r) == TimerFires(r) \/ ReadExpires(r) \/ TimerEnds(r)

Shutdown ==
  \/ CloseActiveRequests
  \/ \E r \in Requests : CutRequest(r)
  \/ CloseListener
  \/ JoinHandlers

\* What goes on whether or not somebody shuts the server down.
ServerRuns ==
  \/ LoopEnds
  \/ \E r \in Requests : ClientStep(r) \/ LoopStep(r) \/ HandlerStep(r) \/ TimerStep(r)

(***************************************************************************)
(* The threads are scheduled: the loop, every handler and every timer run  *)
(* on, also while the process that owns them waits to end, which it does   *)
(* until the last handler has returned.  Nothing is asked of clients.      *)
(***************************************************************************)
ServerFairness ==
  /\ WF_serverVars(LoopEnds)
  /\ \A r \in Requests :
       WF_serverVars(LoopStep(r)) /\ WF_serverVars(HandlerStep(r)) /\ WF_serverVars(TimerStep(r))

----------------------------------------------------------------------------
ServerTypeOK ==
  /\ owner \in {"idle", "serving", "stopping", "cutting", "closing", "down", "raised"}
  /\ doomed \subseteq Requests
  /\ loop \in {"off", "serving", "ended"} /\ stop \in BOOLEAN
  /\ slots \in 0 .. Handlers
  /\ active \subseteq Requests /\ timers \subseteq Requests
  /\ stage \in [Requests -> Stages]
  /\ socket \in [Requests -> {"none", "open", "cut", "closed"}]
  /\ timer \in [Requests -> {"none", "set", "running", "firing", "dead"}]
  /\ cancelled \subseteq Requests
  /\ client \in [Requests -> {"silent", "sent", "draining", "gone"}]
  /\ files \subseteq Files /\ served \subseteq Requests \X Files
  /\ unstarted \in BOOLEAN /\ faults \in 0 .. ThreadFaults

(***************************************************************************)
(* A slot is free, or in use by one request that is on its way to a        *)
(* handler or has one, or lost for good with a thread that could not be    *)
(* started: each such failure costs the server exactly one slot, and       *)
(* nothing else does, nor is a slot given back twice.                      *)
(***************************************************************************)
InUse == {r \in Requests : stage[r] \in {"admitted", "armed"} \cup HandlerStages}

SlotsAreAccounted == slots + Cardinality(InUse) + faults = Handlers

(***************************************************************************)
(* The read deadline only cuts clients that have not sent their head: once *)
(* a request is being answered, nothing but a shutdown cuts it.  This is   *)
(* not so of the error that answers a head which is malformed or too long: *)
(* it is written while the timer still runs.                               *)
(***************************************************************************)
DeadlineSparesAnswers ==
  [][\A r \in Requests :
       stage[r] = "replying" /\ socket[r] = "open" /\ socket'[r] = "cut" => owner = "cutting"]_serverVars

Released == {"away", "queued", "refused", "gone"}

(***************************************************************************)
(* When shutdown has returned, or raised, nothing of the server runs on:   *)
(* no handler, no open connection, and no timer but that of a request      *)
(* whose handler could not be started.                                     *)
(***************************************************************************)
ShutdownLeavesNothing ==
  owner \in {"down", "raised"} =>
    \A r \in Requests :
      /\ stage[r] \in Released \cup {"orphan", "stranded"}
      /\ socket[r] # "open"
      /\ timer[r] \in {"running", "firing"} => stage[r] = "orphan"

\* A client that never sends its head does not keep its handler.
SilentClientsAreDropped == \A r \in Requests : stage[r] = "reading" ~> stage[r] # "reading"

=============================================================================
