----------------------- MODULE RecorderDemo_proofs -----------------------
(***************************************************************************)
(* What holds of the demo command for every list of recordings, any number *)
(* of connections, slots and failing threads: what a failed build leaves   *)
(* behind, what is served, and what a success means.                       *)
(***************************************************************************)
EXTENDS RecorderDemo, FiniteSetTheorems, TLAPS

(***************************************************************************)
(* The server first: the accounting of the slots, the scope of the read    *)
(* deadline, and what a shutdown leaves behind.  It has no specification   *)
(* of its own: its steps, and those of its owner, are part of the demo     *)
(* command.                                                                *)
(***************************************************************************)

Handing == {r \in Requests : stage[r] \in {"admitted", "armed"}}

(***************************************************************************)
(* The loop hands over one request at a time, runs until it is told to     *)
(* stop or raises, and has ended before requests are cut.                  *)
(***************************************************************************)
LoopInv ==
  /\ owner = "idle" => loop = "off" /\ \A r \in Requests : stage[r] = "away"
  /\ owner \in {"cutting", "closing", "down", "raised"} => loop = "ended"
  /\ Handing # {} => loop = "serving"
  /\ \A r, s \in Handing : r = s

(***************************************************************************)
(* What the stage of a request says of its socket and of its timer.        *)
(***************************************************************************)
StageInv ==
  \A r \in Requests :
    /\ stage[r] = "away" => socket[r] = "none"
    /\ stage[r] \in {"away", "queued", "refused"} => timer[r] = "none"
    /\ stage[r] \in {"refused", "orphan", "finishing", "settling",
                     "leaving", "releasing", "gone"} => socket[r] = "closed"
    /\ stage[r] \in {"admitted", "stranded"} => timer[r] = "set"
    /\ stage[r] \in {"stranded"} \cup (HandlerStages \ {"releasing"}) => r \in active
    /\ stage[r] \in {"admitted", "armed"} => r \in active
    /\ stage[r] \in {"admitted", "armed", "reading", "rejecting"} => r \in timers
    /\ stage[r] \in {"replying", "leaving", "releasing", "gone"} => timer[r] = "dead"
    /\ stage[r] \in {"replied", "finishing"} => r \in timers \/ timer[r] = "dead"

(***************************************************************************)
(* What the progress of a shutdown says of the requests: nothing is queued *)
(* behind a closed listener, what could not be handed over is cut, and     *)
(* handlers are joined before it returns.                                  *)
(***************************************************************************)
ClosingInv ==
  /\ owner \in {"closing", "down", "raised"} => /\ doomed = {}
                                                /\ \A r \in Requests : stage[r] # "queued"
  /\ owner \in {"cutting", "closing", "down", "raised"} =>
       \A r \in Requests : stage[r] = "stranded" => socket[r] # "open" \/ r \in doomed
  /\ owner \in {"down", "raised"} => LiveHandlers = {}

ServerInv == ServerTypeOK /\ SlotsAreAccounted /\ LoopInv /\ StageInv /\ ClosingInv

----------------------------------------------------------------------------
LEMMA ServerInitially == ServerInit => ServerInv
<1> SUFFICES ASSUME ServerInit PROVE ServerInv OBVIOUS
<1> USE DEF ServerInit
<1>1. ServerTypeOK
  <2>1. slots \in 0 .. Handlers /\ faults \in 0 .. ThreadFaults
    BY ServerAssumption
  <2>2. /\ stage \in [Requests -> Stages]
        /\ socket \in [Requests -> {"none", "open", "cut", "closed"}]
        /\ timer \in [Requests -> {"none", "set", "running", "firing", "dead"}]
        /\ client \in [Requests -> {"silent", "sent", "draining", "gone"}]
    BY DEF Stages
  <2> QED
    BY <2>1, <2>2 DEF ServerTypeOK
<1>2. SlotsAreAccounted
  <2>1. InUse = {}
    BY DEF InUse, HandlerStages
  <2> QED
    BY <2>1, FS_EmptySet, ServerAssumption DEF SlotsAreAccounted
<1>3. LoopInv /\ StageInv /\ ClosingInv
  BY DEF LoopInv, StageInv, ClosingInv, Handing, HandlerStages
<1> QED
  BY <1>1, <1>2, <1>3 DEF ServerInv

\* An invariant of the server says that nothing is left after a shutdown.
LEMMA ClosedIsClean == ServerInv => ShutdownLeavesNothing
<1> SUFFICES ASSUME ServerInv, owner \in {"down", "raised"}, NEW r \in Requests
             PROVE  /\ stage[r] \in Released \cup {"orphan", "stranded"}
                    /\ socket[r] # "open"
                    /\ timer[r] \in {"running", "firing"} => stage[r] = "orphan"
  BY DEF ShutdownLeavesNothing
<1>1. stage[r] \in Stages
  BY DEF ServerInv, ServerTypeOK
<1>2. stage[r] \notin HandlerStages /\ stage[r] # "queued"
  BY DEF ServerInv, ClosingInv, LiveHandlers
<1>3. stage[r] \notin {"admitted", "armed"}
  BY DEF ServerInv, LoopInv, Handing
<1>4. stage[r] \in {"away", "refused", "gone", "orphan", "stranded"}
  BY <1>1, <1>2, <1>3 DEF Stages, HandlerStages
<1> QED
  BY <1>4 DEF ServerInv, StageInv, ClosingInv, Released

\* A request that takes a slot, or gives its slot back, is counted once.
LEMMA Counting ==
  /\ IsFiniteSet(InUse) /\ Cardinality(InUse) \in Nat
  /\ \A r \in Requests :
       /\ Cardinality(InUse \cup {r}) = IF r \in InUse THEN Cardinality(InUse) ELSE Cardinality(InUse) + 1
       /\ Cardinality(InUse \ {r}) = IF r \in InUse THEN Cardinality(InUse) - 1 ELSE Cardinality(InUse)
       /\ Cardinality(InUse \ {r}) \in Nat
<1>1. IsFiniteSet(InUse)
  BY FS_Subset, ServerAssumption DEF InUse
<1>2. Cardinality(InUse) \in Nat
  BY <1>1, FS_CardinalityType
<1>3. ASSUME NEW r \in Requests
      PROVE  IsFiniteSet(InUse \ {r}) /\ Cardinality(InUse \ {r}) \in Nat
  BY <1>1, FS_RemoveElement, FS_CardinalityType
<1> QED
  BY <1>1, <1>2, <1>3, FS_AddElement, FS_RemoveElement

\* The slots stay accounted for when nothing takes or returns one.
LEMMA SlotsKept ==
  ASSUME SlotsAreAccounted, slots' = slots, faults' = faults, InUse' = InUse
  PROVE  SlotsAreAccounted'
BY DEF SlotsAreAccounted

----------------------------------------------------------------------------
\* The steps.

\* Clients connect, send and hang up.
LEMMA ClientMoves ==
  ASSUME ServerInv, NEW r \in Requests, ClientStep(r)
  PROVE  ServerInv'
<1> USE DEF ServerInv, ServerTypeOK, To, Close, Cut, ownerVars, loopVars, tableVars, timerVars, Stages
<1>1. ASSUME Connect(r) PROVE ServerInv'
  <2>1. ServerTypeOK'
    BY <1>1 DEF Connect
  <2>2. SlotsAreAccounted'
    BY <1>1, SlotsKept DEF Connect, InUse, HandlerStages
  <2>3. LoopInv'
    BY <1>1 DEF Connect, LoopInv, Handing
  <2>4. StageInv'
    BY <1>1 DEF Connect, StageInv, HandlerStages
  <2>5. ClosingInv'
    BY <1>1 DEF Connect, ClosingInv, LoopInv, StageInv, LiveHandlers, HandlerStages, Handing
  <2> QED BY <2>1, <2>2, <2>3, <2>4, <2>5
<1>2. ASSUME ClientActs(r) PROVE ServerInv'
  <2>1. ServerTypeOK'
    BY <1>2 DEF ClientActs
  <2>2. SlotsAreAccounted'
    BY <1>2, SlotsKept DEF ClientActs, InUse, HandlerStages
  <2>3. LoopInv'
    BY <1>2 DEF ClientActs, LoopInv, Handing
  <2>4. StageInv'
    BY <1>2 DEF ClientActs, StageInv, HandlerStages
  <2>5. ClosingInv'
    BY <1>2 DEF ClientActs, ClosingInv, LoopInv, StageInv, LiveHandlers, HandlerStages, Handing
  <2> QED BY <2>1, <2>2, <2>3, <2>4, <2>5
<1> QED
  BY <1>1, <1>2 DEF ClientStep

\* The loop admits requests and hands them over.
LEMMA LoopMoves ==
  ASSUME ServerInv, NEW r \in Requests, LoopStep(r)
  PROVE  ServerInv'
<1> USE DEF ServerInv, ServerTypeOK, To, Close, Cut, ownerVars, loopVars, tableVars, timerVars, Stages
<1>1. ASSUME Refuse(r) PROVE ServerInv'
  <2>1. ServerTypeOK'
    BY <1>1 DEF Refuse
  <2>2. SlotsAreAccounted'
    BY <1>1, SlotsKept DEF Refuse, InUse, HandlerStages
  <2>3. LoopInv'
    BY <1>1 DEF Refuse, LoopInv, Handing
  <2>4. StageInv'
    BY <1>1 DEF Refuse, StageInv, HandlerStages
  <2>5. ClosingInv'
    BY <1>1 DEF Refuse, ClosingInv, LoopInv, StageInv, LiveHandlers, HandlerStages, Handing
  <2> QED BY <2>1, <2>2, <2>3, <2>4, <2>5
<1>2. ASSUME Admit(r) PROVE ServerInv'
  <2>1. ServerTypeOK'
    BY <1>2, ServerAssumption DEF Admit
  <2>2. SlotsAreAccounted'
    BY <1>2, Counting DEF Admit, InUse, HandlerStages, SlotsAreAccounted
  <2>3. LoopInv'
    BY <1>2 DEF Admit, Accepting, HandingOver, LoopInv, Handing
  <2>4. StageInv'
    BY <1>2 DEF Admit, StageInv, HandlerStages
  <2>5. ClosingInv'
    BY <1>2 DEF Admit, ClosingInv, LoopInv, StageInv, LiveHandlers, HandlerStages, Handing
  <2> QED BY <2>1, <2>2, <2>3, <2>4, <2>5
<1>3. ASSUME StartTimer(r) PROVE ServerInv'
  <2>1. ServerTypeOK'
    BY <1>3 DEF StartTimer
  <2>2. SlotsAreAccounted'
    BY <1>3, SlotsKept DEF StartTimer, InUse, HandlerStages
  <2>3. LoopInv'
    BY <1>3 DEF StartTimer, LoopInv, Handing
  <2>4. StageInv'
    BY <1>3 DEF StartTimer, StageInv, HandlerStages
  <2>5. ClosingInv'
    BY <1>3 DEF StartTimer, ClosingInv, LoopInv, StageInv, LiveHandlers, HandlerStages, Handing
  <2> QED BY <2>1, <2>2, <2>3, <2>4, <2>5
<1>4. ASSUME StartTimerFails(r) PROVE ServerInv'
  <2>1. ServerTypeOK'
    BY <1>4, ServerAssumption DEF StartTimerFails
  <2>2. SlotsAreAccounted'
    BY <1>4, Counting, ServerAssumption DEF StartTimerFails, InUse, HandlerStages, SlotsAreAccounted
  <2>3. LoopInv'
    BY <1>4 DEF StartTimerFails, LoopInv, Handing
  <2>4. StageInv'
    BY <1>4 DEF StartTimerFails, StageInv, HandlerStages
  <2>5. ClosingInv'
    BY <1>4 DEF StartTimerFails, ClosingInv, LoopInv, StageInv, LiveHandlers, HandlerStages, Handing
  <2> QED BY <2>1, <2>2, <2>3, <2>4, <2>5
<1>5. ASSUME StartHandler(r) PROVE ServerInv'
  <2>1. ServerTypeOK'
    BY <1>5 DEF StartHandler
  <2>2. SlotsAreAccounted'
    BY <1>5, SlotsKept DEF StartHandler, InUse, HandlerStages
  <2>3. LoopInv'
    BY <1>5 DEF StartHandler, LoopInv, Handing
  <2>4. StageInv'
    BY <1>5 DEF StartHandler, StageInv, HandlerStages
  <2>5. ClosingInv'
    BY <1>5 DEF StartHandler, ClosingInv, LoopInv, StageInv, LiveHandlers, HandlerStages, Handing
  <2> QED BY <2>1, <2>2, <2>3, <2>4, <2>5
<1>6. ASSUME StartHandlerFails(r) PROVE ServerInv'
  <2>1. ServerTypeOK'
    BY <1>6, ServerAssumption DEF StartHandlerFails
  <2>2. SlotsAreAccounted'
    BY <1>6, Counting, ServerAssumption DEF StartHandlerFails, InUse, HandlerStages, SlotsAreAccounted
  <2>3. LoopInv'
    BY <1>6 DEF StartHandlerFails, LoopInv, Handing
  <2>4. StageInv'
    BY <1>6 DEF StartHandlerFails, StageInv, HandlerStages
  <2>5. ClosingInv'
    BY <1>6 DEF StartHandlerFails, ClosingInv, LoopInv, StageInv, LiveHandlers, HandlerStages, Handing
  <2> QED BY <2>1, <2>2, <2>3, <2>4, <2>5
<1> QED
  BY <1>1, <1>2, <1>3, <1>4, <1>5, <1>6 DEF LoopStep

\* A handler takes its request from the head to the end.
LEMMA HandlerMoves ==
  ASSUME ServerInv, NEW r \in Requests, HandlerStep(r)
  PROVE  ServerInv'
<1> USE DEF ServerInv, ServerTypeOK, To, Close, Cut, ownerVars, loopVars, tableVars, timerVars, Stages
<1>1. ASSUME HeadRead(r) PROVE ServerInv'
  <2>1. ServerTypeOK'
    BY <1>1 DEF HeadRead
  <2>2. SlotsAreAccounted'
    BY <1>1, SlotsKept DEF HeadRead, InUse, HandlerStages
  <2>3. LoopInv'
    BY <1>1 DEF HeadRead, LoopInv, Handing
  <2>4. StageInv'
    BY <1>1 DEF HeadRead, StageInv, HandlerStages
  <2>5. ClosingInv'
    BY <1>1 DEF HeadRead, ClosingInv, LoopInv, StageInv, LiveHandlers, HandlerStages, Handing
  <2> QED BY <2>1, <2>2, <2>3, <2>4, <2>5
<1>2. ASSUME NothingRead(r) PROVE ServerInv'
  <2>1. ServerTypeOK'
    BY <1>2 DEF NothingRead
  <2>2. SlotsAreAccounted'
    BY <1>2, SlotsKept DEF NothingRead, InUse, HandlerStages
  <2>3. LoopInv'
    BY <1>2 DEF NothingRead, LoopInv, Handing
  <2>4. StageInv'
    BY <1>2 DEF NothingRead, StageInv, HandlerStages
  <2>5. ClosingInv'
    BY <1>2 DEF NothingRead, ClosingInv, LoopInv, StageInv, LiveHandlers, HandlerStages, Handing
  <2> QED BY <2>1, <2>2, <2>3, <2>4, <2>5
<1>3. ASSUME TimerJoined(r) PROVE ServerInv'
  <2>1. ServerTypeOK'
    BY <1>3 DEF TimerJoined
  <2>2. SlotsAreAccounted'
    BY <1>3, SlotsKept DEF TimerJoined, InUse, HandlerStages
  <2>3. LoopInv'
    BY <1>3 DEF TimerJoined, LoopInv, Handing
  <2>4. StageInv'
    BY <1>3 DEF TimerJoined, StageInv, HandlerStages
  <2>5. ClosingInv'
    BY <1>3 DEF TimerJoined, ClosingInv, LoopInv, StageInv, LiveHandlers, HandlerStages, Handing
  <2> QED BY <2>1, <2>2, <2>3, <2>4, <2>5
<1>4. ASSUME Reply(r) PROVE ServerInv'
  <2>1. ServerTypeOK'
    <3>1. \A h \in Heads : Status(h) = 200 => h.path \in files
      BY DEF Status, Heads
    <3>2. served' \subseteq Requests \X Files
      BY <1>4, <3>1 DEF Reply
    <3> QED
      BY <1>4, <3>2 DEF Reply
  <2>2. SlotsAreAccounted'
    BY <1>4, SlotsKept DEF Reply, InUse, HandlerStages
  <2>3. LoopInv'
    BY <1>4 DEF Reply, LoopInv, Handing
  <2>4. StageInv'
    BY <1>4 DEF Reply, StageInv, HandlerStages
  <2>5. ClosingInv'
    BY <1>4 DEF Reply, ClosingInv, LoopInv, StageInv, LiveHandlers, HandlerStages, Handing
  <2> QED BY <2>1, <2>2, <2>3, <2>4, <2>5
<1>5. ASSUME ReplyBreaks(r) PROVE ServerInv'
  <2>1. ServerTypeOK'
    BY <1>5 DEF ReplyBreaks
  <2>2. SlotsAreAccounted'
    BY <1>5, SlotsKept DEF ReplyBreaks, InUse, HandlerStages
  <2>3. LoopInv'
    BY <1>5 DEF ReplyBreaks, LoopInv, Handing
  <2>4. StageInv'
    BY <1>5 DEF ReplyBreaks, StageInv, HandlerStages
  <2>5. ClosingInv'
    BY <1>5 DEF ReplyBreaks, ClosingInv, LoopInv, StageInv, LiveHandlers, HandlerStages, Handing
  <2> QED BY <2>1, <2>2, <2>3, <2>4, <2>5
<1>6. ASSUME ShutdownRequest(r) PROVE ServerInv'
  <2>1. ServerTypeOK'
    BY <1>6 DEF ShutdownRequest
  <2>2. SlotsAreAccounted'
    BY <1>6, SlotsKept DEF ShutdownRequest, InUse, HandlerStages
  <2>3. LoopInv'
    BY <1>6 DEF ShutdownRequest, LoopInv, Handing
  <2>4. StageInv'
    BY <1>6 DEF ShutdownRequest, StageInv, HandlerStages
  <2>5. ClosingInv'
    BY <1>6 DEF ShutdownRequest, ClosingInv, LoopInv, StageInv, LiveHandlers, HandlerStages, Handing
  <2> QED BY <2>1, <2>2, <2>3, <2>4, <2>5
<1>7. ASSUME CompleteRead(r) PROVE ServerInv'
  <2>1. ServerTypeOK'
    BY <1>7 DEF CompleteRead
  <2>2. SlotsAreAccounted'
    BY <1>7, SlotsKept DEF CompleteRead, InUse, HandlerStages
  <2>3. LoopInv'
    BY <1>7 DEF CompleteRead, LoopInv, Handing
  <2>4. StageInv'
    BY <1>7 DEF CompleteRead, StageInv, HandlerStages
  <2>5. ClosingInv'
    BY <1>7 DEF CompleteRead, ClosingInv, LoopInv, StageInv, LiveHandlers, HandlerStages, Handing
  <2> QED BY <2>1, <2>2, <2>3, <2>4, <2>5
<1>8. ASSUME TimerSettled(r) PROVE ServerInv'
  <2>1. ServerTypeOK'
    BY <1>8 DEF TimerSettled
  <2>2. SlotsAreAccounted'
    BY <1>8, SlotsKept DEF TimerSettled, InUse, HandlerStages
  <2>3. LoopInv'
    BY <1>8 DEF TimerSettled, LoopInv, Handing
  <2>4. StageInv'
    BY <1>8 DEF TimerSettled, StageInv, HandlerStages
  <2>5. ClosingInv'
    BY <1>8 DEF TimerSettled, ClosingInv, LoopInv, StageInv, LiveHandlers, HandlerStages, Handing
  <2> QED BY <2>1, <2>2, <2>3, <2>4, <2>5
<1>9. ASSUME Untrack(r) PROVE ServerInv'
  <2>1. ServerTypeOK'
    BY <1>9 DEF Untrack
  <2>2. SlotsAreAccounted'
    BY <1>9, SlotsKept DEF Untrack, InUse, HandlerStages
  <2>3. LoopInv'
    BY <1>9 DEF Untrack, LoopInv, Handing
  <2>4. StageInv'
    BY <1>9 DEF Untrack, StageInv, HandlerStages
  <2>5. ClosingInv'
    BY <1>9 DEF Untrack, ClosingInv, LoopInv, StageInv, LiveHandlers, HandlerStages, Handing
  <2> QED BY <2>1, <2>2, <2>3, <2>4, <2>5
<1>10. ASSUME Release(r) PROVE ServerInv'
  <2>1. ServerTypeOK'
    <3>1. r \in InUse /\ slots + Cardinality(InUse) + faults = Handlers
      BY <1>10 DEF Release, InUse, HandlerStages, SlotsAreAccounted
    <3>2. Cardinality(InUse) \in Nat /\ Cardinality(InUse) - 1 \in Nat
      BY <3>1, Counting
    <3>3. slots + 1 \in 0 .. Handlers
      BY <3>1, <3>2, ServerAssumption
    <3> QED
      BY <1>10, <3>3 DEF Release
  <2>2. SlotsAreAccounted'
    BY <1>10, Counting DEF Release, InUse, HandlerStages, SlotsAreAccounted
  <2>3. LoopInv'
    BY <1>10 DEF Release, LoopInv, Handing
  <2>4. StageInv'
    BY <1>10 DEF Release, StageInv, HandlerStages
  <2>5. ClosingInv'
    BY <1>10 DEF Release, ClosingInv, LoopInv, StageInv, LiveHandlers, HandlerStages, Handing
  <2> QED BY <2>1, <2>2, <2>3, <2>4, <2>5
<1>11. ASSUME RejectHead(r) PROVE ServerInv'
  <2>1. ServerTypeOK'
    BY <1>11 DEF RejectHead
  <2>2. SlotsAreAccounted'
    BY <1>11, SlotsKept DEF RejectHead, InUse, HandlerStages
  <2>3. LoopInv'
    BY <1>11 DEF RejectHead, LoopInv, Handing
  <2>4. StageInv'
    BY <1>11 DEF RejectHead, StageInv, HandlerStages
  <2>5. ClosingInv'
    BY <1>11 DEF RejectHead, ClosingInv, LoopInv, StageInv, LiveHandlers, HandlerStages, Handing
  <2> QED BY <2>1, <2>2, <2>3, <2>4, <2>5
<1>12. ASSUME HeadRejected(r) PROVE ServerInv'
  <2>1. ServerTypeOK'
    BY <1>12 DEF HeadRejected
  <2>2. SlotsAreAccounted'
    BY <1>12, SlotsKept DEF HeadRejected, InUse, HandlerStages
  <2>3. LoopInv'
    BY <1>12 DEF HeadRejected, LoopInv, Handing
  <2>4. StageInv'
    BY <1>12 DEF HeadRejected, StageInv, HandlerStages
  <2>5. ClosingInv'
    BY <1>12 DEF HeadRejected, ClosingInv, LoopInv, StageInv, LiveHandlers, HandlerStages, Handing
  <2> QED BY <2>1, <2>2, <2>3, <2>4, <2>5
<1>13. ASSUME RejectionEnds(r) PROVE ServerInv'
  <2>1. ServerTypeOK'
    BY <1>13 DEF RejectionEnds
  <2>2. SlotsAreAccounted'
    BY <1>13, SlotsKept DEF RejectionEnds, InUse, HandlerStages
  <2>3. LoopInv'
    BY <1>13 DEF RejectionEnds, LoopInv, Handing
  <2>4. StageInv'
    BY <1>13 DEF RejectionEnds, StageInv, HandlerStages
  <2>5. ClosingInv'
    BY <1>13 DEF RejectionEnds, ClosingInv, LoopInv, StageInv, LiveHandlers, HandlerStages, Handing
  <2> QED BY <2>1, <2>2, <2>3, <2>4, <2>5
<1>14. ASSUME Dismissed(r) PROVE ServerInv'
  <2>1. ServerTypeOK'
    BY <1>14 DEF Dismissed
  <2>2. SlotsAreAccounted'
    BY <1>14, SlotsKept DEF Dismissed, InUse, HandlerStages
  <2>3. LoopInv'
    BY <1>14 DEF Dismissed, LoopInv, Handing
  <2>4. StageInv'
    BY <1>14 DEF Dismissed, StageInv, HandlerStages
  <2>5. ClosingInv'
    BY <1>14 DEF Dismissed, ClosingInv, LoopInv, StageInv, LiveHandlers, HandlerStages, Handing
  <2> QED BY <2>1, <2>2, <2>3, <2>4, <2>5
<1> QED
  BY <1>1, <1>2, <1>3, <1>4, <1>5, <1>6, <1>7, <1>8, <1>9, <1>10, <1>11, <1>12, <1>13, <1>14
     DEF HandlerStep

\* A timer fires, or ends cancelled.
LEMMA TimerMoves ==
  ASSUME ServerInv, NEW r \in Requests, TimerStep(r)
  PROVE  ServerInv'
<1> USE DEF ServerInv, ServerTypeOK, To, Close, Cut, ownerVars, loopVars, tableVars, timerVars, Stages
<1>1. ASSUME TimerFires(r) PROVE ServerInv'
  <2>1. ServerTypeOK'
    BY <1>1 DEF TimerFires
  <2>2. SlotsAreAccounted'
    BY <1>1, SlotsKept DEF TimerFires, InUse, HandlerStages
  <2>3. LoopInv'
    BY <1>1 DEF TimerFires, LoopInv, Handing
  <2>4. StageInv'
    BY <1>1 DEF TimerFires, StageInv, HandlerStages
  <2>5. ClosingInv'
    BY <1>1 DEF TimerFires, ClosingInv, LoopInv, StageInv, LiveHandlers, HandlerStages, Handing
  <2> QED BY <2>1, <2>2, <2>3, <2>4, <2>5
<1>2. ASSUME ReadExpires(r) PROVE ServerInv'
  <2>1. ServerTypeOK'
    BY <1>2 DEF ReadExpires
  <2>2. SlotsAreAccounted'
    BY <1>2, SlotsKept DEF ReadExpires, InUse, HandlerStages
  <2>3. LoopInv'
    BY <1>2 DEF ReadExpires, LoopInv, Handing
  <2>4. StageInv'
    BY <1>2 DEF ReadExpires, StageInv, HandlerStages
  <2>5. ClosingInv'
    BY <1>2 DEF ReadExpires, ClosingInv, LoopInv, StageInv, LiveHandlers, HandlerStages, Handing
  <2> QED BY <2>1, <2>2, <2>3, <2>4, <2>5
<1>3. ASSUME TimerEnds(r) PROVE ServerInv'
  <2>1. ServerTypeOK'
    BY <1>3 DEF TimerEnds
  <2>2. SlotsAreAccounted'
    BY <1>3, SlotsKept DEF TimerEnds, InUse, HandlerStages
  <2>3. LoopInv'
    BY <1>3 DEF TimerEnds, LoopInv, Handing
  <2>4. StageInv'
    BY <1>3 DEF TimerEnds, StageInv, HandlerStages
  <2>5. ClosingInv'
    BY <1>3 DEF TimerEnds, ClosingInv, LoopInv, StageInv, LiveHandlers, HandlerStages, Handing
  <2> QED BY <2>1, <2>2, <2>3, <2>4, <2>5
<1> QED
  BY <1>1, <1>2, <1>3 DEF TimerStep

\* The owner stops the loop, cuts what is active, and waits for the handlers.
LEMMA OwnerMoves == ServerInv /\ (LoopEnds \/ Shutdown \/ StopLoop) => ServerInv'
<1> SUFFICES ASSUME ServerInv, LoopEnds \/ Shutdown \/ StopLoop PROVE ServerInv' OBVIOUS
<1> USE DEF ServerInv, ServerTypeOK, Cut, ownerVars, loopVars, tableVars, timerVars, Stages
<1>1. ASSUME LoopEnds PROVE ServerInv'
  <2>1. ServerTypeOK' /\ SlotsAreAccounted'
    BY <1>1, SlotsKept DEF LoopEnds, InUse
  <2>2. LoopInv'
    BY <1>1 DEF LoopEnds, HandingOver, LoopInv, Handing
  <2>3. StageInv' /\ ClosingInv'
    BY <1>1 DEF LoopEnds, StageInv, ClosingInv, LiveHandlers
  <2> QED BY <2>1, <2>2, <2>3
<1>2. ASSUME StopLoop PROVE ServerInv'
  <2>1. ServerTypeOK' /\ SlotsAreAccounted'
    BY <1>2, SlotsKept DEF StopLoop, InUse
  <2>2. LoopInv' /\ StageInv' /\ ClosingInv'
    BY <1>2 DEF StopLoop, LoopInv, Handing, StageInv, ClosingInv
  <2> QED BY <2>1, <2>2
<1>3. ASSUME CloseActiveRequests PROVE ServerInv'
  <2>1. ServerTypeOK' /\ SlotsAreAccounted'
    BY <1>3, SlotsKept DEF CloseActiveRequests, InUse
  <2>2. LoopInv' /\ StageInv'
    BY <1>3 DEF CloseActiveRequests, LoopInv, Handing, StageInv
  <2>3. ClosingInv'
    BY <1>3 DEF CloseActiveRequests, ClosingInv, StageInv
  <2> QED BY <2>1, <2>2, <2>3
<1>4. ASSUME NEW r \in Requests, CutRequest(r) PROVE ServerInv'
  <2>1. ServerTypeOK' /\ SlotsAreAccounted'
    BY <1>4, SlotsKept DEF CutRequest, InUse
  <2>2. LoopInv' /\ StageInv'
    BY <1>4 DEF CutRequest, LoopInv, Handing, StageInv
  <2>3. ClosingInv'
    BY <1>4 DEF CutRequest, ClosingInv
  <2> QED BY <2>1, <2>2, <2>3
<1>5. ASSUME CloseListener PROVE ServerInv'
  <2>1. ServerTypeOK'
    BY <1>5 DEF CloseListener
  <2>2. SlotsAreAccounted'
    BY <1>5, SlotsKept DEF CloseListener, InUse, HandlerStages
  <2>3. LoopInv'
    BY <1>5 DEF CloseListener, LoopInv, Handing
  <2>4. StageInv'
    BY <1>5 DEF CloseListener, StageInv, HandlerStages
  <2>5. ClosingInv'
    BY <1>5 DEF CloseListener, ClosingInv
  <2> QED BY <2>1, <2>2, <2>3, <2>4, <2>5
<1>6. ASSUME JoinHandlers PROVE ServerInv'
  <2>1. ServerTypeOK' /\ SlotsAreAccounted'
    BY <1>6, SlotsKept DEF JoinHandlers, InUse
  <2>2. LoopInv' /\ StageInv'
    BY <1>6 DEF JoinHandlers, LoopInv, Handing, StageInv
  <2>3. ClosingInv'
    BY <1>6 DEF JoinHandlers, ClosingInv, LiveHandlers
  <2> QED BY <2>1, <2>2, <2>3
<1> QED
  BY <1>1, <1>2, <1>3, <1>4, <1>5, <1>6 DEF Shutdown

\* Serving starts on an idle server, on which no request has been seen.
LEMMA ServingStarts ==
  ASSUME ServerInv, NEW root \in SUBSET Files, ServeRecorder(root)
  PROVE  ServerInv'
<1> USE DEF ServerInv, ServerTypeOK, ServeRecorder, tableVars, timerVars
<1>1. ServerTypeOK'
  BY DEF LoopInv
<1>2. SlotsAreAccounted'
  BY SlotsKept DEF InUse
<1>3. LoopInv' /\ StageInv' /\ ClosingInv'
  BY DEF LoopInv, Handing, StageInv, ClosingInv
<1> QED
  BY <1>1, <1>2, <1>3

LEMMA ServerRests == ServerInv /\ UNCHANGED serverVars => ServerInv'
BY SlotsKept DEF ServerInv, ServerTypeOK, LoopInv, Handing, StageInv, ClosingInv, LiveHandlers,
   InUse, serverVars, ownerVars, loopVars, tableVars, timerVars

LEMMA ServerStep == ServerInv /\ ServerRuns => ServerInv'
<1> SUFFICES ASSUME ServerInv, ServerRuns PROVE ServerInv' OBVIOUS
<1>1. CASE \E r \in Requests : ClientStep(r) \/ LoopStep(r) \/ HandlerStep(r) \/ TimerStep(r)
  BY <1>1, ClientMoves, LoopMoves, HandlerMoves, TimerMoves
<1>2. CASE LoopEnds
  BY <1>2, OwnerMoves
<1> QED
  BY <1>1, <1>2 DEF ServerRuns

\* Clients, handlers and timers leave the owner alone, and shutdown is one way.
LEMMA OwnerSteps ==
  /\ ServerRuns => UNCHANGED owner
  /\ Shutdown => /\ owner \in {"stopping", "cutting", "closing"}
                 /\ owner' \in {"cutting", "closing", "down", "raised"}
<1> USE DEF ownerVars
<1>1. ASSUME NEW r \in Requests, ClientStep(r) \/ LoopStep(r) \/ TimerStep(r) PROVE UNCHANGED owner
  BY <1>1 DEF ClientStep, Connect, ClientActs, LoopStep, Refuse, Admit, StartTimer, StartTimerFails,
     StartHandler, StartHandlerFails, TimerStep, TimerFires, ReadExpires, TimerEnds
<1>2. ASSUME NEW r \in Requests, HandlerStep(r) PROVE UNCHANGED owner
  BY <1>2 DEF HandlerStep, HeadRead, NothingRead, RejectHead, HeadRejected, RejectionEnds, Dismissed,
     TimerJoined, Reply, ReplyBreaks, ShutdownRequest, CompleteRead, TimerSettled, Untrack, Release
<1>3. LoopEnds => UNCHANGED owner
  BY DEF LoopEnds
<1>4. Shutdown => /\ owner \in {"stopping", "cutting", "closing"}
                  /\ owner' \in {"cutting", "closing", "down", "raised"}
  BY DEF Shutdown, CloseActiveRequests, CutRequest, CloseListener, JoinHandlers
<1> QED
  BY <1>1, <1>2, <1>3, <1>4 DEF ServerRuns

\* What cuts a connection that is being answered is the shutdown.
LEMMA OnlyShutdownCuts ==
  ASSUME ServerInv, ServerRuns \/ Shutdown, NEW r \in Requests,
         stage[r] = "replying", socket[r] = "open", socket'[r] = "cut"
  PROVE  owner = "cutting"
<1> USE DEF Cut, Close, tableVars, timerVars, ServerInv, ServerTypeOK
<1>1. CASE \E s \in Requests : ClientStep(s) \/ LoopStep(s)
  BY <1>1 DEF ClientStep, Connect, ClientActs, LoopStep, Refuse, Admit, StartTimer, StartTimerFails,
     StartHandler, StartHandlerFails
<1>2. CASE \E s \in Requests : HandlerStep(s)
  BY <1>2 DEF HandlerStep, HeadRead, NothingRead, RejectHead, HeadRejected, RejectionEnds, Dismissed,
     TimerJoined, Reply, ReplyBreaks, ShutdownRequest, CompleteRead, TimerSettled, Untrack, Release
<1>3. CASE \E s \in Requests : TimerStep(s)
  BY <1>3 DEF TimerStep, TimerFires, ReadExpires, TimerEnds, StageInv
<1>4. CASE LoopEnds \/ Shutdown
  BY <1>4 DEF LoopEnds, Shutdown, CloseActiveRequests, CutRequest, CloseListener, JoinHandlers
<1> QED
  BY <1>1, <1>2, <1>3, <1>4 DEF ServerRuns

----------------------------------------------------------------------------
(***************************************************************************)
(* The demo command: the build of the site, and the server that serves it. *)
(***************************************************************************)

(***************************************************************************)
(* What every step of the build has done: which descriptors it holds,      *)
(* which payloads are written, and that only a failure has a fault.        *)
(***************************************************************************)
NothingWritten == \A f \in Payloads : disk[f] = "absent"
NothingOnDisk == \A f \in AllFiles : disk[f] = "absent"
EverythingWhole == \A f \in Payloads : disk[f] = "whole"

Claiming == {"descending", "claiming", "opening", "inspecting", "identifying"}

Held ==
  /\ build = "checking" => descriptors = {}
  /\ build \in {"descending", "claiming", "opening"} => descriptors = {"parent"}
  /\ build \in {"inspecting", "identifying", "copying", "reopening", "confirming"} =>
       descriptors = {"parent", "site"}
  /\ build \in {"writing", "validating"} => descriptors = {"parent", "site", "traces"}
  /\ build \in {"purging", "closing"} =>
       /\ fault = "none" => descriptors = {"parent", "site"}
       /\ fault \in {"error", "group"} =>
            descriptors \in {{"parent", "site"}, {"parent", "site", "location"}}

SiteInv ==
  /\ SiteTypeOK
  /\ Held
  /\ build \in {"checking"} \cup Claiming => NothingOnDisk
  /\ build = "purging" => fault \in Causes
  /\ build = "failed" => fault # "none"
  /\ build \notin {"purging", "closing", "failed"} => fault = "none"
  /\ build = "built" \/ (build = "closing" /\ fault = "none") => name = "ours"
  /\ build = "reopening" => step = 0
  /\ build = "validating" =>
       /\ disk[Index] = "whole"
       /\ step <= Len(Recordings)
       /\ \A i \in 1 .. step : disk[Recordings[i]] = "whole"
  /\ build = "closing" /\ fault \in Causes => NothingWritten
  /\ build = "closing" => fault # "late interrupt"
  /\ NothingLeftAfterFailure
  /\ DescriptorsAreReturned

Verified ==
  build \in {"confirming", "built"} \/ (build = "closing" /\ fault = "none") => EverythingWhole

(***************************************************************************)
(* How the steps of the command bound those of the site and of the server: *)
(* a stray interrupt is the price of an abandoned server, or of a          *)
(* workspace that stays behind an exit 0.                                  *)
(***************************************************************************)
Settled == owner \in {"idle", "down", "raised"}

CommandInv ==
  /\ command \in {"loading", "building"} => owner = "idle" /\ cause = "none"
  /\ command = "loading" => build = "checking"
  /\ command = "serving" => owner = "serving" /\ build = "built"
  /\ command = "closing" => /\ build = "built"
                            /\ owner \in {"stopping", "cutting", "closing", "down", "raised"}
  /\ command \in {"removing", "exited"} =>
       build \in {"checking", "built", "failed"} /\ (Settled \/ build = "built")
  /\ command \notin {"removing", "exited"} => strays = 0
  /\ command = "removing" => strays \in 0 .. 1 /\ (Settled \/ strays = 1)
  /\ command = "exited" /\ strays = 0 => Settled /\ (status = "0" => NothingOnDisk)
  /\ command = "exited" /\ strays = 1 /\ status = "0" => Settled \/ NothingOnDisk
  /\ command # "exited" => Verified
  /\ command = "exited" /\ build = "built" => \A f \in Payloads : disk[f] \in {"whole", "absent"}
  /\ status # "none" <=> command = "exited"

DemoInv == DemoTypeOK /\ SiteInv /\ ServerInv /\ CommandInv

----------------------------------------------------------------------------
\* The site.

LEMMA Contents ==
  /\ Index \in Payloads /\ Payloads \subseteq AllFiles
  /\ Len(Recordings) \in Nat
  /\ \A i \in 1 .. Len(Recordings) : Recordings[i] \in Payloads /\ Recordings[i] # Index
  /\ \A i, j \in 1 .. Len(Recordings) : Recordings[i] = Recordings[j] => i = j
  /\ \A f \in Payloads : f = Index \/ \E i \in 1 .. Len(Recordings) : f = Recordings[i]
  /\ \A i \in 1 .. Len(Assets) : Assets[i] \in AllFiles /\ Assets[i] \notin Payloads
<1>1. /\ Len(Recordings) \in Nat /\ DOMAIN Recordings = 1 .. Len(Recordings)
      /\ DOMAIN Assets = 1 .. Len(Assets)
  BY SiteAssumption
<1>2. /\ \A i \in 1 .. Len(Recordings) : Recordings[i] \in ToSet(Recordings)
      /\ \A f \in ToSet(Recordings) : \E i \in 1 .. Len(Recordings) : f = Recordings[i]
      /\ \A i \in 1 .. Len(Assets) : Assets[i] \in ToSet(Assets)
  BY <1>1 DEF ToSet
<1>3. Index \notin ToSet(Recordings) \cup ToSet(Assets) /\ ToSet(Recordings) \cap ToSet(Assets) = {}
  BY SiteAssumption
<1>4. \A i, j \in 1 .. Len(Recordings) : Recordings[i] = Recordings[j] => i = j
  BY <1>1, SiteAssumption DEF IsInjective
<1> QED
  BY <1>1, <1>2, <1>3, <1>4 DEF AllFiles, Payloads

LEMMA SiteInitially == SiteInit => SiteInv /\ Verified
<1> SUFFICES ASSUME SiteInit PROVE SiteInv /\ Verified OBVIOUS
<1>1. SiteTypeOK
  BY DEF SiteInit, SiteTypeOK, Causes
<1> QED
  BY <1>1 DEF SiteInit, SiteInv, Verified, Held, NothingOnDisk, Claiming, NothingLeftAfterFailure,
     DescriptorsAreReturned

LEMMA Writing ==
  ASSUME SiteTypeOK, NEW f \in AllFiles, Write(f) \/ Tear(f)
  PROVE  disk' \in [AllFiles -> {"absent", "torn", "whole", "bad"}]
BY DEF SiteTypeOK, Write, Tear

\* Every step of the build, one lemma for all of them.
LEMMA SiteMoves ==
  ASSUME SiteInv, Verified, SiteStep \/ SiteEnvironment
  PROVE  SiteInv' /\ Verified'
<1> Len(Assets) \in Nat /\ Len(Recordings) \in Nat
  BY SiteAssumption
<1> USE DEF SiteInv, Causes, Claiming
<1> step \in Nat /\ descriptors \subseteq {"parent", "site", "traces", "location", "file"}
  BY DEF SiteTypeOK
<1>1. ASSUME OpenRoot PROVE SiteInv' /\ Verified'
  <2>1. SiteTypeOK'
    BY <1>1 DEF OpenRoot, SiteTypeOK
  <2>2. Held'
    BY <1>1 DEF OpenRoot, Held
  <2>3. DescriptorsAreReturned'
    BY <1>1 DEF OpenRoot, Held, DescriptorsAreReturned, NothingOnDisk
  <2>4. SiteInv'
    BY <1>1, <2>1, <2>2, <2>3, Contents DEF OpenRoot, NothingOnDisk, NothingWritten, NothingLeftAfterFailure
  <2>5. Verified'
    BY <1>1 DEF OpenRoot, Verified, EverythingWhole
  <2> QED BY <2>4, <2>5
<1>2. ASSUME OpenParent PROVE SiteInv' /\ Verified'
  <2>1. SiteTypeOK'
    BY <1>2 DEF OpenParent, SiteTypeOK
  <2>2. Held'
    BY <1>2 DEF OpenParent, Held
  <2>3. DescriptorsAreReturned'
    BY <1>2 DEF OpenParent, Held, DescriptorsAreReturned, NothingOnDisk
  <2>4. SiteInv'
    BY <1>2, <2>1, <2>2, <2>3, Contents DEF OpenParent, NothingOnDisk, NothingWritten, NothingLeftAfterFailure
  <2>5. Verified'
    BY <1>2 DEF OpenParent, Verified, EverythingWhole
  <2> QED BY <2>4, <2>5
<1>3. ASSUME MakeSite PROVE SiteInv' /\ Verified'
  <2>1. SiteTypeOK'
    BY <1>3 DEF MakeSite, SiteTypeOK
  <2>2. Held'
    BY <1>3 DEF MakeSite, Held
  <2>3. DescriptorsAreReturned'
    BY <1>3 DEF MakeSite, Held, DescriptorsAreReturned, NothingOnDisk
  <2>4. SiteInv'
    BY <1>3, <2>1, <2>2, <2>3, Contents DEF MakeSite, NothingOnDisk, NothingWritten, NothingLeftAfterFailure
  <2>5. Verified'
    BY <1>3 DEF MakeSite, Verified, EverythingWhole
  <2> QED BY <2>4, <2>5
<1>4. ASSUME OpenSite PROVE SiteInv' /\ Verified'
  <2>1. SiteTypeOK'
    BY <1>4 DEF OpenSite, SiteTypeOK
  <2>2. Held'
    BY <1>4 DEF OpenSite, Held
  <2>3. DescriptorsAreReturned'
    BY <1>4 DEF OpenSite, Held, DescriptorsAreReturned, NothingOnDisk
  <2>4. SiteInv'
    BY <1>4, <2>1, <2>2, <2>3, Contents DEF OpenSite, NothingOnDisk, NothingWritten, NothingLeftAfterFailure
  <2>5. Verified'
    BY <1>4 DEF OpenSite, Verified, EverythingWhole
  <2> QED BY <2>4, <2>5
<1>5. ASSUME InspectSite PROVE SiteInv' /\ Verified'
  <2>1. SiteTypeOK'
    BY <1>5 DEF InspectSite, SiteTypeOK
  <2>2. Held'
    BY <1>5 DEF InspectSite, Held
  <2>3. DescriptorsAreReturned'
    BY <1>5 DEF InspectSite, Held, DescriptorsAreReturned, NothingOnDisk
  <2>4. SiteInv'
    BY <1>5, <2>1, <2>2, <2>3, Contents DEF InspectSite, NothingOnDisk, NothingWritten, NothingLeftAfterFailure
  <2>5. Verified'
    BY <1>5 DEF InspectSite, Verified, EverythingWhole
  <2> QED BY <2>4, <2>5
<1>6. ASSUME IdentifySite PROVE SiteInv' /\ Verified'
  <2>1. SiteTypeOK'
    BY <1>6 DEF IdentifySite, SiteTypeOK
  <2>2. Held'
    BY <1>6 DEF IdentifySite, Held
  <2>3. DescriptorsAreReturned'
    BY <1>6 DEF IdentifySite, Held, DescriptorsAreReturned, NothingOnDisk
  <2>4. SiteInv'
    BY <1>6, <2>1, <2>2, <2>3, Contents DEF IdentifySite, NothingOnDisk, NothingWritten, NothingLeftAfterFailure
  <2>5. Verified'
    BY <1>6 DEF IdentifySite, Verified, EverythingWhole
  <2> QED BY <2>4, <2>5
<1>7. ASSUME ClaimFails PROVE SiteInv' /\ Verified'
  <2>1. SiteTypeOK'
    BY <1>7 DEF ClaimFails, GiveUp, SiteTypeOK
  <2>2. Held'
    BY <1>7 DEF ClaimFails, GiveUp, Held
  <2>3. DescriptorsAreReturned'
    BY <1>7 DEF ClaimFails, GiveUp, Held, DescriptorsAreReturned, NothingOnDisk
  <2>4. SiteInv'
    BY <1>7, <2>1, <2>2, <2>3, Contents DEF ClaimFails, GiveUp, NothingOnDisk, NothingWritten, NothingLeftAfterFailure
  <2>5. Verified'
    BY <1>7 DEF ClaimFails, GiveUp, Verified, EverythingWhole
  <2> QED BY <2>4, <2>5
<1>8. ASSUME IdentifyFails PROVE SiteInv' /\ Verified'
  <2>1. SiteTypeOK'
    BY <1>8 DEF IdentifyFails, GiveUp, SiteTypeOK
  <2>2. Held'
    BY <1>8 DEF IdentifyFails, GiveUp, Held
  <2>3. DescriptorsAreReturned'
    BY <1>8 DEF IdentifyFails, GiveUp, Held, DescriptorsAreReturned, NothingOnDisk
  <2>4. SiteInv'
    BY <1>8, <2>1, <2>2, <2>3, Contents DEF IdentifyFails, GiveUp, NothingOnDisk, NothingWritten, NothingLeftAfterFailure
  <2>5. Verified'
    BY <1>8 DEF IdentifyFails, GiveUp, Verified, EverythingWhole
  <2> QED BY <2>4, <2>5
<1>9. ASSUME InterruptedClaim PROVE SiteInv' /\ Verified'
  <2>1. SiteTypeOK'
    BY <1>9 DEF InterruptedClaim, GiveUp, Lost, SiteTypeOK
  <2>2. Held'
    BY <1>9 DEF InterruptedClaim, GiveUp, Lost, Held
  <2>3. DescriptorsAreReturned'
    BY <1>9 DEF InterruptedClaim, GiveUp, Lost, Held, DescriptorsAreReturned, NothingOnDisk
  <2>4. SiteInv'
    BY <1>9, <2>1, <2>2, <2>3, Contents DEF InterruptedClaim, GiveUp, Lost, NothingOnDisk, NothingWritten, NothingLeftAfterFailure
  <2>5. Verified'
    BY <1>9 DEF InterruptedClaim, GiveUp, Lost, Verified, EverythingWhole
  <2> QED BY <2>4, <2>5
<1>10. ASSUME CopyAsset PROVE SiteInv' /\ Verified'
  <2>1. SiteTypeOK'
    <3>1. step + 1 \in 1 .. Len(Assets)
      BY <1>10 DEF CopyAsset
    <3>2. disk' \in [AllFiles -> {"absent", "torn", "whole", "bad"}]
      BY <1>10, <3>1, Writing, Contents DEF CopyAsset
    <3> QED
      BY <1>10, <3>2 DEF CopyAsset, SiteTypeOK
  <2>2. Held'
    BY <1>10 DEF CopyAsset, Held
  <2>3. DescriptorsAreReturned'
    BY <1>10 DEF CopyAsset, Held, DescriptorsAreReturned, NothingOnDisk
  <2>4. SiteInv'
    BY <1>10, <2>1, <2>2, <2>3, Contents DEF CopyAsset, Write, NothingOnDisk, NothingWritten, NothingLeftAfterFailure
  <2>5. Verified'
    BY <1>10 DEF CopyAsset, Write, Verified, EverythingWhole
  <2> QED BY <2>4, <2>5
<1>11. ASSUME LocateAssetFails PROVE SiteInv' /\ Verified'
  <2>1. SiteTypeOK'
    BY <1>11 DEF LocateAssetFails, Raise, SiteTypeOK
  <2>2. Held'
    BY <1>11 DEF LocateAssetFails, Raise, Held
  <2>3. DescriptorsAreReturned'
    BY <1>11 DEF LocateAssetFails, Raise, Held, DescriptorsAreReturned, NothingOnDisk
  <2>4. SiteInv'
    BY <1>11, <2>1, <2>2, <2>3, Contents DEF LocateAssetFails, Raise, NothingOnDisk, NothingWritten, NothingLeftAfterFailure
  <2>5. Verified'
    BY <1>11 DEF LocateAssetFails, Raise, Verified, EverythingWhole
  <2> QED BY <2>4, <2>5
<1>12. ASSUME MakeTraces PROVE SiteInv' /\ Verified'
  <2>1. SiteTypeOK'
    BY <1>12 DEF MakeTraces, SiteTypeOK
  <2>2. Held'
    BY <1>12 DEF MakeTraces, Held
  <2>3. DescriptorsAreReturned'
    BY <1>12 DEF MakeTraces, Held, DescriptorsAreReturned, NothingOnDisk
  <2>4. SiteInv'
    BY <1>12, <2>1, <2>2, <2>3, Contents DEF MakeTraces, NothingOnDisk, NothingWritten, NothingLeftAfterFailure
  <2>5. Verified'
    BY <1>12 DEF MakeTraces, Verified, EverythingWhole
  <2> QED BY <2>4, <2>5
<1>13. ASSUME WriteTrace PROVE SiteInv' /\ Verified'
  <2>1. SiteTypeOK'
    <3>1. step + 1 \in 1 .. Len(Recordings)
      BY <1>13 DEF WriteTrace
    <3>2. disk' \in [AllFiles -> {"absent", "torn", "whole", "bad"}]
      BY <1>13, <3>1, Writing, Contents DEF WriteTrace
    <3> QED
      BY <1>13, <3>2 DEF WriteTrace, SiteTypeOK
  <2>2. Held'
    BY <1>13 DEF WriteTrace, Held
  <2>3. DescriptorsAreReturned'
    BY <1>13 DEF WriteTrace, Held, DescriptorsAreReturned, NothingOnDisk
  <2>4. SiteInv'
    BY <1>13, <2>1, <2>2, <2>3, Contents DEF WriteTrace, Write, NothingOnDisk, NothingWritten, NothingLeftAfterFailure
  <2>5. Verified'
    BY <1>13 DEF WriteTrace, Write, Verified, EverythingWhole
  <2> QED BY <2>4, <2>5
<1>14. ASSUME WriteIndex PROVE SiteInv' /\ Verified'
  <2>1. SiteTypeOK'
    <3>1. disk' \in [AllFiles -> {"absent", "torn", "whole", "bad"}]
      BY <1>14, Writing, Contents DEF WriteIndex
    <3> QED
      BY <1>14, <3>1 DEF WriteIndex, SiteTypeOK
  <2>2. Held'
    BY <1>14 DEF WriteIndex, Held
  <2>3. DescriptorsAreReturned'
    BY <1>14 DEF WriteIndex, Held, DescriptorsAreReturned, NothingOnDisk
  <2>4. SiteInv'
    BY <1>14, <2>1, <2>2, <2>3, Contents DEF WriteIndex, Write, NothingOnDisk, NothingWritten, NothingLeftAfterFailure
  <2>5. Verified'
    BY <1>14 DEF WriteIndex, Write, Verified, EverythingWhole
  <2> QED BY <2>4, <2>5
<1>15. ASSUME ReadIndex PROVE SiteInv' /\ Verified'
  <2>1. SiteTypeOK'
    BY <1>15 DEF ReadIndex, SiteTypeOK
  <2>2. Held'
    BY <1>15 DEF ReadIndex, Held
  <2>3. DescriptorsAreReturned'
    BY <1>15 DEF ReadIndex, Held, DescriptorsAreReturned, NothingOnDisk
  <2>4. SiteInv'
    BY <1>15, <2>1, <2>2, <2>3, Contents DEF ReadIndex, NothingOnDisk, NothingWritten, NothingLeftAfterFailure
  <2>5. Verified'
    BY <1>15 DEF ReadIndex, Verified, EverythingWhole
  <2> QED BY <2>4, <2>5
<1>16. ASSUME ReadTrace PROVE SiteInv' /\ Verified'
  <2>1. SiteTypeOK'
    BY <1>16 DEF ReadTrace, SiteTypeOK
  <2>2. Held'
    BY <1>16 DEF ReadTrace, Held
  <2>3. DescriptorsAreReturned'
    BY <1>16 DEF ReadTrace, Held, DescriptorsAreReturned, NothingOnDisk
  <2>4. SiteInv'
    <3>1. /\ build' = "validating" /\ UNCHANGED disk
          /\ step' = step + 1 /\ step' <= Len(Recordings)
      BY <1>16 DEF ReadTrace
    <3>2. \A i \in 1 .. step' : disk[Recordings[i]] = "whole"
      BY <1>16 DEF ReadTrace
    <3> QED
      BY <1>16, <2>1, <2>2, <2>3, <3>1, <3>2 DEF ReadTrace, NothingLeftAfterFailure
  <2>5. Verified'
    BY <1>16 DEF ReadTrace, Verified, EverythingWhole
  <2> QED BY <2>4, <2>5
<1>17. ASSUME Validated PROVE SiteInv' /\ Verified'
  <2>1. SiteTypeOK'
    BY <1>17 DEF Validated, SiteTypeOK
  <2>2. Held'
    BY <1>17 DEF Validated, Held
  <2>3. DescriptorsAreReturned'
    BY <1>17 DEF Validated, Held, DescriptorsAreReturned, NothingOnDisk
  <2>4. SiteInv'
    BY <1>17, <2>1, <2>2, <2>3, Contents DEF Validated, NothingOnDisk, NothingWritten, NothingLeftAfterFailure
  <2>5. Verified'
    BY <1>17, Contents DEF Validated, Verified, EverythingWhole
  <2> QED BY <2>4, <2>5
<1>18. ASSUME Confirm PROVE SiteInv' /\ Verified'
  <2>1. SiteTypeOK'
    BY <1>18 DEF Confirm, SiteTypeOK
  <2>2. Held'
    BY <1>18 DEF Confirm, Held
  <2>3. DescriptorsAreReturned'
    BY <1>18 DEF Confirm, Held, DescriptorsAreReturned, NothingOnDisk
  <2>4. SiteInv'
    BY <1>18, <2>1, <2>2, <2>3, Contents DEF Confirm, NothingOnDisk, NothingWritten, NothingLeftAfterFailure
  <2>5. Verified'
    BY <1>18 DEF Confirm, Verified, EverythingWhole
  <2> QED BY <2>4, <2>5
<1>19. ASSUME NEW f \in Payloads, Purge(f) PROVE SiteInv' /\ Verified'
  <2>1. SiteTypeOK'
    BY <1>19 DEF Purge, SiteTypeOK
  <2>2. Held'
    BY <1>19 DEF Purge, Held
  <2>3. DescriptorsAreReturned'
    BY <1>19 DEF Purge, Held, DescriptorsAreReturned, NothingOnDisk
  <2>4. SiteInv'
    BY <1>19, <2>1, <2>2, <2>3, Contents DEF Purge, NothingOnDisk, NothingWritten, NothingLeftAfterFailure
  <2>5. Verified'
    BY <1>19 DEF Purge, Verified, EverythingWhole
  <2> QED BY <2>4, <2>5
<1>20. ASSUME Purged PROVE SiteInv' /\ Verified'
  <2>1. SiteTypeOK'
    BY <1>20 DEF Purged, SiteTypeOK
  <2>2. Held'
    BY <1>20 DEF Purged, Held
  <2>3. DescriptorsAreReturned'
    BY <1>20 DEF Purged, Held, DescriptorsAreReturned, NothingOnDisk
  <2>4. SiteInv'
    BY <1>20, <2>1, <2>2, <2>3, Contents DEF Purged, NothingOnDisk, NothingWritten, NothingLeftAfterFailure
  <2>5. Verified'
    BY <1>20 DEF Purged, Verified, EverythingWhole
  <2> QED BY <2>4, <2>5
<1>21. ASSUME PurgeFails PROVE SiteInv' /\ Verified'
  <2>1. SiteTypeOK'
    BY <1>21 DEF PurgeFails, SiteTypeOK
  <2>2. Held'
    BY <1>21 DEF PurgeFails, Held
  <2>3. DescriptorsAreReturned'
    BY <1>21 DEF PurgeFails, Held, DescriptorsAreReturned, NothingOnDisk
  <2>4. SiteInv'
    BY <1>21, <2>1, <2>2, <2>3, Contents DEF PurgeFails, NothingOnDisk, NothingWritten, NothingLeftAfterFailure
  <2>5. Verified'
    BY <1>21 DEF PurgeFails, Verified, EverythingWhole
  <2> QED BY <2>4, <2>5
<1>22. ASSUME PurgeInterrupted PROVE SiteInv' /\ Verified'
  <2>1. SiteTypeOK'
    BY <1>22 DEF PurgeInterrupted, Lost, SiteTypeOK
  <2>2. Held'
    BY <1>22 DEF PurgeInterrupted, Lost, Held
  <2>3. DescriptorsAreReturned'
    BY <1>22 DEF PurgeInterrupted, Lost, Held, DescriptorsAreReturned, NothingOnDisk
  <2>4. SiteInv'
    BY <1>22, <2>1, <2>2, <2>3, Contents DEF PurgeInterrupted, Lost, NothingOnDisk, NothingWritten, NothingLeftAfterFailure
  <2>5. Verified'
    BY <1>22 DEF PurgeInterrupted, Lost, Verified, EverythingWhole
  <2> QED BY <2>4, <2>5
<1>23. ASSUME CloseDescriptors PROVE SiteInv' /\ Verified'
  <2>1. SiteTypeOK'
    BY <1>23 DEF CloseDescriptors, SiteTypeOK
  <2>2. Held'
    BY <1>23 DEF CloseDescriptors, Held
  <2>3. DescriptorsAreReturned'
    BY <1>23 DEF CloseDescriptors, Held, DescriptorsAreReturned, NothingOnDisk
  <2>4. SiteInv'
    BY <1>23, <2>1, <2>2, <2>3, Contents DEF CloseDescriptors, NothingOnDisk, NothingWritten, NothingLeftAfterFailure
  <2>5. Verified'
    BY <1>23 DEF CloseDescriptors, Verified, EverythingWhole
  <2> QED BY <2>4, <2>5
<1>24. ASSUME CloseInterrupted PROVE SiteInv' /\ Verified'
  <2>1. SiteTypeOK'
    BY <1>24 DEF CloseInterrupted, GiveUp, SiteTypeOK
  <2>2. Held'
    BY <1>24 DEF CloseInterrupted, GiveUp, Held
  <2>3. DescriptorsAreReturned'
    BY <1>24 DEF CloseInterrupted, GiveUp, Held, DescriptorsAreReturned, NothingOnDisk
  <2>4. SiteInv'
    BY <1>24, <2>1, <2>2, <2>3, Contents DEF CloseInterrupted, GiveUp, NothingOnDisk, NothingWritten, NothingLeftAfterFailure
  <2>5. Verified'
    BY <1>24 DEF CloseInterrupted, GiveUp, Verified, EverythingWhole
  <2> QED BY <2>4, <2>5
<1>25. ASSUME NEW c \in Causes, CheckFails(c) PROVE SiteInv' /\ Verified'
  <2>1. SiteTypeOK'
    BY <1>25 DEF CheckFails, GiveUp, SiteTypeOK
  <2>2. Held'
    BY <1>25 DEF CheckFails, GiveUp, Held
  <2>3. DescriptorsAreReturned'
    BY <1>25 DEF CheckFails, GiveUp, Held, DescriptorsAreReturned, NothingOnDisk
  <2>4. SiteInv'
    BY <1>25, <2>1, <2>2, <2>3, Contents DEF CheckFails, GiveUp, NothingOnDisk, NothingWritten, NothingLeftAfterFailure
  <2>5. Verified'
    BY <1>25 DEF CheckFails, GiveUp, Verified, EverythingWhole
  <2> QED BY <2>4, <2>5
<1>26. ASSUME NEW c \in Causes, CopyAssetFails(c) PROVE SiteInv' /\ Verified'
  <2>1. SiteTypeOK'
    <3>1. step + 1 \in 1 .. Len(Assets)
      BY <1>26 DEF CopyAssetFails
    <3>2. disk' \in [AllFiles -> {"absent", "torn", "whole", "bad"}]
      BY <1>26, <3>1, Writing, Contents DEF CopyAssetFails
    <3> QED
      BY <1>26, <3>2 DEF CopyAssetFails, Raise, Lost, SiteTypeOK
  <2>2. Held'
    BY <1>26 DEF CopyAssetFails, Raise, Lost, Held
  <2>3. DescriptorsAreReturned'
    BY <1>26 DEF CopyAssetFails, Raise, Lost, Held, DescriptorsAreReturned, NothingOnDisk
  <2>4. SiteInv'
    BY <1>26, <2>1, <2>2, <2>3, Contents DEF CopyAssetFails, Raise, Lost, Tear, NothingOnDisk, NothingWritten, NothingLeftAfterFailure
  <2>5. Verified'
    BY <1>26 DEF CopyAssetFails, Raise, Lost, Tear, Verified, EverythingWhole
  <2> QED BY <2>4, <2>5
<1>27. ASSUME NEW c \in Causes, MakeTracesFails(c) PROVE SiteInv' /\ Verified'
  <2>1. SiteTypeOK'
    BY <1>27 DEF MakeTracesFails, Raise, Lost, SiteTypeOK
  <2>2. Held'
    BY <1>27 DEF MakeTracesFails, Raise, Lost, Held
  <2>3. DescriptorsAreReturned'
    BY <1>27 DEF MakeTracesFails, Raise, Lost, Held, DescriptorsAreReturned, NothingOnDisk
  <2>4. SiteInv'
    BY <1>27, <2>1, <2>2, <2>3, Contents DEF MakeTracesFails, Raise, Lost, NothingOnDisk, NothingWritten, NothingLeftAfterFailure
  <2>5. Verified'
    BY <1>27 DEF MakeTracesFails, Raise, Lost, Verified, EverythingWhole
  <2> QED BY <2>4, <2>5
<1>28. ASSUME NEW c \in Causes, WriteFails(c) PROVE SiteInv' /\ Verified'
  <2>1. SiteTypeOK'
    <3>1. step < Len(Recordings) => step + 1 \in 1 .. Len(Recordings)
      BY <1>28 DEF WriteFails
    <3>2. disk' \in [AllFiles -> {"absent", "torn", "whole", "bad"}]
      BY <1>28, <3>1, Writing, Contents DEF WriteFails
    <3> QED
      BY <1>28, <3>2 DEF WriteFails, Raise, Lost, SiteTypeOK
  <2>2. Held'
    BY <1>28 DEF WriteFails, Raise, Lost, Held
  <2>3. DescriptorsAreReturned'
    BY <1>28 DEF WriteFails, Raise, Lost, Held, DescriptorsAreReturned, NothingOnDisk
  <2>4. SiteInv'
    BY <1>28, <2>1, <2>2, <2>3, Contents DEF WriteFails, Raise, Lost, Tear, NothingOnDisk, NothingWritten, NothingLeftAfterFailure
  <2>5. Verified'
    BY <1>28 DEF WriteFails, Raise, Lost, Tear, Verified, EverythingWhole
  <2> QED BY <2>4, <2>5
<1>29. ASSUME NEW c \in Causes, ValidationFails(c) PROVE SiteInv' /\ Verified'
  <2>1. SiteTypeOK'
    BY <1>29 DEF ValidationFails, Raise, Lost, SiteTypeOK
  <2>2. Held'
    BY <1>29 DEF ValidationFails, Raise, Lost, Held
  <2>3. DescriptorsAreReturned'
    BY <1>29 DEF ValidationFails, Raise, Lost, Held, DescriptorsAreReturned, NothingOnDisk
  <2>4. SiteInv'
    BY <1>29, <2>1, <2>2, <2>3, Contents DEF ValidationFails, Raise, Lost, NothingOnDisk, NothingWritten, NothingLeftAfterFailure
  <2>5. Verified'
    BY <1>29 DEF ValidationFails, Raise, Lost, Verified, EverythingWhole
  <2> QED BY <2>4, <2>5
<1>30. ASSUME NEW c \in Causes, ConfirmFails(c) PROVE SiteInv' /\ Verified'
  <2>1. SiteTypeOK'
    BY <1>30 DEF ConfirmFails, Raise, SiteTypeOK
  <2>2. Held'
    BY <1>30 DEF ConfirmFails, Raise, Held
  <2>3. DescriptorsAreReturned'
    BY <1>30 DEF ConfirmFails, Raise, Held, DescriptorsAreReturned, NothingOnDisk
  <2>4. SiteInv'
    BY <1>30, <2>1, <2>2, <2>3, Contents DEF ConfirmFails, Raise, NothingOnDisk, NothingWritten, NothingLeftAfterFailure
  <2>5. Verified'
    BY <1>30 DEF ConfirmFails, Raise, Verified, EverythingWhole
  <2> QED BY <2>4, <2>5
<1>31. ASSUME TakeName PROVE SiteInv' /\ Verified'
  <2>1. SiteTypeOK'
    BY <1>31 DEF TakeName, SiteTypeOK
  <2>2. Held'
    BY <1>31 DEF TakeName, Held
  <2>3. DescriptorsAreReturned'
    BY <1>31 DEF TakeName, Held, DescriptorsAreReturned, NothingOnDisk
  <2>4. SiteInv'
    BY <1>31, <2>1, <2>2, <2>3, Contents DEF TakeName, NothingOnDisk, NothingWritten, NothingLeftAfterFailure
  <2>5. Verified'
    BY <1>31 DEF TakeName, Verified, EverythingWhole
  <2> QED BY <2>4, <2>5
<1>32. ASSUME NEW f \in Payloads, Damage(f) PROVE SiteInv' /\ Verified'
  <2>1. SiteTypeOK'
    BY <1>32 DEF Damage, Unread, SiteTypeOK
  <2>2. Held'
    BY <1>32 DEF Damage, Unread, Held
  <2>3. DescriptorsAreReturned'
    BY <1>32 DEF Damage, Unread, Held, DescriptorsAreReturned, NothingOnDisk
  <2>4. SiteInv'
    <3>1. /\ UNCHANGED <<build, step, name, descriptors, fault>>
          /\ disk' = [disk EXCEPT ![f] = "bad"] /\ disk[f] = "whole" /\ Unread(f)
      BY <1>32 DEF Damage
    <3>2. build \in {"copying", "writing", "reopening", "validating"}
      BY <3>1 DEF Unread
    <3>3. CASE build # "validating"
      BY <2>1, <2>2, <2>3, <3>1, <3>2, <3>3 DEF NothingLeftAfterFailure
    <3>4. CASE build = "validating"
      <4>1. f # Index /\ \A i \in 1 .. step : f # Recordings[i]
        BY <3>1, <3>4, Contents DEF Unread
      <4>2. (disk[Index] = "whole" /\ \A i \in 1 .. step : disk[Recordings[i]] = "whole")'
        BY <3>1, <3>4, <4>1 DEF SiteTypeOK
      <4> QED
        BY <2>1, <2>2, <2>3, <3>1, <3>4, <4>2 DEF NothingLeftAfterFailure
    <3> QED
      BY <3>3, <3>4
  <2>5. Verified'
    BY <1>32 DEF Damage, Unread, Verified, EverythingWhole
  <2> QED BY <2>4, <2>5
<1> QED
  BY <1>1, <1>2, <1>3, <1>4, <1>5, <1>6, <1>7, <1>8, <1>9, <1>10, <1>11, <1>12, <1>13, <1>14,
     <1>15, <1>16, <1>17, <1>18, <1>19, <1>20, <1>21, <1>22, <1>23, <1>24, <1>25, <1>26, <1>27,
     <1>28, <1>29, <1>30, <1>31, <1>32
     DEF SiteStep, SiteFails, SiteEnvironment

LEMMA SiteRests == SiteInv /\ UNCHANGED siteVars => SiteInv' /\ (Verified => Verified')
BY DEF siteVars, SiteInv, SiteTypeOK, Held, NothingOnDisk, NothingWritten, EverythingWhole, Verified,
   NothingLeftAfterFailure, DescriptorsAreReturned

----------------------------------------------------------------------------
\* The command.

LEMMA DemoInitially == DemoInit => DemoInv
<1> SUFFICES ASSUME DemoInit PROVE DemoInv OBVIOUS
<1>1. SiteInv /\ Verified /\ ServerInv
  BY SiteInitially, ServerInitially DEF DemoInit
<1>2. CommandInv
  BY <1>1 DEF DemoInit, SiteInit, ServerInit, CommandInv, Settled
<1>3. DemoTypeOK
  <2>1. SiteTypeOK /\ ServerTypeOK
    BY <1>1 DEF SiteInv, ServerInv
  <2>2. command = "loading" /\ cause = "none" /\ status = "none" /\ strays \in 0 .. 2
    BY DEF DemoInit
  <2> QED
    BY <2>1, <2>2 DEF DemoTypeOK
<1> QED
  BY <1>1, <1>2, <1>3 DEF DemoInv

LEMMA BuildingMoves == DemoInv /\ Building => DemoInv'
<1> SUFFICES ASSUME DemoInv, Building PROVE DemoInv' OBVIOUS
<1> USE DEF DemoInv, Building, demoVars
<1>1. SiteInv' /\ Verified'
  BY SiteMoves DEF CommandInv
<1>2. ServerInv' /\ owner' = owner
  BY ServerRests DEF serverVars, ownerVars
<1>3. CommandInv'
  BY <1>1, <1>2 DEF CommandInv
<1>4. DemoTypeOK'
  BY <1>1, <1>2 DEF DemoTypeOK, SiteInv, ServerInv
<1> QED
  BY <1>1, <1>2, <1>3, <1>4

LEMMA ServingMoves == DemoInv /\ (Serving \/ Closing) => DemoInv'
<1> SUFFICES ASSUME DemoInv, Serving \/ Closing PROVE DemoInv' OBVIOUS
<1> USE DEF DemoInv, Serving, Closing, demoVars
<1>1. SiteInv' /\ (Verified => Verified') /\ build' = build /\ disk' = disk
  BY SiteRests DEF siteVars
<1>2. ServerInv'
  BY ServerStep, OwnerMoves
<1>3. CommandInv'
  <2>1. CASE ServerRuns
    BY <1>1, <2>1, OwnerSteps DEF CommandInv, Settled, NothingOnDisk
  <2>2. CASE Closing
    BY <1>1, <2>2, OwnerSteps DEF CommandInv
  <2> QED
    BY <2>1, <2>2
<1>4. DemoTypeOK'
  BY <1>1, <1>2 DEF DemoTypeOK, SiteInv, ServerInv
<1> QED
  BY <1>1, <1>2, <1>3, <1>4

\* A step that leaves the site and the server alone.
LEMMA CommandAlone ==
  ASSUME DemoInv, UNCHANGED <<siteVars, serverVars>>,
         command' \in {"building", "removing"}, cause' \in Causes \cup {"none", "uncaught"},
         status' = status, strays' \in 0 .. 2,
         CommandInv'
  PROVE  DemoInv'
<1>1. SiteInv' /\ ServerInv'
  BY SiteRests, ServerRests DEF DemoInv
<1> QED
  BY <1>1 DEF DemoInv, DemoTypeOK, SiteInv, ServerInv

\* The ways out, with some of the workspace kept.
LEMMA Leaving ==
  ASSUME DemoInv, command = "removing", NEW kept, Leave(kept)
  PROVE  /\ SiteInv' /\ ServerInv' /\ owner' = owner /\ build' = build
         /\ build = "built" => \A f \in Payloads : disk'[f] \in {"whole", "absent"}
         /\ kept = {} => NothingOnDisk'
<1> USE DEF Leave
<1>1. /\ build \in {"checking", "built", "failed"}
      /\ \A f \in AllFiles : disk'[f] = IF f \in kept THEN disk[f] ELSE "absent"
  BY DEF DemoInv, CommandInv
<1>2. SiteInv'
  <2>1. SiteTypeOK'
    BY DEF DemoInv, SiteInv, SiteTypeOK
  <2>2. Held' /\ DescriptorsAreReturned' /\ NothingLeftAfterFailure'
    BY <1>1, Contents DEF DemoInv, SiteInv, Held, DescriptorsAreReturned, NothingLeftAfterFailure
  <2> QED
    BY <1>1, <2>1, <2>2 DEF DemoInv, SiteInv, NothingOnDisk, NothingWritten, Claiming
<1>3. ServerInv'
  <2> USE DEF DemoInv, ServerInv, ownerVars, loopVars, tableVars, timerVars
  <2>1. ServerTypeOK'
    BY DEF ServerTypeOK
  <2>2. SlotsAreAccounted'
    BY SlotsKept DEF InUse
  <2>3. LoopInv' /\ StageInv' /\ ClosingInv'
    BY DEF LoopInv, Handing, StageInv, ClosingInv, LiveHandlers
  <2> QED
    BY <2>1, <2>2, <2>3
<1>4. build = "built" => \A f \in Payloads : disk'[f] \in {"whole", "absent"}
  BY <1>1, Contents DEF DemoInv, CommandInv, Verified, EverythingWhole
<1>5. kept = {} => NothingOnDisk'
  BY <1>1 DEF NothingOnDisk
<1> QED
  BY <1>2, <1>3, <1>4, <1>5

LEMMA CommandMoves == DemoInv /\ DemoStep => DemoInv'
<1> SUFFICES ASSUME DemoInv, DemoStep PROVE DemoInv' OBVIOUS
<1> USE DEF DemoInv, Causes
<1>a. ASSUME UNCHANGED <<siteVars, serverVars>>
      PROVE  owner' = owner /\ build' = build /\ disk' = disk /\ (Verified => Verified')
  BY <1>a, SiteRests DEF siteVars, serverVars, ownerVars
<1>1. ASSUME LoadTraces PROVE DemoInv'
  <2>1. CommandInv'
    BY <1>1, <1>a DEF LoadTraces, CommandInv
  <2> QED
    BY <1>1, CommandAlone, <2>1 DEF LoadTraces, DemoTypeOK
<1>2. ASSUME NEW c \in Causes, LoadTracesFails(c) PROVE DemoInv'
  <2>1. CommandInv'
    BY <1>2, <1>a DEF LoadTracesFails, CommandInv, Settled
  <2> QED
    BY <1>2, CommandAlone, <2>1 DEF LoadTracesFails, DemoTypeOK
<1>3. ASSUME BuildFailed PROVE DemoInv'
  <2>1. cause' \in Causes \cup {"uncaught"}
    BY <1>3 DEF BuildFailed, CauseOf, SiteInv, SiteTypeOK
  <2>2. CommandInv'
    BY <1>3, <1>a DEF BuildFailed, CommandInv, Settled
  <2> QED
    BY <1>3, CommandAlone, <2>1, <2>2 DEF BuildFailed, DemoTypeOK
<1>4. ASSUME Serve PROVE DemoInv'
  <2>1. Published \in SUBSET Files
    BY DemoAssumption DEF Published
  <2>2. ServerInv' /\ owner' = "serving"
    BY <1>4, <2>1, ServingStarts DEF Serve, ServeRecorder
  <2>3. SiteInv' /\ (Verified => Verified') /\ build' = build
    BY <1>4, SiteRests DEF Serve, siteVars
  <2>4. CommandInv'
    BY <1>4, <2>2, <2>3 DEF Serve, CommandInv
  <2> QED
    BY <1>4, <2>2, <2>3, <2>4 DEF Serve, DemoTypeOK, SiteInv, ServerInv
<1>5. ASSUME NEW c \in {"error", "uncaught", "interrupt"}, ServeFails(c) PROVE DemoInv'
  <2>1. CommandInv'
    BY <1>5, <1>a DEF ServeFails, CommandInv, Settled
  <2> QED
    BY <1>5, CommandAlone, <2>1 DEF ServeFails, DemoTypeOK
<1>6. ASSUME NEW c \in Causes \cup {"none"}, LeaveServer(c) PROVE DemoInv'
  <2>1. ServerInv' /\ owner' = "stopping"
    BY <1>6, OwnerMoves DEF LeaveServer, StopLoop
  <2>2. SiteInv' /\ (Verified => Verified') /\ build' = build
    BY <1>6, SiteRests DEF LeaveServer, siteVars
  <2>3. CommandInv'
    BY <1>6, <2>1, <2>2 DEF LeaveServer, CommandInv
  <2> QED
    BY <1>6, <2>1, <2>2, <2>3 DEF LeaveServer, DemoTypeOK, SiteInv, ServerInv
<1>7. ASSUME AbandonServer PROVE DemoInv'
  <2>1. strays' = 1
    BY <1>7 DEF AbandonServer, CommandInv
  <2>2. CommandInv'
    BY <1>7, <1>a, <2>1 DEF AbandonServer, CommandInv
  <2> QED
    BY <1>7, CommandAlone, <2>1, <2>2 DEF AbandonServer, DemoTypeOK
<1>8. ASSUME ServerClosed PROVE DemoInv'
  <2>1. CommandInv'
    BY <1>8, <1>a DEF ServerClosed, CommandInv, Settled
  <2> QED
    BY <1>8, CommandAlone, <2>1 DEF ServerClosed, DemoTypeOK
<1>9. ASSUME RemoveWorkspace PROVE DemoInv'
  <2>1. SiteInv' /\ ServerInv' /\ owner' = owner /\ build' = build /\ NothingOnDisk'
    BY <1>9, Leaving DEF RemoveWorkspace
  <2>2. /\ command = "removing" /\ command' = "exited" /\ strays' = strays
        /\ cause' = cause /\ status' \in {"0", "1", "2"}
    BY <1>9 DEF RemoveWorkspace, Exit, ExitStatus, DemoTypeOK
  <2>3. \A f \in Payloads : disk'[f] \in {"whole", "absent"}
    BY <2>1, Contents DEF NothingOnDisk
  <2>4. CommandInv'
    BY <2>1, <2>2, <2>3 DEF CommandInv, Settled
  <2> QED
    BY <2>1, <2>2, <2>4 DEF DemoTypeOK, SiteInv, ServerInv
<1>10. ASSUME RemoveWorkspaceFails PROVE DemoInv'
  <2>1. PICK kept \in Leftovers : Leave(kept)
    BY <1>10 DEF RemoveWorkspaceFails
  <2>2. /\ SiteInv' /\ ServerInv' /\ owner' = owner /\ build' = build
        /\ build = "built" => \A f \in Payloads : disk'[f] \in {"whole", "absent"}
    BY <1>10, <2>1, Leaving DEF RemoveWorkspaceFails
  <2>3. /\ command = "removing" /\ command' = "exited" /\ strays' = strays
        /\ cause' = "error" /\ status' = "2"
    BY <1>10 DEF RemoveWorkspaceFails, Exit, ExitStatus
  <2>4. CommandInv'
    BY <2>2, <2>3 DEF CommandInv, Settled
  <2> QED
    BY <2>2, <2>3, <2>4 DEF DemoTypeOK, SiteInv, ServerInv
<1>11. ASSUME RemoveWorkspaceInterrupted PROVE DemoInv'
  <2>1. PICK kept \in Leftovers : Leave(kept)
    BY <1>11 DEF RemoveWorkspaceInterrupted
  <2>2. /\ SiteInv' /\ ServerInv' /\ owner' = owner /\ build' = build
        /\ build = "built" => \A f \in Payloads : disk'[f] \in {"whole", "absent"}
    BY <1>11, <2>1, Leaving DEF RemoveWorkspaceInterrupted
  <2>3. /\ command = "removing" /\ command' = "exited"
        /\ cause' = "interrupt" /\ status' = "0"
    BY <1>11 DEF RemoveWorkspaceInterrupted, Exit, ExitStatus
  <2>4. strays' \in 1 .. 2 /\ strays' \in 0 .. 2 /\ (strays' = 1 => strays = 0)
    BY <1>11 DEF RemoveWorkspaceInterrupted, CommandInv
  <2>5. CommandInv'
    BY <2>2, <2>3, <2>4 DEF CommandInv, Settled
  <2>6. SiteTypeOK' /\ ServerTypeOK'
    BY <2>2 DEF SiteInv, ServerInv
  <2>7. DemoTypeOK'
    BY <2>3, <2>4, <2>6 DEF DemoTypeOK
  <2> QED
    BY <2>2, <2>5, <2>7
<1> QED
  BY <1>1, <1>2, <1>3, <1>4, <1>5, <1>6, <1>7, <1>8, <1>9, <1>10, <1>11 DEF DemoStep

LEMMA DemoRests == DemoInv /\ UNCHANGED recorderVars => DemoInv'
<1> SUFFICES ASSUME DemoInv, UNCHANGED recorderVars PROVE DemoInv' OBVIOUS
<1> USE DEF DemoInv, recorderVars, demoVars
<1>1. SiteInv' /\ (Verified => Verified') /\ build' = build /\ disk' = disk
  BY SiteRests DEF siteVars
<1>2. ServerInv' /\ owner' = owner
  BY ServerRests DEF serverVars, ownerVars
<1>3. CommandInv'
  BY <1>1, <1>2 DEF CommandInv, Settled, NothingOnDisk
<1> QED
  BY <1>1, <1>2, <1>3 DEF DemoTypeOK, SiteInv, ServerInv

\* The invariant all theorems below rest on.
LEMMA DemoInvariant == DemoSpec => []DemoInv
<1>1. DemoInv /\ [DemoNext]_recorderVars => DemoInv'
  BY BuildingMoves, ServingMoves, CommandMoves, DemoRests DEF DemoNext
<1> QED
  BY DemoInitially, <1>1, PTL DEF DemoSpec

(***************************************************************************)
(* Types of the site, of the server and of the command.                    *)
(***************************************************************************)
THEOREM DemoTypes == DemoSpec => []DemoTypeOK
<1>1. DemoInv => DemoTypeOK
  BY DEF DemoInv
<1> QED
  BY DemoInvariant, <1>1, PTL

(***************************************************************************)
(* A build that raises leaves no payload of a recording behind, unless its *)
(* cleanup failed too or an interrupt came after it: for every number of   *)
(* recordings, at every step.                                              *)
(***************************************************************************)
THEOREM CleanFailures == DemoSpec => []NothingLeftAfterFailure
<1>1. DemoInv => NothingLeftAfterFailure
  BY DEF DemoInv, SiteInv
<1> QED
  BY DemoInvariant, <1>1, PTL

(***************************************************************************)
(* A build that succeeds has closed its descriptors, one that ends in an   *)
(* error has but for the two places without a handler, and one that is     *)
(* interrupted once has closed those of the site it was writing.           *)
(***************************************************************************)
THEOREM DescriptorsReturned == DemoSpec => []DescriptorsAreReturned
<1>1. DemoInv => DescriptorsAreReturned
  BY DEF DemoInv, SiteInv
<1> QED
  BY DemoInvariant, <1>1, PTL

(***************************************************************************)
(* A slot is free, in use, or lost with exactly one thread that could not  *)
(* be started: for any number of connections, slots and failures.          *)
(***************************************************************************)
THEOREM SlotsAccounted == DemoSpec => []SlotsAreAccounted
<1>1. DemoInv => SlotsAreAccounted
  BY DEF DemoInv, ServerInv
<1> QED
  BY DemoInvariant, <1>1, PTL

(***************************************************************************)
(* A shutdown that is over has left no handler, connection or timer.       *)
(***************************************************************************)
THEOREM CleanShutdown == DemoSpec => []ShutdownLeavesNothing
<1>1. DemoInv => ShutdownLeavesNothing
  BY ClosedIsClean DEF DemoInv
<1> QED
  BY DemoInvariant, <1>1, PTL

(***************************************************************************)
(* While a handler runs, the site is complete, verified and still there,   *)
(* unless an interrupt took its owner away: then recordings may be gone,   *)
(* and those that are not are still the verified ones.                     *)
(***************************************************************************)
THEOREM OnlyVerifiedSites == DemoSpec => []ServesOnlyTheVerifiedSite
<1>1. ASSUME DemoInv, LiveHandlers # {}
      PROVE  /\ build = "built" /\ name = "ours"
             /\ \A f \in Payloads : disk[f] = "whole" \/ (Abandoned /\ disk[f] = "absent")
  <2>1. ~Settled
    BY <1>1 DEF DemoInv, ServerInv, LoopInv, ClosingInv, LiveHandlers, HandlerStages, Settled
  <2>2. build = "built"
    BY <1>1, <2>1 DEF DemoInv, DemoTypeOK, CommandInv, Settled
  <2>3. name = "ours"
    BY <1>1, <2>2 DEF DemoInv, SiteInv
  <2>4. CASE command # "exited"
    BY <1>1, <2>2, <2>3, <2>4 DEF DemoInv, CommandInv, Verified, EverythingWhole
  <2>5. CASE command = "exited"
    BY <1>1, <2>1, <2>2, <2>3, <2>5 DEF DemoInv, CommandInv, Abandoned, Settled
  <2> QED
    BY <2>4, <2>5
<1>2. DemoInv => ServesOnlyTheVerifiedSite
  BY <1>1 DEF ServesOnlyTheVerifiedSite
<1> QED
  BY DemoInvariant, <1>2, PTL

(***************************************************************************)
(* An exit status of 0 means that workspace, handlers and connections are  *)
(* gone, or that as many interrupts as things are left fell into the       *)
(* taking down.                                                            *)
(***************************************************************************)
THEOREM CleanSuccess == DemoSpec => []SuccessIsClean
<1>1. DemoInv /\ Settled => ~ServerLeft
  <2> SUFFICES ASSUME DemoInv, Settled PROVE ~ServerLeft OBVIOUS
  <2>1. CASE owner = "idle"
    BY <2>1 DEF DemoInv, ServerInv, LoopInv, StageInv, LiveHandlers, HandlerStages, ServerLeft
  <2>2. CASE owner \in {"down", "raised"}
    BY <2>2, ClosedIsClean DEF DemoInv, ServerInv, ClosingInv, ShutdownLeavesNothing, ServerLeft
  <2> QED
    BY <2>1, <2>2 DEF Settled
<1>2. NothingOnDisk => ~WorkspaceLeft
  BY DEF NothingOnDisk, WorkspaceLeft
<1>3. DemoInv => SuccessIsClean
  BY <1>1, <1>2 DEF SuccessIsClean, DemoInv, CommandInv
<1> QED
  BY DemoInvariant, <1>3, PTL

(***************************************************************************)
(* The read deadline never cuts a connection that is being answered.       *)
(***************************************************************************)
THEOREM SparedAnswers == DemoSpec => DeadlineSparesAnswers
<1>1. ASSUME DemoInv, [DemoNext]_recorderVars, NEW r \in Requests,
             stage[r] = "replying", socket[r] = "open", socket'[r] = "cut"
      PROVE  owner = "cutting"
  <2>1. CASE Serving \/ Closing
    BY <1>1, <2>1, OnlyShutdownCuts DEF Serving, Closing, DemoInv
  <2>2. CASE UNCHANGED socket
    BY <1>1, <2>2
  <2>3. Building \/ DemoStep \/ UNCHANGED recorderVars => UNCHANGED socket
    BY DEF Building, DemoStep, LoadTraces, LoadTracesFails, BuildFailed, Serve, ServeRecorder,
       ServeFails, LeaveServer, StopLoop, AbandonServer, ServerClosed, RemoveWorkspace,
       RemoveWorkspaceFails, RemoveWorkspaceInterrupted, Leave, recorderVars, serverVars
  <2> QED
    BY <1>1, <2>1, <2>2, <2>3 DEF DemoNext
<1>2. DemoInv /\ [DemoNext]_recorderVars =>
        [\A r \in Requests :
           stage[r] = "replying" /\ socket[r] = "open" /\ socket'[r] = "cut" => owner = "cutting"]_serverVars
  BY <1>1
<1> QED
  BY DemoInvariant, <1>2, PTL DEF DemoSpec, DeadlineSparesAnswers

=============================================================================
