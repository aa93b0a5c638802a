-------------------------- MODULE RecorderDemo --------------------------
(***************************************************************************)
(* The command "agentic-saga demo", cli/demo.py: the packaged traces are   *)
(* loaded (demo/reference.py), a site is built from them (RecorderSite) in *)
(* a temporary workspace, served (RecorderServer) until the user           *)
(* interrupts it, and the workspace is removed.  The user may interrupt    *)
(* the command at any moment, and again while it takes things down.        *)
(***************************************************************************)
EXTENDS RecorderSite, RecorderServer

CONSTANT
  Leftovers       \* what a removal of the workspace that breaks off may leave

\* A client may ask for every file of the site, and for others.
ASSUME DemoAssumption == AllFiles \subseteq Files

VARIABLES
  command,    \* what run_demo is doing
  cause,      \* what ended the run: nothing, an interrupt, an error
  status,     \* the exit status, or "none"
  strays      \* interrupts that kept the command from taking something down

demoVars == <<command, cause, status, strays>>
recorderVars == <<demoVars, siteVars, serverVars>>

DemoInit ==
  /\ SiteInit /\ ServerInit
  /\ command = "loading" /\ cause = "none" /\ status = "none" /\ strays = 0

----------------------------------------------------------------------------
\* load_reference_trace for each of the packaged scenarios.
LoadTraces ==
  /\ command = "loading"
  /\ command' = "building"
  /\ UNCHANGED <<cause, status, strays, siteVars, serverVars>>

\* A trace is missing, too large or invalid, or the workspace cannot be made.
LoadTracesFails(c) ==
  /\ command = "loading"
  /\ command' = "removing" /\ cause' = c
  /\ UNCHANGED <<status, strays, siteVars, serverVars>>

Building ==
  /\ command = "building" /\ (SiteStep \/ SiteEnvironment)
  /\ UNCHANGED <<demoVars, serverVars>>

\* A group that holds a KeyboardInterrupt is no ExceptionGroup: nothing in
\* run_demo catches it.
CauseOf(f) == CASE f = "interrupt group" -> "uncaught"
                [] f \in {"interrupt", "interrupted cleanup", "late interrupt"} -> "interrupt"
                [] f \in {"error", "group"} -> "error"

BuildFailed ==
  /\ command = "building" /\ build = "failed"
  /\ command' = "removing" /\ cause' = CauseOf(fault)
  /\ UNCHANGED <<status, strays, siteVars, serverVars>>

\* What is found below the two roots: the site, and the packaged page.
Published == {f \in AllFiles : disk[f] # "absent"}

Serve ==
  /\ command = "building" /\ build = "built"
  /\ command' = "serving"
  /\ ServeRecorder(Published)
  /\ UNCHANGED <<cause, status, strays, siteVars>>

\* The port is taken, or the thread of the server cannot be started.
ServeFails(c) ==
  /\ command = "building" /\ build = "built"
  /\ command' = "removing" /\ cause' = c
  /\ UNCHANGED <<status, strays, siteVars, serverVars>>

\* Ctrl+C, or the output of the command is gone (OSError), or the wait is over
\* because the accepting thread has ended: the with statement shuts down.
LeaveServer(c) ==
  /\ command = "serving" /\ (c = "none" => loop = "ended")
  /\ command' = "closing" /\ cause' = c
  /\ StopLoop
  /\ UNCHANGED <<status, strays, siteVars>>

\* The next steps of a shutdown that has begun.
Closing == command = "closing" /\ Shutdown /\ UNCHANGED <<demoVars, siteVars>>

\* An interrupt before the with statement has the server, or from the moment
\* its shutdown begins: nothing of that shutdown is done any more.
AbandonServer ==
  /\ command \in {"serving", "closing"}
  /\ command' = "removing" /\ cause' = "interrupt" /\ strays' = strays + 1
  /\ UNCHANGED <<status, siteVars, serverVars>>

\* An exception of the shutdown takes the place of the one in flight.
ServerClosed ==
  /\ command = "closing" /\ owner \in {"down", "raised"}
  /\ command' = "removing"
  /\ cause' = IF owner = "raised" THEN "uncaught" ELSE cause
  /\ UNCHANGED <<status, strays, siteVars, serverVars>>

\* What is left of the workspace; the packaged page stays where it is.
Leave(kept) ==
  /\ disk' = [f \in AllFiles |-> IF f \in kept THEN disk[f] ELSE "absent"]
  /\ files' = files \ {f \in Payloads : disk'[f] = "absent"}
  /\ UNCHANGED <<build, step, name, descriptors, fault,
                 owner, doomed, loopVars, tableVars, stage, socket, timerVars, client, served>>

\* A plausible fault: every exit is reported as a success.
QuietStatus(c) == "0"

\* The except clauses of run_demo.
ExitStatus(c) == CASE c \in {"none", "interrupt"} -> "0"
                   [] c = "error" -> "2"
                   [] c = "uncaught" -> "1"

Exit(c) == command' = "exited" /\ cause' = c /\ status' = ExitStatus(c)

\* The temporary workspace is removed with all that is in it.
RemoveWorkspace ==
  /\ command = "removing"
  /\ Leave({})
  /\ Exit(cause)
  /\ UNCHANGED strays

\* An error, or an interrupt, and the rest of the workspace stays.
RemoveWorkspaceFails ==
  /\ command = "removing"
  /\ \E kept \in Leftovers : Leave(kept)
  /\ Exit("error")
  /\ UNCHANGED strays

RemoveWorkspaceInterrupted ==
  /\ command = "removing"
  /\ \E kept \in Leftovers : Leave(kept)
  /\ Exit("interrupt")
  /\ strays' = strays + 1

Serving == ServerRuns /\ UNCHANGED <<demoVars, siteVars>>

DemoStep ==
  \/ LoadTraces \/ BuildFailed \/ Serve \/ AbandonServer \/ ServerClosed
  \/ RemoveWorkspace \/ RemoveWorkspaceFails \/ RemoveWorkspaceInterrupted
  \/ \E c \in Causes : LoadTracesFails(c)
  \/ \E c \in {"error", "uncaught", "interrupt"} : ServeFails(c)
  \/ \E c \in Causes \cup {"none"} : LeaveServer(c)

DemoNext == DemoStep \/ Building \/ Closing \/ Serving

\* A shutdown that has begun goes on; nobody has to begin one, or to interrupt.
DemoSpec ==
  DemoInit /\ [][DemoNext]_recorderVars /\ ServerFairness /\ WF_recorderVars(Closing)

----------------------------------------------------------------------------
DemoTypeOK ==
  /\ SiteTypeOK /\ ServerTypeOK
  /\ command \in {"loading", "building", "serving", "closing", "removing", "exited"}
  /\ cause \in Causes \cup {"none", "uncaught"}
  /\ status \in {"none", "0", "1", "2"}
  /\ strays \in 0 .. 2

\* The owner has left its server before the shutdown was over.
Abandoned == command \in {"removing", "exited"} /\ owner \notin {"idle", "down", "raised"}

(***************************************************************************)
(* Whatever a thread of the server is doing for a client, the site it      *)
(* reads is complete, verified and still there: nothing is served before   *)
(* the read-back, and the workspace is not removed below a request.  Only  *)
(* a server that was abandoned may find recordings missing, never others.  *)
(***************************************************************************)
ServesOnlyTheVerifiedSite ==
  LiveHandlers # {} =>
    /\ build = "built" /\ name = "ours"
    /\ \A f \in Payloads : disk[f] = "whole" \/ (Abandoned /\ disk[f] = "absent")

WorkspaceLeft == \E f \in AllFiles : disk[f] # "absent"
ServerLeft == LiveHandlers # {} \/ \E r \in Requests : socket[r] = "open"

(***************************************************************************)
(* A command that reports success has removed what it wrote, and no        *)
(* handler and no connection of its server is left.  run_demo reports an   *)
(* interrupt as a success wherever it arrives: one that falls into the     *)
(* taking down costs that stage, and never the other.                      *)
(***************************************************************************)
SuccessIsClean ==
  status = "0" =>
    /\ strays = 0 => ~WorkspaceLeft /\ ~ServerLeft
    /\ strays = 1 => ~WorkspaceLeft \/ ~ServerLeft

(***************************************************************************)
(* A shutdown that has begun returns or raises, whatever the clients do,   *)
(* unless the user interrupts it.                                          *)
(***************************************************************************)
ShutdownReturns == owner = "stopping" ~> owner \in {"down", "raised"} \/ command # "closing"

=============================================================================
