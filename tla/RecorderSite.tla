-------------------------- MODULE RecorderSite --------------------------
(***************************************************************************)
(* materialize_recorder_site of demo/assets.py: the site of the flight     *)
(* recorder is built in a directory the call creates itself, read back and *)
(* compared, and a call that fails takes the recorded payloads away again. *)
(*                                                                         *)
(* Any step may fail (OSError, a bound that is exceeded) or be interrupted *)
(* (KeyboardInterrupt).  An interrupt also falls between the opening of a  *)
(* descriptor and the try that would close it, and into the handlers.      *)
(* Around the call the disk and other processes of the same user are free: *)
(* they may damage what has not been read back yet, and put another        *)
(* directory in the place of the claimed one.                              *)
(***************************************************************************)
EXTENDS Naturals, FiniteSets, Sequences, SequencesExt

CONSTANTS
  Recordings,     \* sequence of the traces to publish, sorted by scenario
  Assets,         \* sequence of the packaged static files
  Nested,         \* those of them that lie in a directory
  Index           \* index.json

Payloads == ToSet(Recordings) \cup {Index}

ASSUME SiteAssumption ==
  /\ Recordings \in Seq(ToSet(Recordings)) /\ IsInjective(Recordings)
  /\ Assets \in Seq(ToSet(Assets))
  /\ Recordings # << >> /\ Assets # << >>
  /\ Nested \subseteq ToSet(Assets)
  /\ Index \notin ToSet(Recordings) \cup ToSet(Assets)
  /\ ToSet(Recordings) \cap ToSet(Assets) = {}

VARIABLES
  build,        \* the step materialize_recorder_site has come to
  step,         \* how many files of that step are done
  disk,         \* the content of every file of the site
  name,         \* what the name of the destination stands for
  descriptors,  \* kinds of descriptors the call holds open, or has lost
  fault         \* why the call does not succeed

siteVars == <<build, step, disk, name, descriptors, fault>>

AllFiles == Payloads \cup ToSet(Assets)

SiteInit ==
  /\ build = "checking" /\ step = 0
  /\ disk = [f \in AllFiles |-> "absent"]
  /\ name = "free"
  /\ descriptors = {}
  /\ fault = "none"

Causes == {"error", "interrupt"}

\* Within the try of _materialize_claim: whatever is raised leads to the cleanup.
Raise(cause) == build' = "purging" /\ fault' = cause

\* The call ends without having come to that try.
GiveUp(cause) == build' = "failed" /\ fault' = cause

\* The descriptors at hand that stay open: an error is met by the handlers that
\* close them, an interrupt comes before, within or after those.
Lost(cause, atHand) == IF cause = "interrupt" THEN SUBSET atHand ELSE {{}}

----------------------------------------------------------------------------
\* _claim_destination.

\* Traces, default run, recording mode and platform are checked, then the
\* parent is opened component by component: "parent" is the one at hand.
OpenRoot ==
  /\ build = "checking"
  /\ build' = "descending" /\ descriptors' = {"parent"}
  /\ UNCHANGED <<step, disk, name, fault>>

CheckFails(cause) ==
  /\ build = "checking"
  /\ GiveUp(cause)
  /\ UNCHANGED <<step, disk, name, descriptors>>

OpenParent ==
  /\ build = "descending"
  /\ build' = "claiming"
  /\ UNCHANGED <<step, disk, name, descriptors, fault>>

MakeSite ==
  /\ build = "claiming" /\ name = "free"
  /\ build' = "opening" /\ name' = "ours"
  /\ UNCHANGED <<step, disk, descriptors, fault>>

\* Whatever the name stands for by now is opened and claimed.
OpenSite ==
  /\ build = "opening"
  /\ build' = "inspecting" /\ descriptors' = {"parent", "site"} /\ name' = "ours"
  /\ UNCHANGED <<step, disk, fault>>

\* A plausible fault: the parent stays open when the site is not accepted.
ClaimFailsAlone ==
  /\ build \in {"descending", "claiming", "opening", "inspecting"}
  /\ GiveUp("error") /\ descriptors' = IF build \in {"opening", "inspecting"} THEN {"parent"} ELSE {}
  /\ UNCHANGED <<step, disk, name>>

\* The parent cannot be opened, the destination exists already or cannot be
\* made or opened, or is not empty: an empty root may stay behind.
ClaimFails ==
  /\ build \in {"descending", "claiming", "opening", "inspecting"}
  /\ GiveUp("error") /\ descriptors' = {}
  /\ UNCHANGED <<step, disk, name>>

\* _require_empty_site.
InspectSite ==
  /\ build = "inspecting"
  /\ build' = "identifying"
  /\ UNCHANGED <<step, disk, name, descriptors, fault>>

\* _descriptor_identity; the anchor is complete.
IdentifySite ==
  /\ build = "identifying"
  /\ build' = "copying"
  /\ UNCHANGED <<step, disk, name, descriptors, fault>>

\* The fstat is outside of every try.
IdentifyFails ==
  /\ build = "identifying"
  /\ GiveUp("error")
  /\ UNCHANGED <<step, disk, name, descriptors>>

\* All handlers of the claim catch errors only.
InterruptedClaim ==
  /\ build \in {"descending", "claiming", "opening", "inspecting", "identifying"}
  /\ GiveUp("interrupt") /\ descriptors' \in Lost("interrupt", descriptors)
  /\ UNCHANGED <<step, disk, name>>

----------------------------------------------------------------------------
\* _write_site.

\* _write_file creates the file exclusively and writes until all is written.
Write(f) == disk[f] = "absent" /\ disk' = [disk EXCEPT ![f] = "whole"]
Tear(f) == disk[f] = "absent" /\ \E c \in {"absent", "torn"} : disk' = [disk EXCEPT ![f] = c]

CopyAsset ==
  /\ build = "copying" /\ step < Len(Assets)
  /\ Write(Assets[step + 1])
  /\ step' = step + 1
  /\ UNCHANGED <<build, name, descriptors, fault>>

CopyAssetFails(cause) ==
  /\ build = "copying" /\ step < Len(Assets)
  /\ Tear(Assets[step + 1])
  /\ Raise(cause)
  /\ \E lost \in Lost(cause, {"location", "file"}) : descriptors' = descriptors \cup lost
  /\ UNCHANGED <<step, name>>

\* The loop of _target_location has no handler: the descriptor it has opened
\* for the directory of the file is not closed after an error either.
LocateAssetFails ==
  /\ build = "copying" /\ step < Len(Assets) /\ Assets[step + 1] \in Nested
  /\ descriptors' = descriptors \cup {"location"}
  /\ Raise("error")
  /\ UNCHANGED <<step, disk, name>>

MakeTraces ==
  /\ build = "copying" /\ step = Len(Assets)
  /\ build' = "writing" /\ step' = 0
  /\ descriptors' = descriptors \cup {"traces"}
  /\ UNCHANGED <<disk, name, fault>>

MakeTracesFails(cause) ==
  /\ build = "copying" /\ step = Len(Assets)
  /\ Raise(cause)
  /\ \E lost \in Lost(cause, {"traces"}) : descriptors' = descriptors \cup lost
  /\ UNCHANGED <<step, disk, name>>

WriteTrace ==
  /\ build = "writing" /\ step < Len(Recordings)
  /\ Write(Recordings[step + 1])
  /\ step' = step + 1
  /\ UNCHANGED <<build, name, descriptors, fault>>

WriteIndex ==
  /\ build = "writing" /\ step = Len(Recordings)
  /\ Write(Index)
  /\ build' = "reopening" /\ step' = 0
  /\ descriptors' = descriptors \ {"traces"}
  /\ UNCHANGED <<name, fault>>

\* A payload that is too large or does not validate, or a write that fails.
WriteFails(cause) ==
  /\ build = "writing"
  /\ Tear(IF step < Len(Recordings) THEN Recordings[step + 1] ELSE Index)
  /\ Raise(cause)
  /\ \E lost \in Lost(cause, {"traces", "file"}) : descriptors' = {"parent", "site"} \cup lost
  /\ UNCHANGED <<step, name>>

----------------------------------------------------------------------------
\* _validate_site_at and _require_current_claim.

ReadIndex ==
  /\ build = "reopening" /\ disk[Index] = "whole"
  /\ build' = "validating"
  /\ descriptors' = descriptors \cup {"traces"}
  /\ UNCHANGED <<step, disk, name, fault>>

\* A plausible fault: the payloads are read, but not compared with the index.
ReadTraceOnly ==
  /\ build = "validating" /\ step < Len(Recordings)
  /\ step' = step + 1
  /\ UNCHANGED <<build, disk, name, descriptors, fault>>

ReadTrace ==
  /\ build = "validating" /\ step < Len(Recordings)
  /\ disk[Recordings[step + 1]] = "whole"
  /\ step' = step + 1
  /\ UNCHANGED <<build, disk, name, descriptors, fault>>

\* The default run is one of the entries: it was checked before the claim.
Validated ==
  /\ build = "validating" /\ step = Len(Recordings)
  /\ build' = "confirming"
  /\ descriptors' = descriptors \ {"traces"}
  /\ UNCHANGED <<step, disk, name, fault>>

\* The index or a payload is not what was written, or cannot be read.
ValidationFails(cause) ==
  /\ build \in {"reopening", "validating"}
  /\ Raise(cause)
  /\ \E lost \in Lost(cause, {"traces", "file"}) : descriptors' = {"parent", "site"} \cup lost
  /\ UNCHANGED <<step, disk, name>>

Confirm ==
  /\ build = "confirming" /\ name = "ours"
  /\ build' = "closing"
  /\ UNCHANGED <<step, disk, name, descriptors, fault>>

ConfirmFails(cause) ==
  /\ build = "confirming"
  /\ Raise(cause)
  /\ UNCHANGED <<step, disk, name, descriptors>>

----------------------------------------------------------------------------
\* _cleanup_failure, and the finally of materialize_recorder_site.

Purge(f) ==
  /\ build = "purging" /\ f \in Payloads /\ disk[f] # "absent"
  /\ disk' = [disk EXCEPT ![f] = "absent"]
  /\ UNCHANGED <<build, step, name, descriptors, fault>>

\* A plausible fault: only errors are cleaned up after, not an interrupt.
PurgedAfterErrors ==
  /\ build = "purging" /\ (fault = "interrupt" \/ \A f \in Payloads : disk[f] = "absent")
  /\ build' = "closing"
  /\ UNCHANGED <<step, disk, name, descriptors, fault>>

\* The payloads are gone, or the directory of the traces was never made.
Purged ==
  /\ build = "purging" /\ \A f \in Payloads : disk[f] = "absent"
  /\ build' = "closing"
  /\ UNCHANGED <<step, disk, name, descriptors, fault>>

\* The first OSError ends the cleanup, and both errors are raised as a group.
PurgeFails ==
  /\ build = "purging"
  /\ build' = "closing"
  /\ fault' = IF fault = "interrupt" THEN "interrupt group" ELSE "group"
  /\ UNCHANGED <<step, disk, name, descriptors>>

\* An interrupt ends the cleanup as well, and is what is raised.
PurgeInterrupted ==
  /\ build = "purging"
  /\ build' = "closing" /\ fault' = "interrupted cleanup"
  /\ \E lost \in Lost("interrupt", {"traces"}) : descriptors' = descriptors \cup lost
  /\ UNCHANGED <<step, disk, name>>

CloseDescriptors ==
  /\ build = "closing"
  /\ build' = IF fault = "none" THEN "built" ELSE "failed"
  /\ descriptors' = descriptors \ {"parent", "site"}
  /\ UNCHANGED <<step, disk, name, fault>>

\* The site may be complete by then: its payloads stay where they are.
CloseInterrupted ==
  /\ build = "closing"
  /\ GiveUp(IF fault = "none" THEN "late interrupt" ELSE "interrupted cleanup")
  /\ \E open \in {{}, {"parent"}, {"parent", "site"}} :
       descriptors' = (descriptors \ {"parent", "site"}) \cup open
  /\ UNCHANGED <<step, disk, name>>

----------------------------------------------------------------------------
\* Meanwhile, outside of the program.

Unread(f) == \/ build \in {"copying", "writing", "reopening"}
             \/ build = "validating" /\ f \in {Recordings[i] : i \in step + 1 .. Len(Recordings)}

Damage(f) ==
  /\ Unread(f) /\ f \in Payloads /\ disk[f] = "whole"
  /\ disk' = [disk EXCEPT ![f] = "bad"]
  /\ UNCHANGED <<build, step, name, descriptors, fault>>

\* The claimed name comes to stand for another directory, or one appears.
TakeName ==
  /\ build \notin {"purging", "closing", "built", "failed"}
  /\ name # "taken"
  /\ name' = "taken"
  /\ UNCHANGED <<build, step, disk, descriptors, fault>>

SiteFails(cause) ==
  \/ CheckFails(cause)
  \/ CopyAssetFails(cause) \/ MakeTracesFails(cause)
  \/ WriteFails(cause) \/ ValidationFails(cause) \/ ConfirmFails(cause)

SiteStep ==
  \/ OpenRoot \/ OpenParent \/ MakeSite \/ OpenSite \/ InspectSite \/ IdentifySite
  \/ ClaimFails \/ IdentifyFails \/ InterruptedClaim
  \/ CopyAsset \/ LocateAssetFails \/ MakeTraces \/ WriteTrace \/ WriteIndex
  \/ ReadIndex \/ ReadTrace \/ Validated \/ Confirm
  \/ \E f \in Payloads : Purge(f)
  \/ Purged \/ PurgeFails \/ PurgeInterrupted
  \/ CloseDescriptors \/ CloseInterrupted
  \/ \E cause \in Causes : SiteFails(cause)

SiteEnvironment == TakeName \/ \E f \in Payloads : Damage(f)

----------------------------------------------------------------------------
SiteTypeOK ==
  /\ build \in {"checking", "descending", "claiming", "opening", "inspecting", "identifying",
                "copying", "writing", "reopening", "validating", "confirming",
                "purging", "closing", "built", "failed"}
  /\ step \in Nat
  /\ disk \in [AllFiles -> {"absent", "torn", "whole", "bad"}]
  /\ name \in {"free", "ours", "taken"}
  /\ descriptors \subseteq {"parent", "site", "traces", "location", "file"}
  /\ fault \in Causes \cup {"none", "group", "interrupt group", "interrupted cleanup",
                           "late interrupt"}

\* "purging trace payloads after failure": a call that raises leaves no payload
\* of a recording behind, unless the cleanup failed or an interrupt came after
\* the last of its steps that has a handler.
NothingLeftAfterFailure ==
  build = "failed" /\ fault \in Causes => \A f \in Payloads : disk[f] = "absent"

(***************************************************************************)
(* A call that succeeds has closed every descriptor.  A call that ends in  *)
(* an error has too, except at the two places without a handler: the       *)
(* directory of a static file, and the identity of the claimed site.  An   *)
(* interrupt may cost any descriptor at hand; but a call that has begun to *)
(* write, and is not interrupted again afterwards, still closes the site   *)
(* and its parent, so what is lost for good with them is an empty site.    *)
(***************************************************************************)
DescriptorsAreReturned ==
  /\ build = "built" => descriptors = {}
  /\ build = "failed" /\ fault \in {"error", "group"} =>
       descriptors \in {{}, {"location"}, {"parent", "site"}}
  /\ build = "failed" /\ fault \in Causes \cup {"group", "interrupt group"} =>
       descriptors \cap {"parent", "site"} = {} \/ \A f \in AllFiles : disk[f] = "absent"

=============================================================================
