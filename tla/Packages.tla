------------------------------ MODULE Packages ------------------------------
(* The lifecycle of the revisions of one package (packages/service.py):     *)
(* ingest or update, validate, approve, install, activate, roll back.  The  *)
(* source directory may be edited at any time; the installed copy lives in  *)
(* a directory of its own.                                                  *)
EXTENDS PlatformStore

CONSTANTS Revisions,   \* revision ids: package, manifest and content hash
          MaxLifecycle, MaxEdits    \* bounds of a behaviour

VARIABLES source,     \* content of the source directory a revision was read from
          manifests,  \* revisions with a package_manifest record
          revisions,  \* heads of the package_revision records
          current,    \* head of the package_active record
          staged,     \* content of the staging directory, "none" without one
          installed,  \* content of the installed directory
          pcall,      \* the call each caller is in
          pbudget     \* bounds: calls made, calls that died, edits of a source

pvars == <<source, manifests, revisions, current, staged, installed, pcall, pbudget>>

\* A tree has the content the revision was hashed from, or another.
Contents == {"approved", "edited"}
RevisionStates == {"quarantined", "validated", "blocked", "approved", "installed", "active",
                   "superseded", "rolled_back"}
Unknown == [rev |-> 0, state |-> "none", approval |-> FALSE]
NotCalled == [op |-> "none"]

RevisionHeads == [rev : Nat, state : RevisionStates \cup {"none"}, approval : BOOLEAN]
Pointers == [rev : Nat, to : Revisions \cup {"none"}]

\* What a call remembers: the revision it is about, the pointer and the
\* revision it retires.
PackageCalls == [op : {"inspect", "update", "validate", "approve", "install", "activate", "rollback"},
                 on : Revisions,
                 step : {"manifest", "revision", "ingested", "append", "look", "stage", "verify", "publish",
                         "pointer", "old", "retire", "move"},
                 prior : RevisionHeads, active : Pointers, old : RevisionHeads]

PackageTypeOK ==
    /\ source \in [Revisions -> Contents]
    /\ manifests \subseteq Revisions
    /\ revisions \in [Revisions -> RevisionHeads]
    /\ current \in Pointers
    /\ staged \in [Revisions -> Contents \cup {"none"}]
    /\ installed \in [Revisions -> Contents \cup {"none"}]
    /\ pcall \in [Callers -> PackageCalls \cup {NotCalled}]

\* A fresh store, or one in which a revision went through its life alone.
PackageInit ==
    \E live \in Revisions \cup {"none"} :
    /\ source = [r \in Revisions |-> "approved"]
    /\ manifests = Revisions \cap {live}
    /\ revisions = [r \in Revisions |->
          IF r = live THEN [rev |-> 5, state |-> "active", approval |-> TRUE] ELSE Unknown]
    /\ current = [rev |-> IF live = "none" THEN 0 ELSE 1, to |-> live]
    /\ staged = [r \in Revisions |-> "none"]
    /\ installed = [r \in Revisions |-> IF r = live THEN "approved" ELSE "none"]
    /\ pcall = [c \in Callers |-> NotCalled]
    /\ pbudget = [calls |-> 0, deaths |-> 0, edits |-> 0]

-----------------------------------------------------------------------------
Give(c) == pcall' = [pcall EXCEPT ![c] = NotCalled]
Goto(c, step) == pcall' = [pcall EXCEPT ![c].step = step]
At(c, op, step) == pcall[c].op = op /\ pcall[c].step = step

PackageCall(c, op, r, step) ==
    /\ pcall[c] = NotCalled
    /\ pbudget.calls < MaxLifecycle
    /\ pbudget' = [pbudget EXCEPT !.calls = @ + 1]
    /\ pcall' = [pcall EXCEPT ![c] = [op |-> op, on |-> r, step |-> step, prior |-> revisions[r],
                                      active |-> current, old |-> Unknown]]
    /\ UNCHANGED <<source, manifests, revisions, current, staged, installed>>

\* One append_record of revision r, read as prior, and what the call does next.
PutRevision(c, r, prior, state, step) ==
    IF HeadUnmoved(revisions[r], prior.rev)
    THEN /\ revisions' = [revisions EXCEPT ![r] = Appended(@, [prior EXCEPT !.state = state,
                             !.approval = IF state = "approved" THEN TRUE ELSE @])]
         /\ IF step = "done" THEN Give(c) ELSE Goto(c, step)
    ELSE Give(c) /\ UNCHANGED revisions

-----------------------------------------------------------------------------
(* Ingest and validate                                                     *)

\* _ingest scans the source: an edited tree has another revision id.  An
\* update needs an active revision and goes on to validate.
Ingest(c, r, op) ==
    /\ source[r] = "approved"
    /\ op = "update" => current.rev > 0
    /\ PackageCall(c, op, r, "manifest")

\* The manifest record comes first; an existing revision is left alone.
IngestManifest(c) ==
    /\ pcall[c].op \in {"inspect", "update"} /\ pcall[c].step = "manifest"
    /\ LET r == pcall[c].on
       IN IF revisions[r].rev > 0
          THEN manifests' = manifests /\ Goto(c, "ingested")
          ELSE IF r \in manifests
          THEN manifests' = manifests /\ Give(c)
          ELSE manifests' = manifests \cup {r} /\ Goto(c, "revision")
    /\ UNCHANGED <<source, revisions, current, staged, installed, pbudget>>

IngestRevision(c) ==
    /\ pcall[c].op \in {"inspect", "update"} /\ pcall[c].step = "revision"
    /\ PutRevision(c, pcall[c].on, Unknown, "quarantined", "ingested")
    /\ UNCHANGED <<source, manifests, current, staged, installed, pbudget>>

\* inspect is over; update calls validate, which reads the revision anew.
Ingested(c) ==
    /\ pcall[c].op \in {"inspect", "update"} /\ pcall[c].step = "ingested"
    /\ IF pcall[c].op = "inspect" THEN Give(c)
       ELSE pcall' = [pcall EXCEPT ![c].op = "validate", ![c].step = "append",
                                   ![c].prior = revisions[pcall[c].on]]
    /\ UNCHANGED <<source, manifests, revisions, current, staged, installed, pbudget>>

\* validate accepts a revision in any state.
Validate(c, r) ==
    /\ revisions[r].rev > 0 /\ r \in manifests
    /\ PackageCall(c, "validate", r, "append")

\* The manifest's references, pins and dependencies are in order or not.
ValidateAppends(c) ==
    /\ At(c, "validate", "append")
    /\ \E state \in {"validated", "blocked"} :
          PutRevision(c, pcall[c].on, pcall[c].prior, state, "done")
    /\ UNCHANGED <<source, manifests, current, staged, installed, pbudget>>

-----------------------------------------------------------------------------
(* Approve and install                                                     *)

\* The eval runs cover the suites and an approval bound to the content hash is
\* on record, or the call raises.
Approve(c, r) == revisions[r].state = "validated" /\ PackageCall(c, "approve", r, "append")

ApproveAppends(c) ==
    /\ At(c, "approve", "append")
    /\ PutRevision(c, pcall[c].on, pcall[c].prior, "approved", "done")
    /\ UNCHANGED <<source, manifests, current, staged, installed, pbudget>>

\* install scans the source and compares it with the approved hash.
Install(c, r) ==
    /\ revisions[r].state = "approved"
    /\ source[r] = "approved"
    /\ PackageCall(c, "install", r, "look")

\* An installed directory must verify.
InstallLooks(c) ==
    /\ At(c, "install", "look")
    /\ LET r == pcall[c].on
       IN \/ installed[r] = "approved" /\ Goto(c, "append")
          \/ installed[r] = "none" /\ Goto(c, "stage")
          \/ installed[r] = "edited" /\ Give(c)
    /\ UNCHANGED <<source, manifests, revisions, current, staged, installed, pbudget>>

\* Without one a staging directory is made and filled; one that exists
\* already, as a call that died leaves it, stops the call.
InstallStages(c) ==
    /\ At(c, "install", "stage")
    /\ LET r == pcall[c].on
       IN IF staged[r] = "none"
          THEN Goto(c, "verify") /\ staged' = [staged EXCEPT ![r] = source[r]]
          ELSE Give(c) /\ UNCHANGED staged
    /\ UNCHANGED <<source, manifests, revisions, current, installed, pbudget>>

\* An install that trusts its copy.
StagedVerifiesAlways(r) == staged[r] # "none"

\* The staged copy is hashed again: the source may have changed meanwhile.
StagedVerifies(r) == staged[r] = "approved"

InstallVerifies(c) ==
    /\ At(c, "install", "verify")
    /\ IF StagedVerifies(pcall[c].on) THEN Goto(c, "publish") ELSE Give(c)
    /\ UNCHANGED <<source, manifests, revisions, current, staged, installed, pbudget>>

\* os.replace: fails when another install has published the directory.
InstallPublishes(c) ==
    /\ At(c, "install", "publish")
    /\ LET r == pcall[c].on
       IN IF installed[r] = "none"
          THEN /\ installed' = [installed EXCEPT ![r] = staged[r]]
               /\ staged' = [staged EXCEPT ![r] = "none"]
               /\ Goto(c, "append")
          ELSE Give(c) /\ UNCHANGED <<staged, installed>>
    /\ UNCHANGED <<source, manifests, revisions, current, pbudget>>

InstallAppends(c) ==
    /\ At(c, "install", "append")
    /\ PutRevision(c, pcall[c].on, pcall[c].prior, "installed", "done")
    /\ UNCHANGED <<source, manifests, current, staged, installed, pbudget>>

-----------------------------------------------------------------------------
(* Activate and roll back                                                  *)

\* activate: an installed revision, its own approval, verified bytes.
Activatable(r) ==
    revisions[r].state = "installed" /\ revisions[r].approval /\ installed[r] = "approved"

ActivatePackage(c, r) == Activatable(r) /\ PackageCall(c, "activate", r, "pointer")

\* _ROLLBACK_SOURCE_STATES, with an approval.
Restorable(r) ==
    revisions[r].state \in {"superseded", "installed", "rolled_back"} /\ revisions[r].approval

Rollback(c, r) ==
    /\ current.rev > 0 /\ current.to # r
    /\ Restorable(r) /\ installed[r] = "approved"
    /\ PackageCall(c, "rollback", r, "old")

\* activate reads the pointer after the revision.
ActivateReadsPointer(c) ==
    /\ At(c, "activate", "pointer")
    /\ pcall' = [pcall EXCEPT ![c].active = current,
                   ![c].step = IF current.to \in {"none", pcall[c].on} THEN "append" ELSE "old"]
    /\ UNCHANGED <<source, manifests, revisions, current, staged, installed, pbudget>>

\* _supersede leaves a previous revision that is not active; rollback does not
\* look at its state.
ReadOld(c) ==
    /\ pcall[c].op \in {"activate", "rollback"} /\ pcall[c].step = "old"
    /\ LET old == revisions[pcall[c].active.to]
       IN pcall' = [pcall EXCEPT ![c].old = old,
                      ![c].step = IF pcall[c].op = "activate" /\ old.state # "active"
                                  THEN "append" ELSE "retire"]
    /\ UNCHANGED <<source, manifests, revisions, current, staged, installed, pbudget>>

RetireOld(c) ==
    /\ pcall[c].op \in {"activate", "rollback"} /\ pcall[c].step = "retire"
    /\ PutRevision(c, pcall[c].active.to, pcall[c].old,
                   IF pcall[c].op = "activate" THEN "superseded" ELSE "rolled_back", "append")
    /\ UNCHANGED <<source, manifests, current, staged, installed, pbudget>>

ActiveAppends(c) ==
    /\ pcall[c].op \in {"activate", "rollback"} /\ pcall[c].step = "append"
    /\ PutRevision(c, pcall[c].on, pcall[c].prior, "active", "move")
    /\ UNCHANGED <<source, manifests, current, staged, installed, pbudget>>

MovePointer(c) ==
    /\ pcall[c].op \in {"activate", "rollback"} /\ pcall[c].step = "move"
    /\ current' = IF HeadUnmoved(current, pcall[c].active.rev)
                  THEN Appended(current, [current EXCEPT !.to = pcall[c].on]) ELSE current
    /\ Give(c)
    /\ UNCHANGED <<source, manifests, revisions, staged, installed, pbudget>>

-----------------------------------------------------------------------------
InstallerDies(c) ==
    /\ pcall[c] # NotCalled
    /\ pbudget.deaths < MaxDeaths
    /\ pbudget' = [pbudget EXCEPT !.deaths = @ + 1]
    /\ Give(c)
    /\ UNCHANGED <<source, manifests, revisions, current, staged, installed>>

\* Somebody edits the source, or puts the old content back.
EditSource(r) ==
    /\ pbudget.edits < MaxEdits
    /\ pbudget' = [pbudget EXCEPT !.edits = @ + 1]
    /\ \E new \in Contents \ {source[r]} : source' = [source EXCEPT ![r] = new]
    /\ UNCHANGED <<manifests, revisions, current, staged, installed, pcall>>

PackageNext ==
    \/ \E c \in Callers :
          \/ \E r \in Revisions :
                \/ \E op \in {"inspect", "update"} : Ingest(c, r, op)
                \/ Validate(c, r) \/ Approve(c, r) \/ Install(c, r) \/ ActivatePackage(c, r)
                \/ Rollback(c, r)
          \/ IngestManifest(c) \/ IngestRevision(c) \/ Ingested(c) \/ ValidateAppends(c)
          \/ ApproveAppends(c) \/ InstallLooks(c) \/ InstallStages(c) \/ InstallVerifies(c)
          \/ InstallPublishes(c) \/ InstallAppends(c) \/ ActivateReadsPointer(c) \/ ReadOld(c)
          \/ RetireOld(c) \/ ActiveAppends(c) \/ MovePointer(c) \/ InstallerDies(c)
    \/ \E r \in Revisions : EditSource(r)

-----------------------------------------------------------------------------
\* What is installed is what was approved (ADR-028: a pack that changes on
\* disk after approval cannot be installed or activated): although the source
\* is edited while it is copied and calls overlap and die, an installed
\* directory holds the approved content, and the active pointer names an
\* approved revision that is installed.
InstalledAsApproved ==
    /\ \A r \in Revisions : installed[r] # "edited" /\ (installed[r] # "none" => revisions[r].approval)
    /\ current.rev > 0 => installed[current.to] = "approved" /\ revisions[current.to].approval

\* What the steps of a call rest on: an approval for an install, verified
\* bytes as well for an activation, a staging directory to itself.
CallStands(call) ==
    /\ Remembers(call.prior, revisions[call.on])
    /\ call.step \in {"old", "retire"} => call.active.to \in Revisions
    /\ call.step = "retire" => Remembers(call.old, revisions[call.active.to])
    /\ call.op = "install" => revisions[call.on].approval
    /\ call.op \in {"activate", "rollback"} => revisions[call.on].approval /\ installed[call.on] = "approved"
    /\ call.op \in {"activate", "rollback"} => call.step \in {"pointer", "old", "retire", "append", "move"}
    /\ call.step \in {"verify", "publish"} => staged[call.on] # "none"
    /\ call.step = "publish" => staged[call.on] = "approved" /\ call.op = "install"
    /\ call.step \in {"old", "retire", "pointer", "move"} => call.op \in {"activate", "rollback"}

\* One install at a time fills the staging directory of a revision.
OneStager ==
    \A c, d \in Callers :
        /\ pcall[c] # NotCalled /\ pcall[c].step \in {"verify", "publish"}
        /\ pcall[d] # NotCalled /\ pcall[d].step \in {"verify", "publish"}
        /\ pcall[c].on = pcall[d].on
        => c = d

\* The inductive invariant behind InstalledAsApproved.
PackageInv ==
    /\ PackageTypeOK
    /\ \A r \in Revisions : /\ revisions[r].rev = 0 => revisions[r] = Unknown
                            /\ revisions[r].state = "approved" => revisions[r].approval
    /\ current.rev > 0 => current.to \in Revisions
    /\ InstalledAsApproved
    /\ OneStager
    /\ \A c \in Callers : pcall[c] # NotCalled => CallStands(pcall[c])
=============================================================================
