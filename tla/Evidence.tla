------------------------------ MODULE Evidence ------------------------------
(* The evidence behind the ledger (ingestion.py).  An ingest classifies a   *)
(* source, captures it as content-addressed files, normalizes it into       *)
(* segments and stages a claim that names its segment; a promotion          *)
(* validates all of it again, under the guard too, and merges the claim     *)
(* with the active one of the same statement.  Scanner, extractor and       *)
(* fixture registry change, files are damaged, workers die or are           *)
(* overtaken meanwhile.  States of the promotion log, leases of promotion,  *)
(* views and approvals are the subject of Promotion.                        *)
EXTENDS PlatformStore, FiniteSets

CONSTANTS Ingests,       \* ingest operations of fixtures
          Captures,      \* the revision each one may capture, one function each
          FileOf,        \* the source of a revision
          ToolOf,        \* version of the extractor in the operation's key
          Statements,    \* what claims state
          StatementOf,   \* first excerpt of a revision: the proposal that is made
          MaxIngests,    \* bounds of a behaviour: calls, changes around them and deaths
          MaxChanges

VARIABLES captures,     \* the revision each operation captures
          tool,         \* installed version of the extractor
          restricted,   \* revisions the scanner blocks
          registered,   \* operations whose bytes the fixture manifest registers
          isolated,     \* revisions with copies under _raw/restricted, each of a random name
          defined,      \* source and revision objects: what, and by which operation
          snapshots,    \* normalization snapshots
          claims,       \* active generation: its number, evidence and time per statement
          candidate,    \* staged bundle of each operation
          wals,         \* bundle of the last promotion record of each operation
          promoted,     \* generation each operation last committed, 0 for none
          opstate,      \* state of its operation row
          finished,     \* operations whose run manifest says succeeded
          owner,        \* prepare:source lease, by source
          ingest,       \* the call of each worker
          kbudget       \* bounds: calls, changes; was a live owner overtaken

kvars == <<captures, tool, restricted, registered, isolated, defined, snapshots, claims, candidate, wals, promoted,
           opstate, finished, owner, ingest, kbudget>>
around == <<tool, restricted, registered, snapshots>>
stored == <<isolated, defined, claims, candidate, wals, promoted, opstate, finished>>

Revisions == UNION {{m[o] : o \in Ingests} : m \in Captures}
Files == {FileOf[r] : r \in Revisions}
SegmentOf(o) == <<captures[o], ToolOf[o]>>
Segments == Revisions \X {ToolOf[o] : o \in Ingests}
\* When a claim is recorded: when its evidence was captured, or when a person
\* proposed it afterwards.
Captured == 1
Afterwards == 2
Times == {Captured, Afterwards}
NoCandidate == [parent |-> 0, statement |-> "none", evidence |-> {}, recorded |-> Captured]
EvIdle == [step |-> "idle"]

\* Identifiers of sources and revisions have prefixes of their own; every
\* revision has a first excerpt.
ASSUME EvidenceAssumption ==
    /\ "none" \notin Callers
    /\ Files \cap Revisions = {}
    /\ \A r \in Revisions : StatementOf[r] \in Statements

ClaimBundles == [parent : Nat, statement : Statements \cup {"none"}, evidence : SUBSET Segments, recorded : Times]
EvCalls == [step : {"files", "create", "normalize", "stage", "gate", "commit", "log", "swap", "committed",
                    "reconcile", "close", "import"},
            op : Ingests, what : Files \cup Revisions \cup Statements \cup {"none"}, bundle : ClaimBundles]

EvidenceTypeOK ==
    /\ restricted \subseteq Revisions /\ registered \subseteq Ingests /\ isolated \subseteq Revisions
    /\ defined \subseteq ((Revisions \cup Files) \X Ingests)
    /\ snapshots \in [Segments -> {"none", "whole", "damaged"}]
    /\ claims \in [gen : Nat, evidence : [Statements -> SUBSET Segments], recorded : [Statements -> Times]]
    /\ candidate \in [Ingests -> ClaimBundles] /\ wals \in [Ingests -> ClaimBundles]
    /\ promoted \in [Ingests -> Nat] /\ finished \subseteq Ingests
    /\ opstate \in [Ingests -> {"open", "reconciling", "succeeded"}]
    /\ owner \in [Files -> Callers \cup {"none"}]
    /\ ingest \in [Callers -> EvCalls \cup {EvIdle}]
    /\ kbudget \in [calls : Nat, changes : Nat, overtaken : BOOLEAN]

EvidenceInit ==
    /\ captures \in Captures
    /\ tool = 1 /\ restricted = {} /\ registered = Ingests /\ defined = {}
    /\ isolated = {}
    /\ snapshots = [s \in Segments |-> "none"]
    /\ claims = [gen |-> 1, evidence |-> [s \in Statements |-> {}], recorded |-> [s \in Statements |-> Captured]]
    /\ candidate = [o \in Ingests |-> NoCandidate] /\ wals = [o \in Ingests |-> NoCandidate]
    /\ promoted = [o \in Ingests |-> 0] /\ opstate = [o \in Ingests |-> "open"]
    /\ finished = {} /\ owner = [f \in Files |-> "none"]
    /\ ingest = [c \in Callers |-> EvIdle]
    /\ kbudget = [calls |-> 0, changes |-> 0, overtaken |-> FALSE]

-----------------------------------------------------------------------------
(* What surrounds the pipeline                                             *)

Change == kbudget.changes < MaxChanges /\ kbudget' = [kbudget EXCEPT !.changes = @ + 1]

\* Another version of the extractor is installed.
Upgrade ==
    /\ Change /\ tool = 1 /\ tool' = 2
    /\ UNCHANGED <<restricted, registered, snapshots, stored, owner, ingest>>

\* The scanner learns to see something restricted.
Block(r) ==
    /\ Change /\ r \notin restricted /\ restricted' = restricted \cup {r}
    /\ UNCHANGED <<tool, registered, snapshots, stored, owner, ingest>>

\* The trusted fixture manifest is edited.
Deregister(o) ==
    /\ Change /\ o \in registered /\ registered' = registered \ {o}
    /\ UNCHANGED <<tool, restricted, snapshots, stored, owner, ingest>>

\* A file of a snapshot is damaged or lost.
Damage(s) ==
    /\ Change /\ snapshots[s] = "whole" /\ snapshots' = [snapshots EXCEPT ![s] = "damaged"]
    /\ UNCHANGED <<tool, restricted, registered, stored, owner, ingest>>

\* _heartbeat_preparation_leases keeps the leases of a running worker; one
\* that died, or was suspended for longer, loses them.
LeaseLapses(f) ==
    /\ owner[f] # "none"
    /\ owner' = [owner EXCEPT ![f] = "none"]
    /\ LET alive == ingest[owner[f]].step \in {"files", "create", "normalize", "stage", "gate"} IN
       /\ alive => kbudget.changes < MaxChanges
       /\ kbudget' = IF alive THEN [kbudget EXCEPT !.overtaken = TRUE, !.changes = @ + 1] ELSE kbudget
    /\ UNCHANGED <<around, stored, ingest>>

-----------------------------------------------------------------------------
EvGo(c, step) == ingest' = [ingest EXCEPT ![c].step = step]

\* A call ends; the preparation leases that are still its own are released.
EvEnd(c) ==
    /\ ingest' = [ingest EXCEPT ![c] = EvIdle]
    /\ owner' = [f \in Files |-> IF owner[f] = c THEN "none" ELSE owner[f]]

EvCall(c, call) ==
    /\ ingest[c] = EvIdle
    /\ kbudget.calls < MaxIngests
    /\ kbudget' = [kbudget EXCEPT !.calls = @ + 1]
    /\ ingest' = [ingest EXCEPT ![c] = call]

\* _classify_or_quarantine: the scanner's word on the bytes and on all that is
\* extracted from them; a scanner that fails blocks.
Blocked(r) == r \in restricted

\* _quarantine: one more copy under _raw/restricted.
Quarantined(r) == isolated' = isolated \cup {r}

\* _authorize_fixture: the trusted manifest registers exactly these bytes.
Registered(o) == o \in registered

\* ingest: the file is classified and extracted, its bytes are registered, and
\* the preparation leases are waited for.  A bundle that is staged is used; an
\* operation that succeeded is recovered instead (CallPromote).
CallIngest(c, o) ==
    LET f == FileOf[captures[o]] IN
    /\ tool = ToolOf[o] /\ Registered(o) /\ ~Blocked(captures[o])
    /\ opstate[o] # "succeeded"
    /\ owner[f] = "none"
    /\ owner' = [owner EXCEPT ![f] = c]
    /\ EvCall(c, [step |-> IF candidate[o] = NoCandidate THEN "files" ELSE "gate", op |-> o, what |-> f,
                  bundle |-> candidate[o]])
    /\ UNCHANGED <<around, stored>>

\* Restricted bytes, or a restricted extraction, are isolated and go no
\* further, when they are ingested or when their bundle is called for.
Isolate(c, o) ==
    /\ Blocked(captures[o])
    /\ ingest[c] = EvIdle /\ kbudget.calls < MaxIngests
    /\ kbudget' = [kbudget EXCEPT !.calls = @ + 1]
    /\ Quarantined(captures[o])
    /\ UNCHANGED <<around, defined, claims, candidate, wals, promoted, opstate, finished, owner, ingest>>

Definitions(x) == {d \in defined : d[1] = x}

\* After the source, its revision; after that, the normalization.
AfterFile(c) ==
    IF ingest[c].what \in Files
    THEN ingest' = [ingest EXCEPT ![c].step = "files", ![c].what = captures[ingest[c].op]]
    ELSE EvGo(c, "normalize")

\* _load_or_create_source and _load_source_revision: one definition is used, a
\* second one is an error for ever, none is made.
FindFile(c) ==
    LET n == Cardinality(Definitions(ingest[c].what)) IN
    /\ ingest[c].step = "files"
    /\ \/ n = 0 /\ EvGo(c, "create") /\ UNCHANGED owner
       \/ n = 1 /\ AfterFile(c) /\ UNCHANGED owner
       \/ n > 1 /\ EvEnd(c)
    /\ UNCHANGED <<around, stored, kbudget>>

\* publish_model: the object is named by its hash, which covers the time of the
\* run, so two operations publish two objects.
CreateFile(c) ==
    /\ ingest[c].step = "create"
    /\ defined' = defined \cup {<<ingest[c].what, ingest[c].op>>}
    /\ AfterFile(c)
    /\ UNCHANGED <<around, isolated, claims, candidate, wals, promoted, opstate, finished, owner, kbudget>>

\* _normalize: the manifest comes last and makes the snapshot; one that exists
\* is used if its segments and excerpts have their hashes.
Normalize(c) ==
    LET s == SegmentOf(ingest[c].op) IN
    /\ ingest[c].step = "normalize"
    /\ IF snapshots[s] = "damaged" THEN EvEnd(c) /\ UNCHANGED snapshots
       ELSE /\ snapshots' = [snapshots EXCEPT ![s] = "whole"] /\ EvGo(c, "stage") /\ UNCHANGED owner
    /\ UNCHANGED <<tool, restricted, registered, stored, kbudget>>

-----------------------------------------------------------------------------
\* A claim that takes the place of the active one.
ReplacingClaim(statement, evidence) == evidence

\* _merge_claim_with_generation: the evidence of the active claim is kept.
MergedClaim(statement, evidence) == claims.evidence[statement] \cup evidence

\* The earlier time of the two, if there is an active claim.
MergedTime(statement, time) ==
    IF claims.evidence[statement] # {} /\ claims.recorded[statement] < time THEN claims.recorded[statement] ELSE time

\* _prepare and _rebase_prepared: a bundle on the active generation.
BundleOn(statement, evidence, time) ==
    [parent |-> claims.gen, statement |-> statement, evidence |-> MergedClaim(statement, evidence),
     recorded |-> MergedTime(statement, time)]

\* _create_and_validate_proposal and the staging bundle.
StageClaim(c) ==
    LET o == ingest[c].op
        b == BundleOn(StatementOf[captures[o]], {SegmentOf(o)}, Captured) IN
    /\ ingest[c].step = "stage"
    /\ candidate' = [candidate EXCEPT ![o] = b]
    /\ ingest' = [ingest EXCEPT ![c].step = "gate", ![c].bundle = b]
    /\ UNCHANGED <<around, isolated, defined, claims, wals, promoted, opstate, finished, owner, kbudget>>

\* _validate_evidence_snapshot: manifest, document, segments and excerpts have
\* their hashes and identities,
SnapshotWhole(s) == snapshots[s] = "whole"

\* and the revision, with its raw bytes, has one definition.
Resolves(s) == SnapshotWhole(s) /\ Cardinality(Definitions(s[1])) = 1

\* The snapshot of the operation itself is extracted again.
ExtractsAgain(o) == tool = ToolOf[o]

\* _validate_claim_evidence: every piece of evidence is in one snapshot.
EvidenceResolves(evidence) == \A s \in evidence : Resolves(s)

\* _validate_generation_objects: every claim of the candidate generation.
GenerationResolves(b) ==
    \A t \in Statements : EvidenceResolves(IF t = b.statement THEN b.evidence ELSE claims.evidence[t])

\* The evidence of the operation is resolved, its source has one definition,
\* and the extraction is classified again.
OwnEvidence(o, b) == SegmentOf(o) \in b.evidence /\ Resolves(SegmentOf(o))
OneSource(o) == Cardinality(Definitions(FileOf[captures[o]])) = 1
ReExtracts(o) == OneSource(o) /\ ~Blocked(captures[o]) /\ ExtractsAgain(o)

\* _validate_prepared.
ValidBundle(o, b) == GenerationResolves(b) /\ OwnEvidence(o, b) /\ ReExtracts(o)

\* What a validation that fails isolates: what is restricted, if it comes so
\* far; the claim, an excerpt, is classified before anything else.
Refused(o, b) ==
    \/ Blocked(captures[o]) /\ Quarantined(captures[o])
    \/ /\ Blocked(captures[o]) => ~(GenerationResolves(b) /\ OwnEvidence(o, b) /\ OneSource(o))
       /\ UNCHANGED isolated

\* The final gate of the preparation: everything is validated and the leases
\* are still the worker's own.  A preparation may have been all that was asked.
FinalGate(c) ==
    LET o == ingest[c].op  b == ingest[c].bundle IN
    /\ ingest[c].step = "gate"
    /\ \/ ValidBundle(o, b) /\ owner[FileOf[captures[o]]] = c /\ EvGo(c, "commit") /\ UNCHANGED <<isolated, owner>>
       \/ ValidBundle(o, b) /\ EvEnd(c) /\ UNCHANGED isolated
       \/ ~ValidBundle(o, b) /\ EvEnd(c) /\ Refused(o, b)
    /\ UNCHANGED <<around, defined, claims, candidate, wals, promoted, opstate, finished, kbudget>>

\* _derive_fixture_authority: the captured bytes are classified and extracted
\* once more and give the key of the operation, by the manifest of today.
FixtureAuthority(o) == Registered(o) /\ ~Blocked(captures[o]) /\ tool = ToolOf[o]

\* recover_run, promote_run: a run that is not finished.  The generation it
\* committed is only reconciled while it is active; otherwise the staged bundle
\* is loaded and validated, and its authority derived.
CallPromote(c, o) ==
    /\ ~(opstate[o] = "succeeded" /\ o \in finished)
    /\ \/ /\ promoted[o] = claims.gen
          /\ EvCall(c, [step |-> "committed", op |-> o, what |-> "none", bundle |-> NoCandidate])
       \/ /\ promoted[o] # claims.gen /\ candidate[o] # NoCandidate
          /\ ValidBundle(o, candidate[o]) /\ FixtureAuthority(o)
          /\ EvCall(c, [step |-> "commit", op |-> o, what |-> "none", bundle |-> candidate[o]])
    /\ UNCHANGED <<around, stored, owner>>

\* The record is of this bundle, and it was committed.
Committed(o, b) == wals[o] = b /\ promoted[o] = b.parent + 1

\* The active claim of the statement is the very object.
ActiveObject(b) == claims.evidence[b.statement] = b.evidence /\ claims.recorded[b.statement] = b.recorded

\* _promote under its leases: without a record, a claim that is active already
\* is no change; another generation than the parent or the bundle's own means a
\* rebase, unless the bundle was committed before.
PlanCommit(c) ==
    LET o == ingest[c].op
        b == ingest[c].bundle
        rebased == BundleOn(b.statement, b.evidence, b.recorded)
        noop == wals[o] = NoCandidate /\ ActiveObject(b)
        stays == b.parent = claims.gen \/ (Committed(o, b) /\ promoted[o] = claims.gen)
    IN
    /\ ingest[c].step = "commit"
    /\ \/ /\ noop /\ opstate' = [opstate EXCEPT ![o] = "succeeded"] /\ EvGo(c, "close")
          /\ UNCHANGED <<isolated, candidate, finished, owner>>
       \/ /\ ~noop /\ stays /\ EvGo(c, "log")
          /\ UNCHANGED <<isolated, candidate, opstate, finished, owner>>
       \/ /\ ~noop /\ ~stays /\ Committed(o, b) /\ EvEnd(c)
          /\ UNCHANGED <<isolated, candidate, opstate, finished>>
       \/ /\ ~noop /\ ~stays /\ ~Committed(o, b)
          /\ candidate' = [candidate EXCEPT ![o] = rebased]
          /\ finished' = finished \ {o}
          /\ IF ValidBundle(o, rebased)
             THEN /\ ingest' = [ingest EXCEPT ![c].bundle = rebased, ![c].step = "log"]
                  /\ UNCHANGED <<isolated, owner>>
             ELSE EvEnd(c) /\ Refused(o, rebased)
          /\ UNCHANGED opstate
    /\ UNCHANGED <<around, defined, claims, wals, promoted, kbudget>>

\* store_promotion.
LogPromotion(c) ==
    /\ ingest[c].step = "log"
    /\ wals' = [wals EXCEPT ![ingest[c].op] = ingest[c].bundle]
    /\ EvGo(c, "swap")
    /\ UNCHANGED <<around, isolated, defined, claims, candidate, promoted, opstate, finished, owner, kbudget>>

\* The guard: the bundle is validated and the authority derived again before
\* the pointer moves.  A bundle whose generation is active is committed already.
Commit(c) ==
    LET o == ingest[c].op  b == ingest[c].bundle IN
    /\ ingest[c].step = "swap"
    /\ \/ /\ b.parent = claims.gen /\ ValidBundle(o, b) /\ FixtureAuthority(o)
          /\ claims' = [gen |-> claims.gen + 1, evidence |-> [claims.evidence EXCEPT ![b.statement] = b.evidence],
                        recorded |-> [claims.recorded EXCEPT ![b.statement] = b.recorded]]
          /\ promoted' = [promoted EXCEPT ![o] = claims.gen + 1]
          /\ EvGo(c, "committed") /\ UNCHANGED <<isolated, owner>>
       \/ /\ b.parent = claims.gen /\ ~ValidBundle(o, b)
          /\ EvEnd(c) /\ Refused(o, b) /\ UNCHANGED <<claims, promoted>>
       \/ /\ b.parent = claims.gen => ValidBundle(o, b) /\ ~FixtureAuthority(o)
          /\ IF b.parent # claims.gen /\ Committed(o, b) /\ promoted[o] = claims.gen
             THEN EvGo(c, "committed") /\ UNCHANGED owner ELSE EvEnd(c)
          /\ UNCHANGED <<isolated, claims, promoted>>
    /\ UNCHANGED <<around, defined, candidate, wals, opstate, finished, kbudget>>

\* The operation is reconciling from here on; ...
MarkCommitted(c) ==
    /\ ingest[c].step = "committed"
    /\ opstate' = [opstate EXCEPT ![ingest[c].op] = "reconciling"]
    /\ EvGo(c, "reconcile")
    /\ UNCHANGED <<around, isolated, defined, claims, candidate, wals, promoted, finished, owner, kbudget>>

\* ... it succeeded when it is reconciled, which fails when another generation
\* is active; ...
Conclude(c) ==
    LET o == ingest[c].op IN
    /\ ingest[c].step = "reconcile"
    /\ \/ opstate' = [opstate EXCEPT ![o] = "succeeded"] /\ EvGo(c, "close") /\ UNCHANGED owner
       \/ promoted[o] # claims.gen /\ EvEnd(c) /\ UNCHANGED opstate
    /\ UNCHANGED <<around, isolated, defined, claims, candidate, wals, promoted, finished, kbudget>>

\* ... and its run manifest says so last.
Finish(c) ==
    /\ ingest[c].step = "close"
    /\ finished' = finished \cup {ingest[c].op}
    /\ EvEnd(c)
    /\ UNCHANGED <<around, isolated, defined, claims, candidate, wals, promoted, opstate, kbudget>>

-----------------------------------------------------------------------------
\* import_proposal: another claim for the staged evidence of an operation that
\* is not reconciling or done; no lease is taken, and the bundle is replaced
\* afterwards, ...
CallImport(c, o, statement) ==
    /\ candidate[o] # NoCandidate /\ ValidBundle(o, candidate[o]) /\ opstate[o] = "open"
    /\ EvCall(c, [step |-> "import", op |-> o, what |-> statement, bundle |-> NoCandidate])
    /\ UNCHANGED <<around, stored, owner>>

\* ... and validated then.
ReplaceProposal(c) ==
    LET o == ingest[c].op
        b == BundleOn(ingest[c].what, {SegmentOf(o)}, Afterwards) IN
    /\ ingest[c].step = "import"
    /\ candidate' = [candidate EXCEPT ![o] = b]
    /\ finished' = finished \ {o}
    /\ IF ValidBundle(o, b) THEN UNCHANGED isolated ELSE Refused(o, b)
    /\ EvEnd(c)
    /\ UNCHANGED <<around, defined, claims, wals, promoted, opstate, kbudget>>

WorkerDies(c) ==
    /\ ingest[c] # EvIdle
    /\ Change
    /\ ingest' = [ingest EXCEPT ![c] = EvIdle]
    /\ UNCHANGED <<around, stored, owner>>

EvidenceStep ==
    \/ Upgrade
    \/ \E r \in Revisions : Block(r)
    \/ \E o \in Ingests : Deregister(o)
    \/ \E s \in Segments : Damage(s)
    \/ \E f \in Files : LeaseLapses(f)
    \/ \E c \in Callers :
        \/ \E o \in Ingests :
             \/ CallIngest(c, o) \/ Isolate(c, o) \/ CallPromote(c, o)
             \/ \E t \in Statements : CallImport(c, o, t)
        \/ FindFile(c) \/ CreateFile(c) \/ Normalize(c) \/ StageClaim(c) \/ FinalGate(c)
        \/ PlanCommit(c) \/ LogPromotion(c) \/ Commit(c) \/ MarkCommitted(c) \/ Conclude(c) \/ Finish(c)
        \/ ReplaceProposal(c) \/ WorkerDies(c)

EvidenceNext == EvidenceStep /\ UNCHANGED captures

-----------------------------------------------------------------------------
\* The evidence of the ledger stands (_merge_claim_with_generation,
\* _hold_preparation): an operation that succeeded has its segment in an
\* active claim whatever was promoted, rebased or imported since; and unless a
\* live worker lost its preparation lease, every source and revision has one
\* definition, so that the evidence can be resolved.
EvidenceStands ==
    /\ \A o \in finished : \E t \in Statements : SegmentOf(o) \in claims.evidence[t]
    /\ ~kbudget.overtaken => \A x \in Files \cup Revisions : Cardinality(Definitions(x)) <= 1

-----------------------------------------------------------------------------
\* The segment of the operation is in an active claim.
Claimed(o) == \E t \in Statements : SegmentOf(o) \in claims.evidence[t]

\* A bundle has the evidence of its operation, and all there is while its
\* parent is the active generation.
BundleStands(o, b) ==
    /\ b.statement \in Statements /\ SegmentOf(o) \in b.evidence
    /\ b.parent \in 1 .. claims.gen
    /\ b.parent = claims.gen => claims.evidence[b.statement] \subseteq b.evidence

\* Sources and revisions are looked for and made under the lease of the source.
EvCallStands(c, call) ==
    /\ call.step \in {"files", "create"} =>
         /\ call.what \in {FileOf[captures[call.op]], captures[call.op]}
         /\ ~kbudget.overtaken => owner[FileOf[captures[call.op]]] = c
    /\ call.step = "create" /\ ~kbudget.overtaken => Definitions(call.what) = {}
    /\ call.step \in {"gate", "commit", "log", "swap"} => BundleStands(call.op, call.bundle)
    /\ call.step \in {"committed", "reconcile", "close"} => Claimed(call.op)
    /\ call.step = "import" => call.what \in Statements

EvidenceInv ==
    /\ EvidenceTypeOK
    /\ captures \in Captures /\ claims.gen > 0
    /\ IsFiniteSet(defined)
    /\ ~kbudget.overtaken => \A d, e \in defined : d[1] = e[1] => d = e
    /\ \A o \in Ingests : candidate[o] # NoCandidate => BundleStands(o, candidate[o])
    /\ \A o \in Ingests : promoted[o] # 0 \/ o \in finished => Claimed(o)
    /\ \A c \in Callers : ingest[c] # EvIdle => EvCallStands(c, ingest[c])
=============================================================================
