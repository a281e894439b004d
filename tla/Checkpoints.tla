----------------------------- MODULE Checkpoints -----------------------------
(* Git checkpoints of promoted generations (git_checkpoint.py) and the      *)
(* guard before an ordinary commit (checkpoint_guard.py).  A checkpoint is  *)
(* a commit on a private index, a pending record, a ref that is only ever   *)
(* created, and a completed record; each is one step and a call may die     *)
(* between any two.                                                         *)
EXTENDS PlatformStore

CONSTANTS Events,        \* promotion events, each with its generation
          PathKinds,     \* kinds of staged paths
          MaxCheckpoints, MaxHeads   \* bounds of a behaviour

VARIABLES evidence,  \* what is on disk and in the control database of each event
          head,      \* the branch the user commits to
          commits,   \* commit objects, <<event, parent, manifest>>
          pending,   \* ops/checkpoints/pending/<event>.json
          refs,      \* refs/raytsystem/checkpoints/<event>
          done,      \* ops/checkpoints/<event>.json
          ccall,     \* the call of each caller
          cbudget,   \* bounds: calls, commits of the user, deaths
          verified   \* history: checkpoints that verify accepted

cvars == <<evidence, head, commits, pending, refs, done, ccall, cbudget, verified>>

NoCommit == <<"none", 0, "none">>
CkIdle == [step |-> "idle"]

\* The stages of a promotion that a checkpoint sees: no event file; the event
\* with its row not yet appended; all rows and the run manifest in place; and
\* the manifest rewritten when the run ends.
NextStage == [missing |-> "event", event |-> "appended", appended |-> "terminal"]

EvidenceStages == {"missing", "event", "appended", "terminal"}
Commits == Events \X Nat \X EvidenceStages
CkCalls == [step : {"tree", "pending", "ref", "again", "record"}, event : Events, commit : Commits \cup {NoCommit}]

CheckpointTypeOK ==
    /\ evidence \in [Events -> EvidenceStages]
    /\ head \in Nat
    /\ commits \subseteq Commits
    /\ {pending, refs, done} \subseteq [Events -> commits \cup {NoCommit}]
    /\ ccall \in [Callers -> CkCalls \cup {CkIdle}]
    /\ verified \subseteq Events \X commits

CheckpointInit ==
    /\ evidence = [e \in Events |-> "missing"]
    /\ head = 0 /\ commits = {}
    /\ pending = [e \in Events |-> NoCommit]
    /\ refs = [e \in Events |-> NoCommit]
    /\ done = [e \in Events |-> NoCommit]
    /\ ccall = [c \in Callers |-> CkIdle]
    /\ cbudget = [calls |-> 0, deaths |-> 0]
    /\ verified = {}

\* The promotion moves on (ingestion.py).
EvidenceMoves(e) ==
    /\ evidence[e] # "terminal"
    /\ evidence' = [evidence EXCEPT ![e] = NextStage[@]]
    /\ UNCHANGED <<head, commits, pending, refs, done, ccall, cbudget, verified>>

-----------------------------------------------------------------------------
\* _verify_provenance: event, generation, run manifest and, unless it is only
\* verified, the outbox row in state appended and the promotion WAL agree.
Provenance(e, control) == evidence[e] \in {"appended", "terminal"} \/ (~control /\ evidence[e] = "event")

CkGo(c, step) == ccall' = [ccall EXCEPT ![c].step = step]
CkEnd(c) == ccall' = [ccall EXCEPT ![c] = CkIdle]

\* create: a completed record leads straight to the ref, a pending one names
\* the commit to go on with, otherwise a commit is made.
StartCheckpoint(c, e) ==
    /\ ccall[c] = CkIdle
    /\ cbudget.calls < MaxCheckpoints
    /\ cbudget' = [cbudget EXCEPT !.calls = @ + 1]
    /\ Provenance(e, TRUE)
    /\ ccall' = [ccall EXCEPT ![c] =
         CASE done[e] # NoCommit -> [step |-> "again", event |-> e, commit |-> done[e]]
           [] done[e] = NoCommit /\ pending[e] # NoCommit -> [step |-> "ref", event |-> e, commit |-> pending[e]]
           [] OTHER -> [step |-> "tree", event |-> e, commit |-> NoCommit]]
    /\ UNCHANGED <<evidence, head, commits, pending, refs, done, verified>>

\* A commit of the allowed files on top of the user's head, on a private
\* index: neither branch nor index of the user is touched.
CommitTree(c) ==
    LET e == ccall[c].event  made == <<e, head, evidence[e]>> IN
    /\ ccall[c].step = "tree"
    /\ commits' = commits \cup {made}
    /\ ccall' = [ccall EXCEPT ![c].step = "pending", ![c].commit = made]
    /\ UNCHANGED <<evidence, head, pending, refs, done, cbudget, verified>>

\* A pending record that replaces an earlier one.
PublishedOver(old, new) == new

\* publish_immutable: the first record stays; another one is an error.
Published(old, new) == IF old = NoCommit THEN new ELSE old

PublishPending(c) ==
    LET e == ccall[c].event IN
    /\ ccall[c].step = "pending"
    /\ pending' = [pending EXCEPT ![e] = Published(@, ccall[c].commit)]
    /\ IF pending'[e] = ccall[c].commit THEN CkGo(c, "ref") ELSE CkEnd(c)
    /\ UNCHANGED <<evidence, head, commits, refs, done, cbudget, verified>>

\* _ensure_reference: update-ref with the zero object creates the ref only
\* where there is none; a ref to another commit is refused.
EnsureReference(c) ==
    LET e == ccall[c].event IN
    /\ ccall[c].step \in {"ref", "again"}
    /\ refs' = [refs EXCEPT ![e] = IF @ = NoCommit THEN ccall[c].commit ELSE @]
    /\ IF refs'[e] = ccall[c].commit /\ ccall[c].step = "ref" THEN CkGo(c, "record") ELSE CkEnd(c)
    /\ UNCHANGED <<evidence, head, commits, pending, done, cbudget, verified>>

\* The completed record carries the time, so a second one never equals it.
PublishRecord(c) ==
    LET e == ccall[c].event IN
    /\ ccall[c].step = "record"
    /\ done' = [done EXCEPT ![e] = Published(@, ccall[c].commit)]
    /\ CkEnd(c)
    /\ UNCHANGED <<evidence, head, commits, pending, refs, cbudget, verified>>

\* verify: record, commit object and ref, nothing is repaired.
VerifyCheckpoint(e) ==
    /\ Provenance(e, FALSE)
    /\ done[e] # NoCommit /\ done[e] \in commits /\ refs[e] = done[e]
    /\ verified' = verified \cup {<<e, done[e]>>}
    /\ UNCHANGED <<evidence, head, commits, pending, refs, done, ccall, cbudget>>

-----------------------------------------------------------------------------
\* classify_path: what only a promotion or a checkpoint may commit.
Protected == {"raw", "ledger", "projection", "draft", "event", "run", "checkpoint"}

\* CheckpointGuard.check: no protected path, no secret in what is staged, and
\* a clean lint.
GuardOK(staged) == staged \cap Protected = {} /\ "secret" \notin staged /\ "unlinted" \notin staged

\* A person commits ordinary files.
UserCommit(staged) ==
    /\ GuardOK(staged)
    /\ head < MaxHeads
    /\ head' = head + 1
    /\ UNCHANGED <<evidence, commits, pending, refs, done, ccall, cbudget, verified>>

CheckpointDies(c) ==
    /\ ccall[c] # CkIdle
    /\ cbudget.deaths < MaxDeaths
    /\ cbudget' = [cbudget EXCEPT !.deaths = @ + 1]
    /\ CkEnd(c)
    /\ UNCHANGED <<evidence, head, commits, pending, refs, done, verified>>

CheckpointNext ==
    \/ \E c \in Callers :
         \/ \E e \in Events : StartCheckpoint(c, e)
         \/ CommitTree(c) \/ PublishPending(c) \/ EnsureReference(c) \/ PublishRecord(c) \/ CheckpointDies(c)
    \/ \E e \in Events : EvidenceMoves(e) \/ VerifyCheckpoint(e)
    \/ \E k \in PathKinds : UserCommit({k})

-----------------------------------------------------------------------------
\* A checkpoint can always be finished: the ref and the completed record of an
\* event name the commit of its pending record, whoever died, whichever head
\* or manifest a second call saw (create, _ensure_reference).  A ref without
\* that record would refuse every retry.
CheckpointsAgree ==
    \A e \in Events :
        /\ refs[e] # NoCommit => refs[e] = pending[e]
        /\ done[e] # NoCommit => done[e] = refs[e]
        /\ \A v \in verified : v[1] = e => v[2] = done[e]

-----------------------------------------------------------------------------
\* A call goes on with the commit of the record it saw or left last.
CkCallStands(call, pend, ref, complete) ==
    LET e == call.event IN
    /\ call.step # "tree" => call.commit \in commits
    /\ call.step = "ref" => call.commit = pend[e]
    /\ call.step = "again" => call.commit = complete[e]
    /\ call.step = "record" => call.commit = ref[e]

\* The inductive invariant of checkpoints.
CheckpointInv ==
    /\ CheckpointTypeOK
    /\ CheckpointsAgree
    /\ \A c \in Callers : ccall[c] # CkIdle => CkCallStands(ccall[c], pending, refs, done)
=============================================================================
